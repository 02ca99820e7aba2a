CONSTANTS
  text = text
  number = number
  integer = integer
  structure = structure
  o1 = o1
  o2 = o2
  v1 = v1
  v2 = v2
  callback = callback
  Key = {text, number, integer, structure}
  JSKey = {text, number, o1, o2}
  Object = {o1, o2}
  Converted <- MCConverted
  Resolved <- MCResolved
  Value = {v1, v2, callback}
  Refused = {callback}
  Unloaded = Unloaded
  Promised = Promised
  None = None
SPECIFICATION Spec
INVARIANT TypeOK
PROPERTY KeepsMirror
