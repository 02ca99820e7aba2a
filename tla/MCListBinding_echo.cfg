\* An element is appended by another endpoint.
SPECIFICATION Spec
CONSTANTS
  x = x
  y = y
  f = f
  Value = {x, y, f}
  Unsupported = {f}
  Empty = Empty
  MaxLength = 3
  NoAssignment = NoAssignment
SYMMETRY ListSymmetry
PROPERTIES
  AppendedOnce
