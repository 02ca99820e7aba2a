\* An interface of each type, one socket, two calls that may overlap.
SPECIFICATION Spec
CONSTANTS
  b = b
  w = w
  v = v
  s1 = s1
  c1 = c1
  c2 = c2
  Interface = {b, w, v}
  WebRTC = {w}
  Server = {v}
  Socket = {s1}
  Call = {c1, c2}
  NoCall = NoCall
  NoSocket = NoSocket
INVARIANTS
  TypeOK
  PendingSendKeepsSocket
  RequestsAreServed
CHECK_DEADLOCK FALSE
