\* Two mutable addresses and a final one; no asynchronous load, as with the present core.
SPECIFICATION Spec
CONSTANTS
  a1 = a1
  a2 = a2
  a3 = a3
  o1 = o1
  o2 = o2
  l1 = l1
  l2 = l2
  p1 = p1
  p2 = p2
  e1 = e1
  c1 = c1
  c2 = c2
  Address = {a1, a2, a3}
  MutableAddress = {a1, a2}
  Object = {o1, l1, p1, p2, e1}
  List = {l1}
  Proxy = {p1, p2}
  Endpoint = {e1}
  Call = {}
  ObserverId = {0, 1}
  NoObject = NoObject
  NoAddress = NoAddress
  NoObserver = NoObserver
SYMMETRY ObjectSymmetry
INVARIANTS
  TypeOK
  OneObjectPerMutable
  ProxyRoundTrip
PROPERTIES
  MutableEntryStable
CHECK_DEADLOCK FALSE
