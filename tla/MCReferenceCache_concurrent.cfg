\* Two loads may be in flight, for the same address or for different ones.
SPECIFICATION Spec
CONSTANTS
  a1 = a1
  a2 = a2
  a3 = a3
  o1 = o1
  o2 = o2
  l1 = l1
  l2 = l2
  p1 = p1
  p2 = p2
  e1 = e1
  c1 = c1
  c2 = c2
  Address = {a1, a2}
  MutableAddress = {a1}
  Object = {o1, l1, l2, p1, p2}
  List = {l1, l2}
  Proxy = {p1, p2}
  Endpoint = {}
  Call = {c1, c2}
  ObserverId = {0, 1, 2}
  NoObject = NoObject
  NoAddress = NoAddress
  NoObserver = NoObserver
SYMMETRY ObjectSymmetry
INVARIANTS
  RegisteredObserved
  MutableEntryObserved
  ProxyRoundTrip
CHECK_DEADLOCK FALSE
