\* A final reference is collected, resolved again, and then finalized.
SPECIFICATION Spec
CONSTANTS
  a1 = a1
  a2 = a2
  a3 = a3
  o1 = o1
  o2 = o2
  l1 = l1
  l2 = l2
  p1 = p1
  p2 = p2
  e1 = e1
  c1 = c1
  c2 = c2
  Address = {a1}
  MutableAddress = {}
  Object = {o1, o2}
  List = {}
  Proxy = {}
  Endpoint = {}
  Call = {}
  ObserverId = {0, 1}
  NoObject = NoObject
  NoAddress = NoAddress
  NoObserver = NoObserver
PROPERTIES
  FinalizerSparesLive
CHECK_DEADLOCK FALSE
