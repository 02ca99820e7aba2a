\* An observer is withdrawn that is not the last one registered.
SPECIFICATION Spec
CONSTANTS
  v1 = v1
  v2 = v2
  v3 = v3
  p = p
  q = q
  r = r
  Value = {v1, v2}
  Unresolvable = {}
  Callback = {p, q, r}
  RuntimeObserverId = 0
  LastInFirstOut = FALSE
  CallbacksWrite = FALSE
  NoCallback = NoCallback
PROPERTIES
  ImplementsNotification
