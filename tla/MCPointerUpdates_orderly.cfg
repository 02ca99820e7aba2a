\* Observers are withdrawn in the reverse order of their registration; callbacks return.
\* The runtime's observer has the id 0, as the first one of a pointer.
SPECIFICATION FairSpec
CONSTANTS
  v1 = v1
  v2 = v2
  v3 = v3
  p = p
  q = q
  r = r
  Value = {v1, v2}
  Unresolvable = {}
  Callback = {p, q, r}
  RuntimeObserverId = 0
  LastInFirstOut = TRUE
  CallbacksWrite = TRUE
  NoCallback = NoCallback
INVARIANTS
  TypeOK
PROPERTIES
  ImplementsNotification
  DueIsCalled
