\* Observers come and go in any order; the runtime's observer has the id 1,
\* so that relaying is switched off when the last one has gone.
SPECIFICATION Spec
CONSTANTS
  v1 = v1
  v2 = v2
  v3 = v3
  p = p
  q = q
  r = r
  Value = {v1, v2, v3}
  Unresolvable = {v3}
  Callback = {p, q, r}
  RuntimeObserverId = 1
  LastInFirstOut = FALSE
  CallbacksWrite = TRUE
  NoCallback = NoCallback
SYMMETRY UpdateSymmetry
INVARIANTS
  MirrorsRuntime
  OwnUpdateNotOvertaken
  RelayWhileObserved
  DueAreRegistered
