CONSTANTS
  a1 = a1
  a2 = a2
  a3 = a3
  c1 = c1
  NoResult = NoResult
  NoValue = NoValue
  Address = {a1, a2, a3}
  Content <- MCContent
  one = one
  two = two
  k = k
  Nothing = Nothing
  Payload = {Nothing, one, two, k}
  Depth = 7
  Call = {c1}
  Given <- MCGiven
  Results <- MCResults
SPECIFICATION FairSpec
INVARIANTS TypeOK EchoIsSame ResultsAreAwaited ResultsAreLoaded
PROPERTIES ExecutionsEnd
CHECK_DEADLOCK FALSE
