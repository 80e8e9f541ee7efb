\* The first event of a customer, sent twice at once.
SPECIFICATION Spec
CONSTANTS
  c1 = c1
  c2 = c2
  a1 = a1
  a2 = a2
  e1 = e1
  e2 = e2
  e3 = e3
  None = None
  Customer = {c1, c2}
  Account = {a1, a2}
  EventId = {e1, e2, e3}
  Ingestion = {i1, i2}
  Timezone <- MCTimezone
  Beginning <- MCDuplicates
  FrequencyCap = 3
  LatestTime = 0
  MaxAttempts = 0
SYMMETRY AlikeRequests
INVARIANTS
  DuplicatesAreAnswered
