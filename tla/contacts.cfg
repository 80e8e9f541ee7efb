\* Two requests that contact one customer, or want each other's rows.
SPECIFICATION FairSpec
CONSTANTS
  c1 = c1
  c2 = c2
  a1 = a1
  a2 = a2
  e1 = e1
  e2 = e2
  e3 = e3
  None = None
  Customer = {c1, c2}
  Account = {a1, a2}
  EventId = {e1, e2, e3}
  Ingestion = {i1, i2}
  Timezone <- MCTimezone
  Beginning <- MCContacts
  FrequencyCap = 2
  LatestTime = 1440
  MaxAttempts = 1
INVARIANTS
  CapKeptInOrder
PROPERTIES
  RequestsEnd
