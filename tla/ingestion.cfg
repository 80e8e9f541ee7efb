\* Three requests: the same event again and again, or snapshots that disagree.
SPECIFICATION Spec
CONSTANTS
  c1 = c1
  c2 = c2
  a1 = a1
  a2 = a2
  e1 = e1
  e2 = e2
  e3 = e3
  None = None
  Customer = {c1, c2}
  Account = {a1, a2}
  EventId = {e1, e2, e3}
  Ingestion = {i1, i2, i3}
  Timezone <- MCTimezone
  Beginning <- MCIngestion
  FrequencyCap = 1
  LatestTime = 1440
  MaxAttempts = 1
SYMMETRY AlikeRequests
INVARIANTS
  TypeOK
  CancelledOrOverlapped
  OptedOutNotPlanned
  LineageKept
  SnapshotsNotUndone
  TasksKeepToSnapshot
PROPERTIES
  OptOutIsDurable
  EventsTakeEffectOnce
