\* One event, any customer, through a week with two clock changes.
SPECIFICATION Spec
CONSTANTS
  Timezone <- MCTimezone
  Ingestion = {i1}
  FrequencyCap = 3
  Case <- MCCase
INVARIANTS
  TypeOK
  CapKept
  TasksAreLawful
  DecisionsExplainTasks
  CallsKeepBusinessHours
  NoLaterThanNeeded
