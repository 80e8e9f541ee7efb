\* Two workers, a manual result and an API cancellation race for two tasks.
SPECIFICATION Spec
CONSTANTS
  Task = {1, 2}
  Account = {a1}
  account_id <- MCOneAccount
  created_at <- MCcreated_at
  MaxAttempts = 2
  FirstTimes = {0}
  ApiCancel = {x1}
  EventCancel = {}
  Txn = {x1}
  NoTxn = NoTxn
  Worker = {w1, w2}
  BatchLimit = 2
  RetryDelay = 1
  CanCrash = {}
  CanLose = TRUE
  Horizon = 1
  Request = {r1}
SYMMETRY AlikeWorkers
INVARIANTS
  TypeOK
  AttemptsBounded
  SingleSender
  AtMostOneContact
  AuditExplainsRow
  AuditNumbersAttempts
PROPERTIES
  HistoryNotRewritten
  ManualResultStands
  ClaimedOnlyWhenDue
  ImplementsLifecycle
