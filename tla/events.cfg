\* Planner cancellations, a worker that may die and one that does not.
SPECIFICATION FairSpec
CONSTANTS
  Task = {1, 2}
  Account = {a1}
  account_id <- MCOneAccount
  created_at <- MCcreated_at
  MaxAttempts = 2
  FirstTimes = {0}
  ApiCancel = {x1}
  EventCancel = {x2}
  Txn = {x1, x2}
  NoTxn = NoTxn
  Worker = {w1, w2}
  BatchLimit = 2
  RetryDelay = 1
  CanCrash = {w1}
  CanLose = FALSE
  Horizon = 0
  Request = {}
INVARIANTS
  DispatchInv
  AuditExplainsRow
  ContactsAudited
PROPERTIES
  CancelledIsFinal
  ScheduledIsDrained
