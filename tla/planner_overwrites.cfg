\* A planner cancellation against a worker.
SPECIFICATION Spec
CONSTANTS
  Task = {1, 2}
  Account = {a1}
  account_id <- MCOneAccount
  created_at <- MCcreated_at
  MaxAttempts = 1
  FirstTimes = {0}
  ApiCancel = {}
  EventCancel = {x1}
  Txn = {x1}
  NoTxn = NoTxn
  Worker = {w1}
  BatchLimit = 2
  RetryDelay = 1
  CanCrash = {}
  CanLose = FALSE
  Horizon = 0
  Request = {}
PROPERTIES
  HistoryNotRewritten
