\* An API cancellation against a task whose first attempt fails.
SPECIFICATION Spec
CONSTANTS
  Task = {1, 2}
  Account = {a1}
  account_id <- MCOneAccount
  created_at <- MCcreated_at
  MaxAttempts = 2
  FirstTimes = {0}
  ApiCancel = {x1}
  EventCancel = {}
  Txn = {x1}
  NoTxn = NoTxn
  Worker = {w1}
  BatchLimit = 2
  RetryDelay = 1
  CanCrash = {}
  CanLose = FALSE
  Horizon = 0
  Request = {}
PROPERTIES
  LeftAloneIsInactive
