\* One text message, planned for 19:59; its first attempt may fail.
SPECIFICATION Spec
CONSTANTS
  Task = {1}
  Account = {a1}
  account_id <- MCOneAccount
  created_at <- MCcreated_at
  MaxAttempts = 2
  FirstTimes = {0}
  ApiCancel = {}
  EventCancel = {}
  Txn = {}
  NoTxn = NoTxn
  Worker = {w1}
  BatchLimit = 1
  RetryDelay = 1
  CanCrash = {}
  CanLose = FALSE
  Horizon = 0
  Request = {}
  Zone <- LateEvening
PROPERTIES
  DispatchedInWindow
