\* Everything alive: tasks settle and cancellations end.
SPECIFICATION FairSpec
CONSTANTS
  Task = {1, 2}
  Account = {a1}
  account_id <- MCOneAccount
  created_at <- MCcreated_at
  MaxAttempts = 2
  FirstTimes = {0}
  ApiCancel = {x1}
  EventCancel = {x2}
  Txn = {x1, x2}
  NoTxn = NoTxn
  Worker = {w1}
  BatchLimit = 1
  RetryDelay = 1
  CanCrash = {}
  CanLose = FALSE
  Horizon = 0
  Request = {r1}
PROPERTIES
  EventuallySettled
  CancellationsEnd
