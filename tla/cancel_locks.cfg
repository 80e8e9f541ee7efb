\* Two API cancellations of one account and a worker meet on three rows.
SPECIFICATION Spec
CONSTANTS
  Task = {1, 2, 3}
  Account = {a1, a2}
  account_id <- MCTwoAccounts
  created_at <- MCcreated_at
  MaxAttempts = 1
  FirstTimes = {0}
  ApiCancel = {x1, x2}
  EventCancel = {}
  Txn = {x1, x2}
  NoTxn = NoTxn
  Worker = {w1}
  BatchLimit = 1
  RetryDelay = 1
  CanCrash = {}
  CanLose = FALSE
  Horizon = 0
  Request = {r1}
INVARIANTS
  NoLockCycle
  RowsGuarded
