--------------------------- MODULE OutreachTasks ---------------------------
(***************************************************************************)
(* The table outreach_tasks, the audit rows about its tasks, and the row   *)
(* locks PostgreSQL holds for transactions that are still open             *)
(* (READ COMMITTED, the default db.py leaves in place).                    *)
(*                                                                         *)
(* status, attempt_count, scheduled_at, last_error and audit are the       *)
(* COMMITTED contents.  A transaction that touches one row is one atomic   *)
(* step of the model, taken while nobody holds the row; a transaction that *)
(* touches several rows holds their locks and its writes show at commit.   *)
(***************************************************************************)
EXTENDS Naturals, Sequences, FiniteSets

CONSTANTS
  Task,          \* ids of the tasks in the table; their order is the id order
  Account,       \* accounts the tasks belong to
  account_id,    \* the account of each task
  created_at,    \* the creation time of each task
  MaxAttempts,   \* max_attempts, the column's default for every task
  FirstTimes,    \* values the planner gave scheduled_at
  Txn,           \* transactions that lock several rows
  NoTxn          \* the holder of a row nobody has locked

ASSUME TaskAssumption == Task \subseteq Nat /\ IsFiniteSet(Task) /\ Task # {}
ASSUME ColumnAssumption == /\ account_id \in [Task -> Account]
                           /\ created_at \in [Task -> Nat]
                           /\ MaxAttempts \in Nat \ {0}
                           /\ FirstTimes \subseteq Nat
ASSUME TxnAssumption == NoTxn \notin Txn

VARIABLES
  status,         \* OutreachTask.status
  attempt_count,  \* OutreachTask.attempt_count
  scheduled_at,   \* OutreachTask.scheduled_at
  last_error,     \* OutreachTask.last_error: "null" or "error"
  audit,          \* the audit_events rows of each task, oldest first
  lock            \* the open transaction that has updated the row

rows == <<status, attempt_count, scheduled_at, last_error, audit>>
tableVars == <<status, attempt_count, scheduled_at, last_error, audit, lock>>

\* "blocked" is a member of the enum no code path assigns to a task.
Status == {"scheduled", "dispatching", "sent", "failed", "cancelled"}

EventType == {"dispatch_started", "dispatch_succeeded", "dispatch_failed",
              "delivery_result_recorded", "outreach_cancelled"}

\* An audit row: its event, the status it says the task has now, and the
\* attempt number, which only dispatch_started carries (0 elsewhere).
AuditRow == [event_type : EventType, status : Status, attempt_count : Nat]

TableTypeOK ==
  /\ status \in [Task -> Status]
  /\ attempt_count \in [Task -> Nat]
  /\ scheduled_at \in [Task -> Nat]
  /\ last_error \in [Task -> {"null", "error"}]
  /\ audit \in [Task -> Seq(AuditRow)]
  /\ lock \in [Task -> Txn \cup {NoTxn}]

TableInit ==
  /\ status = [t \in Task |-> "scheduled"]
  /\ attempt_count = [t \in Task |-> 0]
  /\ scheduled_at \in [Task -> FirstTimes]
  /\ last_error = [t \in Task |-> "null"]
  /\ audit = [t \in Task |-> <<>>]
  /\ lock = [t \in Task |-> NoTxn]

-----------------------------------------------------------------------------
(***************************************************************************)
(* UPDATE ... WHERE id = t AND status = s.  It returns rowcount 1 when the *)
(* committed row matches and nobody holds it, rowcount 0 when the          *)
(* committed row does not match, and waits in the remaining case.          *)
(***************************************************************************)
Matches(t, s) == status[t] = s /\ lock[t] = NoTxn
Misses(t, s)  == status[t] # s

SetStatus(t, s) == status' = [status EXCEPT ![t] = s]

AppendAudit(t, event, s, attempt) ==
  audit' = [audit EXCEPT ![t] = Append(@, [event_type |-> event,
                                           status |-> s,
                                           attempt_count |-> attempt])]

\* UPDATE ... SET status = s, last_error = e and its audit row, committed.
RecordResult(t, s, e, event) ==
  /\ SetStatus(t, s)
  /\ last_error' = [last_error EXCEPT ![t] = e]
  /\ AppendAudit(t, event, s, 0)
=============================================================================
