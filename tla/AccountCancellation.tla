------------------------ MODULE AccountCancellation ------------------------
(***************************************************************************)
(* The two transactions that cancel an account's scheduled tasks:          *)
(*                                                                         *)
(*   - ApiCancel: POST /v1/accounts/{id}/cancel-outreach                   *)
(*     (cancel_scheduled_account_outreach), which updates each selected    *)
(*     row only where it is still 'scheduled', oldest first;               *)
(*   - EventCancel: the planner on a payment, opt-out, hardship or pause   *)
(*     event (_cancel_scheduled_tasks), which assigns the attribute of     *)
(*     each loaded object, in the order the rows came, and so emits        *)
(*     UPDATE ... WHERE id alone.                                          *)
(*                                                                         *)
(* Both read the rows with a plain SELECT and commit once, at the end.     *)
(***************************************************************************)
EXTENDS OutreachTasks, SequencesExt

CONSTANTS ApiCancel, EventCancel   \* the transactions of each kind

ASSUME CancelAssumption == /\ ApiCancel \cup EventCancel = Txn
                           /\ ApiCancel \cap EventCancel = {}

VARIABLES
  progress,        \* "new", "open", "committed" or "aborted"
  cancel_account,  \* the account each transaction is about
  to_cancel        \* the selected tasks its loop has not reached

cancelVars == <<progress, cancel_account, to_cancel>>

CancelTypeOK ==
  /\ progress \in [Txn -> {"new", "open", "committed", "aborted"}]
  /\ cancel_account \in [Txn -> Account]
  /\ to_cancel \in [Txn -> Seq(Task)]

CancelInit ==
  /\ progress = [x \in Txn |-> "new"]
  /\ cancel_account \in [Txn -> Account]
  /\ to_cancel = [x \in Txn |-> <<>>]

-----------------------------------------------------------------------------
ScheduledTasks(a) == {t \in Task : account_id[t] = a /\ status[t] = "scheduled"}

\* ORDER BY created_at, id.
Older(t, u) == \/ created_at[t] < created_at[u]
               \/ created_at[t] = created_at[u] /\ t < u

UnorderedListings(a) == SetToSeqs(ScheduledTasks(a))   \* flawed

ApiListings(a) ==
  {s \in SetToSeqs(ScheduledTasks(a)) :
     \A i, j \in 1..Len(s) : i < j => Older(s[i], s[j])}

\* No ORDER BY.
EventListings(a) == SetToSeqs(ScheduledTasks(a))

Listings(x) == IF x \in ApiCancel THEN ApiListings(cancel_account[x])
                                  ELSE EventListings(cancel_account[x])

SelectTasks(x) ==
  /\ progress[x] = "new"
  /\ progress' = [progress EXCEPT ![x] = "open"]
  /\ \E s \in Listings(x) : to_cancel' = [to_cancel EXCEPT ![x] = s]
  /\ UNCHANGED <<tableVars, cancel_account>>

-----------------------------------------------------------------------------
NextRow(x) == Head(to_cancel[x])
AtRow(x) == progress[x] = "open" /\ to_cancel[x] # <<>>
PassRow(x) == to_cancel' = [to_cancel EXCEPT ![x] = Tail(@)]

\* Flawed: the API's loop writes like the planner's, or insists on a row.
WriteBlindly(x, t) == lock[t] = NoTxn
InsistOnRow(x, t) == FALSE

\* The rows an UPDATE of each kind touches, and the ones it finds changed.
Writable(x, t) == IF x \in ApiCancel THEN Matches(t, "scheduled") ELSE lock[t] = NoTxn
NotWritable(x, t) == x \in ApiCancel /\ Misses(t, "scheduled")

\* UPDATE of the next row and its audit row; both show at the commit.
UpdateRow(x) ==
  /\ AtRow(x)
  /\ Writable(x, NextRow(x))
  /\ lock' = [lock EXCEPT ![NextRow(x)] = x]
  /\ PassRow(x)
  /\ UNCHANGED <<rows, progress, cancel_account>>

\* rowcount 0 in the API's loop: the task was claimed or finished meanwhile.
SkipRow(x) ==
  /\ AtRow(x)
  /\ NotWritable(x, NextRow(x))
  /\ PassRow(x)
  /\ UNCHANGED <<tableVars, progress, cancel_account>>

Unlocked(x) == [t \in Task |-> IF lock[t] = x THEN NoTxn ELSE lock[t]]

\* Flawed: the cancellation leaves no audit row.
CommitUnaudited(x) ==
  /\ progress[x] = "open" /\ to_cancel[x] = <<>>
  /\ status' = [t \in Task |-> IF lock[t] = x THEN "cancelled" ELSE status[t]]
  /\ lock' = Unlocked(x)
  /\ progress' = [progress EXCEPT ![x] = "committed"]
  /\ UNCHANGED <<attempt_count, scheduled_at, last_error, audit, cancel_account, to_cancel>>

CommitCancel(x) ==
  /\ progress[x] = "open" /\ to_cancel[x] = <<>>
  /\ status' = [t \in Task |-> IF lock[t] = x THEN "cancelled" ELSE status[t]]
  /\ audit' = [t \in Task |->
                 IF lock[t] = x
                 THEN Append(audit[t], [event_type |-> "outreach_cancelled",
                                        status |-> "cancelled", attempt_count |-> 0])
                 ELSE audit[t]]
  /\ lock' = Unlocked(x)
  /\ progress' = [progress EXCEPT ![x] = "committed"]
  /\ UNCHANGED <<attempt_count, scheduled_at, last_error, cancel_account, to_cancel>>

-----------------------------------------------------------------------------
\* x waits for the transaction that holds its next row.
Waiting(x) == /\ AtRow(x)
              /\ ~NotWritable(x, NextRow(x))
              /\ lock[NextRow(x)] # NoTxn
Holder(x) == lock[NextRow(x)]

\* Transactions each of which waits for another one of them.
Deadlocked(X) == X # {} /\ \A x \in X : Waiting(x) /\ Holder(x) \in X

Rollback(x) ==
  /\ progress' = [progress EXCEPT ![x] = "aborted"]
  /\ to_cancel' = [to_cancel EXCEPT ![x] = <<>>]
  /\ lock' = Unlocked(x)
  /\ UNCHANGED <<rows, cancel_account>>

\* PostgreSQL picks a victim; the request ends in a 500.
DeadlockVictim(x) == /\ \E X \in SUBSET Txn : x \in X /\ Deadlocked(X)
                     /\ Rollback(x)

\* The API process dies or loses its connection; the server rolls back.
ConnectionLost(x) == progress[x] = "open" /\ Rollback(x)

FinishCancel(x) == UpdateRow(x) \/ SkipRow(x) \/ CommitCancel(x) \/ DeadlockVictim(x)

CancelNext == \E x \in Txn : SelectTasks(x) \/ FinishCancel(x) \/ ConnectionLost(x)
=============================================================================
