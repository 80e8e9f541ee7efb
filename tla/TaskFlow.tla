------------------------------ MODULE TaskFlow ------------------------------
(***************************************************************************)
(* The life of the outreach tasks between their planning and their end:    *)
(* dispatch workers, manual delivery results and the two kinds of account  *)
(* cancellation, all running at once over one table.                       *)
(***************************************************************************)
EXTENDS DispatchWorker, OperationalOutreach, AccountCancellation

vars == <<tableVars, clock, workerVars, historyVars, requestVars, cancelVars>>

Init == TableInit /\ WorkerInit /\ RequestInit /\ CancelInit

\* Nothing is left to do; the system may stop here and nowhere else.
Quiescent ==
  /\ \A t \in Task : status[t] # "scheduled"
  /\ \A w \in Worker : phase[w] = "pass" /\ task_ids[w] = <<>>
  /\ \A r \in Request : answer[r] \in {"recorded", "conflict"}
  /\ \A x \in Txn : progress[x] \in {"committed", "aborted"}
  /\ clock >= Horizon
  /\ UNCHANGED vars

Next ==
  \/ WorkerNext /\ UNCHANGED <<requestVars, cancelVars>>
  \/ RequestNext /\ UNCHANGED <<clock, workerVars, historyVars, cancelVars>>
  \/ CancelNext /\ UNCHANGED <<clock, workerVars, historyVars, requestVars>>
  \/ Quiescent

Spec == Init /\ [][Next]_vars

(***************************************************************************)
(* Fairness: a live worker keeps polling and working through its pass, an  *)
(* adapter call ends in one of its ways, a request that has begun runs to  *)
(* its answer, time passes.  Nobody must send a request, restart a worker  *)
(* or lose a connection.                                                   *)
(***************************************************************************)
OthersFinish ==
  /\ \A r \in Request : WF_vars(FinishRequest(r) /\ UNCHANGED <<clock, workerVars, historyVars, cancelVars>>)
  /\ \A x \in Txn : WF_vars(FinishCancel(x) /\ UNCHANGED <<clock, workerVars, historyVars, requestVars>>)
  /\ WF_vars(Tick /\ UNCHANGED <<requestVars, cancelVars>>)

FairSpec ==
  /\ Spec
  /\ \A w \in Worker : WF_vars(DispatchDueTasks(w) /\ UNCHANGED <<requestVars, cancelVars>>)
  /\ OthersFinish

Lifecycle == INSTANCE TaskLifecycle WITH
  status <- status, attempt_count <- attempt_count

-----------------------------------------------------------------------------
TypeOK == TableTypeOK /\ WorkerTypeOK /\ RequestTypeOK /\ CancelTypeOK

\* No task is dispatched more often than max_attempts allows, although the
\* decision to retry reads the attempt count refreshed at claim time, not the
\* row, and other processes write the row in between (dispatch.py:172).
AttemptsBounded == \A t \in Task : attempt_count[t] <= MaxAttempts

InFlight(w, t) == phase[w] \in InFlightPhase /\ Current(w) = t

\* Two workers never have a provider call open for the same task, however
\* stale their selections and whoever rewrites the task meanwhile: the
\* duplicate-send guard of the claim (dispatch.py:69-81).
SingleSender == \A t \in Task : \A v, w \in Worker :
                  InFlight(v, t) /\ InFlight(w, t) => v = w

\* The provider accepts at most one message about a task beyond those whose
\* answers were lost: retries, crashes, restarts and manual results never
\* repeat a contact the system was told of (dispatch.py:100-123, 136-141).
AtMostOneContact == \A t \in Task : delivered[t] <= unanswered[t] + 1

(***************************************************************************)
(* Why the three hold, as an invariant each step keeps: a task somebody    *)
(* has in flight is not scheduled, so that nobody else claims it, and its  *)
(* attempt count is the one its worker refreshed; a scheduled task has an  *)
(* attempt left and no confirmed contact.                                  *)
(***************************************************************************)
FlightKnown ==
  \A w \in Worker : phase[w] \in InFlightPhase =>
    status[Current(w)] # "scheduled" /\ seen_attempts[w] = attempt_count[Current(w)]

AttemptsLeft ==
  \A t \in Task : /\ attempt_count[t] <= MaxAttempts
                  /\ status[t] = "scheduled" => attempt_count[t] < MaxAttempts

Confirmed(t) == delivered[t] = unanswered[t] + 1

ContactKnown ==
  \A t \in Task :
    /\ delivered[t] = unanswered[t] \/ Confirmed(t)
    /\ Confirmed(t) =>
         /\ status[t] # "scheduled"
         /\ \A w \in Worker : InFlight(w, t) => phase[w] = "accepted"

\* The strengthening of AttemptsBounded, SingleSender and AtMostOneContact
\* described above, over claims, retries and results (dispatch.py:64-209).
DispatchInv == FlightKnown /\ AttemptsLeft /\ SingleSender /\ ContactKnown

\* What each audit row says of the task it is the last row about: the status
\* it leads to and whether last_error is set.
Explains(event, s, e) ==
  CASE event = "dispatch_started" -> s = "dispatching"
    [] event = "dispatch_succeeded" -> s = "sent" /\ e = "null"
    [] event = "dispatch_failed" -> s \in {"scheduled", "failed"} /\ e = "error"
    [] event = "delivery_result_recorded" -> \/ s = "sent" /\ e = "null"
                                             \/ s = "failed" /\ e = "error"
    [] event = "outreach_cancelled" -> s = "cancelled"

LastRow(t) == audit[t][Len(audit[t])]

\* The last audit row of a task accounts for its status and its error: rows
\* land with the state they explain (audit_log.py:21-26), and a write that
\* found the row changed leaves no row behind (dispatch.py:143-145, 188-190).
AuditExplainsRow ==
  \A t \in Task :
    IF audit[t] = <<>>
    THEN status[t] = "scheduled" /\ attempt_count[t] = 0 /\ last_error[t] = "null"
    ELSE /\ status[t] = LastRow(t).status
         /\ Explains(LastRow(t).event_type, status[t], last_error[t])

\* The dispatch_started rows among the first n audit rows of a task.
Starts(t, n) == {m \in 1..n : audit[t][m].event_type = "dispatch_started"}

\* The dispatch_started rows of a task number its attempts 1, 2, 3, ... with
\* none missing and none repeated, and there are attempt_count of them: the
\* number a row carries was refreshed in the transaction that counted the
\* attempt (dispatch.py:69-97).
AuditNumbersAttempts ==
  \A t \in Task :
    /\ Cardinality(Starts(t, Len(audit[t]))) = attempt_count[t]
    /\ \A n \in Starts(t, Len(audit[t])) :
         audit[t][n].attempt_count = Cardinality(Starts(t, n))

\* The provider never has more messages about a task than the audit trail has
\* attempts, whatever crashes or is lost: the row that tells of a contact is
\* committed before the contact is made (dispatch.py:83-107).
ContactsAudited == \A t \in Task : delivered[t] <= Cardinality(Starts(t, Len(audit[t])))

\* Sent, cancelled and failed are not rewritten, except that an operator may
\* correct failed, and a task in dispatching is not cancelled: what planner.py
\* 365-370 and phase-7-operational-apis.md 71 say of every cancellation.
HistoryNotRewritten ==
  [][\A t \in Task :
       status'[t] # status[t] =>
         /\ status[t] \in {"scheduled", "dispatching", "failed"}
         /\ status[t] = "dispatching" => status'[t] # "cancelled"
         /\ status[t] = "failed" => status'[t] = "sent"]_vars

\* Once a manual result is recorded only another manual result changes the
\* task: no worker that was in flight, and no cancellation that had selected
\* the task, writes over it (architecture.md:61).
ManualResultStands ==
  [][\A t \in Task :
       /\ audit[t] # <<>>
       /\ LastRow(t).event_type = "delivery_result_recorded"
       /\ audit'[t] # audit[t]
       => LastRow(t)'.event_type = "delivery_result_recorded"]_vars

\* A task is claimed only when its time has come on the wall clock, also by a
\* worker that selected it before a failure moved scheduled_at: a stale
\* selection does not defeat the retry delay (dispatch.py:73).
ClaimedOnlyWhenDue ==
  [][\A t \in Task :
       attempt_count'[t] # attempt_count[t] => scheduled_at[t] <= clock]_vars

\* Between them the workers, the manual results and the API cancellations do
\* nothing to a task but what TaskLifecycle allows.
ImplementsLifecycle == Lifecycle!LifecycleSpec

\* A row an API cancellation holds is still scheduled, so that its commit
\* rewrites no history; a cancellation, of either kind, lists and holds rows
\* of its own account only; a request in progress loaded a status it may
\* replace (operational_outreach.py:56, 114-131; planner.py:374-378).
RowsGuarded ==
  /\ \A t \in Task : lock[t] \in ApiCancel => status[t] = "scheduled"
  /\ \A x \in Txn, t \in Task : lock[t] = x => account_id[t] = cancel_account[x]
  /\ \A x \in Txn : \A i \in 1..Len(to_cancel[x]) :
       account_id[to_cancel[x][i]] = cancel_account[x]
  /\ \A r \in Request : answer[r] = "loaded" => previous_status[r] \in AllowedSource

\* API cancellations alone never wait for each other in a circle: they lock
\* an account's rows in one order (operational_outreach.py:121).
NoLockCycle == \A X \in SUBSET Txn : ~Deadlocked(X)

\* A cancelled task stays cancelled and is never handed to the provider again.
CancelledIsFinal ==
  [][\A t \in Task : status[t] = "cancelled" =>
       status'[t] = "cancelled" /\ attempt_count'[t] = attempt_count[t]]_vars

\* With every worker alive each task ends sent, failed or cancelled: retries,
\* conflicts and locks delay it but nothing leaves it scheduled or dispatching.
EventuallySettled ==
  \A t \in Task : <>[](status[t] \in {"sent", "failed", "cancelled"})

\* A worker that dies does not keep the others from the tasks it had selected:
\* no task stays scheduled.  (One it had claimed stays dispatching.)
ScheduledIsDrained == \A t \in Task : <>[](status[t] # "scheduled")

\* Every cancellation ends, whatever it waits for: a deadlock between two of
\* them costs one its transaction and lets the other through.
CancellationsEnd ==
  \A x \in Txn : progress[x] = "open" ~> progress[x] \in {"committed", "aborted"}

\* A committed cancellation of an account leaves no task of it to be dispatched:
\* phase-7-operational-apis.md:70-71 says it cancels the scheduled tasks and
\* leaves the others "as historical or inactive records".
LeftAloneIsInactive ==
  [][\A t \in Task :
       attempt_count'[t] # attempt_count[t] =>
         ~\E x \in ApiCancel : progress[x] = "committed"
                               /\ cancel_account[x] = account_id[t]]_vars
=============================================================================
