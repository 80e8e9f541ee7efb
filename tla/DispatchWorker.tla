--------------------------- MODULE DispatchWorker ---------------------------
(***************************************************************************)
(* The dispatch worker: workers/dispatch.py.  Any number of worker         *)
(* processes poll the table, claim due tasks one at a time, call the       *)
(* channel adapter outside any transaction and record what came of it.     *)
(*                                                                         *)
(* The provider behind the adapter is external: it takes the message or    *)
(* not, and when it took it the answer may still be lost on the way back   *)
(* (a timeout), which the worker sees as an exception like any other.      *)
(***************************************************************************)
EXTENDS OutreachTasks, SequencesExt

CONSTANTS
  Worker,        \* worker processes
  BatchLimit,    \* limit: how many tasks one pass selects
  RetryDelay,    \* retry_delay
  CanCrash,      \* the workers that may die
  CanLose,       \* whether the provider's answer may be lost
  Horizon        \* the clock stops here unless a task lies ahead of it

ASSUME WorkerAssumption == /\ BatchLimit \in Nat \ {0}
                           /\ RetryDelay \in Nat
                           /\ CanCrash \subseteq Worker
                           /\ CanLose \in BOOLEAN
                           /\ Horizon \in Nat

VARIABLES
  clock,          \* the wall clock all processes read
  phase,          \* what each worker is doing
  pass_now,       \* now: the time its pass started
  task_ids,       \* the selected ids its pass has not finished, current first
  seen_attempts,  \* task.attempt_count as refreshed inside the claim
  delivered,      \* history: messages about the task the provider accepted
  unanswered      \* history: those of them whose answer was lost

workerVars == <<phase, pass_now, task_ids, seen_attempts>>
historyVars == <<delivered, unanswered>>

\* "pass": in the loop over task_ids, or between passes when there are none;
\* "sending": claim committed, adapter.send called; "accepted", "raised": how
\* the call ended; "down": the process is dead.
Phase == {"pass", "sending", "accepted", "raised", "down"}
InFlightPhase == {"sending", "accepted", "raised"}

WorkerTypeOK ==
  /\ clock \in Nat
  /\ phase \in [Worker -> Phase]
  /\ pass_now \in [Worker -> Nat]
  /\ task_ids \in [Worker -> Seq(Task)]
  /\ seen_attempts \in [Worker -> Nat]
  /\ delivered \in [Task -> Nat]
  /\ unanswered \in [Task -> Nat]
  /\ \A w \in Worker : phase[w] \in InFlightPhase => task_ids[w] # <<>>

WorkerInit ==
  /\ clock = 0
  /\ phase = [w \in Worker |-> "pass"]
  /\ pass_now = [w \in Worker |-> 0]
  /\ task_ids = [w \in Worker |-> <<>>]
  /\ seen_attempts = [w \in Worker |-> 0]
  /\ delivered = [t \in Task |-> 0]
  /\ unanswered = [t \in Task |-> 0]

-----------------------------------------------------------------------------
(***************************************************************************)
(* Selecting and claiming.                                                 *)
(***************************************************************************)

\* WHERE status = 'scheduled' AND scheduled_at <= now, on committed rows.
Due(now) == {t \in Task : status[t] = "scheduled" /\ scheduled_at[t] <= now}

\* ORDER BY scheduled_at, created_at: ties come in any order.
Precedes(t, u) == \/ scheduled_at[t] < scheduled_at[u]
                  \/ scheduled_at[t] = scheduled_at[u] /\ created_at[t] <= created_at[u]

\* The results the query may give, LIMIT applied.
Selections(now) ==
  {SubSeq(s, 1, IF Len(s) < BatchLimit THEN Len(s) ELSE BatchLimit) :
     s \in {q \in SetToSeqs(Due(now)) :
              \A i, j \in 1..Len(q) : i < j => Precedes(q[i], q[j])}}

\* A pass that selects nothing changes nothing.
Poll(w) ==
  /\ phase[w] = "pass" /\ task_ids[w] = <<>> /\ Due(clock) # {}
  /\ \E ids \in Selections(clock) : task_ids' = [task_ids EXCEPT ![w] = ids]
  /\ pass_now' = [pass_now EXCEPT ![w] = clock]
  /\ UNCHANGED <<tableVars, clock, phase, seen_attempts, historyVars>>

Current(w) == Head(task_ids[w])
AtNextTask(w) == phase[w] = "pass" /\ task_ids[w] # <<>>

\* Flawed claims: one that trusts the selection, one that re-reads the status
\* but not the time, and one that waits for a row another worker has taken.
ClaimIgnoringStatus(w, t) == lock[t] = NoTxn /\ scheduled_at[t] <= pass_now[w]
ClaimIgnoringTime(w, t) == Matches(t, "scheduled")
ClaimWaitingForStatus(w, t) == scheduled_at[t] > pass_now[w]

\* The claim's WHERE clause on the committed row, and its opposite.
Claimable(w, t) == /\ Matches(t, "scheduled")
                   /\ scheduled_at[t] <= pass_now[w]
NotClaimable(w, t) == \/ Misses(t, "scheduled")
                      \/ scheduled_at[t] > pass_now[w]

\* Flawed: the claim counts the attempt and leaves the status.
ClaimWithoutStatus(w) ==
  /\ AtNextTask(w)
  /\ LET t == Current(w) IN
       /\ Claimable(w, t)
       /\ attempt_count' = [attempt_count EXCEPT ![t] = @ + 1]
       /\ seen_attempts' = [seen_attempts EXCEPT ![w] = attempt_count[t] + 1]
       /\ AppendAudit(t, "dispatch_started", "dispatching", attempt_count[t] + 1)
  /\ phase' = [phase EXCEPT ![w] = "sending"]
  /\ UNCHANGED <<status, scheduled_at, last_error, lock, clock, pass_now, task_ids, historyVars>>

\* Flawed: without the refresh the audit row carries the previous number.
ClaimWithoutRefresh(w) ==
  /\ AtNextTask(w)
  /\ LET t == Current(w) IN
       /\ Claimable(w, t)
       /\ SetStatus(t, "dispatching")
       /\ attempt_count' = [attempt_count EXCEPT ![t] = @ + 1]
       /\ seen_attempts' = [seen_attempts EXCEPT ![w] = attempt_count[t]]
       /\ AppendAudit(t, "dispatch_started", "dispatching", attempt_count[t])
  /\ phase' = [phase EXCEPT ![w] = "sending"]
  /\ UNCHANGED <<scheduled_at, last_error, lock, clock, pass_now, task_ids, historyVars>>

\* Flawed: the session ends without the audit row of the claim.
ClaimUnaudited(w) ==
  /\ AtNextTask(w)
  /\ LET t == Current(w) IN
       /\ Claimable(w, t)
       /\ SetStatus(t, "dispatching")
       /\ attempt_count' = [attempt_count EXCEPT ![t] = @ + 1]
       /\ seen_attempts' = [seen_attempts EXCEPT ![w] = attempt_count[t] + 1]
  /\ phase' = [phase EXCEPT ![w] = "sending"]
  /\ UNCHANGED <<scheduled_at, last_error, audit, lock, clock, pass_now, task_ids, historyVars>>

\* The claim, the refresh and dispatch_started in one transaction.
Claim(w) ==
  /\ AtNextTask(w)
  /\ LET t == Current(w) IN
       /\ Claimable(w, t)
       /\ SetStatus(t, "dispatching")
       /\ attempt_count' = [attempt_count EXCEPT ![t] = @ + 1]
       /\ seen_attempts' = [seen_attempts EXCEPT ![w] = attempt_count[t] + 1]
       /\ AppendAudit(t, "dispatch_started", "dispatching", attempt_count[t] + 1)
  /\ phase' = [phase EXCEPT ![w] = "sending"]
  /\ UNCHANGED <<scheduled_at, last_error, lock, clock, pass_now, task_ids, historyVars>>

\* On to the next selected task; the finished one's attributes are dropped.
NextTask(w) ==
  /\ phase' = [phase EXCEPT ![w] = "pass"]
  /\ task_ids' = [task_ids EXCEPT ![w] = Tail(@)]
  /\ seen_attempts' = [seen_attempts EXCEPT ![w] = 0]
  /\ UNCHANGED <<pass_now, lock, clock, historyVars>>

\* rowcount 0: another worker or the API got there first.
SkipClaim(w) ==
  /\ AtNextTask(w)
  /\ NotClaimable(w, Current(w))
  /\ NextTask(w)
  /\ UNCHANGED rows

-----------------------------------------------------------------------------
(***************************************************************************)
(* adapter.send.                                                           *)
(***************************************************************************)
AnswerArrives(w, answer) ==
  /\ phase[w] = "sending"
  /\ phase' = [phase EXCEPT ![w] = answer]
  /\ UNCHANGED <<tableVars, clock, pass_now, task_ids, seen_attempts>>

SendAccepted(w) ==
  /\ AnswerArrives(w, "accepted")
  /\ delivered' = [delivered EXCEPT ![Current(w)] = @ + 1]
  /\ UNCHANGED unanswered

\* The provider refused, or no adapter is configured for the channel.
SendRejected(w) == AnswerArrives(w, "raised") /\ UNCHANGED historyVars

\* The provider accepted and the call raised all the same.
SendAnswerLost(w) ==
  /\ CanLose
  /\ AnswerArrives(w, "raised")
  /\ delivered' = [delivered EXCEPT ![Current(w)] = @ + 1]
  /\ unanswered' = [unanswered EXCEPT ![Current(w)] = @ + 1]

-----------------------------------------------------------------------------
(***************************************************************************)
(* Recording the outcome.  Both writes require the row to be still         *)
(* 'dispatching'; if it is not, a manual result stands and the outcome is  *)
(* dropped without an audit row.                                           *)
(***************************************************************************)
WriteUnconditionally(t) == lock[t] = NoTxn   \* flawed

StillDispatching(t) == Matches(t, "dispatching")
Overtaken(t) == Misses(t, "dispatching")

RecordSuccess(w) ==
  /\ phase[w] = "accepted"
  /\ StillDispatching(Current(w))
  /\ RecordResult(Current(w), "sent", "null", "dispatch_succeeded")
  /\ NextTask(w)
  /\ UNCHANGED <<attempt_count, scheduled_at>>

RetryOnceMore(w) == seen_attempts[w] <= MaxAttempts   \* flawed

WillRetry(w) == seen_attempts[w] < MaxAttempts

\* now + retry_delay, counted from the start of the pass.
RetryAt(w, t) == IF WillRetry(w) THEN pass_now[w] + RetryDelay ELSE scheduled_at[t]

\* Flawed: the last failure leaves the task claimed, or blocks it.
StayOnLastFailure(w) == IF WillRetry(w) THEN "scheduled" ELSE "dispatching"
BlockOnLastFailure(w) == IF WillRetry(w) THEN "scheduled" ELSE "blocked"

FinalStatus(w) == IF WillRetry(w) THEN "scheduled" ELSE "failed"

RecordFailure(w) ==
  /\ phase[w] = "raised"
  /\ LET t == Current(w) IN
       /\ StillDispatching(t)
       /\ RecordResult(t, FinalStatus(w), "error", "dispatch_failed")
       /\ scheduled_at' = [scheduled_at EXCEPT ![t] = RetryAt(w, t)]
  /\ NextTask(w)
  /\ UNCHANGED attempt_count

\* Flawed: no return after the rollback.
AuditAnyway(w) ==
  /\ phase[w] \in {"accepted", "raised"}
  /\ Overtaken(Current(w))
  /\ AppendAudit(Current(w), "dispatch_succeeded", "sent", 0)
  /\ NextTask(w)
  /\ UNCHANGED <<status, attempt_count, scheduled_at, last_error>>

DiscardOutcome(w) ==
  /\ phase[w] \in {"accepted", "raised"}
  /\ Overtaken(Current(w))
  /\ NextTask(w)
  /\ UNCHANGED rows

-----------------------------------------------------------------------------
(***************************************************************************)
(* A worker dies with its local state, by a kill or by an exception        *)
(* _run_loop does not catch; nobody looks at the task it had claimed.      *)
(* Nothing restarts it but an operator.                                    *)
(***************************************************************************)
Reset(w, to) ==
  /\ phase' = [phase EXCEPT ![w] = to]
  /\ task_ids' = [task_ids EXCEPT ![w] = <<>>]
  /\ seen_attempts' = [seen_attempts EXCEPT ![w] = 0]
  /\ pass_now' = [pass_now EXCEPT ![w] = 0]
  /\ UNCHANGED <<tableVars, clock, historyVars>>

\* Flawed recovery: a worker that starts puts dispatching tasks back.
RestartRequeueing(w) ==
  /\ phase[w] = "down"
  /\ status' = [t \in Task |-> IF status[t] = "dispatching" THEN "scheduled" ELSE status[t]]
  /\ phase' = [phase EXCEPT ![w] = "pass"]
  /\ UNCHANGED <<attempt_count, scheduled_at, last_error, audit, lock, clock,
                 pass_now, task_ids, seen_attempts, historyVars>>

Crash(w) == w \in CanCrash /\ phase[w] # "down" /\ Reset(w, "down")
Restart(w) == phase[w] = "down" /\ Reset(w, "pass")

\* Time passes; beyond Horizon only while some task is not due yet.
Tick ==
  /\ \/ clock < Horizon
     \/ \E t \in Task : status[t] = "scheduled" /\ scheduled_at[t] > clock
  /\ clock' = clock + 1
  /\ UNCHANGED <<tableVars, workerVars, historyVars>>

\* The steps of a live worker.
DispatchDueTasks(w) ==
  \/ Poll(w) \/ Claim(w) \/ SkipClaim(w)
  \/ SendAccepted(w) \/ SendRejected(w) \/ SendAnswerLost(w)
  \/ RecordSuccess(w) \/ RecordFailure(w) \/ DiscardOutcome(w)

WorkerNext == \/ \E w \in Worker : DispatchDueTasks(w) \/ Crash(w) \/ Restart(w)
              \/ Tick
=============================================================================
