--------------------------- MODULE TaskLifecycle ---------------------------
(***************************************************************************)
(* What the operational API and the workers promise about a task, with     *)
(* nothing said of processes, selections, row locks or the clock: the      *)
(* transitions of architecture.md 132-142, the manual override and the     *)
(* cancellation of phase-7-operational-apis.md.  TaskFlow implements it    *)
(* when no planner event cancels at the same time.                         *)
(***************************************************************************)
EXTENDS Naturals

CONSTANTS Task, Account, account_id, MaxAttempts

VARIABLES status, attempt_count

lifecycle == <<status, attempt_count>>

LifecycleInit == /\ status = [t \in Task |-> "scheduled"]
                 /\ attempt_count = [t \in Task |-> 0]

Move(t, s) == status' = [status EXCEPT ![t] = s]

\* An attempt is counted before the provider hears of it.
Attempt(t) == /\ status[t] = "scheduled"
              /\ attempt_count[t] < MaxAttempts
              /\ Move(t, "dispatching")
              /\ attempt_count' = [attempt_count EXCEPT ![t] = @ + 1]

Succeed(t) == /\ status[t] = "dispatching"
              /\ Move(t, "sent")
              /\ UNCHANGED attempt_count

\* Back to the queue while attempts remain, failed when they are used up.
Fail(t) == /\ status[t] = "dispatching"
           /\ Move(t, IF attempt_count[t] < MaxAttempts THEN "scheduled" ELSE "failed")
           /\ UNCHANGED attempt_count

\* An operator knows better; sent and cancelled are beyond recall.
Override(t, s) == /\ status[t] \in {"scheduled", "dispatching", "failed"}
                  /\ Move(t, s)
                  /\ UNCHANGED attempt_count

\* Some scheduled tasks of one account, all in one instant.
CancelTogether(a, T) ==
  /\ \A t \in T : account_id[t] = a /\ status[t] = "scheduled"
  /\ status' = [t \in Task |-> IF t \in T THEN "cancelled" ELSE status[t]]
  /\ UNCHANGED attempt_count

LifecycleNext ==
  \/ \E t \in Task : \/ Attempt(t) \/ Succeed(t) \/ Fail(t)
                     \/ \E s \in {"sent", "failed"} : Override(t, s)
  \/ \E a \in Account, T \in SUBSET Task : CancelTogether(a, T)

LifecycleSpec == LifecycleInit /\ [][LifecycleNext]_lifecycle
=============================================================================
