--------------------------- MODULE PlannerProofs ---------------------------
(***************************************************************************)
(* Theorems about the planning loop on its own, for any customers, zones,  *)
(* moments, counts and caps.                                               *)
(***************************************************************************)
EXTENDS OutreachPlanner, LoopProofs

LoopInv == TypeOK /\ \A i \in Ingestion : LoopCorrect(i)

\* Every loop is correct when it begins.
LEMMA InitLoopInv == Init => LoopInv
<1> SUFFICES ASSUME Init PROVE LoopInv
  OBVIOUS
<1>1. \A i \in Ingestion : LoopFresh(i)
  BY CaseAssumption DEF Init, LoopFresh
<1>2. \A i \in Ingestion : LoopCorrect(i)
  BY <1>1, LoopBegins
<1>3. \A i \in Ingestion : LoopTyped(i)
  BY <1>2 DEF LoopCorrect
<1>4. /\ loaded \in [Ingestion -> Loaded] /\ recent_count \in [Ingestion -> Nat]
      /\ decisions \in [Ingestion -> Seq(Decision)] /\ new_tasks \in [Ingestion -> Seq(Proposal)]
  BY CaseAssumption, <1>3 DEF Init, LoopTyped
<1>5. proposals \in [Ingestion -> Seq(Proposal)]
  BY <1>3 DEF Init, LoopTyped
<1> QED
  BY <1>2, <1>4, <1>5 DEF LoopInv, TypeOK

\* A step keeps every loop correct: its own, and the others it leaves alone.
LEMMA NextLoopInv == LoopInv /\ [Next]_planningVars => LoopInv'
<1> SUFFICES ASSUME LoopInv, [Next]_planningVars PROVE LoopInv'
  OBVIOUS
<1>1. LoopFunctions /\ \A i \in Ingestion : LoopCorrect(i)
  BY DEF LoopInv, TypeOK, LoopFunctions
<1>2. LoopFunctions' /\ \A i \in Ingestion : LoopCorrect(i)'
  <2>1. CASE UNCHANGED planningVars
    <3>1. \A i \in Ingestion : LoopKept(i)
      BY <2>1 DEF planningVars, LoopKept
    <3> QED
      BY <1>1, <2>1, <3>1, LoopLeft DEF planningVars, LoopFunctions
  <2>2. ASSUME NEW i \in Ingestion, LoopStep(i)
        PROVE  LoopFunctions' /\ \A j \in Ingestion : LoopCorrect(j)'
    <3>1. LoopFunctions' /\ \A j \in Ingestion \ {i} : LoopKept(j)
      BY <1>1, <2>2, StepEffect
    <3>2. LoopCorrect(i)'
      BY <1>1, <2>2, LoopContinues
    <3>3. \A j \in Ingestion \ {i} : LoopCorrect(j)'
      BY <1>1, <3>1, LoopLeft
    <3> QED
      BY <3>1, <3>2, <3>3
  <2> QED
    BY <2>1, <2>2 DEF Next, LoopStep, Finished
<1>3. /\ loaded' = [i \in Ingestion |-> loaded'[i]]
      /\ proposals' = [i \in Ingestion |-> proposals'[i]]
      /\ recent_count' = [i \in Ingestion |-> recent_count'[i]]
      /\ decisions' = [i \in Ingestion |-> decisions'[i]]
      /\ new_tasks' = [i \in Ingestion |-> new_tasks'[i]]
  BY <1>2 DEF Next, BlockProposal, DeferProposal, ScheduleProposal, RecordDecision,
              Finished, planningVars, LoopInv, TypeOK
<1>4. TypeOK'
  BY <1>2, <1>3 DEF LoopCorrect, LoopTyped, TypeOK
<1> QED
  BY <1>2, <1>4 DEF LoopInv

\* Every state of the loops satisfies the invariant.
LEMMA LoopInvariant == Spec => []LoopInv
BY InitLoopInv, NextLoopInv, PTL DEF Spec

\* The loop's columns and rows have their types: in particular every task and
\* every decision names a channel, and every task has a time.
THEOREM PlannerTypeCorrect == Spec => []TypeOK
BY LoopInvariant, PTL DEF LoopInv

\* No event schedules past the frequency cap, whatever was counted before it
\* (planner.py:214-236, 316-317).
THEOREM CapKeptHolds == Spec => []CapKept
<1>1. LoopInv => CapKept
  BY CorrectLoopPromises DEF LoopInv, CapKept
<1> QED
  BY <1>1, LoopInvariant, PTL

\* Every task planned is for a channel, a customer, an account and a time at
\* which the policy allows it: a deferral leads into the window, in every zone
\* and across clock changes (planner.py:281-295, engine.py:131-163).
THEOREM TasksAreLawfulHolds == Spec => []TasksAreLawful
<1>1. LoopInv => TasksAreLawful
  BY CorrectLoopPromises DEF LoopInv, TasksAreLawful, TaskSound
<1> QED
  BY <1>1, LoopInvariant, PTL

\* The decisions that allow, or defer for quiet hours alone, are those with a
\* task, in the order of the tasks: what a duplicate is answered from its rows
\* is what the event was answered (planner.py:289-293, event_ingestion.py:260-296).
THEOREM DecisionsExplainTasksHolds == Spec => []DecisionsExplainTasks
<1>1. LoopInv => DecisionsExplainTasks
  BY CorrectLoopPromises DEF LoopInv, DecisionsExplainTasks
<1> QED
  BY <1>1, LoopInvariant, PTL

\* No task is put off for longer than quiet hours last (engine.py:148-163).
THEOREM NoLaterThanNeededHolds == Spec => []NoLaterThanNeeded
<1>1. LoopInv => NoLaterThanNeeded
  BY CorrectLoopPromises DEF LoopInv, NoLaterThanNeeded, TaskSound
<1> QED
  BY <1>1, LoopInvariant, PTL

\* Calls are placed on business mornings, which quiet hours never cover
\* (planner.py:449-464).
THEOREM CallsKeepBusinessHoursHolds == Spec => []CallsKeepBusinessHours
<1>1. LoopInv => CallsKeepBusinessHours
  BY CorrectLoopPromises DEF LoopInv, CallsKeepBusinessHours, TaskSound
<1> QED
  BY <1>1, LoopInvariant, PTL
=============================================================================
