-------------------------- MODULE OutreachPlanner --------------------------
(***************************************************************************)
(* The planning loop on its own.  What it loaded and counted before it     *)
(* begins is given, and nothing else is going on: the loops of different   *)
(* ingestions do not meet.                                                 *)
(***************************************************************************)
EXTENDS PlanningLoop

CONSTANT Case   \* what a loop may have loaded and counted

ASSUME CaseAssumption == Case \subseteq Loaded

Init ==
  /\ loaded \in [Ingestion -> Case]
  /\ proposals = [i \in Ingestion |->
       ProposalsForEvent(loaded[i].event_type, loaded[i].now, loaded[i].timezone)]
  /\ recent_count = [i \in Ingestion |-> loaded[i].recent_attempts]
  /\ decisions = [i \in Ingestion |-> <<>>]
  /\ new_tasks = [i \in Ingestion |-> <<>>]

\* Every loop has run out of proposals.
Finished == (\A i \in Ingestion : proposals[i] = <<>>) /\ UNCHANGED planningVars

Next ==
  \/ \E i \in Ingestion : BlockProposal(i) \/ DeferProposal(i) \/ ScheduleProposal(i)
  \/ Finished

Spec == Init /\ [][Next]_planningVars

TypeOK ==
  /\ loaded \in [Ingestion -> Loaded]
  /\ proposals \in [Ingestion -> Seq(Proposal)]
  /\ recent_count \in [Ingestion -> Nat]
  /\ decisions \in [Ingestion -> Seq(Decision)]
  /\ new_tasks \in [Ingestion -> Seq(Proposal)]
=============================================================================
