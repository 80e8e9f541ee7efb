----------------------------- MODULE MCTaskFlow -----------------------------
(***************************************************************************)
(* Small instances of TaskFlow: two tasks, of one account or of two.       *)
(***************************************************************************)
EXTENDS TaskFlow

\* Task 1 is the younger one, so that id order and age disagree.
MCcreated_at == [t \in Task |-> IF t = 1 THEN 2 ELSE 1]
MCOneAccount == [t \in Task |-> CHOOSE a \in Account : TRUE]

\* Tasks 1 and 2 belong to one account, the others to another.
MCTwoAccounts ==
  LET first == CHOOSE a \in Account : TRUE
      second == CHOOSE a \in Account : a # first
  IN  [t \in Task |-> IF t <= 2 THEN first ELSE second]

\* Worker processes run the same program.
AlikeWorkers == Permutations(Worker)
=============================================================================
