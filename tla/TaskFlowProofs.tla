--------------------------- MODULE TaskFlowProofs ---------------------------
(***************************************************************************)
(* Theorems about TaskFlow, for any number of tasks, accounts, workers,    *)
(* requests and cancellations.                                             *)
(***************************************************************************)
EXTENDS TaskFlow, FiniteSetTheorems, SequenceTheorems, TLAPS

(***************************************************************************)
(* Facts about the sequences of the model.                                 *)
(***************************************************************************)

\* A permutation of some tasks is a sequence of tasks.
LEMMA PermutationIsSeq ==
  ASSUME NEW S, S \subseteq Task, NEW q \in SetToSeqs(S)
  PROVE  q \in Seq(Task)
<1>1. IsFiniteSet(S)
  BY TaskAssumption, FS_Subset
<1>2. Cardinality(S) \in Nat
  BY <1>1, FS_CardinalityType
<1>3. q \in [1..Cardinality(S) -> S]
  BY DEF SetToSeqs
<1> QED
  BY <1>2, <1>3

\* What the worker's query gives is a sequence of tasks.
LEMMA SelectionIsSeq ==
  ASSUME TypeOK, NEW now, NEW ids \in Selections(now)
  PROVE  ids \in Seq(Task)
<1>1. PICK q \in SetToSeqs(Due(now)) :
           ids = SubSeq(q, 1, IF Len(q) < BatchLimit THEN Len(q) ELSE BatchLimit)
  BY DEF Selections
<1>2. q \in Seq(Task)
  BY PermutationIsSeq DEF Due
<1> DEFINE n == IF Len(q) < BatchLimit THEN Len(q) ELSE BatchLimit
<1>3. n \in 0..Len(q)
  BY <1>2, WorkerAssumption
<1> QED
  BY <1>1, <1>2, <1>3

\* What the cancellations' queries give is a sequence of tasks.
LEMMA ListingIsSeq ==
  ASSUME NEW x \in Txn, NEW s \in Listings(x)
  PROVE  s \in Seq(Task)
<1>1. s \in SetToSeqs(ScheduledTasks(cancel_account[x]))
  BY DEF Listings, ApiListings, EventListings
<1> QED
  BY <1>1, PermutationIsSeq DEF ScheduledTasks

\* The task a worker is at is a task, and leaving it leaves a sequence.
LEMMA CurrentIsTask ==
  ASSUME WorkerTypeOK, NEW w \in Worker, task_ids[w] # <<>>
  PROVE  Current(w) \in Task /\ Tail(task_ids[w]) \in Seq(Task)
BY HeadTailProperties DEF Current, WorkerTypeOK

-----------------------------------------------------------------------------
(***************************************************************************)
(* Type correctness.                                                       *)
(***************************************************************************)

\* Every state the program reaches has the types of its columns and locals:
\* attempt counts and times stay numbers, every status and audit row is one of
\* the enum's (models.py:46-52, 236-318).
LEMMA InitTypeOK == Init => TypeOK
<1> SUFFICES ASSUME Init PROVE TypeOK
  OBVIOUS
<1> USE DEF Init
<1>1. TableTypeOK
  <2>1. scheduled_at \in [Task -> Nat]
    BY ColumnAssumption DEF TableInit
  <2>2. audit \in [Task -> Seq(AuditRow)]
    <3>1. <<>> \in Seq(AuditRow)
      OBVIOUS
    <3> QED
      BY <3>1 DEF TableInit
  <2> QED
    BY <2>1, <2>2 DEF TableInit, TableTypeOK, Status
<1>2. WorkerTypeOK
  BY DEF WorkerInit, WorkerTypeOK, Phase, InFlightPhase
<1>3. RequestTypeOK
  BY TaskAssumption DEF RequestInit, RequestTypeOK, Answer, Status
<1>4. CancelTypeOK
  BY DEF CancelInit, CancelTypeOK
<1> QED
  BY <1>1, <1>2, <1>3, <1>4 DEF TypeOK

\* Recording a result keeps the three columns it writes well typed.
LEMMA RecordResultType ==
  ASSUME TableTypeOK, NEW t \in Task, NEW s \in Status, NEW e \in {"null", "error"},
         NEW event \in EventType, RecordResult(t, s, e, event)
  PROVE  /\ status' \in [Task -> Status]
         /\ last_error' \in [Task -> {"null", "error"}]
         /\ audit' \in [Task -> Seq(AuditRow)]
<1> DEFINE row == [event_type |-> event, status |-> s, attempt_count |-> 0]
<1>1. row \in AuditRow
  BY DEF AuditRow
<1>2. audit' = [audit EXCEPT ![t] = Append(audit[t], row)]
  BY DEF RecordResult, AppendAudit
<1>3. Append(audit[t], row) \in Seq(AuditRow)
  BY <1>1 DEF TableTypeOK
<1>4. audit' \in [Task -> Seq(AuditRow)]
  BY <1>2, <1>3 DEF TableTypeOK
<1> QED
  BY <1>4 DEF RecordResult, SetStatus, TableTypeOK

\* A step of the worker or of the clock keeps the types of the table and of
\* its own variables.
LEMMA WorkerNextTypeOK ==
  ASSUME TypeOK, WorkerNext
  PROVE  TableTypeOK' /\ WorkerTypeOK'
<1> USE DEF TypeOK
<1>1. ASSUME NEW w \in Worker, Poll(w) PROVE TableTypeOK' /\ WorkerTypeOK'
  <2>1. PICK ids \in Selections(clock) : task_ids' = [task_ids EXCEPT ![w] = ids]
    BY <1>1 DEF Poll
  <2>2. ids \in Seq(Task)
    BY SelectionIsSeq
  <2>3. WorkerTypeOK'
    BY <1>1, <2>1, <2>2 DEF Poll, WorkerTypeOK, historyVars, InFlightPhase
  <2> QED
    BY <1>1, <2>3 DEF Poll, TableTypeOK, tableVars
<1>2. ASSUME NEW w \in Worker, task_ids[w] # <<>>, NextTask(w)
      PROVE  WorkerTypeOK' /\ lock' = lock
  <2>1. Tail(task_ids[w]) \in Seq(Task)
    BY <1>2, CurrentIsTask
  <2> QED
    BY <1>2, <2>1 DEF NextTask, WorkerTypeOK, Phase, InFlightPhase, historyVars
<1>3. ASSUME NEW w \in Worker, Claim(w) PROVE TableTypeOK' /\ WorkerTypeOK'
  <2>1. PICK t \in Task : t = Current(w)
    BY <1>3, CurrentIsTask DEF Claim, AtNextTask
  <2> DEFINE row == [event_type |-> "dispatch_started", status |-> "dispatching",
                     attempt_count |-> attempt_count[t] + 1]
  <2>2. row \in AuditRow
    BY DEF AuditRow, EventType, Status, TableTypeOK
  <2>3. /\ status' = [status EXCEPT ![t] = "dispatching"]
        /\ attempt_count' = [attempt_count EXCEPT ![t] = attempt_count[t] + 1]
        /\ audit' = [audit EXCEPT ![t] = Append(audit[t], row)]
        /\ UNCHANGED <<scheduled_at, last_error, lock>>
    BY <1>3, <2>1 DEF Claim, SetStatus, AppendAudit
  <2>4. Append(audit[t], row) \in Seq(AuditRow)
    BY <2>2 DEF TableTypeOK
  <2> HIDE DEF row
  <2>5. TableTypeOK'
    BY <2>3, <2>4 DEF TableTypeOK, Status
  <2>6. /\ seen_attempts' = [seen_attempts EXCEPT ![w] = attempt_count[t] + 1]
        /\ phase' = [phase EXCEPT ![w] = "sending"] /\ task_ids[w] # <<>>
        /\ UNCHANGED <<clock, pass_now, task_ids, delivered, unanswered>>
    BY <1>3, <2>1 DEF Claim, AtNextTask, historyVars
  <2>7. attempt_count[t] \in Nat
    BY DEF TableTypeOK
  <2>8. WorkerTypeOK'
    BY <2>6, <2>7 DEF WorkerTypeOK, Phase, InFlightPhase
  <2> QED
    BY <2>5, <2>8
<1>4. ASSUME NEW w \in Worker, SkipClaim(w) PROVE TableTypeOK' /\ WorkerTypeOK'
  BY <1>2, <1>4 DEF SkipClaim, AtNextTask, TableTypeOK, rows
<1>5. ASSUME NEW w \in Worker, SendAccepted(w) \/ SendRejected(w) \/ SendAnswerLost(w)
      PROVE  TableTypeOK' /\ WorkerTypeOK'
  <2>1. PICK t \in Task : t = Current(w)
    BY <1>5, CurrentIsTask DEF SendAccepted, SendRejected, SendAnswerLost,
       AnswerArrives, WorkerTypeOK, InFlightPhase
  <2>2. /\ \/ delivered' = delivered
           \/ delivered' = [delivered EXCEPT ![t] = @ + 1]
        /\ \/ unanswered' = unanswered
           \/ unanswered' = [unanswered EXCEPT ![t] = @ + 1]
    BY <1>5, <2>1 DEF SendAccepted, SendRejected, SendAnswerLost, historyVars
  <2>3. /\ phase[w] = "sending"
        /\ \E a \in {"accepted", "raised"} : phase' = [phase EXCEPT ![w] = a]
        /\ UNCHANGED <<tableVars, clock, pass_now, task_ids, seen_attempts>>
    BY <1>5 DEF SendAccepted, SendRejected, SendAnswerLost, AnswerArrives
  <2>4. delivered' \in [Task -> Nat] /\ unanswered' \in [Task -> Nat]
    <3>1. delivered[t] + 1 \in Nat /\ unanswered[t] + 1 \in Nat
      BY DEF WorkerTypeOK
    <3>2. delivered' \in [Task -> Nat]
      BY <2>2, <3>1 DEF WorkerTypeOK
    <3>3. unanswered' \in [Task -> Nat]
      BY <2>2, <3>1 DEF WorkerTypeOK
    <3> QED
      BY <3>2, <3>3
  <2>5. /\ phase' \in [Worker -> Phase]
        /\ \A v \in Worker : phase'[v] \in InFlightPhase => task_ids'[v] # <<>>
    BY <2>3 DEF WorkerTypeOK, Phase, InFlightPhase
  <2>6. WorkerTypeOK'
    <3>1. /\ task_ids' = task_ids /\ clock' = clock
          /\ pass_now' = pass_now /\ seen_attempts' = seen_attempts
      BY <2>3
    <3> QED
      BY <2>4, <2>5, <3>1 DEF WorkerTypeOK
  <2> QED
    BY <2>3, <2>6 DEF TableTypeOK, tableVars
<1>6. ASSUME NEW w \in Worker, RecordSuccess(w) PROVE TableTypeOK' /\ WorkerTypeOK'
  <2>1. task_ids[w] # <<>> /\ NextTask(w)
    BY <1>6 DEF RecordSuccess, WorkerTypeOK, InFlightPhase
  <2>2. PICK t \in Task : t = Current(w)
    BY <2>1, CurrentIsTask
  <2>3. RecordResult(t, "sent", "null", "dispatch_succeeded")
        /\ UNCHANGED <<attempt_count, scheduled_at>>
    BY <1>6, <2>2 DEF RecordSuccess
  <2>4. /\ status' \in [Task -> Status]
        /\ last_error' \in [Task -> {"null", "error"}]
        /\ audit' \in [Task -> Seq(AuditRow)]
    BY <2>3, RecordResultType DEF EventType, Status
  <2> QED
    BY <1>2, <2>1, <2>3, <2>4 DEF TableTypeOK
<1>7. ASSUME NEW w \in Worker, RecordFailure(w) PROVE TableTypeOK' /\ WorkerTypeOK'
  <2>1. task_ids[w] # <<>> /\ NextTask(w)
    BY <1>7 DEF RecordFailure, WorkerTypeOK, InFlightPhase
  <2>2. PICK t \in Task : t = Current(w)
    BY <2>1, CurrentIsTask
  <2>3. RecordResult(t, FinalStatus(w), "error", "dispatch_failed")
        /\ scheduled_at' = [scheduled_at EXCEPT ![t] = RetryAt(w, t)]
        /\ UNCHANGED attempt_count
    BY <1>7, <2>2 DEF RecordFailure
  <2>4. FinalStatus(w) \in Status /\ RetryAt(w, t) \in Nat
    BY WorkerAssumption DEF FinalStatus, RetryAt, Status, TableTypeOK, WorkerTypeOK
  <2>5. /\ status' \in [Task -> Status]
        /\ last_error' \in [Task -> {"null", "error"}]
        /\ audit' \in [Task -> Seq(AuditRow)]
    BY <2>3, <2>4, RecordResultType DEF EventType
  <2> QED
    BY <1>2, <2>1, <2>3, <2>4, <2>5 DEF TableTypeOK
<1>8. ASSUME NEW w \in Worker, DiscardOutcome(w) PROVE TableTypeOK' /\ WorkerTypeOK'
  <2>1. task_ids[w] # <<>> /\ NextTask(w) /\ UNCHANGED rows
    BY <1>8 DEF DiscardOutcome, WorkerTypeOK, InFlightPhase
  <2> QED
    BY <1>2, <2>1 DEF TableTypeOK, rows
<1>9. ASSUME NEW w \in Worker, Crash(w) \/ Restart(w) PROVE TableTypeOK' /\ WorkerTypeOK'
  <2>1. PICK to \in {"down", "pass"} : Reset(w, to)
    BY <1>9 DEF Crash, Restart
  <2>2. TableTypeOK'
    BY <2>1 DEF Reset, TableTypeOK, tableVars
  <2>3. phase' \in [Worker -> Phase]
    BY <2>1 DEF Reset, WorkerTypeOK, Phase
  <2>4. <<>> \in Seq(Task)
    OBVIOUS
  <2>5. task_ids' \in [Worker -> Seq(Task)]
    BY <2>1, <2>4 DEF Reset, WorkerTypeOK
  <2>6. \A v \in Worker : phase'[v] \in InFlightPhase => task_ids'[v] # <<>>
    BY <2>1 DEF Reset, WorkerTypeOK, InFlightPhase
  <2>7. WorkerTypeOK'
    BY <2>1, <2>3, <2>5, <2>6 DEF Reset, WorkerTypeOK, historyVars
  <2> QED
    BY <2>2, <2>7
<1>10. ASSUME Tick PROVE TableTypeOK' /\ WorkerTypeOK'
  BY <1>10 DEF Tick, TableTypeOK, tableVars, WorkerTypeOK, workerVars, historyVars
<1> QED
  BY <1>1, <1>3, <1>4, <1>5, <1>6, <1>7, <1>8, <1>9, <1>10 DEF WorkerNext, DispatchDueTasks

\* A step of a manual request keeps the types.
LEMMA RequestNextTypeOK ==
  ASSUME TypeOK, RequestNext
  PROVE  TableTypeOK' /\ RequestTypeOK'
<1> USE DEF TypeOK
<1>1. ASSUME NEW r \in Request, NEW t \in Task, LoadTask(r, t) \/ RejectTask(r, t)
      PROVE  TableTypeOK' /\ RequestTypeOK'
  BY <1>1 DEF LoadTask, RejectTask, TableTypeOK, tableVars, RequestTypeOK, Answer
<1>2. ASSUME NEW r \in Request, NEW s \in {"sent", "failed"}, RecordManualResult(r, s)
      PROVE  TableTypeOK' /\ RequestTypeOK'
  <2>1. PICK t \in Task : t = request_task[r]
    BY DEF RequestTypeOK
  <2>2. PICK e \in {"null", "error"} : RecordResult(t, s, e, "delivery_result_recorded")
    BY <1>2, <2>1 DEF RecordManualResult
  <2>3. s \in Status /\ "delivery_result_recorded" \in EventType
    BY DEF Status, EventType
  <2>4. /\ status' \in [Task -> Status]
        /\ last_error' \in [Task -> {"null", "error"}]
        /\ audit' \in [Task -> Seq(AuditRow)]
    BY <2>2, <2>3, RecordResultType
  <2> QED
    BY <1>2, <2>4 DEF RecordManualResult, TableTypeOK, RequestTypeOK, Answer
<1>3. ASSUME NEW r \in Request, ConflictResult(r) PROVE TableTypeOK' /\ RequestTypeOK'
  BY <1>3 DEF ConflictResult, TableTypeOK, tableVars, RequestTypeOK, Answer
<1> QED
  BY <1>1, <1>2, <1>3 DEF RequestNext, FinishRequest

\* A step of a cancellation keeps the types.
LEMMA CancelNextTypeOK ==
  ASSUME TypeOK, CancelNext
  PROVE  TableTypeOK' /\ CancelTypeOK'
<1> USE DEF TypeOK
<1>1. ASSUME NEW x \in Txn, SelectTasks(x) PROVE TableTypeOK' /\ CancelTypeOK'
  <2>1. PICK s \in Listings(x) : to_cancel' = [to_cancel EXCEPT ![x] = s]
    BY <1>1 DEF SelectTasks
  <2>2. s \in Seq(Task)
    BY ListingIsSeq
  <2> QED
    BY <1>1, <2>1, <2>2 DEF SelectTasks, TableTypeOK, tableVars, CancelTypeOK
<1>2. ASSUME NEW x \in Txn, AtRow(x)
      PROVE  NextRow(x) \in Task /\ Tail(to_cancel[x]) \in Seq(Task)
  BY <1>2, HeadTailProperties DEF AtRow, NextRow, CancelTypeOK
<1>3. ASSUME NEW x \in Txn, UpdateRow(x) PROVE TableTypeOK' /\ CancelTypeOK'
  <2>1. PICK t \in Task : t = NextRow(x)
    BY <1>2, <1>3 DEF UpdateRow
  <2>2. lock' = [lock EXCEPT ![t] = x] /\ UNCHANGED rows
    BY <1>3, <2>1 DEF UpdateRow
  <2>3. Tail(to_cancel[x]) \in Seq(Task)
    BY <1>2, <1>3 DEF UpdateRow
  <2> QED
    BY <1>3, <2>2, <2>3 DEF UpdateRow, PassRow, TableTypeOK, rows, CancelTypeOK
<1>4. ASSUME NEW x \in Txn, SkipRow(x) PROVE TableTypeOK' /\ CancelTypeOK'
  <2>1. Tail(to_cancel[x]) \in Seq(Task)
    BY <1>2, <1>4 DEF SkipRow
  <2> QED
    BY <1>4, <2>1 DEF SkipRow, PassRow, TableTypeOK, tableVars, CancelTypeOK
<1>5. ASSUME NEW x \in Txn PROVE Unlocked(x) \in [Task -> Txn \cup {NoTxn}]
  BY DEF Unlocked, TableTypeOK
<1>6. ASSUME NEW x \in Txn, CommitCancel(x) PROVE TableTypeOK' /\ CancelTypeOK'
  <2> DEFINE row == [event_type |-> "outreach_cancelled", status |-> "cancelled",
                     attempt_count |-> 0]
  <2>1. row \in AuditRow
    BY DEF AuditRow, EventType, Status
  <2>2. audit' = [t \in Task |-> IF lock[t] = x THEN Append(audit[t], row) ELSE audit[t]]
    BY <1>6 DEF CommitCancel
  <2> HIDE DEF row
  <2>3. ASSUME NEW t \in Task PROVE Append(audit[t], row) \in Seq(AuditRow)
    BY <2>1 DEF TableTypeOK
  <2>4. audit' \in [Task -> Seq(AuditRow)]
    BY <2>2, <2>3 DEF TableTypeOK
  <2>5. status' \in [Task -> Status]
    BY <1>6 DEF CommitCancel, TableTypeOK, Status
  <2>6. lock' \in [Task -> Txn \cup {NoTxn}]
    BY <1>5, <1>6 DEF CommitCancel
  <2> QED
    BY <1>6, <2>4, <2>5, <2>6 DEF CommitCancel, TableTypeOK, CancelTypeOK
<1>7. ASSUME NEW x \in Txn, Rollback(x) PROVE TableTypeOK' /\ CancelTypeOK'
  BY <1>5, <1>7 DEF Rollback, TableTypeOK, rows, CancelTypeOK
<1> QED
  BY <1>1, <1>3, <1>4, <1>6, <1>7 DEF CancelNext, FinishCancel, DeadlockVictim, ConnectionLost

\* Every step of the system, or none, keeps the types.
LEMMA NextTypeOK == TypeOK /\ [Next]_vars => TypeOK'
<1> SUFFICES ASSUME TypeOK, [Next]_vars PROVE TypeOK'
  OBVIOUS
<1>1. CASE WorkerNext /\ UNCHANGED <<requestVars, cancelVars>>
  <2>1. RequestTypeOK' /\ CancelTypeOK'
    BY <1>1 DEF TypeOK, RequestTypeOK, CancelTypeOK, requestVars, cancelVars
  <2> QED
    BY <1>1, <2>1, WorkerNextTypeOK DEF TypeOK
<1>2. CASE RequestNext /\ UNCHANGED <<clock, workerVars, historyVars, cancelVars>>
  <2>1. WorkerTypeOK' /\ CancelTypeOK'
    BY <1>2 DEF TypeOK, WorkerTypeOK, CancelTypeOK, workerVars, historyVars, cancelVars
  <2> QED
    BY <1>2, <2>1, RequestNextTypeOK DEF TypeOK
<1>3. CASE CancelNext /\ UNCHANGED <<clock, workerVars, historyVars, requestVars>>
  <2>1. WorkerTypeOK' /\ RequestTypeOK'
    BY <1>3 DEF TypeOK, WorkerTypeOK, RequestTypeOK, workerVars, historyVars, requestVars
  <2> QED
    BY <1>3, <2>1, CancelNextTypeOK DEF TypeOK
<1>4. CASE UNCHANGED vars
  BY <1>4 DEF TypeOK, TableTypeOK, WorkerTypeOK, RequestTypeOK, CancelTypeOK,
              vars, tableVars, workerVars, historyVars, requestVars, cancelVars
<1> QED
  BY <1>1, <1>2, <1>3, <1>4 DEF Next, Quiescent

\* TypeOK is inductive by itself, so the theorem needs no stronger invariant.
THEOREM TypeCorrect == Spec => []TypeOK
<1>1. Init => TypeOK
  BY InitTypeOK
<1>2. TypeOK /\ [Next]_vars => TypeOK'
  BY NextTypeOK
<1> QED
  BY <1>1, <1>2, PTL DEF Spec

-----------------------------------------------------------------------------
(***************************************************************************)
(* The dispatch invariant.  Requests, cancellations and everything a       *)
(* worker does outside a claim and its outcome leave what it speaks of     *)
(* alone, but that a task may stop being scheduled or a worker may let go  *)
(* of its task.  The claim, the provider's answer and the two records are  *)
(* the steps with something to prove.                                      *)
(***************************************************************************)

\* The attempts, contacts and calls in flight stay and no task becomes
\* scheduled.
Aside == /\ UNCHANGED <<phase, task_ids, seen_attempts, attempt_count, historyVars>>
         /\ \A t \in Task : status'[t] = "scheduled" => status[t] = "scheduled"

\* A step aside keeps the dispatch invariant.
LEMMA AsideKeeps ==
  ASSUME TypeOK, DispatchInv, Aside
  PROVE  DispatchInv'
<1> USE DEF DispatchInv, Aside, historyVars
<1>1. \A w \in Worker : Current(w)' = Current(w)
  BY DEF Current
<1>2. FlightKnown'
  <2> SUFFICES ASSUME NEW w \in Worker, phase[w] \in InFlightPhase
               PROVE  status'[Current(w)] # "scheduled" /\
                      seen_attempts[w] = attempt_count[Current(w)]
    BY <1>1 DEF FlightKnown
  <2>1. Current(w) \in Task
    BY CurrentIsTask DEF TypeOK, WorkerTypeOK
  <2> QED
    BY <2>1 DEF FlightKnown
<1>3. AttemptsLeft'
  BY DEF AttemptsLeft
<1>4. SingleSender'
  BY <1>1 DEF SingleSender, InFlight
<1>5. ContactKnown'
  BY <1>1 DEF ContactKnown, Confirmed, InFlight
<1> QED
  BY <1>2, <1>3, <1>4, <1>5

\* Requests step aside: a manual result is never 'scheduled'.
LEMMA RequestStepsAside ==
  ASSUME TypeOK, RequestNext, UNCHANGED <<workerVars, historyVars>>
  PROVE  Aside
<1> USE DEF Aside, workerVars, tableVars
<1>1. ASSUME NEW r \in Request, NEW t \in Task, LoadTask(r, t) \/ RejectTask(r, t)
      PROVE  Aside
  BY <1>1 DEF LoadTask, RejectTask
<1>2. ASSUME NEW r \in Request, NEW s \in {"sent", "failed"}, RecordManualResult(r, s)
      PROVE  Aside
  BY <1>2 DEF RecordManualResult, RecordResult, SetStatus, TypeOK, TableTypeOK
<1>3. ASSUME NEW r \in Request, ConflictResult(r) PROVE Aside
  BY <1>3 DEF ConflictResult
<1> QED
  BY <1>1, <1>2, <1>3 DEF RequestNext, FinishRequest

\* Cancellations step aside: they only ever write 'cancelled'.
LEMMA CancelStepsAside ==
  ASSUME TypeOK, CancelNext, UNCHANGED <<workerVars, historyVars>>
  PROVE  Aside
<1> USE DEF Aside, workerVars, tableVars, rows
<1>1. ASSUME NEW x \in Txn, SelectTasks(x) \/ UpdateRow(x) \/ SkipRow(x) \/ Rollback(x)
      PROVE  Aside
  BY <1>1 DEF SelectTasks, UpdateRow, SkipRow, Rollback
<1>2. ASSUME NEW x \in Txn, CommitCancel(x) PROVE Aside
  BY <1>2 DEF CommitCancel
<1> QED
  BY <1>1, <1>2 DEF CancelNext, FinishCancel, DeadlockVictim, ConnectionLost

\* Worker w has nothing in flight after the step; the other workers, the
\* attempts and the contacts are as they were and t alone may have changed.
LetsGo(w, t) ==
  /\ phase'[w] \notin InFlightPhase
  /\ \A v \in Worker \ {w} : /\ phase'[v] = phase[v]
                            /\ task_ids'[v] = task_ids[v]
                            /\ seen_attempts'[v] = seen_attempts[v]
  /\ UNCHANGED <<attempt_count, historyVars>>
  /\ \A u \in Task \ {t} : status'[u] = status[u]

\* A worker that lets go of its task keeps the invariant if the task is not
\* put back, or is put back with an attempt left, unconfirmed and unattended.
LEMMA LettingGoKeeps ==
  ASSUME TypeOK, DispatchInv, NEW w \in Worker, NEW t \in Task, LetsGo(w, t),
         status'[t] = "scheduled" =>
           \/ status[t] = "scheduled"
           \/ /\ attempt_count[t] < MaxAttempts /\ ~Confirmed(t)
              /\ \A v \in Worker \ {w} : ~InFlight(v, t)
  PROVE  DispatchInv'
<1> USE DEF DispatchInv, LetsGo, historyVars
<1>1. \A v \in Worker \ {w} : Current(v)' = Current(v)
  BY DEF Current
<1>2. \A v \in Worker \ {w}, u \in Task : InFlight(v, u)' <=> InFlight(v, u)
  BY <1>1 DEF InFlight
<1>3. \A u \in Task : ~InFlight(w, u)'
  BY DEF InFlight
<1>4. FlightKnown'
  <2> SUFFICES ASSUME NEW v \in Worker \ {w}, phase[v] \in InFlightPhase
               PROVE  status'[Current(v)] # "scheduled" /\
                      seen_attempts[v] = attempt_count[Current(v)]
    BY <1>1 DEF FlightKnown
  <2>1. Current(v) \in Task
    BY CurrentIsTask DEF TypeOK, WorkerTypeOK
  <2>2. status[Current(v)] # "scheduled" /\ seen_attempts[v] = attempt_count[Current(v)]
    BY DEF FlightKnown
  <2> QED
    BY <2>1, <2>2 DEF InFlight
<1>5. AttemptsLeft'
  BY DEF AttemptsLeft
<1>6. SingleSender'
  BY <1>2, <1>3 DEF SingleSender
<1>7. ContactKnown'
  <2> SUFFICES ASSUME NEW u \in Task
               PROVE  /\ delivered[u] = unanswered[u] \/ Confirmed(u)
                      /\ Confirmed(u) =>
                           /\ status'[u] # "scheduled"
                           /\ \A v \in Worker : InFlight(v, u)' => phase'[v] = "accepted"
    BY DEF ContactKnown, Confirmed
  <2> QED
    BY <1>2, <1>3 DEF ContactKnown
<1> QED
  BY <1>4, <1>5, <1>6, <1>7

\* The claim takes a task nobody has in flight, which has an attempt left and
\* no confirmed contact.
LEMMA ClaimKeeps ==
  ASSUME TypeOK, DispatchInv, NEW w \in Worker, Claim(w)
  PROVE  DispatchInv'
<1> USE DEF DispatchInv
<1>1. task_ids[w] # <<>> /\ task_ids' = task_ids
  BY DEF Claim, AtNextTask
<1>2. PICK t \in Task : t = Current(w)
  BY <1>1, CurrentIsTask DEF TypeOK
<1>3. /\ status[t] = "scheduled" /\ status' = [status EXCEPT ![t] = "dispatching"]
      /\ attempt_count' = [attempt_count EXCEPT ![t] = attempt_count[t] + 1]
      /\ seen_attempts' = [seen_attempts EXCEPT ![w] = attempt_count[t] + 1]
      /\ phase' = [phase EXCEPT ![w] = "sending"]
      /\ delivered' = delivered /\ unanswered' = unanswered
  BY <1>2 DEF Claim, Claimable, Matches, SetStatus, historyVars
<1>4. \A v \in Worker : Current(v)' = Current(v)
  BY <1>1 DEF Current
<1>5. \A v \in Worker : phase[v] \in InFlightPhase => Current(v) # t
  BY <1>3 DEF FlightKnown
<1>6. \A v \in Worker, u \in Task :
        InFlight(v, u)' <=> IF v = w THEN u = t ELSE InFlight(v, u)
  BY <1>2, <1>3, <1>4 DEF InFlight, InFlightPhase, TypeOK, WorkerTypeOK
<1>7. FlightKnown'
  <2> SUFFICES ASSUME NEW v \in Worker, phase'[v] \in InFlightPhase
               PROVE  status'[Current(v)] # "scheduled" /\
                      seen_attempts'[v] = attempt_count'[Current(v)]
    BY <1>4 DEF FlightKnown
  <2>1. CASE v = w
    BY <1>2, <1>3, <2>1 DEF TypeOK, TableTypeOK, WorkerTypeOK
  <2>2. CASE v # w
    <3>1. phase[v] \in InFlightPhase /\ seen_attempts'[v] = seen_attempts[v]
      BY <1>3, <2>2 DEF TypeOK, WorkerTypeOK
    <3>2. Current(v) \in Task /\ Current(v) # t
      BY <1>5, <3>1, CurrentIsTask DEF TypeOK, WorkerTypeOK
    <3> QED
      BY <1>3, <3>1, <3>2 DEF FlightKnown, TypeOK, TableTypeOK
  <2> QED
    BY <2>1, <2>2
<1>8. AttemptsLeft'
  BY <1>3, ColumnAssumption DEF AttemptsLeft, TypeOK, TableTypeOK
<1>9. SingleSender'
  BY <1>5, <1>6 DEF SingleSender, InFlight
<1>10. ContactKnown'
  <2>1. ~Confirmed(t)
    BY <1>3 DEF ContactKnown
  <2> SUFFICES ASSUME NEW u \in Task
               PROVE  /\ delivered[u] = unanswered[u] \/ Confirmed(u)
                      /\ Confirmed(u) =>
                           /\ status'[u] # "scheduled"
                           /\ \A v \in Worker : InFlight(v, u)' => phase'[v] = "accepted"
    BY <1>3 DEF ContactKnown, Confirmed
  <2> QED
    BY <1>3, <1>6, <2>1 DEF ContactKnown, TypeOK, TableTypeOK, WorkerTypeOK
<1> QED
  BY <1>7, <1>8, <1>9, <1>10

\* The provider's answer confirms a contact at most once: whoever has the call
\* open is alone with the task, and none of its contacts is confirmed yet.
LEMMA AnswerKeeps ==
  ASSUME TypeOK, DispatchInv, NEW w \in Worker,
         SendAccepted(w) \/ SendRejected(w) \/ SendAnswerLost(w)
  PROVE  DispatchInv'
<1> USE DEF DispatchInv
<1>1. /\ phase[w] = "sending" /\ UNCHANGED <<tableVars, task_ids, seen_attempts>>
      /\ \/ phase' = [phase EXCEPT ![w] = "accepted"]
         \/ phase' = [phase EXCEPT ![w] = "raised"]
  BY DEF SendAccepted, SendRejected, SendAnswerLost, AnswerArrives
<1>2. PICK t \in Task : t = Current(w)
  BY <1>1, CurrentIsTask DEF TypeOK, WorkerTypeOK, InFlightPhase
<1>3. \/ /\ phase' = [phase EXCEPT ![w] = "accepted"]
         /\ delivered' = [delivered EXCEPT ![t] = delivered[t] + 1]
         /\ unanswered' = unanswered
      \/ delivered' = delivered /\ unanswered' = unanswered
      \/ /\ delivered' = [delivered EXCEPT ![t] = delivered[t] + 1]
         /\ unanswered' = [unanswered EXCEPT ![t] = unanswered[t] + 1]
  BY <1>2 DEF SendAccepted, SendRejected, SendAnswerLost, AnswerArrives, historyVars
<1>4. status' = status /\ attempt_count' = attempt_count
  BY <1>1 DEF tableVars
<1>5. \A v \in Worker : Current(v)' = Current(v)
  BY <1>1 DEF Current
<1>6. \A v \in Worker : phase'[v] \in InFlightPhase <=> phase[v] \in InFlightPhase
  BY <1>1 DEF TypeOK, WorkerTypeOK, InFlightPhase
<1>7. \A v \in Worker, u \in Task : InFlight(v, u)' <=> InFlight(v, u)
  BY <1>5, <1>6 DEF InFlight
<1>8. FlightKnown'
  BY <1>1, <1>4, <1>5, <1>6 DEF FlightKnown
<1>9. AttemptsLeft'
  BY <1>4 DEF AttemptsLeft
<1>10. SingleSender'
  BY <1>7 DEF SingleSender
<1>11. InFlight(w, t) /\ ~Confirmed(t)
  BY <1>1, <1>2 DEF InFlight, InFlightPhase, ContactKnown
<1>12. \A v \in Worker : InFlight(v, t) => v = w
  BY <1>11 DEF SingleSender
<1>13. delivered[t] = unanswered[t] /\ status[t] # "scheduled"
  BY <1>11 DEF ContactKnown, FlightKnown, InFlight
<1>14. ContactKnown'
  <2> SUFFICES ASSUME NEW u \in Task
               PROVE  /\ delivered'[u] = unanswered'[u] \/ Confirmed(u)'
                      /\ Confirmed(u)' =>
                           /\ status[u] # "scheduled"
                           /\ \A v \in Worker : InFlight(v, u) => phase'[v] = "accepted"
    BY <1>4, <1>7 DEF ContactKnown
  <2>1. CASE u # t
    <3>1. delivered'[u] = delivered[u] /\ unanswered'[u] = unanswered[u]
      BY <1>3, <2>1 DEF TypeOK, WorkerTypeOK
    <3>2. \A v \in Worker : InFlight(v, u) => phase'[v] = phase[v]
      BY <1>1, <1>2, <2>1 DEF InFlight, TypeOK, WorkerTypeOK
    <3> QED
      BY <3>1, <3>2 DEF ContactKnown, Confirmed
  <2>2. CASE u = t
    <3>1. delivered[t] \in Nat
      BY DEF TypeOK, WorkerTypeOK
    <3>2. \/ delivered'[t] = unanswered'[t] + 1 /\ phase' = [phase EXCEPT ![w] = "accepted"]
          \/ delivered'[t] = unanswered'[t]
      BY <1>3, <1>13, <3>1 DEF TypeOK, WorkerTypeOK
    <3>3. delivered'[t] = unanswered'[t] => delivered'[t] # unanswered'[t] + 1
      BY <1>3, <1>13, <3>1 DEF TypeOK, WorkerTypeOK
    <3> QED
      BY <1>12, <1>13, <2>2, <3>2, <3>3 DEF Confirmed, TypeOK, WorkerTypeOK
  <2> QED
    BY <2>1, <2>2
<1> QED
  BY <1>8, <1>9, <1>10, <1>14

\* Recording an outcome lets go of the task; a retry puts back one that has
\* an attempt left and that nobody else has in flight.
LEMMA RecordKeeps ==
  ASSUME TypeOK, DispatchInv, NEW w \in Worker,
         RecordSuccess(w) \/ RecordFailure(w) \/ DiscardOutcome(w)
  PROVE  DispatchInv'
<1> USE DEF DispatchInv
<1>1. /\ phase[w] \in InFlightPhase /\ NextTask(w)
      /\ UNCHANGED attempt_count
  BY DEF RecordSuccess, RecordFailure, DiscardOutcome, InFlightPhase, rows
<1>2. PICK t \in Task : t = Current(w)
  BY <1>1, CurrentIsTask DEF TypeOK, WorkerTypeOK
<1>3. InFlight(w, t) /\ \A v \in Worker \ {w} : ~InFlight(v, t)
  BY <1>1, <1>2 DEF InFlight, SingleSender
<1>4. \A u \in Task \ {t} : status'[u] = status[u]
  BY <1>2 DEF RecordSuccess, RecordFailure, DiscardOutcome, RecordResult, SetStatus, rows,
              TypeOK, TableTypeOK
<1>5. LetsGo(w, t)
  BY <1>1, <1>4 DEF LetsGo, NextTask, TypeOK, WorkerTypeOK, InFlightPhase
<1>6. status'[t] = "scheduled" => attempt_count[t] < MaxAttempts /\ ~Confirmed(t)
  <2>1. CASE RecordSuccess(w)
    BY <1>2, <2>1 DEF RecordSuccess, RecordResult, SetStatus, TypeOK, TableTypeOK
  <2>2. CASE RecordFailure(w)
    <3>1. status'[t] = FinalStatus(w) /\ phase[w] = "raised"
      BY <1>2, <2>2 DEF RecordFailure, RecordResult, SetStatus, TypeOK, TableTypeOK
    <3>2. seen_attempts[w] = attempt_count[t]
      BY <1>1, <1>2 DEF FlightKnown
    <3>3. ~Confirmed(t)
      BY <1>3, <3>1 DEF ContactKnown
    <3> QED
      BY <3>1, <3>2, <3>3 DEF FinalStatus, WillRetry
  <2>3. CASE DiscardOutcome(w)
    <3>1. status' = status /\ status[t] # "scheduled"
      BY <1>1, <1>2, <2>3 DEF DiscardOutcome, rows, FlightKnown
    <3> QED
      BY <3>1
  <2> QED
    BY <2>1, <2>2, <2>3
<1> QED
  BY <1>3, <1>5, <1>6, LettingGoKeeps

\* The other steps of a worker leave the rows and the contacts alone.
LEMMA LocalStepKeeps ==
  ASSUME TypeOK, DispatchInv, NEW w \in Worker,
         Poll(w) \/ SkipClaim(w) \/ Crash(w) \/ Restart(w)
  PROVE  DispatchInv'
<1>1. /\ phase'[w] \notin InFlightPhase /\ UNCHANGED <<status, attempt_count, historyVars>>
      /\ \A v \in Worker \ {w} : /\ phase'[v] = phase[v]
                                /\ task_ids'[v] = task_ids[v]
                                /\ seen_attempts'[v] = seen_attempts[v]
  <2>1. CASE Poll(w)
    BY <2>1 DEF Poll, tableVars, TypeOK, WorkerTypeOK, InFlightPhase
  <2>2. CASE SkipClaim(w)
    BY <2>2 DEF SkipClaim, NextTask, rows, TypeOK, WorkerTypeOK, InFlightPhase
  <2>3. CASE Crash(w)
    BY <2>3 DEF Crash, Reset, tableVars, TypeOK, WorkerTypeOK, InFlightPhase
  <2>4. CASE Restart(w)
    BY <2>4 DEF Restart, Reset, tableVars, TypeOK, WorkerTypeOK, InFlightPhase
  <2> QED
    BY <2>1, <2>2, <2>3, <2>4
<1>2. PICK t \in Task : TRUE
  BY TaskAssumption
<1>3. LetsGo(w, t)
  BY <1>1 DEF LetsGo
<1> QED
  BY <1>1, <1>3, LettingGoKeeps

\* Initially nothing is in flight, attempted or delivered.
LEMMA InitDispatchInv == Init => DispatchInv
<1> SUFFICES ASSUME Init PROVE DispatchInv
  OBVIOUS
<1>1. FlightKnown /\ SingleSender
  BY DEF Init, WorkerInit, FlightKnown, SingleSender, InFlight, InFlightPhase
<1>2. AttemptsLeft
  BY ColumnAssumption DEF Init, TableInit, AttemptsLeft
<1>3. ContactKnown
  BY DEF Init, WorkerInit, ContactKnown, Confirmed
<1> QED
  BY <1>1, <1>2, <1>3 DEF DispatchInv

\* Every step keeps the dispatch invariant.
LEMMA NextDispatchInv == TypeOK /\ DispatchInv /\ [Next]_vars => DispatchInv'
<1> SUFFICES ASSUME TypeOK, DispatchInv, [Next]_vars PROVE DispatchInv'
  OBVIOUS
<1>1. ASSUME NEW w \in Worker, DispatchDueTasks(w) \/ Crash(w) \/ Restart(w)
      PROVE  DispatchInv'
  BY <1>1, ClaimKeeps, AnswerKeeps, RecordKeeps, LocalStepKeeps DEF DispatchDueTasks
<1>2. CASE Tick
  <2>1. Aside
    BY <1>2 DEF Tick, Aside, tableVars, workerVars
  <2> QED
    BY <2>1, AsideKeeps
<1>3. CASE RequestNext /\ UNCHANGED <<clock, workerVars, historyVars, cancelVars>>
  BY <1>3, RequestStepsAside, AsideKeeps
<1>4. CASE CancelNext /\ UNCHANGED <<clock, workerVars, historyVars, requestVars>>
  BY <1>4, CancelStepsAside, AsideKeeps
<1>5. CASE UNCHANGED vars
  <2>1. Aside
    BY <1>5 DEF vars, Aside, tableVars, workerVars
  <2> QED
    BY <2>1, AsideKeeps
<1> QED
  BY <1>1, <1>2, <1>3, <1>4, <1>5 DEF Next, WorkerNext, Quiescent

\* The dispatch invariant holds in every reachable state.
THEOREM DispatchInvariant == Spec => []DispatchInv
<1>1. Init => TypeOK /\ DispatchInv
  BY InitTypeOK, InitDispatchInv
<1>2. (TypeOK /\ DispatchInv) /\ [Next]_vars => (TypeOK /\ DispatchInv)'
  BY NextTypeOK, NextDispatchInv
<1> QED
  BY <1>1, <1>2, PTL DEF Spec

\* No task is dispatched more often than max_attempts (dispatch.py:172).
THEOREM AttemptBound == Spec => []AttemptsBounded
<1>1. DispatchInv => AttemptsBounded
  BY DEF DispatchInv, AttemptsLeft, AttemptsBounded
<1> QED
  BY <1>1, DispatchInvariant, PTL

\* No two workers ever have a provider call open for one task
\* (dispatch.py:69-81).
THEOREM SingleSenderHolds == Spec => []SingleSender
<1>1. DispatchInv => SingleSender
  BY DEF DispatchInv
<1> QED
  BY <1>1, DispatchInvariant, PTL

\* Beyond answers that were lost, the provider accepts at most one message
\* about a task (dispatch.py:100-123).
THEOREM AtMostOneContactHolds == Spec => []AtMostOneContact
<1>1. TypeOK /\ DispatchInv => AtMostOneContact
  <2> SUFFICES ASSUME TypeOK, DispatchInv, NEW t \in Task
               PROVE  delivered[t] <= unanswered[t] + 1
    BY DEF AtMostOneContact
  <2>1. delivered[t] \in Nat /\ unanswered[t] \in Nat
    BY DEF TypeOK, WorkerTypeOK
  <2>2. delivered[t] = unanswered[t] \/ delivered[t] = unanswered[t] + 1
    BY DEF DispatchInv, ContactKnown, Confirmed
  <2> QED
    BY <2>1, <2>2
<1> QED
  BY <1>1, TypeCorrect, DispatchInvariant, PTL

=============================================================================
