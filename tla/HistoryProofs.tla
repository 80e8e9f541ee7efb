--------------------------- MODULE HistoryProofs ---------------------------
(***************************************************************************)
(* What the steps of TaskFlow may write into a row, and what follows: the  *)
(* audit trail explains the row, history is not rewritten, manual results  *)
(* stand, locks are taken in one order, and TaskFlow implements            *)
(* TaskLifecycle.                                                          *)
(***************************************************************************)
EXTENDS TaskFlowProofs, WellFoundedInduction

\* One row takes status s and error e, and an audit row says so.
RowWrite(t, s, e, event, attempt) ==
  /\ lock[t] = NoTxn
  /\ status' = [status EXCEPT ![t] = s]
  /\ last_error' = [last_error EXCEPT ![t] = e]
  /\ audit' = [audit EXCEPT ![t] = Append(audit[t], [event_type |-> event,
                                                     status |-> s,
                                                     attempt_count |-> attempt])]

Claims == \E t \in Task :
  /\ status[t] = "scheduled"
  /\ RowWrite(t, "dispatching", last_error[t], "dispatch_started", attempt_count[t] + 1)
  /\ attempt_count' = [attempt_count EXCEPT ![t] = attempt_count[t] + 1]

Succeeds == \E t \in Task :
  /\ status[t] = "dispatching"
  /\ RowWrite(t, "sent", "null", "dispatch_succeeded", 0)
  /\ UNCHANGED attempt_count

Fails == \E t \in Task :
  /\ status[t] = "dispatching"
  /\ RowWrite(t, IF attempt_count[t] < MaxAttempts THEN "scheduled" ELSE "failed",
              "error", "dispatch_failed", 0)
  /\ UNCHANGED attempt_count

Overrides == \E t \in Task, s \in {"sent", "failed"} :
  /\ status[t] \in AllowedSource
  /\ RowWrite(t, s, IF s = "sent" THEN "null" ELSE "error", "delivery_result_recorded", 0)
  /\ UNCHANGED attempt_count

Cancels == \E x \in Txn : CommitCancel(x)

LeavesRows == UNCHANGED <<status, attempt_count, last_error, audit>>

StepEffect == \/ LeavesRows \/ Cancels
              \/ /\ lock' = lock
                 /\ Claims \/ Succeeds \/ Fails \/ Overrides

-----------------------------------------------------------------------------
(***************************************************************************)
(* The effect of every step.                                               *)
(***************************************************************************)

\* A worker claims, records what came of a claim, or leaves the rows alone.
LEMMA WorkerEffect ==
  ASSUME TypeOK, DispatchInv, NEW w \in Worker,
         DispatchDueTasks(w) \/ Crash(w) \/ Restart(w)
  PROVE  lock' = lock /\ (LeavesRows \/ Claims \/ Succeeds \/ Fails)
<1>1. CASE Poll(w) \/ SkipClaim(w) \/ SendAccepted(w) \/ SendRejected(w)
           \/ SendAnswerLost(w) \/ DiscardOutcome(w) \/ Crash(w) \/ Restart(w)
  BY <1>1 DEF Poll, SkipClaim, NextTask, SendAccepted, SendRejected, SendAnswerLost,
              AnswerArrives, DiscardOutcome, Crash, Restart, Reset, tableVars, rows, LeavesRows
<1>2. CASE Claim(w)
  <2>1. PICK t \in Task : t = Current(w)
    BY <1>2, CurrentIsTask DEF Claim, AtNextTask, TypeOK
  <2>2. status[t] = "scheduled" /\ lock[t] = NoTxn /\ last_error' = last_error /\ lock' = lock
    BY <1>2, <2>1 DEF Claim, Claimable, Matches
  <2>3. last_error' = [last_error EXCEPT ![t] = last_error[t]]
    BY <2>2 DEF TypeOK, TableTypeOK
  <2> QED
    BY <1>2, <2>1, <2>2, <2>3 DEF Claim, SetStatus, AppendAudit, RowWrite, Claims
<1>3. ASSUME phase[w] \in {"accepted", "raised"} PROVE Current(w) \in Task
  BY <1>3, CurrentIsTask DEF TypeOK, WorkerTypeOK, InFlightPhase
<1>4. CASE RecordSuccess(w)
  BY <1>3, <1>4 DEF RecordSuccess, StillDispatching, Matches, NextTask, RecordResult,
                    SetStatus, AppendAudit, RowWrite, Succeeds
<1>5. CASE RecordFailure(w)
  <2>1. PICK t \in Task : t = Current(w)
    BY <1>3, <1>5 DEF RecordFailure
  <2>2. seen_attempts[w] = attempt_count[t]
    BY <1>5, <2>1 DEF RecordFailure, DispatchInv, FlightKnown, InFlightPhase
  <2>3. FinalStatus(w) = IF attempt_count[t] < MaxAttempts THEN "scheduled" ELSE "failed"
    BY <2>2 DEF FinalStatus, WillRetry
  <2>4. /\ status[t] = "dispatching" /\ lock[t] = NoTxn /\ lock' = lock
        /\ UNCHANGED attempt_count
        /\ RecordResult(t, FinalStatus(w), "error", "dispatch_failed")
    BY <1>5, <2>1 DEF RecordFailure, StillDispatching, Matches, NextTask
  <2> QED
    BY <2>3, <2>4 DEF RecordResult, SetStatus, AppendAudit, RowWrite, Fails
<1> QED
  BY <1>1, <1>2, <1>4, <1>5 DEF DispatchDueTasks

\* A request records a manual result or leaves the rows alone.
LEMMA RequestEffect ==
  ASSUME TypeOK, RowsGuarded, RequestNext
  PROVE  lock' = lock /\ (LeavesRows \/ Overrides)
<1>1. ASSUME NEW r \in Request, NEW t \in Task,
             LoadTask(r, t) \/ RejectTask(r, t) \/ ConflictResult(r)
      PROVE  lock' = lock /\ LeavesRows
  BY <1>1 DEF LoadTask, RejectTask, ConflictResult, tableVars, LeavesRows
<1>2. ASSUME NEW r \in Request, NEW s \in {"sent", "failed"}, RecordManualResult(r, s)
      PROVE  lock' = lock /\ Overrides
  <2>1. request_task[r] \in Task
    BY DEF TypeOK, RequestTypeOK
  <2>2. status[request_task[r]] \in AllowedSource /\ lock[request_task[r]] = NoTxn
    BY <1>2 DEF RecordManualResult, Unchanged, Matches, RowsGuarded
  <2> QED
    BY <1>2, <2>1, <2>2 DEF RecordManualResult, RecordResult, SetStatus, AppendAudit,
                            RowWrite, Overrides
<1>3. ASSUME NEW r \in Request, ConflictResult(r) PROVE lock' = lock /\ LeavesRows
  BY <1>3 DEF ConflictResult, tableVars, LeavesRows
<1> QED
  BY <1>1, <1>2, <1>3 DEF RequestNext, FinishRequest

\* A cancellation commits or leaves the committed rows alone.
LEMMA CancelEffect ==
  ASSUME CancelNext
  PROVE  LeavesRows \/ Cancels
<1>1. ASSUME NEW x \in Txn, SelectTasks(x) \/ UpdateRow(x) \/ SkipRow(x) \/ Rollback(x)
      PROVE  LeavesRows
  BY <1>1 DEF SelectTasks, UpdateRow, SkipRow, Rollback, tableVars, rows, LeavesRows
<1> QED
  BY <1>1 DEF CancelNext, FinishCancel, DeadlockVictim, ConnectionLost, Cancels

\* Together: what any step writes.
LEMMA StepHasEffect ==
  ASSUME TypeOK, DispatchInv, RowsGuarded, [Next]_vars
  PROVE  StepEffect
<1>1. CASE WorkerNext
  <2>1. ASSUME Tick PROVE LeavesRows
    BY <2>1 DEF Tick, tableVars, LeavesRows
  <2> QED
    BY <1>1, <2>1, WorkerEffect DEF WorkerNext, StepEffect
<1>2. CASE RequestNext
  BY <1>2, RequestEffect DEF StepEffect
<1>3. CASE CancelNext
  BY <1>3, CancelEffect DEF StepEffect
<1>4. CASE UNCHANGED vars
  BY <1>4 DEF vars, tableVars, LeavesRows, StepEffect
<1> QED
  BY <1>1, <1>2, <1>3, <1>4 DEF Next, Quiescent

-----------------------------------------------------------------------------
(***************************************************************************)
(* The guards of the rows.                                                 *)
(***************************************************************************)

\* A write to one row changes no locked row.
LEMMA LockedRowsStay ==
  ASSUME TypeOK, Claims \/ Succeeds \/ Fails \/ Overrides, NEW t \in Task, lock[t] # NoTxn
  PROVE  status'[t] = status[t]
BY DEF Claims, Succeeds, Fails, Overrides, RowWrite, TypeOK, TableTypeOK

\* What API cancellations hold stays scheduled until they commit.
LEMMA HeldIsScheduled ==
  ASSUME TypeOK, DispatchInv, RowsGuarded, [Next]_vars,
         NEW t \in Task, lock'[t] \in ApiCancel
  PROVE  status'[t] = "scheduled"
<1>1. lock'[t] # NoTxn
  BY TxnAssumption, CancelAssumption
<1>2. CASE lock' = lock
  <2>1. lock[t] # NoTxn /\ status[t] = "scheduled"
    BY <1>1, <1>2 DEF RowsGuarded
  <2>2. CASE LeavesRows
    BY <2>1, <2>2 DEF LeavesRows
  <2>3. CASE Claims \/ Succeeds \/ Fails \/ Overrides
    BY <2>1, <2>3, LockedRowsStay
  <2>4. CASE Cancels
    BY <1>1, <1>2, <2>1, <2>4 DEF Cancels, CommitCancel, Unlocked
  <2> QED
    BY <2>2, <2>3, <2>4, StepHasEffect DEF StepEffect
<1>3. CASE CancelNext
  <2>1. ASSUME NEW x \in Txn, UpdateRow(x) PROVE status'[t] = "scheduled"
    BY <2>1 DEF UpdateRow, Writable, Matches, rows, RowsGuarded, TypeOK, TableTypeOK
  <2>2. ASSUME NEW x \in Txn, CommitCancel(x) \/ Rollback(x) PROVE status'[t] = "scheduled"
    BY <1>1, <2>2 DEF CommitCancel, Rollback, Unlocked, rows, RowsGuarded
  <2>3. ASSUME NEW x \in Txn, SelectTasks(x) \/ SkipRow(x) PROVE lock' = lock
    BY <2>3 DEF SelectTasks, SkipRow, tableVars
  <2> QED
    BY <1>2, <1>3, <2>1, <2>2, <2>3 DEF CancelNext, FinishCancel, DeadlockVictim, ConnectionLost
<1>4. CASE ~CancelNext
  <2>1. CASE WorkerNext
    BY <1>2, <2>1, WorkerEffect DEF WorkerNext, Tick, tableVars
  <2>2. CASE RequestNext
    BY <1>2, <2>2, RequestEffect
  <2>3. CASE UNCHANGED vars
    BY <1>2, <2>3 DEF vars, tableVars
  <2> QED
    BY <1>4, <2>1, <2>2, <2>3 DEF Next, Quiescent
<1> QED
  BY <1>3, <1>4

\* A listing and its tail hold tasks of one account; so do the rows x holds.
OwnRows(x) ==
  /\ \A t \in Task : lock[t] = x => account_id[t] = cancel_account[x]
  /\ \A i \in 1..Len(to_cancel[x]) : account_id[to_cancel[x][i]] = cancel_account[x]

\* A cancellation lists, passes and holds rows of its own account.
LEMMA CancelKeepsOwnRows ==
  ASSUME TypeOK, NEW y \in Txn,
         SelectTasks(y) \/ FinishCancel(y) \/ ConnectionLost(y),
         \A x \in Txn : OwnRows(x)
  PROVE  \A x \in Txn : OwnRows(x)'
<1> SUFFICES ASSUME NEW x \in Txn PROVE OwnRows(x)'
  OBVIOUS
<1> USE DEF OwnRows, TypeOK, CancelTypeOK
<1>1. cancel_account' = cancel_account
  BY DEF SelectTasks, FinishCancel, ConnectionLost, UpdateRow, SkipRow, CommitCancel,
         DeadlockVictim, Rollback
<1>2. x \in Txn /\ x # NoTxn
  BY TxnAssumption
<1>3. CASE SelectTasks(y)
  <2>1. lock' = lock
    BY <1>3 DEF SelectTasks, tableVars
  <2>2. PICK s \in Listings(y) : to_cancel' = [to_cancel EXCEPT ![y] = s]
    BY <1>3 DEF SelectTasks
  <2>3. s \in SetToSeqs(ScheduledTasks(cancel_account[y]))
    BY DEF Listings, ApiListings, EventListings
  <2>4. \A i \in 1..Len(s) : account_id[s[i]] = cancel_account[y]
    <3>1. IsFiniteSet(ScheduledTasks(cancel_account[y]))
      BY TaskAssumption, FS_Subset DEF ScheduledTasks
    <3>2. Cardinality(ScheduledTasks(cancel_account[y])) \in Nat
      BY <3>1, FS_CardinalityType
    <3>3. s \in [1..Cardinality(ScheduledTasks(cancel_account[y]))
                   -> ScheduledTasks(cancel_account[y])]
      BY <2>3 DEF SetToSeqs
    <3> QED
      BY <3>2, <3>3 DEF ScheduledTasks
  <2> QED
    BY <1>1, <2>1, <2>2, <2>4
<1>4. ASSUME AtRow(y)
      PROVE  /\ NextRow(y) \in Task /\ account_id[NextRow(y)] = cancel_account[y]
             /\ \A i \in 1..Len(Tail(to_cancel[y])) :
                  account_id[Tail(to_cancel[y])[i]] = cancel_account[y]
  <2>1. to_cancel[y] \in Seq(Task) /\ to_cancel[y] # <<>>
    BY <1>4 DEF AtRow
  <2>2. /\ Len(Tail(to_cancel[y])) = Len(to_cancel[y]) - 1
        /\ \A i \in 1..Len(Tail(to_cancel[y])) : Tail(to_cancel[y])[i] = to_cancel[y][i+1]
        /\ Head(to_cancel[y]) = to_cancel[y][1] /\ Len(to_cancel[y]) \in Nat \ {0}
    BY <2>1, HeadTailProperties
  <2>3. \A i \in 1..Len(to_cancel[y]) : account_id[to_cancel[y][i]] = cancel_account[y]
    OBVIOUS
  <2>4. NextRow(y) \in Task
    BY <2>1, HeadTailProperties DEF NextRow
  <2> QED
    BY <2>2, <2>3, <2>4 DEF NextRow
<1>5. CASE UpdateRow(y)
  <2>1. lock' = [lock EXCEPT ![NextRow(y)] = y] /\ AtRow(y)
        /\ to_cancel' = [to_cancel EXCEPT ![y] = Tail(to_cancel[y])]
    BY <1>5 DEF UpdateRow, PassRow
  <2>2. \A t \in Task : lock'[t] = x => account_id[t] = cancel_account[x]
    BY <1>4, <2>1 DEF TableTypeOK
  <2>3. \A i \in 1..Len(to_cancel'[x]) : account_id[to_cancel'[x][i]] = cancel_account[x]
    BY <1>4, <2>1
  <2> QED
    BY <1>1, <2>2, <2>3
<1>6. CASE SkipRow(y)
  <2>1. AtRow(y) /\ lock' = lock /\ to_cancel' = [to_cancel EXCEPT ![y] = Tail(to_cancel[y])]
    BY <1>6 DEF SkipRow, PassRow, tableVars
  <2>2. \A i \in 1..Len(to_cancel'[x]) : account_id[to_cancel'[x][i]] = cancel_account[x]
    BY <1>4, <2>1
  <2> QED
    BY <1>1, <2>1, <2>2
<1>7. CASE CommitCancel(y)
  BY <1>1, <1>2, <1>7 DEF CommitCancel, Unlocked
<1>8. CASE Rollback(y)
  <2>1. \A t \in Task : lock'[t] = x => account_id[t] = cancel_account[x]
    BY <1>2, <1>8 DEF Rollback, Unlocked
  <2>2. Len(<<>>) = 0
    OBVIOUS
  <2>3. to_cancel' = [to_cancel EXCEPT ![y] = <<>>]
    BY <1>8 DEF Rollback
  <2>4. \A i \in 1..Len(to_cancel'[x]) : account_id[to_cancel'[x][i]] = cancel_account[x]
    BY <2>2, <2>3
  <2> QED
    BY <1>1, <2>1, <2>4
<1> QED
  BY <1>3, <1>5, <1>6, <1>7, <1>8 DEF FinishCancel, DeadlockVictim, ConnectionLost

\* A request that is in progress loaded an allowed status.
LoadedAllowed == \A r \in Request : answer[r] = "loaded" => previous_status[r] \in AllowedSource

LEMMA RequestKeepsLoadedAllowed ==
  ASSUME TypeOK, LoadedAllowed, RequestNext
  PROVE  LoadedAllowed'
<1> USE DEF TypeOK, RequestTypeOK, LoadedAllowed
<1>1. ASSUME NEW r \in Request, NEW t \in Task, LoadTask(r, t) PROVE LoadedAllowed'
  BY <1>1 DEF LoadTask
<1>2. ASSUME NEW r \in Request, NEW t \in Task, RejectTask(r, t) PROVE LoadedAllowed'
  BY <1>2 DEF RejectTask
<1>3. ASSUME NEW r \in Request, FinishRequest(r) PROVE LoadedAllowed'
  BY <1>3 DEF FinishRequest, RecordManualResult, ConflictResult
<1> QED
  BY <1>1, <1>2, <1>3 DEF RequestNext

\* Initially nothing is locked, listed or loaded.
LEMMA InitRowsGuarded == Init => RowsGuarded
<1> SUFFICES ASSUME Init PROVE RowsGuarded
  OBVIOUS
<1>1. \A t \in Task : lock[t] = NoTxn
  BY DEF Init, TableInit
<1>2. \A t \in Task : lock[t] \notin Txn
  BY <1>1, TxnAssumption
<1>3. ASSUME NEW x \in Txn PROVE Len(to_cancel[x]) = 0
  BY DEF Init, CancelInit
<1>4. \A r \in Request : answer[r] # "loaded"
  BY DEF Init, RequestInit
<1> QED
  BY <1>2, <1>3, <1>4, CancelAssumption DEF RowsGuarded

\* Every step keeps the rows guarded.
LEMMA NextRowsGuarded ==
  ASSUME TypeOK, DispatchInv, RowsGuarded, [Next]_vars
  PROVE  RowsGuarded'
<1>1. \A t \in Task : lock'[t] \in ApiCancel => status'[t] = "scheduled"
  BY HeldIsScheduled
<1>2. (\A x \in Txn : OwnRows(x)) /\ LoadedAllowed
  BY DEF RowsGuarded, OwnRows, LoadedAllowed
<1>3. CASE WorkerNext /\ UNCHANGED <<requestVars, cancelVars>>
  <2>1. lock' = lock
    BY <1>3, WorkerEffect DEF WorkerNext, Tick, tableVars
  <2> QED
    BY <1>1, <1>3, <2>1 DEF RowsGuarded, requestVars, cancelVars
<1>4. CASE RequestNext /\ UNCHANGED <<clock, workerVars, historyVars, cancelVars>>
  <2>1. lock' = lock
    BY <1>4, RequestEffect
  <2>2. LoadedAllowed'
    BY <1>2, <1>4, RequestKeepsLoadedAllowed
  <2> QED
    BY <1>1, <1>4, <2>1, <2>2 DEF RowsGuarded, LoadedAllowed, cancelVars
<1>5. CASE CancelNext /\ UNCHANGED <<clock, workerVars, historyVars, requestVars>>
  <2>1. \A x \in Txn : OwnRows(x)'
    BY <1>2, <1>5, CancelKeepsOwnRows DEF CancelNext
  <2> QED
    BY <1>1, <1>5, <2>1 DEF RowsGuarded, OwnRows, requestVars
<1>6. CASE UNCHANGED vars
  BY <1>6 DEF vars, tableVars, requestVars, cancelVars, RowsGuarded
<1> QED
  BY <1>3, <1>4, <1>5, <1>6 DEF Next, Quiescent

\* In every reachable state API cancellations hold scheduled rows of their own
\* account and requests in progress loaded an allowed status
\* (operational_outreach.py:56, 114-131; planner.py:374-378).
THEOREM RowsGuardedHolds == Spec => []RowsGuarded
<1>1. Init => TypeOK /\ DispatchInv /\ RowsGuarded
  BY InitTypeOK, InitDispatchInv, InitRowsGuarded
<1>2. (TypeOK /\ DispatchInv /\ RowsGuarded) /\ [Next]_vars
        => (TypeOK /\ DispatchInv /\ RowsGuarded)'
  BY NextTypeOK, NextDispatchInv, NextRowsGuarded
<1> QED
  BY <1>1, <1>2, PTL DEF Spec

-----------------------------------------------------------------------------
(***************************************************************************)
(* The audit trail.                                                        *)
(***************************************************************************)

\* Appending a row makes it the last row.
LEMMA AppendedIsLast ==
  ASSUME NEW q \in Seq(AuditRow), NEW row \in AuditRow
  PROVE  /\ Append(q, row) # <<>>
         /\ Append(q, row)[Len(Append(q, row))] = row
OBVIOUS

\* A write to row t keeps the audit trail true if its event explains it.
LEMMA WriteKeepsAudit ==
  ASSUME TypeOK, AuditExplainsRow, NEW t \in Task, NEW s \in Status,
         NEW e \in {"null", "error"}, NEW event \in EventType, NEW n \in Nat,
         RowWrite(t, s, e, event, n), Explains(event, s, e),
         \A u \in Task \ {t} : attempt_count'[u] = attempt_count[u]
  PROVE  AuditExplainsRow'
<1> DEFINE row == [event_type |-> event, status |-> s, attempt_count |-> n]
<1>1. row \in AuditRow
  BY DEF AuditRow
<1>2. audit' = [audit EXCEPT ![t] = Append(audit[t], row)]
  BY DEF RowWrite
<1>3. row.event_type = event /\ row.status = s
  OBVIOUS
<1> HIDE DEF row
<1>4. /\ audit'[t] # <<>> /\ audit'[t][Len(audit'[t])] = row
  BY <1>1, <1>2, AppendedIsLast DEF TypeOK, TableTypeOK
<1>5. status'[t] = s /\ last_error'[t] = e
  BY DEF RowWrite, TypeOK, TableTypeOK
<1>6. \A u \in Task \ {t} : /\ audit'[u] = audit[u] /\ status'[u] = status[u]
                           /\ last_error'[u] = last_error[u]
  BY <1>2 DEF RowWrite, TypeOK, TableTypeOK
<1>7. status'[t] = LastRow(t)'.status /\ Explains(LastRow(t)'.event_type, status'[t], last_error'[t])
  BY <1>3, <1>4, <1>5 DEF LastRow
<1>8. \A u \in Task \ {t} : LastRow(u)' = LastRow(u)
  BY <1>6 DEF LastRow
<1> SUFFICES ASSUME NEW u \in Task
             PROVE  IF audit'[u] = <<>>
                    THEN status'[u] = "scheduled" /\ attempt_count'[u] = 0 /\ last_error'[u] = "null"
                    ELSE /\ status'[u] = LastRow(u)'.status
                         /\ Explains(LastRow(u)'.event_type, status'[u], last_error'[u])
  BY DEF AuditExplainsRow, Explains
<1>9. CASE u = t
  BY <1>4, <1>7, <1>9
<1>10. CASE u # t
  BY <1>6, <1>8, <1>10 DEF AuditExplainsRow
<1> QED
  BY <1>9, <1>10

\* A commit appends outreach_cancelled to each row it cancels.
LEMMA CommitKeepsAudit ==
  ASSUME TypeOK, AuditExplainsRow, NEW x \in Txn, CommitCancel(x)
  PROVE  AuditExplainsRow'
<1> DEFINE row == [event_type |-> "outreach_cancelled", status |-> "cancelled",
                   attempt_count |-> 0]
<1>1. row \in AuditRow
  BY DEF AuditRow, EventType, Status
<1>2. /\ audit' = [t \in Task |-> IF lock[t] = x THEN Append(audit[t], row) ELSE audit[t]]
      /\ status' = [t \in Task |-> IF lock[t] = x THEN "cancelled" ELSE status[t]]
      /\ UNCHANGED <<attempt_count, last_error>>
  BY DEF CommitCancel
<1>3. row.event_type = "outreach_cancelled" /\ row.status = "cancelled"
  OBVIOUS
<1> HIDE DEF row
<1> SUFFICES ASSUME NEW u \in Task
             PROVE  IF audit'[u] = <<>>
                    THEN status'[u] = "scheduled" /\ attempt_count'[u] = 0 /\ last_error'[u] = "null"
                    ELSE /\ status'[u] = LastRow(u)'.status
                         /\ Explains(LastRow(u)'.event_type, status'[u], last_error'[u])
  BY DEF AuditExplainsRow, Explains
<1>4. CASE lock[u] = x
  <2>1. audit'[u] # <<>> /\ LastRow(u)' = row
    BY <1>1, <1>2, <1>4, AppendedIsLast DEF TypeOK, TableTypeOK, LastRow
  <2>2. status'[u] = "cancelled"
    BY <1>2, <1>4
  <2> QED
    BY <1>3, <2>1, <2>2 DEF Explains
<1>5. CASE lock[u] # x
  <2>1. audit'[u] = audit[u] /\ status'[u] = status[u] /\ LastRow(u)' = LastRow(u)
    BY <1>2, <1>5 DEF LastRow
  <2> QED
    BY <1>2, <2>1 DEF AuditExplainsRow
<1> QED
  BY <1>4, <1>5

\* Every step keeps the audit trail true.
LEMMA NextAuditExplainsRow ==
  ASSUME TypeOK, DispatchInv, RowsGuarded, AuditExplainsRow, [Next]_vars
  PROVE  AuditExplainsRow'
<1>1. CASE LeavesRows
  BY <1>1 DEF LeavesRows, AuditExplainsRow, LastRow
<1>2. CASE Cancels
  BY <1>2, CommitKeepsAudit DEF Cancels
<1> USE DEF Explains, Status, EventType
<1>3. CASE Claims
  <2>1. PICK t \in Task :
          /\ RowWrite(t, "dispatching", last_error[t], "dispatch_started", attempt_count[t] + 1)
          /\ attempt_count' = [attempt_count EXCEPT ![t] = attempt_count[t] + 1]
    BY <1>3 DEF Claims
  <2>2. /\ last_error[t] \in {"null", "error"} /\ attempt_count[t] + 1 \in Nat
        /\ \A u \in Task \ {t} : attempt_count'[u] = attempt_count[u]
    BY <2>1 DEF TypeOK, TableTypeOK
  <2>3. Explains("dispatch_started", "dispatching", last_error[t])
    OBVIOUS
  <2> QED
    BY <2>1, <2>2, <2>3, WriteKeepsAudit
<1>4. CASE Succeeds
  <2>1. PICK t \in Task : /\ RowWrite(t, "sent", "null", "dispatch_succeeded", 0)
                          /\ attempt_count' = attempt_count
    BY <1>4 DEF Succeeds
  <2>2. Explains("dispatch_succeeded", "sent", "null")
    OBVIOUS
  <2> QED
    BY <2>1, <2>2, WriteKeepsAudit
<1>5. CASE Fails
  <2>1. PICK t \in Task, s \in {"scheduled", "failed"} :
          RowWrite(t, s, "error", "dispatch_failed", 0) /\ attempt_count' = attempt_count
    BY <1>5 DEF Fails
  <2>2. Explains("dispatch_failed", s, "error")
    OBVIOUS
  <2> QED
    BY <2>1, <2>2, WriteKeepsAudit
<1>6. CASE Overrides
  <2>1. PICK t \in Task, s \in {"sent", "failed"} :
          /\ RowWrite(t, s, IF s = "sent" THEN "null" ELSE "error", "delivery_result_recorded", 0)
          /\ attempt_count' = attempt_count
    BY <1>6 DEF Overrides
  <2>2. PICK e \in {"null", "error"} : e = IF s = "sent" THEN "null" ELSE "error"
    OBVIOUS
  <2>3. Explains("delivery_result_recorded", s, e)
    BY <2>2
  <2>4. RowWrite(t, s, e, "delivery_result_recorded", 0)
    BY <2>1, <2>2
  <2> QED
    BY <2>1, <2>3, <2>4, WriteKeepsAudit
<1> QED
  BY <1>1, <1>2, <1>3, <1>4, <1>5, <1>6, StepHasEffect DEF StepEffect

\* The conjunction the remaining theorems rest on.
HistoryInv == TypeOK /\ DispatchInv /\ RowsGuarded /\ AuditExplainsRow

\* HistoryInv is inductive.
LEMMA HistoryInvariant == Spec => []HistoryInv
<1>1. Init => HistoryInv
  <2>1. Init => AuditExplainsRow
    BY DEF Init, TableInit, AuditExplainsRow
  <2> QED
    BY <2>1, InitTypeOK, InitDispatchInv, InitRowsGuarded DEF HistoryInv
<1>2. HistoryInv /\ [Next]_vars => HistoryInv'
  BY NextTypeOK, NextDispatchInv, NextRowsGuarded, NextAuditExplainsRow DEF HistoryInv
<1> QED
  BY <1>1, <1>2, PTL DEF Spec

\* In every reachable state, blind cancellations included, the last audit row
\* of a task accounts for its status and its error (audit_log.py:21-26).
THEOREM AuditExplains == Spec => []AuditExplainsRow
<1>1. HistoryInv => AuditExplainsRow
  BY DEF HistoryInv
<1> QED
  BY <1>1, HistoryInvariant, PTL

-----------------------------------------------------------------------------
(***************************************************************************)
(* The numbers of the attempts.                                            *)
(***************************************************************************)

\* What AuditNumbersAttempts says of one task.
Numbered(t) ==
  /\ Cardinality(Starts(t, Len(audit[t]))) = attempt_count[t]
  /\ \A n \in Starts(t, Len(audit[t])) : audit[t][n].attempt_count = Cardinality(Starts(t, n))

\* The starts among some rows can be counted.
LEMMA StartsCounted ==
  ASSUME NEW t \in Task, NEW n \in Nat
  PROVE  /\ IsFiniteSet(Starts(t, n)) /\ Cardinality(Starts(t, n)) \in Nat
         /\ \A m \in Starts(t, n) : m \in 1..n
<1>1. IsFiniteSet(1..n) /\ Starts(t, n) \subseteq 1..n
  BY FS_Interval DEF Starts
<1> QED
  BY <1>1, FS_Subset, FS_CardinalityType

\* A row that is appended is counted if it starts an attempt, and the rows
\* before it are counted as they were.
LEMMA RowAppended ==
  ASSUME TypeOK, NEW t \in Task, NEW row \in AuditRow, audit'[t] = Append(audit[t], row)
  PROVE  \E length \in Nat :
           /\ length = Len(audit[t]) /\ Len(audit'[t]) = length + 1
           /\ audit'[t][length + 1] = row
           /\ \A n \in 1..length : audit'[t][n] = audit[t][n]
           /\ \A n \in 0..length : Starts(t, n)' = Starts(t, n)
           /\ Starts(t, length + 1)' = IF row.event_type = "dispatch_started"
                                       THEN Starts(t, length) \cup {length + 1}
                                       ELSE Starts(t, length)
<1>1. audit[t] \in Seq(AuditRow)
  BY DEF TypeOK, TableTypeOK
<1>2. PICK length \in Nat : length = Len(audit[t])
  BY <1>1, LenProperties
<1>3. /\ Len(audit'[t]) = length + 1 /\ audit'[t][length + 1] = row
      /\ \A n \in 1..length : audit'[t][n] = audit[t][n]
  BY <1>1, <1>2, AppendProperties
<1>4. \A n \in 0..length : Starts(t, n)' = Starts(t, n)
  BY <1>3 DEF Starts
<1>5. 1..(length + 1) = (1..length) \cup {length + 1}
  OBVIOUS
<1>6. Starts(t, length + 1)' = IF row.event_type = "dispatch_started"
                               THEN Starts(t, length) \cup {length + 1}
                               ELSE Starts(t, length)
  BY <1>3, <1>5 DEF Starts
<1> WITNESS length \in Nat
<1> QED
  BY <1>2, <1>3, <1>4, <1>6

\* The row of a claim carries the next number, any other row none.
LEMMA AppendKeepsNumbers ==
  ASSUME TypeOK, NEW t \in Task, Numbered(t), NEW row \in AuditRow,
         audit'[t] = Append(audit[t], row),
         \/ /\ row.event_type = "dispatch_started"
            /\ row.attempt_count = attempt_count[t] + 1
            /\ attempt_count'[t] = attempt_count[t] + 1
         \/ row.event_type # "dispatch_started" /\ attempt_count'[t] = attempt_count[t]
  PROVE  Numbered(t)'
<1>1. PICK length \in Nat :
        /\ length = Len(audit[t]) /\ Len(audit'[t]) = length + 1
        /\ audit'[t][length + 1] = row
        /\ \A n \in 1..length : audit'[t][n] = audit[t][n]
        /\ \A n \in 0..length : Starts(t, n)' = Starts(t, n)
        /\ Starts(t, length + 1)' = IF row.event_type = "dispatch_started"
                                    THEN Starts(t, length) \cup {length + 1}
                                    ELSE Starts(t, length)
  BY RowAppended
<1>2. /\ Cardinality(Starts(t, length)) = attempt_count[t]
      /\ \A n \in Starts(t, length) : audit[t][n].attempt_count = Cardinality(Starts(t, n))
      /\ IsFiniteSet(Starts(t, length)) /\ \A n \in Starts(t, length) : n \in 1..length
  BY <1>1, StartsCounted DEF Numbered
<1>3. \A n \in Starts(t, length) : /\ n \in 0..length
                                   /\ audit'[t][n].attempt_count = Cardinality(Starts(t, n)')
  BY <1>1, <1>2
<1>4. Starts(t, Len(audit[t]))' = Starts(t, length + 1)'
  BY <1>1 DEF Starts
<1>5. CASE row.event_type # "dispatch_started"
  BY <1>1, <1>2, <1>3, <1>4, <1>5 DEF Numbered
<1>6. CASE row.event_type = "dispatch_started"
  <2>1. Starts(t, length + 1)' = Starts(t, length) \cup {length + 1}
    BY <1>1, <1>6
  <2>2. length + 1 \notin Starts(t, length)
    BY <1>1, <1>2
  <2>3. Cardinality(Starts(t, length + 1)') = attempt_count[t] + 1
    BY <1>2, <2>1, <2>2, FS_AddElement
  <2>4. attempt_count'[t] = attempt_count[t] + 1 /\ row.attempt_count = attempt_count[t] + 1
    BY <1>6
  <2>5. \A n \in Starts(t, length + 1)' : audit'[t][n].attempt_count = Cardinality(Starts(t, n)')
    BY <1>1, <1>3, <2>1, <2>3, <2>4
  <2> QED
    BY <1>4, <2>3, <2>4, <2>5 DEF Numbered
<1> QED
  BY <1>5, <1>6

\* A write to one row, with its audit row, keeps the numbers of all.
LEMMA WriteKeepsNumbers ==
  ASSUME TypeOK, AuditNumbersAttempts, NEW t \in Task, NEW s \in Status, NEW e,
         NEW event \in EventType, NEW n \in Nat, RowWrite(t, s, e, event, n),
         \/ /\ event = "dispatch_started" /\ n = attempt_count[t] + 1
            /\ attempt_count' = [attempt_count EXCEPT ![t] = attempt_count[t] + 1]
         \/ event # "dispatch_started" /\ attempt_count' = attempt_count
  PROVE  AuditNumbersAttempts'
<1> DEFINE row == [event_type |-> event, status |-> s, attempt_count |-> n]
<1>1. /\ row \in AuditRow /\ row.event_type = event /\ row.attempt_count = n
      /\ audit' = [audit EXCEPT ![t] = Append(audit[t], row)]
  BY DEF AuditRow, RowWrite
<1> HIDE DEF row
<1>2. Numbered(t)'
  <2>1. audit'[t] = Append(audit[t], row) /\ Numbered(t)
    BY <1>1 DEF TypeOK, TableTypeOK, AuditNumbersAttempts, Numbered
  <2>2. \/ /\ row.event_type = "dispatch_started"
           /\ row.attempt_count = attempt_count[t] + 1
           /\ attempt_count'[t] = attempt_count[t] + 1
        \/ row.event_type # "dispatch_started" /\ attempt_count'[t] = attempt_count[t]
    BY <1>1 DEF TypeOK, TableTypeOK
  <2> QED
    BY <1>1, <2>1, <2>2, AppendKeepsNumbers
<1>3. \A u \in Task \ {t} : audit'[u] = audit[u] /\ attempt_count'[u] = attempt_count[u]
  BY <1>1 DEF TypeOK, TableTypeOK
<1>4. \A u \in Task \ {t} : Numbered(u)'
  BY <1>3 DEF AuditNumbersAttempts, Numbered, Starts
<1> QED
  BY <1>2, <1>4 DEF AuditNumbersAttempts, Numbered

\* Every step keeps the numbers.
LEMMA NextNumbersAttempts ==
  ASSUME TypeOK, DispatchInv, RowsGuarded, AuditNumbersAttempts, [Next]_vars
  PROVE  AuditNumbersAttempts'
<1>1. CASE LeavesRows
  BY <1>1 DEF LeavesRows, AuditNumbersAttempts, Starts
<1>2. CASE Cancels
  <2>1. PICK x \in Txn : CommitCancel(x)
    BY <1>2 DEF Cancels
  <2> DEFINE row == [event_type |-> "outreach_cancelled", status |-> "cancelled",
                     attempt_count |-> 0]
  <2>2. row \in AuditRow /\ row.event_type # "dispatch_started"
    BY DEF AuditRow, EventType, Status
  <2>3. /\ audit' = [t \in Task |-> IF lock[t] = x THEN Append(audit[t], row) ELSE audit[t]]
        /\ attempt_count' = attempt_count
    BY <2>1 DEF CommitCancel
  <2> HIDE DEF row
  <2> SUFFICES ASSUME NEW t \in Task PROVE Numbered(t)'
    BY DEF AuditNumbersAttempts, Numbered
  <2>4. Numbered(t)
    BY DEF AuditNumbersAttempts, Numbered
  <2>5. CASE lock[t] = x
    BY <2>2, <2>3, <2>4, <2>5, AppendKeepsNumbers
  <2>6. CASE lock[t] # x
    BY <2>3, <2>4, <2>6 DEF Numbered, Starts
  <2> QED
    BY <2>5, <2>6
<1> USE DEF Status, EventType
<1>3. CASE Claims
  <2>1. PICK t \in Task :
          /\ RowWrite(t, "dispatching", last_error[t], "dispatch_started", attempt_count[t] + 1)
          /\ attempt_count' = [attempt_count EXCEPT ![t] = attempt_count[t] + 1]
    BY <1>3 DEF Claims
  <2>2. attempt_count[t] + 1 \in Nat
    BY DEF TypeOK, TableTypeOK
  <2> QED
    BY <2>1, <2>2, WriteKeepsNumbers
<1>4. CASE Succeeds
  <2>1. PICK t \in Task : /\ RowWrite(t, "sent", "null", "dispatch_succeeded", 0)
                          /\ attempt_count' = attempt_count
    BY <1>4 DEF Succeeds
  <2> QED
    BY <2>1, WriteKeepsNumbers
<1>5. CASE Fails
  <2>1. PICK t \in Task, s \in {"scheduled", "failed"} :
          RowWrite(t, s, "error", "dispatch_failed", 0) /\ attempt_count' = attempt_count
    BY <1>5 DEF Fails
  <2> QED
    BY <2>1, WriteKeepsNumbers
<1>6. CASE Overrides
  <2>1. PICK t \in Task, s \in {"sent", "failed"} :
          /\ RowWrite(t, s, IF s = "sent" THEN "null" ELSE "error", "delivery_result_recorded", 0)
          /\ attempt_count' = attempt_count
    BY <1>6 DEF Overrides
  <2> QED
    BY <2>1, WriteKeepsNumbers
<1> QED
  BY <1>1, <1>2, <1>3, <1>4, <1>5, <1>6, StepHasEffect DEF StepEffect

NumbersInv == HistoryInv /\ AuditNumbersAttempts

LEMMA NumbersInvariant == Spec => []NumbersInv
<1>1. Init => HistoryInv
  <2>1. Init => AuditExplainsRow
    BY DEF Init, TableInit, AuditExplainsRow
  <2> QED
    BY <2>1, InitTypeOK, InitDispatchInv, InitRowsGuarded DEF HistoryInv
<1>2. Init => AuditNumbersAttempts
  <2> SUFFICES ASSUME Init, NEW t \in Task PROVE Numbered(t)
    BY DEF AuditNumbersAttempts, Numbered
  <2>1. audit[t] = <<>> /\ attempt_count[t] = 0
    BY DEF Init, TableInit
  <2>2. Len(audit[t]) = 0 /\ Starts(t, 0) = {}
    BY <2>1 DEF Starts
  <2> QED
    BY <2>1, <2>2, FS_EmptySet DEF Numbered
<1>3. NumbersInv /\ [Next]_vars => NumbersInv'
  BY NextTypeOK, NextDispatchInv, NextRowsGuarded, NextAuditExplainsRow, NextNumbersAttempts
     DEF HistoryInv, NumbersInv
<1> QED
  BY <1>1, <1>2, <1>3, PTL DEF Spec, NumbersInv

\* In every reachable state the dispatch_started rows of a task number its
\* attempts without a gap, whoever claimed them (dispatch.py:69-97).
THEOREM AttemptsNumbered == Spec => []AuditNumbersAttempts
BY NumbersInvariant, PTL DEF NumbersInv

-----------------------------------------------------------------------------
(***************************************************************************)
(* The attempts and the contacts.  An attempt is counted, with its audit   *)
(* row, before its call is opened, so whoever has the call open leaves     *)
(* room for one more contact.                                              *)
(***************************************************************************)
Sending(w, t) == phase[w] = "sending" /\ Current(w) = t

CountedFirst ==
  \A t \in Task : /\ delivered[t] <= attempt_count[t]
                  /\ \A w \in Worker : Sending(w, t) => delivered[t] < attempt_count[t]

\* A step that opens no call, makes no contact and counts no attempt keeps it.
NoNewCall == /\ UNCHANGED <<attempt_count, delivered>>
             /\ \A w \in Worker : phase'[w] = "sending" =>
                  phase[w] = "sending" /\ Current(w)' = Current(w)

LEMMA NoNewCallKeeps ==
  ASSUME CountedFirst, NoNewCall
  PROVE  CountedFirst'
BY DEF CountedFirst, NoNewCall, Sending

\* Only the claim and the provider's acceptance are more than that.
LEMMA CallSteps ==
  ASSUME TypeOK, [Next]_vars
  PROVE  \/ NoNewCall
         \/ \E w \in Worker : Claim(w) \/ SendAccepted(w) \/ SendAnswerLost(w)
<1> USE DEF TypeOK, WorkerTypeOK, tableVars, rows, workerVars, historyVars
<1>1. ASSUME NEW w \in Worker, NextTask(w), attempt_count' = attempt_count PROVE NoNewCall
  BY <1>1 DEF NextTask, NoNewCall, Current
<1>2. ASSUME NEW w \in Worker, NEW to \in {"pass", "down"}, Reset(w, to) PROVE NoNewCall
  BY <1>2 DEF Reset, NoNewCall, Current
<1>3. ASSUME NEW w \in Worker, Poll(w) PROVE NoNewCall
  BY <1>3 DEF Poll, NoNewCall, Current
<1>4. ASSUME NEW w \in Worker, SendRejected(w) PROVE NoNewCall
  BY <1>4 DEF SendRejected, AnswerArrives, NoNewCall, Current
<1>5. ASSUME NEW w \in Worker,
             SkipClaim(w) \/ RecordSuccess(w) \/ RecordFailure(w) \/ DiscardOutcome(w)
      PROVE  NoNewCall
  BY <1>1, <1>5 DEF SkipClaim, RecordSuccess, RecordFailure, DiscardOutcome
<1>6. CASE Tick
  BY <1>6 DEF Tick, NoNewCall, Current
<1>7. CASE Aside \/ UNCHANGED vars
  BY <1>7 DEF Aside, vars, NoNewCall, Current
<1> QED
  BY <1>2, <1>3, <1>4, <1>5, <1>6, <1>7, RequestStepsAside, CancelStepsAside
     DEF Next, Quiescent, WorkerNext, DispatchDueTasks, Crash, Restart

\* The claim counts before the call; the worker whose call is accepted has it
\* open alone.
LEMMA NextCountedFirst ==
  ASSUME TypeOK, DispatchInv, CountedFirst, [Next]_vars
  PROVE  CountedFirst'
<1> USE DEF TypeOK, TableTypeOK, WorkerTypeOK
<1>1. ASSUME NEW w \in Worker, Claim(w) PROVE CountedFirst'
  <2>1. task_ids[w] # <<>> /\ task_ids' = task_ids
    BY <1>1 DEF Claim, AtNextTask
  <2>2. PICK t \in Task : t = Current(w)
    BY <2>1, CurrentIsTask
  <2>3. /\ status[t] = "scheduled" /\ delivered' = delivered
        /\ attempt_count' = [attempt_count EXCEPT ![t] = attempt_count[t] + 1]
        /\ phase' = [phase EXCEPT ![w] = "sending"]
    BY <1>1, <2>2 DEF Claim, Claimable, Matches, historyVars
  <2>4. \A v \in Worker : Current(v)' = Current(v)
    BY <2>1 DEF Current
  <2>5. \A v \in Worker : phase[v] = "sending" => Current(v) # t
    BY <2>3 DEF DispatchInv, FlightKnown, InFlightPhase
  <2> QED
    BY <2>2, <2>3, <2>4, <2>5 DEF CountedFirst, Sending
<1>2. ASSUME NEW w \in Worker, SendAccepted(w) \/ SendAnswerLost(w) PROVE CountedFirst'
  <2>1. /\ phase[w] = "sending" /\ UNCHANGED <<attempt_count, task_ids>>
        /\ phase'[w] # "sending" /\ \A v \in Worker \ {w} : phase'[v] = phase[v]
    BY <1>2 DEF SendAccepted, SendAnswerLost, AnswerArrives, tableVars, rows
  <2>2. PICK t \in Task : t = Current(w)
    BY <2>1, CurrentIsTask DEF InFlightPhase
  <2>3. delivered' = [delivered EXCEPT ![t] = delivered[t] + 1]
    BY <1>2, <2>2 DEF SendAccepted, SendAnswerLost
  <2>4. \A v \in Worker : Current(v)' = Current(v)
    BY <2>1 DEF Current
  <2>5. \A v \in Worker \ {w} : phase[v] = "sending" => Current(v) # t
    BY <2>1, <2>2 DEF DispatchInv, SingleSender, InFlight, InFlightPhase
  <2>6. delivered[t] < attempt_count[t]
    BY <2>1, <2>2 DEF CountedFirst, Sending
  <2>7. \A u \in Task : delivered'[u] <= attempt_count[u]
    BY <2>2, <2>3, <2>6 DEF CountedFirst
  <2>8. ASSUME NEW u \in Task, NEW v \in Worker, Sending(v, u)'
        PROVE  delivered'[u] < attempt_count[u]
    <3>1. v # w /\ phase[v] = "sending" /\ Current(v) = u
      BY <2>1, <2>4, <2>8 DEF Sending
    <3>2. u # t /\ delivered[u] < attempt_count[u]
      BY <2>5, <3>1 DEF CountedFirst, Sending
    <3> QED
      BY <2>3, <3>2
  <2> QED
    BY <2>1, <2>7, <2>8 DEF CountedFirst
<1> QED
  BY <1>1, <1>2, CallSteps, NoNewCallKeeps

\* The audit trail never has fewer attempts than the provider has messages:
\* the row that tells of a contact is committed before the contact is made,
\* and a crash or a lost answer later takes no row back (dispatch.py:83-107).
THEOREM ContactsAuditedHolds == Spec => []ContactsAudited
<1>1. Init => CountedFirst
  BY DEF Init, TableInit, WorkerInit, CountedFirst, Sending
<1>2. NumbersInv /\ CountedFirst /\ [Next]_vars => CountedFirst'
  BY NextCountedFirst DEF NumbersInv, HistoryInv
<1>3. NumbersInv /\ CountedFirst => ContactsAudited
  BY DEF NumbersInv, HistoryInv, AuditNumbersAttempts, CountedFirst, ContactsAudited
<1> QED
  BY <1>1, <1>2, <1>3, NumbersInvariant, PTL DEF Spec

-----------------------------------------------------------------------------
(***************************************************************************)
(* What steps may never do.                                                *)
(***************************************************************************)

\* A cancelled task stays cancelled and is never attempted again: each write
\* but a commit's finds the task scheduled, dispatching or failed
\* (dispatch.py:69-81, 136-145, 177-190; operational_outreach.py:70-81).
THEOREM CancelledFinal == Spec => CancelledIsFinal
<1>1. ASSUME HistoryInv, [Next]_vars, NEW t \in Task, status[t] = "cancelled"
      PROVE  status'[t] = "cancelled" /\ attempt_count'[t] = attempt_count[t]
  <2> USE DEF HistoryInv, TypeOK, TableTypeOK
  <2>1. CASE LeavesRows
    BY <1>1, <2>1 DEF LeavesRows
  <2>2. CASE Cancels
    BY <1>1, <2>2 DEF Cancels, CommitCancel
  <2>3. CASE Claims
    BY <1>1, <2>3 DEF Claims, RowWrite
  <2>4. CASE Succeeds \/ Fails
    BY <1>1, <2>4 DEF Succeeds, Fails, RowWrite
  <2>5. CASE Overrides
    BY <1>1, <2>5 DEF Overrides, RowWrite, AllowedSource
  <2> QED
    BY <1>1, <2>1, <2>2, <2>3, <2>4, <2>5, StepHasEffect DEF StepEffect
<1>2. HistoryInv /\ [Next]_vars =>
        [\A t \in Task : status[t] = "cancelled" =>
           status'[t] = "cancelled" /\ attempt_count'[t] = attempt_count[t]]_vars
  BY <1>1
<1> QED
  BY <1>2, HistoryInvariant, PTL DEF Spec, CancelledIsFinal

\* Without planner events a commit cancels scheduled tasks only.
LEMMA CommitCancelsScheduled ==
  ASSUME EventCancel = {}, RowsGuarded, NEW x \in Txn, NEW t \in Task, lock[t] = x
  PROVE  status[t] = "scheduled" /\ account_id[t] = cancel_account[x]
BY CancelAssumption DEF RowsGuarded

\* History is not rewritten while only API cancellations run: the conditional
\* updates see to it (operational_outreach.py:126-135).  The hypothesis is
\* needed; with planner events the run planner_overwrites refutes the property.
THEOREM HistoryKept == ASSUME EventCancel = {} PROVE Spec => HistoryNotRewritten
<1>1. ASSUME HistoryInv, [Next]_vars, NEW t \in Task, status'[t] # status[t]
      PROVE  /\ status[t] \in {"scheduled", "dispatching", "failed"}
             /\ status[t] = "dispatching" => status'[t] # "cancelled"
             /\ status[t] = "failed" => status'[t] = "sent"
  <2> USE DEF HistoryInv, TypeOK, TableTypeOK
  <2>1. CASE LeavesRows
    BY <1>1, <2>1 DEF LeavesRows
  <2>2. CASE Cancels
    BY <1>1, <2>2, CommitCancelsScheduled DEF Cancels, CommitCancel
  <2>3. CASE Claims
    BY <1>1, <2>3 DEF Claims, RowWrite
  <2>4. CASE Succeeds \/ Fails
    BY <1>1, <2>4 DEF Succeeds, Fails, RowWrite
  <2>5. CASE Overrides
    BY <1>1, <2>5 DEF Overrides, RowWrite, AllowedSource
  <2> QED
    BY <1>1, <2>1, <2>2, <2>3, <2>4, <2>5, StepHasEffect DEF StepEffect
<1>2. HistoryInv /\ [Next]_vars =>
        [\A t \in Task :
           status'[t] # status[t] =>
             /\ status[t] \in {"scheduled", "dispatching", "failed"}
             /\ status[t] = "dispatching" => status'[t] # "cancelled"
             /\ status[t] = "failed" => status'[t] = "sent"]_vars
  BY <1>1
<1> QED
  BY <1>2, HistoryInvariant, PTL DEF Spec, HistoryNotRewritten

\* Once a manual result is the last word on a task, only another manual result
\* is written after it (architecture.md:61), again without planner events.
THEOREM ManualStands == ASSUME EventCancel = {} PROVE Spec => ManualResultStands
<1>1. ASSUME HistoryInv, [Next]_vars, NEW t \in Task, audit[t] # <<>>,
             LastRow(t).event_type = "delivery_result_recorded", audit'[t] # audit[t]
      PROVE  LastRow(t)'.event_type = "delivery_result_recorded"
  <2> USE DEF HistoryInv, TypeOK, TableTypeOK
  <2>1. status[t] \in {"sent", "failed"}
    BY <1>1 DEF AuditExplainsRow, Explains
  <2>2. CASE LeavesRows
    BY <1>1, <2>2 DEF LeavesRows
  <2>3. CASE Cancels
    BY <1>1, <2>1, <2>3, CommitCancelsScheduled DEF Cancels, CommitCancel
  <2>4. CASE Claims
    BY <1>1, <2>1, <2>4 DEF Claims, RowWrite
  <2>5. CASE Succeeds \/ Fails
    BY <1>1, <2>1, <2>5 DEF Succeeds, Fails, RowWrite
  <2>6. CASE Overrides
    <3>1. PICK u \in Task, s \in {"sent", "failed"} :
            RowWrite(u, s, IF s = "sent" THEN "null" ELSE "error", "delivery_result_recorded", 0)
      BY <2>6 DEF Overrides
    <3> DEFINE row == [event_type |-> "delivery_result_recorded", status |-> s,
                       attempt_count |-> 0]
    <3>2. row \in AuditRow /\ row.event_type = "delivery_result_recorded"
      BY DEF AuditRow, EventType, Status
    <3>3. audit' = [audit EXCEPT ![u] = Append(audit[u], row)]
      BY <3>1 DEF RowWrite
    <3> HIDE DEF row
    <3>4. u = t
      BY <1>1, <3>3
    <3>5. audit'[t] = Append(audit[t], row)
      BY <1>1, <3>3, <3>4
    <3>6. audit[t] \in Seq(AuditRow)
      BY <1>1
    <3>7. LastRow(t)' = row
      BY <3>2, <3>5, <3>6, AppendedIsLast DEF LastRow
    <3> QED
      BY <3>2, <3>7
  <2> QED
    BY <1>1, <2>2, <2>3, <2>4, <2>5, <2>6, StepHasEffect DEF StepEffect
<1>2. HistoryInv /\ [Next]_vars =>
        [\A t \in Task :
           /\ audit[t] # <<>>
           /\ LastRow(t).event_type = "delivery_result_recorded"
           /\ audit'[t] # audit[t]
           => LastRow(t)'.event_type = "delivery_result_recorded"]_vars
  BY <1>1
<1> QED
  BY <1>2, HistoryInvariant, PTL DEF Spec, ManualResultStands

\* The rest of a pass lies in its past.
PassesBegun == \A w \in Worker : pass_now[w] <= clock

LEMMA NextPassesBegun ==
  ASSUME TypeOK, PassesBegun, [Next]_vars
  PROVE  PassesBegun'
<1> USE DEF PassesBegun, TypeOK, WorkerTypeOK
<1>1. ASSUME NEW w \in Worker, Poll(w) PROVE PassesBegun'
  BY <1>1 DEF Poll
<1>2. ASSUME NEW w \in Worker, Crash(w) \/ Restart(w) PROVE PassesBegun'
  <2>1. pass_now' = [pass_now EXCEPT ![w] = 0] /\ clock' = clock
    BY <1>2 DEF Crash, Restart, Reset
  <2>2. clock \in Nat /\ pass_now \in [Worker -> Nat]
    OBVIOUS
  <2> QED
    BY <2>1, <2>2
<1>3. ASSUME NEW w \in Worker, DispatchDueTasks(w), ~Poll(w) PROVE PassesBegun'
  BY <1>3 DEF DispatchDueTasks, Claim, SkipClaim, SendAccepted, SendRejected, SendAnswerLost,
     AnswerArrives, RecordSuccess, RecordFailure, DiscardOutcome, NextTask
<1>4. CASE Tick
  BY <1>4 DEF Tick, workerVars
<1>5. CASE UNCHANGED <<clock, workerVars>>
  BY <1>5 DEF workerVars
<1> QED
  BY <1>1, <1>2, <1>3, <1>4, <1>5 DEF Next, WorkerNext, Quiescent, vars

\* A task is claimed when it is due and not before, by whatever selection
\* (dispatch.py:69-77).
THEOREM ClaimedWhenDue == Spec => ClaimedOnlyWhenDue
<1>1. ASSUME TypeOK, PassesBegun, [Next]_vars,
             NEW t \in Task, attempt_count'[t] # attempt_count[t]
      PROVE  scheduled_at[t] <= clock
  <2>1. PICK w \in Worker : Claim(w)
    <3>1. ASSUME NEW w \in Worker, DispatchDueTasks(w) \/ Crash(w) \/ Restart(w), ~Claim(w)
          PROVE  attempt_count' = attempt_count
      BY <3>1 DEF DispatchDueTasks, Poll, SkipClaim, SendAccepted, SendRejected, SendAnswerLost,
         AnswerArrives, RecordSuccess, RecordFailure, DiscardOutcome, Crash, Restart, Reset,
         tableVars, rows
    <3>2. CASE Tick \/ UNCHANGED vars
      BY <1>1, <3>2 DEF Tick, tableVars, vars
    <3>3. CASE RequestNext
      BY <1>1, <3>3 DEF RequestNext, FinishRequest, LoadTask, RejectTask, ConflictResult,
         RecordManualResult, tableVars
    <3>4. CASE CancelNext
      BY <1>1, <3>4 DEF CancelNext, FinishCancel, DeadlockVictim, ConnectionLost, SelectTasks,
         UpdateRow, SkipRow, Rollback, CommitCancel, tableVars, rows
    <3> QED
      BY <1>1, <3>1, <3>2, <3>3, <3>4 DEF Next, WorkerNext, Quiescent
  <2>2. t = Current(w) /\ scheduled_at[t] <= pass_now[w]
    BY <1>1, <2>1 DEF Claim, Claimable, TypeOK, TableTypeOK
  <2>3. pass_now[w] <= clock /\ pass_now[w] \in Nat /\ clock \in Nat /\ scheduled_at[t] \in Nat
    BY <1>1 DEF PassesBegun, TypeOK, TableTypeOK, WorkerTypeOK
  <2> QED
    BY <2>2, <2>3
<1>2. Init => TypeOK /\ PassesBegun
  BY InitTypeOK DEF Init, WorkerInit, PassesBegun
<1>3. TypeOK /\ PassesBegun /\ [Next]_vars => TypeOK' /\ PassesBegun'
  BY NextTypeOK, NextPassesBegun
<1>4. TypeOK /\ PassesBegun /\ [Next]_vars =>
        [\A t \in Task : attempt_count'[t] # attempt_count[t] => scheduled_at[t] <= clock]_vars
  BY <1>1
<1> QED
  BY <1>2, <1>3, <1>4, PTL DEF Spec, ClaimedOnlyWhenDue

-----------------------------------------------------------------------------
(***************************************************************************)
(* The order of locks.  Of some transactions in a circle, take the one     *)
(* whose next row is the youngest: its holder waits for a younger one.     *)
(***************************************************************************)
LEMMA LeastOf ==
  ASSUME NEW T \in SUBSET Nat, T # {}
  PROVE  \E n \in T : \A m \in T : n <= m
<1> DEFINE R == OpToRel(<, Nat)
<1>1. \E n \in T : \A m \in T : ~(<<m, n>> \in R)
  <2>1. IsWellFoundedOn(R, Nat)
    BY NatLessThanWellFounded
  <2> HIDE DEF R
  <2> QED
    BY <2>1, WFMin
<1>2. \A n, m \in Nat : <<m, n>> \in R <=> m < n
  BY DEF OpToRel
<1> HIDE DEF R
<1>3. PICK n \in T : \A m \in T : ~(<<m, n>> \in R)
  BY <1>1
<1>4. \A m \in T : ~(m < n)
  BY <1>2, <1>3
<1>5. \A m \in T : n <= m
  BY <1>4
<1> QED
  BY <1>3, <1>5

Younger(t) == {u \in Task : Older(t, u)}

\* Older is a strict order: of the younger of two rows fewer are younger.
LEMMA FewerYounger ==
  ASSUME NEW t \in Task, NEW u \in Task, Older(t, u)
  PROVE  /\ Cardinality(Younger(u)) < Cardinality(Younger(t))
         /\ Cardinality(Younger(t)) \in Nat /\ Cardinality(Younger(u)) \in Nat
<1>1. \A v \in Task : v \in Nat /\ created_at[v] \in Nat
  BY TaskAssumption, ColumnAssumption
<1>2. Younger(u) \in SUBSET Younger(t) /\ u \in Younger(t) /\ u \notin Younger(u)
  BY <1>1 DEF Younger, Older
<1>3. IsFiniteSet(Younger(t))
  BY TaskAssumption, FS_Subset DEF Younger
<1>4. IsFiniteSet(Younger(u))
  BY <1>2, <1>3, FS_Subset
<1>5. Cardinality(Younger(t)) \in Nat /\ Cardinality(Younger(u)) \in Nat
  BY <1>3, <1>4, FS_CardinalityType
<1>6. /\ Cardinality(Younger(u)) <= Cardinality(Younger(t))
      /\ Cardinality(Younger(t)) # Cardinality(Younger(u))
  BY <1>2, <1>3, FS_Subset
<1> QED
  BY <1>5, <1>6

\* What x is still to lock is listed oldest first, and is younger than what it has locked.
InOrder(x) ==
  /\ \A i, j \in 1..Len(to_cancel[x]) : i < j => Older(to_cancel[x][i], to_cancel[x][j])
  /\ \A t \in Task : lock[t] = x =>
       progress[x] = "open" /\ \A i \in 1..Len(to_cancel[x]) : Older(t, to_cancel[x][i])

LocksInOrder == \A x \in Txn : InOrder(x)

LEMMA CancelKeepsOrder ==
  ASSUME TypeOK, EventCancel = {}, LocksInOrder, NEW y \in Txn,
         SelectTasks(y) \/ FinishCancel(y) \/ ConnectionLost(y)
  PROVE  LocksInOrder'
<1> SUFFICES ASSUME NEW x \in Txn PROVE InOrder(x)'
  BY DEF LocksInOrder
<1> USE DEF TypeOK, TableTypeOK, CancelTypeOK
<1>0. InOrder(x) /\ InOrder(y) /\ x # NoTxn /\ to_cancel[y] \in Seq(Task)
  BY TxnAssumption DEF LocksInOrder
<1>1. CASE SelectTasks(y)
  <2>1. /\ \A t \in Task : lock'[t] # y
        /\ lock' = lock /\ \A z \in Txn \ {y} : progress'[z] = progress[z]
    BY <1>0, <1>1 DEF SelectTasks, InOrder, tableVars
  <2>2. PICK s \in ApiListings(cancel_account[y]) : to_cancel' = [to_cancel EXCEPT ![y] = s]
    BY <1>1, CancelAssumption DEF SelectTasks, Listings
  <2>3. \A i, j \in 1..Len(s) : i < j => Older(s[i], s[j])
    BY DEF ApiListings
  <2> QED
    BY <1>0, <2>1, <2>2, <2>3 DEF InOrder
<1>2. ASSUME AtRow(y)
      PROVE  /\ \A i \in 1..Len(Tail(to_cancel[y])) :
                  /\ Older(NextRow(y), Tail(to_cancel[y])[i])
                  /\ \A j \in 1..Len(Tail(to_cancel[y])) :
                       i < j => Older(Tail(to_cancel[y])[i], Tail(to_cancel[y])[j])
             /\ \A t \in Task : lock[t] = y =>
                  \A i \in 1..Len(Tail(to_cancel[y])) : Older(t, Tail(to_cancel[y])[i])
             /\ progress[y] = "open" /\ NextRow(y) \in Task
  <2>1. /\ Len(Tail(to_cancel[y])) = Len(to_cancel[y]) - 1
        /\ \A i \in 1..Len(Tail(to_cancel[y])) : Tail(to_cancel[y])[i] = to_cancel[y][i+1]
        /\ NextRow(y) = to_cancel[y][1] /\ Len(to_cancel[y]) \in Nat \ {0}
        /\ NextRow(y) \in Task
    BY <1>0, <1>2, HeadTailProperties DEF AtRow, NextRow
  <2> QED
    BY <1>0, <1>2, <2>1 DEF InOrder, AtRow
<1>3. CASE UpdateRow(y) \/ SkipRow(y)
  <2>1. /\ AtRow(y) /\ progress' = progress
        /\ to_cancel' = [to_cancel EXCEPT ![y] = Tail(to_cancel[y])]
        /\ lock' = lock \/ lock' = [lock EXCEPT ![NextRow(y)] = y]
    BY <1>3 DEF UpdateRow, SkipRow, PassRow, tableVars
  <2>2. CASE x = y
    BY <1>0, <1>2, <2>1, <2>2 DEF InOrder
  <2>3. CASE x # y
    <3>1. to_cancel'[x] = to_cancel[x] /\ \A t \in Task : lock'[t] = x => lock[t] = x
      BY <2>1, <2>3
    <3> QED
      BY <1>0, <2>1, <3>1 DEF InOrder
  <2> QED
    BY <2>2, <2>3
<1>4. CASE CommitCancel(y) \/ Rollback(y)
  <2>1. \A t \in Task : lock'[t] = x => lock[t] = x /\ x # y
    BY <1>0, <1>4 DEF CommitCancel, Rollback, Unlocked
  <2>2. \A z \in Txn \ {y} : progress'[z] = progress[z] /\ to_cancel'[z] = to_cancel[z]
    BY <1>4 DEF CommitCancel, Rollback
  <2>3. Len(<<>>) = 0
    OBVIOUS
  <2>4. to_cancel'[y] = <<>>
    BY <1>4 DEF CommitCancel, Rollback
  <2>5. CASE x = y
    BY <2>1, <2>3, <2>4, <2>5 DEF InOrder
  <2>6. CASE x # y
    <3>1. progress'[x] = progress[x] /\ to_cancel'[x] = to_cancel[x]
      BY <2>2, <2>6
    <3> QED
      BY <1>0, <2>1, <3>1 DEF InOrder
  <2> QED
    BY <2>5, <2>6
<1> QED
  BY <1>1, <1>3, <1>4 DEF FinishCancel, DeadlockVictim, ConnectionLost

LEMMA NextLocksInOrder ==
  ASSUME TypeOK, DispatchInv, RowsGuarded, EventCancel = {}, LocksInOrder, [Next]_vars
  PROVE  LocksInOrder'
<1>1. CASE CancelNext
  BY <1>1, CancelKeepsOrder DEF CancelNext
<1>2. CASE lock' = lock /\ UNCHANGED cancelVars
  BY <1>2 DEF LocksInOrder, InOrder, cancelVars
<1>3. WorkerNext => lock' = lock
  BY WorkerEffect DEF WorkerNext, Tick, tableVars
<1>4. RequestNext => lock' = lock
  BY RequestEffect
<1> QED
  BY <1>1, <1>2, <1>3, <1>4 DEF Next, Quiescent, vars, tableVars

\* The row a transaction waits for is older than the one its holder waits for.
LEMMA HolderWaitsForYounger ==
  ASSUME TypeOK, LocksInOrder, NEW x \in Txn, NEW y \in Txn, Waiting(x), AtRow(y), Holder(x) = y
  PROVE  NextRow(x) \in Task /\ NextRow(y) \in Task /\ Older(NextRow(x), NextRow(y))
<1>1. /\ to_cancel[x] \in Seq(Task) /\ to_cancel[x] # <<>>
      /\ to_cancel[y] \in Seq(Task) /\ to_cancel[y] # <<>>
  BY DEF TypeOK, CancelTypeOK, Waiting, AtRow
<1>2. /\ NextRow(x) \in Task /\ NextRow(y) \in Task
      /\ NextRow(y) = to_cancel[y][1] /\ 1 \in 1..Len(to_cancel[y])
  BY <1>1, HeadTailProperties DEF NextRow
<1>3. lock[NextRow(x)] = y /\ InOrder(y)
  BY DEF Holder, LocksInOrder
<1> QED
  BY <1>2, <1>3 DEF InOrder

\* API cancellations never wait for each other in a circle, for they lock an
\* account's rows oldest first (operational_outreach.py:121).  Planner
\* cancellations come in any order, and may.
THEOREM NoLockCycleHolds == ASSUME EventCancel = {} PROVE Spec => []NoLockCycle
<1>1. ASSUME TypeOK, LocksInOrder, NEW X \in SUBSET Txn, Deadlocked(X) PROVE FALSE
  <2> DEFINE rank(x) == Cardinality(Younger(NextRow(x)))
             ranks == {rank(x) : x \in X}
  <2>1. ASSUME NEW x \in X
        PROVE  Holder(x) \in X /\ rank(x) \in Nat /\ rank(Holder(x)) < rank(x)
    <3>1. Waiting(x) /\ Holder(x) \in X /\ AtRow(Holder(x))
      BY <1>1 DEF Deadlocked, Waiting
    <3>2. /\ NextRow(x) \in Task /\ NextRow(Holder(x)) \in Task
          /\ Older(NextRow(x), NextRow(Holder(x)))
      BY <1>1, <3>1, HolderWaitsForYounger
    <3> QED
      BY <3>1, <3>2, FewerYounger
  <2>2. ranks \in SUBSET Nat /\ ranks # {}
    BY <1>1, <2>1 DEF Deadlocked
  <2> HIDE DEF rank
  <2>3. PICK x \in X : \A m \in ranks : rank(x) <= m
    BY <2>2, LeastOf
  <2>4. Holder(x) \in X /\ rank(Holder(x)) < rank(x) /\ rank(x) <= rank(Holder(x))
    BY <2>1, <2>3
  <2>5. rank(x) \in Nat /\ rank(Holder(x)) \in Nat
    BY <2>1, <2>4
  <2> QED
    BY <2>4, <2>5
<1>2. Init => HistoryInv /\ LocksInOrder
  <2>1. Init => LocksInOrder
    <3> SUFFICES ASSUME Init, NEW x \in Txn PROVE InOrder(x)
      BY DEF LocksInOrder
    <3>1. /\ \A t \in Task : lock[t] # x
          /\ Len(to_cancel[x]) = 0
      BY TxnAssumption DEF Init, TableInit, CancelInit
    <3> QED
      BY <3>1 DEF InOrder
  <2>2. Init => AuditExplainsRow
    BY DEF Init, TableInit, AuditExplainsRow
  <2> QED
    BY <2>1, <2>2, InitTypeOK, InitDispatchInv, InitRowsGuarded DEF HistoryInv
<1>3. HistoryInv /\ LocksInOrder /\ [Next]_vars => HistoryInv' /\ LocksInOrder'
  BY NextTypeOK, NextDispatchInv, NextRowsGuarded, NextAuditExplainsRow, NextLocksInOrder
     DEF HistoryInv
<1>4. HistoryInv /\ LocksInOrder => NoLockCycle
  BY <1>1 DEF HistoryInv, NoLockCycle
<1> QED
  BY <1>2, <1>3, <1>4, PTL DEF Spec

-----------------------------------------------------------------------------
(***************************************************************************)
(* Refinement.                                                             *)
(***************************************************************************)

\* Workers, manual results and API cancellations together implement the
\* lifecycle: a claim is an Attempt, a record Succeed or Fail, a manual result
\* Override, a commit CancelTogether, and every other step a stutter.
THEOREM LifecycleImplemented == ASSUME EventCancel = {} PROVE Spec => ImplementsLifecycle
<1>1. Init => Lifecycle!LifecycleInit
  BY DEF Init, TableInit, Lifecycle!LifecycleInit
<1>2. ASSUME HistoryInv, [Next]_vars
      PROVE  [Lifecycle!LifecycleNext]_<<status, attempt_count>>
  <2> USE DEF HistoryInv, TypeOK, TableTypeOK, Lifecycle!Move
  <2>1. CASE LeavesRows
    BY <2>1 DEF LeavesRows
  <2>2. CASE Cancels
    <3>1. PICK x \in Txn : CommitCancel(x)
      BY <2>2 DEF Cancels
    <3> DEFINE T == {t \in Task : lock[t] = x}
    <3>2. \A t \in T : account_id[t] = cancel_account[x] /\ status[t] = "scheduled"
      BY <1>2, CommitCancelsScheduled
    <3>3. status' = [t \in Task |-> IF t \in T THEN "cancelled" ELSE status[t]]
      BY <3>1 DEF CommitCancel
    <3>4. attempt_count' = attempt_count
      BY <3>1 DEF CommitCancel
    <3>5. cancel_account[x] \in Account /\ T \in SUBSET Task
      BY <1>2 DEF CancelTypeOK
    <3> HIDE DEF T
    <3>6. Lifecycle!CancelTogether(cancel_account[x], T)
      BY <3>2, <3>3, <3>4 DEF Lifecycle!CancelTogether
    <3> QED
      BY <3>5, <3>6 DEF Lifecycle!LifecycleNext
  <2>3. CASE Claims
    <3>1. PICK t \in Task :
            /\ status[t] = "scheduled"
            /\ status' = [status EXCEPT ![t] = "dispatching"]
            /\ attempt_count' = [attempt_count EXCEPT ![t] = attempt_count[t] + 1]
      BY <2>3 DEF Claims, RowWrite
    <3>2. attempt_count[t] < MaxAttempts
      BY <1>2, <3>1 DEF DispatchInv, AttemptsLeft
    <3>3. Lifecycle!Attempt(t)
      BY <3>1, <3>2 DEF Lifecycle!Attempt
    <3> QED
      BY <3>3 DEF Lifecycle!LifecycleNext
  <2>4. CASE Succeeds
    <3>1. PICK t \in Task : Lifecycle!Succeed(t)
      BY <2>4 DEF Succeeds, RowWrite, Lifecycle!Succeed
    <3> QED
      BY <3>1 DEF Lifecycle!LifecycleNext
  <2>5. CASE Fails
    <3>1. PICK t \in Task : Lifecycle!Fail(t)
      BY <2>5 DEF Fails, RowWrite, Lifecycle!Fail
    <3> QED
      BY <3>1 DEF Lifecycle!LifecycleNext
  <2>6. CASE Overrides
    <3>1. PICK t \in Task, s \in {"sent", "failed"} : Lifecycle!Override(t, s)
      BY <2>6 DEF Overrides, RowWrite, AllowedSource, Lifecycle!Override
    <3> QED
      BY <3>1 DEF Lifecycle!LifecycleNext
  <2> QED
    BY <1>2, <2>1, <2>2, <2>3, <2>4, <2>5, <2>6, StepHasEffect DEF StepEffect
<1> QED
  BY <1>1, <1>2, HistoryInvariant, PTL
     DEF Spec, ImplementsLifecycle, Lifecycle!LifecycleSpec, Lifecycle!lifecycle

=============================================================================
