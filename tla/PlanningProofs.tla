--------------------------- MODULE PlanningProofs ---------------------------
(***************************************************************************)
(* Planning as part of ingestion.  The frequency cap across events: the    *)
(* contacts an event counted can only become fewer, and those it adds are  *)
(* counted one by one.  The loops: what they promise they promise here,    *)
(* of the request they are begun for.                                      *)
(***************************************************************************)
EXTENDS EventOnceProofs, LoopProofs

\* The contacts that were there when the event counted.
Before(i) == {t \in Task : /\ t[1] \in seen_tasks[i]
                           /\ OfCustomer(i, t)
                           /\ status[t] \in RecentAttemptStatus
                           /\ began_at[t[1]] >= began_at[i] - Day}

NotAhead(i) == request[i].occurred_at <= began_at[i]

CapSound(i) ==
  /\ seen_tasks[i] \subseteq Committed
  /\ step[i] \notin {"plan"} \cup Ended => new_tasks[i] = <<>>
  /\ step[i] = "plan" \/ new_tasks[i] # <<>> =>
       /\ recent_count[i] \in Nat
       /\ NotAhead(i) => Cardinality(Before(i)) + Len(new_tasks[i]) <= recent_count[i]
  /\ new_tasks[i] # <<>> => recent_count[i] <= FrequencyCap

CapInv == OnceInv /\ \A i \in Ingestion : CapSound(i)

-----------------------------------------------------------------------------
(***************************************************************************)
(* The contacts that were counted.                                         *)
(***************************************************************************)
\* Nothing cancelled is taken up again.
LEMMA RecentOutside ==
  ASSUME TablesTypeOK, Outside, NEW t \in Task, status'[t] \in RecentAttemptStatus
  PROVE  status[t] \in RecentAttemptStatus
<1> USE DEF TablesTypeOK, RecentAttemptStatus
<1>1. CASE \E a \in Account : CancelOutreach(a)
  BY <1>1 DEF CancelOutreach
<1>2. ASSUME NEW u \in Task, NEW s \in {"sent", "failed"}, Work(u) \/ RecordManually(u, s)
      PROVE  status[t] \in RecentAttemptStatus
  <2>1. \E r : status' = [status EXCEPT ![u] = r]
    BY <1>2 DEF Work, RecordManually, Lifecycle!Attempt, Lifecycle!Succeed, Lifecycle!Fail,
         Lifecycle!Override, Lifecycle!Move
  <2>2. status[u] \in RecentAttemptStatus
    BY <1>2 DEF Work, RecordManually, Lifecycle!Attempt, Lifecycle!Succeed, Lifecycle!Fail,
         Lifecycle!Override
  <2> QED
    BY <2>1, <2>2
<1>3. CASE Tick(AtHour(24)) \/ UNCHANGED vars
  BY <1>3 DEF Tick, tableVars, vars, ingestionVars
<1> QED
  BY <1>1, <1>2, <1>3 DEF Outside, Operate


\* What is left of a finite set is not more.
LEMMA FewerAreLeft ==
  ASSUME NEW i \in Ingestion, NEW S \in SUBSET Task, NEW T \in SUBSET S
  PROVE  Cardinality(T) <= Cardinality(S) /\ Cardinality(T) \in Nat /\ Cardinality(S) \in Nat
<1>1. IsFiniteSet(S)
  BY TasksAreFinite, FS_Subset
<1>2. IsFiniteSet(T)
  BY <1>1, FS_Subset
<1> QED
  BY <1>1, <1>2, FS_Subset, FS_CardinalityType

\* A step of nobody or of a request that has not committed leaves of the
\* contacts counted at most those.
LEMMA BeforeShrinks ==
  ASSUME TablesTypeOK, TablesTypeOK', NEW i \in Ingestion, seen_tasks[i] \subseteq Committed,
         seen_tasks'[i] = seen_tasks[i], began_at'[i] = began_at[i], request' = request,
         \A k \in Committed : began_at'[k] = began_at[k],
         \A t \in Task : t[1] \in Committed /\ status'[t] \in RecentAttemptStatus
                           => status[t] \in RecentAttemptStatus
  PROVE  /\ Cardinality(Before(i)') <= Cardinality(Before(i))
         /\ Cardinality(Before(i)') \in Nat /\ Cardinality(Before(i)) \in Nat
<1>1. \A t \in Task : OfCustomer(i, t)' <=> OfCustomer(i, t)
  BY DEF OfCustomer, CustomerOf
<1>2. \A t \in Before(i)' : t \in Before(i)
  BY <1>1 DEF Before
<1>3. Before(i) \in SUBSET Task /\ Before(i)' \in SUBSET Before(i)
  BY <1>2 DEF Before
<1> QED
  BY <1>3, FewerAreLeft

LEMMA RecentByStatement ==
  ASSUME TablesTypeOK, LoopDomains, NEW i \in Ingestion, Statement(i)
  PROVE  /\ \A k \in Committed : began_at'[k] = began_at[k]
         /\ \A t \in Task : t[1] \in Committed /\ status'[t] \in RecentAttemptStatus
                              => status[t] \in RecentAttemptStatus
<1>1. i \notin Committed /\ OthersKept(i)
  BY StatementsAreOpen, StatementKeepsOthers DEF Committed, Ended
<1>2. \A t \in Task : t[1] \in Committed => t[1] # i
  BY <1>1
<1> QED
  BY <1>1, <1>2, TaskOfOthers DEF OthersKept, Committed, RecentAttemptStatus

-----------------------------------------------------------------------------
(***************************************************************************)
(* The count.                                                              *)
(***************************************************************************)
LEMMA CountsAll ==
  ASSUME TablesTypeOK, NEW i \in Ingestion, NotAhead(i), seen_tasks'[i] = Committed,
         UNCHANGED <<status, request, began_at>>
  PROVE  /\ Cardinality(Before(i)') <= Cardinality(RecentAttempts(i))
         /\ Cardinality(Before(i)') \in Nat
<1>1. /\ request[i].occurred_at \in Int
      /\ \A k \in Ingestion : began_at[k] \in Int
  BY IngestionAssumption DEF TablesTypeOK, InboundEventRequest
<1>2. ASSUME NEW t \in Before(i)' PROVE t \in RecentAttempts(i)
  <2>1. /\ t \in Task /\ t[1] \in Ingestion /\ began_at[t[1]] >= began_at[i] - Day
        /\ OfCustomer(i, t) /\ status[t] \in RecentAttemptStatus
    BY <1>2 DEF Before, OfCustomer, CustomerOf, Task
  <2>2. \A x, y, z \in Int : x >= y - Day /\ z <= y => x >= z - Day
    BY DEF Day, AtHour
  <2> QED
    BY <1>1, <2>1, <2>2 DEF RecentAttempts, NotAhead
<1>3. RecentAttempts(i) \in SUBSET Task /\ Before(i)' \in SUBSET RecentAttempts(i)
  BY <1>2 DEF RecentAttempts
<1> QED
  BY <1>3, FewerAreLeft

\* What the policy lets through is within the cap.
LEMMA ScheduledWithinCap ==
  ASSUME NEW i \in Ingestion, ScheduleProposal(i), recent_count[i] \in Nat
  PROVE  recent_count[i] < FrequencyCap
<1>1. \/ PolicyResult(i).decision = "allow"
      \/ /\ PolicyResult(i).decision = "defer"
         /\ "frequency_cap_exceeded" \notin PolicyResult(i).reasons
  BY DEF ScheduleProposal, NotSchedulable
<1>2. ~CapReached(PolicyInputFor(i))
  BY <1>1 DEF PolicyResult, evaluate_policy, DeferReasons
<1>3. ~(recent_count[i] >= FrequencyCap)
  BY <1>2 DEF CapReached, PolicyInputFor
<1> QED
  BY <1>3, CapAssumption

\* A loop that has begun goes on or the request ends.
LEMMA LoopGoesOn ==
  ASSUME TablesTypeOK, NEW i \in Ingestion, Statement(i), step[i] = "plan"
  PROVE  /\ PlanProposal(i) \/ step'[i] \in Ended
         /\ seen_tasks'[i] = seen_tasks[i] /\ began_at'[i] = began_at[i]
<1>1. CASE Failing(i)
  <2>1. PICK s \in {"duplicate", "failed", "rejected", "aborted"} : End(i, s)
    BY <1>1, FailingEnds
  <2> QED
    BY <2>1 DEF End, Goto, historyVars, Ended, TablesTypeOK
<1>2. CASE Commit(i)
  BY <1>2 DEF Commit, End, Goto, historyVars, Ended, TablesTypeOK
<1>3. CASE PlanProposal(i)
  BY <1>3 DEF PlanProposal, historyVars
<1> QED
  BY <1>1, <1>2, <1>3 DEF Statement, Receive, Proceed, Failing, MissEvent, LoadCustomer,
     LoadAccounts, SameCustomer, LoadAccount, SameAccount, InsertEvent, CountRecent,
     SetOptedOut, SetPaused, SelectTasks, InsertCustomer, UpdateCustomer, InsertAccount,
     UpdateAccount, At

\* Only counting and planning change the count, and only the queries of tasks
\* what has been seen of them.
LEMMA CountLeftAlone ==
  ASSUME NEW i \in Ingestion, Statement(i), ~CountRecent(i), ~PlanProposal(i)
  PROVE  UNCHANGED <<recent_count, new_tasks>> /\ (seen_tasks' = seen_tasks \/ SelectTasks(i))
<1>1. CASE Failing(i)
  BY <1>1, FailingEnds DEF End, historyVars, planningVars
<1>2. CASE Commit(i)
  BY <1>2 DEF Commit, End, historyVars, planningVars
<1>3. CASE InsertCustomer(i) \/ UpdateCustomer(i) \/ InsertAccount(i) \/ UpdateAccount(i)
  BY <1>3 DEF InsertCustomer, UpdateCustomer, InsertAccount, UpdateAccount, FlushesCustomer,
              FlushesAccount, historyVars, planningVars
<1> QED
  BY <1>1, <1>2, <1>3, LoopLeftAlone DEF Statement, Receive, Proceed, Failing, MissEvent,
     LoadCustomer, LoadAccounts, SameCustomer, LoadAccount, SameAccount, InsertEvent,
     SetOptedOut, SetPaused, SelectTasks, historyVars, planningVars

LEMMA CommittedStay ==
  ASSUME TablesTypeOK, LoopDomains, NEW i \in Ingestion, Statement(i)
  PROVE  Committed \subseteq Committed'
<1>1. i \notin Committed /\ OthersKept(i)
  BY StatementsAreOpen, StatementKeepsOthers DEF Committed, Ended
<1> QED
  BY <1>1 DEF Committed, OthersKept

LEMMA OnceStatementTypes ==
  ASSUME OnceInv, NEW i \in Ingestion, Statement(i)
  PROVE  TablesTypeOK' /\ LoopDomains'
BY StatementTypes DEF OnceInv, IngestionInv, RowsInv

LEMMA CapOfOthers ==
  ASSUME CapInv, NEW i \in Ingestion, Statement(i), NEW k \in Ingestion, k # i
  PROVE  CapSound(k)'
<1>0. TablesTypeOK /\ LoopDomains /\ TablesTypeOK' /\ CapSound(k) /\ IsSeq(new_tasks[k])
  BY OnceStatementTypes DEF CapInv, OnceInv, IngestionInv, RowsInv, LoopSound
<1>1. OthersKept(i) /\ request' = request /\ Committed \subseteq Committed'
  BY <1>0, StatementKeepsOthers, CommittedStay
<1>2. /\ Cardinality(Before(k)') <= Cardinality(Before(k))
      /\ Cardinality(Before(k)') \in Nat /\ Cardinality(Before(k)) \in Nat
  BY <1>0, <1>1, RecentByStatement, BeforeShrinks DEF CapSound, OthersKept
<1>3. Len(new_tasks[k]) \in Nat
  BY <1>0 DEF IsSeq
<1>4. NotAhead(k)' <=> NotAhead(k)
  BY <1>1 DEF NotAhead, OthersKept
<1>5. /\ step'[k] = step[k] /\ seen_tasks'[k] = seen_tasks[k] /\ new_tasks'[k] = new_tasks[k]
      /\ recent_count'[k] = recent_count[k]
  BY <1>1 DEF OthersKept
<1> QED
  BY <1>0, <1>1, <1>2, <1>3, <1>4, <1>5 DEF CapSound

\* The loop is entered by the count alone.
LEMMA LoopIsEntered ==
  ASSUME TablesTypeOK, NEW i \in Ingestion, Statement(i), step[i] # "plan", ~CountRecent(i)
  PROVE  step'[i] # "plan"
<1> USE DEF TablesTypeOK, Goto, At
<1>1. CASE Failing(i)
  <2>1. PICK s \in {"duplicate", "failed", "rejected", "aborted"} : End(i, s)
    BY <1>1, FailingEnds
  <2> QED
    BY <2>1 DEF End
<1>2. CASE InsertCustomer(i) \/ UpdateCustomer(i) \/ InsertAccount(i) \/ UpdateAccount(i)
  BY <1>2 DEF InsertCustomer, UpdateCustomer, InsertAccount, UpdateAccount, FlushesCustomer,
              FlushesAccount
<1>3. CASE InsertEvent(i)
  BY <1>3, PlanGoesOn DEF InsertEvent
<1>4. CASE Commit(i)
  BY <1>4 DEF Commit, End
<1> QED
  BY <1>1, <1>2, <1>3, <1>4 DEF Statement, Receive, Proceed, Failing, MissEvent, LoadCustomer,
     LoadAccounts, SameCustomer, LoadAccount, SameAccount, PlanProposal, SetOptedOut,
     SetPaused, SelectTasks

LEMMA CapOfOwn ==
  ASSUME CapInv, NEW i \in Ingestion, Statement(i)
  PROVE  CapSound(i)'
<1>0. /\ TablesTypeOK /\ LoopDomains /\ TablesTypeOK' /\ CapSound(i) /\ IsSeq(new_tasks[i])
      /\ LoopSound(i)
  BY OnceStatementTypes DEF CapInv, OnceInv, IngestionInv, RowsInv, LoopSound
<1>1. request' = request /\ step[i] \notin Ended /\ Committed \subseteq Committed'
  BY <1>0, StatementKeepsOthers, StatementsAreOpen, CommittedStay
<1>2. Len(new_tasks[i]) \in Nat
  BY <1>0 DEF IsSeq
<1>3. CASE CountRecent(i)
  <2>1. /\ seen_tasks'[i] = Committed /\ new_tasks' = new_tasks /\ step'[i] = "plan"
        /\ recent_count'[i] = Cardinality(RecentAttempts(i))
        /\ UNCHANGED <<status, request, began_at>>
    BY <1>0, <1>3 DEF CountRecent, StartLoop, SeeTasks, Goto, sharedVars, tableVars,
                      TablesTypeOK, LoopDomains
  <2>2. new_tasks'[i] = <<>> /\ Len(new_tasks'[i]) = 0
    BY <1>0, <1>3, <2>1, EmptyIsSeq DEF CountRecent, At, CapSound, Ended
  <2>3. Cardinality(RecentAttempts(i)) \in Nat
    <3>1. RecentAttempts(i) \in SUBSET Task
      BY DEF RecentAttempts
    <3> QED
      BY <3>1, TasksAreFinite, FS_Subset, FS_CardinalityType
  <2>4. NotAhead(i)' <=> NotAhead(i)
    BY <2>1 DEF NotAhead
  <2>5. NotAhead(i) => /\ Cardinality(Before(i)') <= recent_count'[i]
                       /\ Cardinality(Before(i)') \in Nat
    BY <1>0, <2>1, CountsAll
  <2>6. NotAhead(i) => Cardinality(Before(i)') + Len(new_tasks'[i]) <= recent_count'[i]
    BY <2>1, <2>2, <2>3, <2>5
  <2> QED
    BY <1>1, <2>1, <2>2, <2>3, <2>4, <2>6 DEF CapSound
<1>4. CASE PlanProposal(i)
  <2>1. /\ step'[i] = "plan" /\ step[i] = "plan"
        /\ seen_tasks'[i] = seen_tasks[i] /\ began_at'[i] = began_at[i]
    BY <1>0, <1>4, LoopGoesOn DEF PlanProposal, At
  <2>2. /\ Cardinality(Before(i)') <= Cardinality(Before(i))
        /\ Cardinality(Before(i)') \in Nat /\ Cardinality(Before(i)) \in Nat
    BY <1>0, <1>1, <2>1, RecentByStatement, BeforeShrinks DEF CapSound
  <2>3. NotAhead(i)' <=> NotAhead(i)
    BY <1>1, <2>1 DEF NotAhead
  <2>4. recent_count[i] \in Nat
    BY <1>0, <2>1 DEF CapSound
  <2>5. CASE recent_count' = recent_count /\ new_tasks' = new_tasks
    BY <1>0, <1>1, <1>2, <2>1, <2>2, <2>3, <2>4, <2>5 DEF CapSound
  <2>6. CASE ScheduleProposal(i)
    <3>1. recent_count[i] < FrequencyCap
      BY <2>4, <2>6, ScheduledWithinCap
    <3>2. recent_count'[i] = recent_count[i] + 1
      BY <1>0, <2>6 DEF ScheduleProposal, LoopDomains
    <3>3. \E p : new_tasks'[i] = Append(new_tasks[i], p)
      BY <1>0, <2>6 DEF ScheduleProposal, LoopDomains
    <3>4. Len(new_tasks'[i]) = Len(new_tasks[i]) + 1
      BY <1>0, <3>3, Appended
    <3>5. NotAhead(i) => Cardinality(Before(i)') + Len(new_tasks'[i]) <= recent_count'[i]
      BY <1>0, <1>2, <2>1, <2>2, <2>4, <3>2, <3>4 DEF CapSound
    <3>6. recent_count'[i] \in Nat /\ recent_count'[i] <= FrequencyCap
      BY <2>4, <3>1, <3>2, CapAssumption
    <3> QED
      BY <1>0, <1>1, <2>1, <2>3, <3>5, <3>6 DEF CapSound
  <2> QED
    BY <1>4, <2>5, <2>6 DEF PlanProposal, BlockProposal, DeferProposal
<1>5. CASE ~CountRecent(i) /\ ~PlanProposal(i)
  <2>1. /\ UNCHANGED <<recent_count, new_tasks>> /\ (seen_tasks' = seen_tasks \/ SelectTasks(i))
    BY <1>5, CountLeftAlone
  <2>2. CASE step[i] = "plan"
    <3>1. /\ step'[i] \in Ended /\ seen_tasks'[i] = seen_tasks[i] /\ began_at'[i] = began_at[i]
      BY <1>0, <1>5, <2>2, LoopGoesOn
    <3>2. /\ Cardinality(Before(i)') <= Cardinality(Before(i))
          /\ Cardinality(Before(i)') \in Nat /\ Cardinality(Before(i)) \in Nat
      BY <1>0, <1>1, <3>1, RecentByStatement, BeforeShrinks DEF CapSound
    <3>3. NotAhead(i)' <=> NotAhead(i)
      BY <1>1, <3>1 DEF NotAhead
    <3> QED
      BY <1>0, <1>1, <1>2, <2>1, <2>2, <3>1, <3>2, <3>3 DEF CapSound
  <2>3. CASE step[i] # "plan"
    <3>1. step'[i] # "plan" /\ new_tasks'[i] = <<>>
      BY <1>0, <1>1, <1>5, <2>1, <2>3, LoopIsEntered DEF CapSound
    <3>2. seen_tasks'[i] \subseteq Committed'
      BY <1>0, <1>1, <2>1 DEF CapSound, SelectTasks, SeeTasks, TablesTypeOK
    <3> QED
      BY <3>1, <3>2 DEF CapSound
  <2> QED
    BY <2>2, <2>3
<1> QED
  BY <1>3, <1>4, <1>5

LEMMA CapInvPreserved ==
  ASSUME CapInv, [Next]_vars
  PROVE  CapInv'
<1>0. OnceInv' /\ TablesTypeOK /\ TablesTypeOK' /\ LoopDomains
  BY OnceInvPreserved DEF CapInv, OnceInv, IngestionInv, RowsInv
<1>1. CASE Outside /\ SessionsKept
  <2>1. UNCHANGED <<request, step, seen_tasks, recent_count, new_tasks>>
    BY <1>1 DEF SessionsKept, historyVars, planningVars
  <2>2. began_at' = began_at
    BY <1>1 DEF Outside, Operate, Work, RecordManually, CancelOutreach, ingestionButStatus,
                Tick, vars, ingestionVars
  <2>3. ASSUME NEW k \in Ingestion PROVE CapSound(k)'
    <3>1. /\ Cardinality(Before(k)') <= Cardinality(Before(k))
          /\ Cardinality(Before(k)') \in Nat /\ Cardinality(Before(k)) \in Nat
      BY <1>0, <1>1, <2>1, <2>2, RecentOutside, BeforeShrinks DEF CapInv, CapSound
    <3>2. Len(new_tasks[k]) \in Nat
      BY DEF CapInv, OnceInv, LoopSound, IsSeq
    <3>3. (NotAhead(k)' <=> NotAhead(k)) /\ Committed' = Committed
      BY <2>1, <2>2 DEF NotAhead, Committed
    <3> QED
      BY <2>1, <3>1, <3>2, <3>3 DEF CapInv, CapSound
  <2> QED
    BY <1>0, <2>3 DEF CapInv
<1>2. ASSUME NEW i \in Ingestion, Statement(i) PROVE CapInv'
  <2>1. \A k \in Ingestion : CapSound(k)'
    BY <1>2, CapOfOwn, CapOfOthers
  <2> QED
    BY <1>0, <2>1 DEF CapInv
<1> QED
  BY <1>1, <1>2, StepKinds

LEMMA CapFollows ==
  ASSUME CapInv, NEW i \in Committed, NotAhead(i), new_tasks[i] # <<>>
  PROVE  Cardinality(Counted(i)) <= FrequencyCap
<1> DEFINE own == {t \in Task : t[1] = i /\ t[2] <= Len(new_tasks[i])}
<1>0. i \in Ingestion /\ step[i] = "committed" /\ LoopSound(i) /\ TasksSound(i) /\ CapSound(i)
  BY DEF CapInv, OnceInv, Committed
<1>1. Len(new_tasks[i]) \in 0..3
  BY <1>0, FewNewTasks
<1>2. Cardinality(own) = Len(new_tasks[i])
  BY <1>0, <1>1, FirstTasks
<1>3. \A t \in Counted(i) : t \in Before(i) \cup own
  <2>1. \A t \in Task : t[1] = i => t[2] \in 1..3 /\ t = <<i, t[2]>>
    BY DEF Task
  <2>2. \A t \in Task : t[1] = i /\ status[t] # "none" => t[2] <= Len(new_tasks[i])
    BY <1>0, <2>1 DEF TasksSound, HasTask
  <2> QED
    BY <2>2 DEF Counted, Before, RecentAttemptStatus
<1>4. Before(i) \in SUBSET Task /\ own \in SUBSET Task
  BY DEF Before
<1> HIDE DEF own
<1>5. IsFiniteSet(Before(i)) /\ IsFiniteSet(own)
  BY <1>4, TasksAreFinite, FS_Subset
<1>6. /\ Cardinality(Before(i)) \in Nat /\ Cardinality(own) \in Nat
      /\ Cardinality(Before(i) \cap own) \in Nat
  BY <1>5, FS_CardinalityType, FS_Intersection
<1>7. Cardinality(Before(i) \cup own)
        = Cardinality(Before(i)) + Cardinality(own) - Cardinality(Before(i) \cap own)
  BY <1>5, FS_Union
<1>8. /\ Cardinality(Counted(i)) <= Cardinality(Before(i) \cup own)
      /\ Cardinality(Counted(i)) \in Nat
  BY <1>0, <1>3, <1>4, FewerAreLeft
<1>9. /\ Cardinality(Before(i)) + Len(new_tasks[i]) <= recent_count[i]
      /\ recent_count[i] \in Nat /\ recent_count[i] <= FrequencyCap
  BY <1>0 DEF CapSound
<1> QED
  BY <1>2, <1>6, <1>7, <1>8, <1>9, CapAssumption

\* An event that is not dated ahead of the database's clock keeps the cap over
\* all that had committed when it counted, whatever happens meanwhile.
THEOREM CapKeptInOrderHolds == Spec => []CapKeptInOrder
<1>1. Init => CapInv
  BY OnceInvInitially DEF CapInv, CapSound, Init, IngestionInit
<1>2. CapInv /\ [Next]_vars => CapInv'
  BY CapInvPreserved
<1>3. CapInv => CapKeptInOrder
  BY CapFollows DEF CapKeptInOrder, NotAhead
<1> QED
  BY <1>1, <1>2, <1>3, PTL DEF Spec

-----------------------------------------------------------------------------
(***************************************************************************)
(* The loops of the system.                                                *)
(***************************************************************************)
\* No loop has begun.
NoLoop(i) == /\ loaded[i] = None /\ proposals[i] = <<>> /\ recent_count[i] = 0
             /\ decisions[i] = <<>> /\ new_tasks[i] = <<>>

\* The loop decides on what its request says.
AsRequested(i) == /\ loaded[i].event_type = request[i].event_type
                  /\ loaded[i].now = request[i].occurred_at
                  /\ loaded[i].timezone = request[i].timezone
                  /\ loaded[i].consent = request[i].consent
                  /\ loaded[i].account_status = request[i].status

LoopStands(i) ==
  /\ step[i] \in BeforeLoop => NoLoop(i)
  /\ step[i] = "plan" => LoopCorrect(i)
  /\ NoLoop(i) \/ (LoopCorrect(i) /\ AsRequested(i))

\* The tables of the loops, and the answers.
LoopTables == /\ loaded = [i \in Ingestion |-> loaded[i]]
              /\ proposals = [i \in Ingestion |-> proposals[i]]
              /\ recent_count = [i \in Ingestion |-> recent_count[i]]
              /\ decisions = [i \in Ingestion |-> decisions[i]]
              /\ new_tasks = [i \in Ingestion |-> new_tasks[i]]
              /\ answer \in [Ingestion -> Result]

PlanInv == /\ OnceInv /\ AttemptsSound /\ LoopTables
           /\ \A i \in Ingestion : LoopStands(i)

\* The loop an event begins is correct, and decides on what the request says.
LEMMA LoopOfRequest ==
  ASSUME IngestionInv, NEW i \in Ingestion, CountRecent(i), NoLoop(i), request' = request
  PROVE  (LoopCorrect(i) /\ AsRequested(i))'
<1>0. TablesTypeOK /\ LoopDomains /\ OptOutSound(i)
  BY DEF IngestionInv, RowsInv
<1> DEFINE begun == [event_type |-> request[i].event_type, now |-> request[i].occurred_at,
                     timezone |-> request[i].timezone, consent |-> request[i].consent,
                     opted_out |-> OptedOut(i), account_status |-> request[i].status,
                     recent_attempts |-> Cardinality(RecentAttempts(i))]
<1>1. /\ loaded'[i] = begun
      /\ proposals'[i] = ProposalsForEvent(request[i].event_type, request[i].occurred_at,
                                           request[i].timezone)
      /\ recent_count'[i] = Cardinality(RecentAttempts(i))
      /\ decisions'[i] = <<>> /\ new_tasks'[i] = <<>>
  BY <1>0 DEF CountRecent, StartLoop, LoopDomains, NoLoop
<1>2. Cardinality(RecentAttempts(i)) \in Nat
  <2>1. RecentAttempts(i) \in SUBSET Task
    BY DEF RecentAttempts
  <2> QED
    BY <2>1, TasksAreFinite, FS_Subset, FS_CardinalityType
<1>3. OptedOut(i) \in BOOLEAN
  BY DEF OptedOut
<1>4. request[i].event_type \in PolicyEvent
  BY <1>0 DEF OptOutSound, CountRecent, At
<1>5. request[i].occurred_at \in Int
  BY <1>0 DEF TablesTypeOK, InboundEventRequest
<1>6. begun \in Loaded
  BY <1>0, <1>2, <1>3, <1>4, <1>5, RequestTypes DEF Loaded
<1>7. LoopFresh(i)'
  BY <1>1, <1>6 DEF LoopFresh
<1>8. LoopCorrect(i)'
  BY <1>7, LoopBeginsNext
<1> QED
  BY <1>1, <1>8 DEF AsRequested

\* A transaction's own statements keep its loop.
LEMMA LoopOfTransaction ==
  ASSUME PlanInv, NEW i \in Ingestion, Statement(i)
  PROVE  LoopStands(i)'
<1>0. /\ IngestionInv /\ TablesTypeOK /\ LoopDomains /\ LoopStands(i) /\ request' = request
      /\ LoopFunctions
  BY StatementKeepsOthers DEF PlanInv, OnceInv, IngestionInv, RowsInv, LoopDomains, LoopFunctions
<1>1. step'[i] \in BeforeLoop => step[i] \in BeforeLoop
  BY <1>0, StepsLeadOn
<1>2. CASE CountRecent(i)
  <2>1. step[i] \in BeforeLoop /\ step'[i] = "plan"
    BY <1>0, <1>2 DEF CountRecent, At, Goto, BeforeLoop, TablesTypeOK
  <2>2. (LoopCorrect(i) /\ AsRequested(i))'
    BY <1>0, <1>2, <2>1, LoopOfRequest DEF LoopStands
  <2> QED
    BY <2>1, <2>2 DEF LoopStands, BeforeLoop
<1>3. CASE PlanProposal(i)
  <2>1. LoopStep(i) /\ step[i] = "plan" /\ step'[i] = "plan"
    BY <1>3 DEF PlanProposal, LoopStep, At
  <2>2. proposals[i] # <<>> /\ loaded' = loaded
    BY <1>0, <2>1, StepEffect
  <2>3. LoopCorrect(i)'
    BY <1>0, <2>1, LoopContinues DEF LoopStands
  <2>4. AsRequested(i)'
    BY <1>0, <2>2 DEF LoopStands, NoLoop, AsRequested
  <2> QED
    BY <2>1, <2>3, <2>4 DEF LoopStands, BeforeLoop
<1>4. CASE ~CountRecent(i) /\ ~PlanProposal(i)
  <2>1. UNCHANGED planningVars
    BY <1>4, LoopLeftAlone
  <2>2. step'[i] = "plan" => step[i] = "plan"
    BY <1>0, <1>4, LoopIsEntered
  <2>3. LoopKept(i)
    BY <2>1 DEF planningVars, LoopKept
  <2>4. LoopCorrect(i) => LoopCorrect(i)'
    BY <2>3, LoopLeft
  <2>5. (NoLoop(i)' <=> NoLoop(i)) /\ (AsRequested(i)' <=> AsRequested(i))
    BY <1>0, <2>1 DEF planningVars, NoLoop, AsRequested
  <2> QED
    BY <1>0, <1>1, <2>2, <2>4, <2>5 DEF LoopStands
<1> QED
  BY <1>2, <1>3, <1>4

\* What is not its own statement keeps the loop of a transaction.
LEMMA LoopOfBystander ==
  ASSUME NEW k \in Ingestion, LoopStands(k), step'[k] = step[k], LoopKept(k), request' = request
  PROVE  LoopStands(k)'
<1>1. LoopCorrect(k) => LoopCorrect(k)'
  BY LoopLeft
<1>2. (NoLoop(k)' <=> NoLoop(k)) /\ (AsRequested(k)' <=> AsRequested(k))
  BY DEF LoopKept, NoLoop, AsRequested
<1> QED
  BY <1>1, <1>2 DEF LoopStands

\* What a retry reads back of a committed event is a result.
LEMMA RetryAnswers ==
  ASSUME TablesTypeOK, NEW i \in Ingestion, LoopSound(i)
  PROVE  ResultFromExistingEvent(i) \in Result
<1>1. to_cancel[i] \in SUBSET Task /\ {t \in Task : t[1] = i /\ status[t] # "none"} \in SUBSET Task
  BY DEF TablesTypeOK
<1>2. /\ Cardinality(to_cancel[i]) \in Nat
      /\ Cardinality({t \in Task : t[1] = i /\ status[t] # "none"}) \in Nat
  BY <1>1, TasksAreFinite, FS_Subset, FS_CardinalityType
<1>3. Len(decisions[i]) \in Nat
  BY DEF LoopSound, IsSeq
<1>4. DecisionCount(i, "block") \in Nat /\ DecisionCount(i, "defer") \in Nat
  BY CountIsNatural DEF LoopSound
<1> QED
  BY <1>2, <1>3, <1>4 DEF ResultFromExistingEvent, Result

\* Every statement keeps the tables of the loops.
LEMMA TablesByStatement ==
  ASSUME PlanInv, NEW i \in Ingestion, Statement(i)
  PROVE  LoopTables'
<1>0. TablesTypeOK /\ LoopDomains /\ LoopTables /\ EventsSound /\ \A k \in Ingestion : LoopSound(k)
  BY DEF PlanInv, OnceInv, IngestionInv, RowsInv
<1>1. answer' \in [Ingestion -> Result]
  <2>1. CASE Commit(i)
    <3>1. ResultFromPlanner(i) \in Result
      BY <1>0, PlannerAnswers
    <3> QED
      BY <1>0, <2>1, <3>1 DEF Commit, LoopTables
  <2>2. CASE Duplicate(i)
    <3>1. inbound_events[EventOf(i)] \in Ingestion
      BY <1>0, <2>2, RequestTypes DEF Duplicate, TablesTypeOK
    <3>2. ResultFromExistingEvent(inbound_events[EventOf(i)]) \in Result
      BY <1>0, <3>1, RetryAnswers
    <3> QED
      BY <1>0, <2>2, <3>2 DEF Duplicate, LoopTables
  <2>3. CASE ~Commit(i) /\ ~Duplicate(i)
    BY <1>0, <2>3, AnswersAtTheEnd DEF LoopTables
  <2> QED
    BY <2>1, <2>2, <2>3
<1>2. CASE CountRecent(i)
  BY <1>0, <1>1, <1>2 DEF CountRecent, StartLoop, LoopTables
<1>3. CASE PlanProposal(i)
  BY <1>0, <1>1, <1>3 DEF PlanProposal, BlockProposal, DeferProposal, ScheduleProposal,
                          RecordDecision, LoopTables
<1>4. CASE ~CountRecent(i) /\ ~PlanProposal(i)
  <2>1. UNCHANGED planningVars
    BY <1>4, LoopLeftAlone
  <2> QED
    BY <1>0, <1>1, <2>1 DEF planningVars, LoopTables
<1> QED
  BY <1>2, <1>3, <1>4

LEMMA PlanInitially == Init => PlanInv
<1> SUFFICES ASSUME Init PROVE PlanInv
  OBVIOUS
<1>1. OnceInv
  BY OnceInvInitially
<1>2. AttemptsSound
  BY AttemptsAssumption DEF Init, IngestionInit, AttemptsSound
<1>3. NoResult \in Result
  BY DEF NoResult, Result
<1>4. LoopTables
  BY <1>3 DEF Init, IngestionInit, LoopTables
<1>5. \A i \in Ingestion : LoopStands(i)
  BY DEF Init, IngestionInit, LoopStands, NoLoop
<1> QED
  BY <1>1, <1>2, <1>4, <1>5 DEF PlanInv

LEMMA PlanInvPreserved ==
  ASSUME PlanInv, [Next]_vars
  PROVE  PlanInv'
<1>0. OnceInv' /\ TablesTypeOK /\ LoopDomains /\ AttemptsSound
  BY OnceInvPreserved DEF PlanInv, OnceInv, IngestionInv, RowsInv
<1>1. CASE Outside /\ SessionsKept
  <2>1. UNCHANGED <<request, step, answer, loaded, proposals, recent_count, decisions, new_tasks>>
    BY <1>1 DEF SessionsKept, planningVars
  <2>2. AttemptsSound'
    BY <1>0, <1>1, TaskOutside
  <2>3. LoopTables'
    BY <2>1 DEF PlanInv, LoopTables
  <2>4. \A k \in Ingestion : LoopStands(k)'
    BY <2>1, LoopOfBystander DEF PlanInv, LoopKept
  <2> QED
    BY <1>0, <2>2, <2>3, <2>4 DEF PlanInv
<1>2. ASSUME NEW i \in Ingestion, Statement(i), UNCHANGED attempt_count PROVE PlanInv'
  <2>1. AttemptsSound' /\ LoopTables' /\ LoopStands(i)'
    BY <1>0, <1>2, AttemptsByStatement, TablesByStatement, LoopOfTransaction
  <2>2. ASSUME NEW k \in Ingestion, k # i PROVE LoopStands(k)'
    <3>1. OthersKept(i) /\ request' = request
      BY <1>0, <1>2, StatementKeepsOthers
    <3>2. step'[k] = step[k] /\ LoopKept(k)
      BY <2>2, <3>1 DEF OthersKept, LoopKept
    <3> QED
      BY <3>1, <3>2, LoopOfBystander DEF PlanInv
  <2> QED
    BY <1>0, <2>1, <2>2 DEF PlanInv
<1> QED
  BY <1>1, <1>2, StepKinds

\* The inductive invariant of planning: every loop that has begun is correct
\* and is about its request, and every answer is a result.
THEOREM PlanInvariant == Spec => []PlanInv
<1>1. PlanInv /\ [Next]_vars => PlanInv'
  BY PlanInvPreserved
<1> QED
  BY <1>1, PlanInitially, PTL DEF Spec

\* All of the system's state has its type: tables, locks, sessions, loops,
\* answers and attempts.
THEOREM SystemTypeCorrect == Spec => []TypeOK
<1>1. PlanInv => TypeOK
  <2> SUFFICES ASSUME PlanInv PROVE TypeOK
    OBVIOUS
  <2>1. TablesTypeOK /\ AttemptsSound /\ LoopTables
    BY DEF PlanInv, OnceInv, IngestionInv, RowsInv
  <2>2. ASSUME NEW i \in Ingestion
        PROVE  /\ loaded[i] \in Loaded \cup {None} /\ proposals[i] \in Seq(Proposal)
               /\ recent_count[i] \in Nat /\ decisions[i] \in Seq(Decision)
               /\ new_tasks[i] \in Seq(Proposal)
    <3>1. NoLoop(i) \/ LoopCorrect(i)
      BY DEF PlanInv, LoopStands
    <3>2. CASE NoLoop(i)
      BY <3>2, EmptyIsSeq DEF NoLoop
    <3>3. CASE LoopCorrect(i)
      BY <3>3 DEF LoopCorrect, LoopTyped
    <3> QED
      BY <3>1, <3>2, <3>3
  <2>3. LoopTypeOK
    BY <2>1, <2>2 DEF LoopTables, LoopTypeOK
  <2> QED
    BY <2>1, <2>3 DEF TypeOK, AttemptsSound
<1> QED
  BY <1>1, PlanInvariant, PTL

\* Every task there is keeps to what its event said, whatever its transaction
\* had loaded and whoever committed meanwhile (planner.py:247-262, 305-315).
THEOREM TasksKeepToSnapshotHolds == Spec => []TasksKeepToSnapshot
<1>1. PlanInv => TasksKeepToSnapshot
  <2> SUFFICES ASSUME PlanInv, NEW i \in Ingestion, NEW n \in 1..3, status[<<i, n>>] # "none"
               PROVE  /\ n <= Len(new_tasks[i])
                      /\ new_tasks[i][n].channel \in request[i].consent
                      /\ request[i].status \in {"current", "delinquent"}
                      /\ ContactHours(request[i].timezone, new_tasks[i][n].channel,
                                      new_tasks[i][n].scheduled_at)
                      /\ new_tasks[i][n].scheduled_at >= request[i].occurred_at
    <3>1. \A t \in Task : /\ t[1] \in Ingestion /\ t[2] \in 1..3 /\ t = <<t[1], t[2]>>
      BY DEF Task
    <3> QED
      BY <3>1 DEF TasksKeepToSnapshot
  <2>1. TasksSound(i) /\ LoopStands(i) /\ LoopSound(i)
    BY DEF PlanInv, OnceInv
  <2>2. n <= Len(new_tasks[i])
    BY <2>1 DEF TasksSound, HasTask
  <2>3. ~NoLoop(i)
    BY <2>2, EmptyIsSeq DEF NoLoop
  <2>4. LoopCorrect(i) /\ AsRequested(i)
    BY <2>1, <2>3 DEF LoopStands
  <2>5. n \in 1..Len(new_tasks[i])
    BY <2>1, <2>2, FewNewTasks
  <2>6. TaskSound(i, new_tasks[i][n])
    BY <2>4, <2>5 DEF LoopCorrect
  <2> QED
    BY <2>2, <2>4, <2>6 DEF TaskSound, AsRequested
<1> QED
  BY <1>1, PlanInvariant, PTL

\* The loops promise in the system, between other transactions, crashes and
\* retries, all that they promise on their own (planner.py:214-317).
THEOREM LoopsKeepTheirPromises ==
  Spec => [](/\ CapKept /\ TasksAreLawful /\ DecisionsExplainTasks
             /\ NoLaterThanNeeded /\ CallsKeepBusinessHours)
<1>1. PlanInv => /\ CapKept /\ TasksAreLawful /\ DecisionsExplainTasks
                 /\ NoLaterThanNeeded /\ CallsKeepBusinessHours
  <2> SUFFICES ASSUME PlanInv
               PROVE  /\ CapKept /\ TasksAreLawful /\ DecisionsExplainTasks
                      /\ NoLaterThanNeeded /\ CallsKeepBusinessHours
    OBVIOUS
  <2>1. ASSUME NEW i \in Ingestion, NoLoop(i)
        PROVE  /\ new_tasks[i] = <<>> /\ 1..Len(new_tasks[i]) = {} /\ 1..Len(decisions[i]) = {}
               /\ SchedulingRows(i, Len(decisions[i])) = {}
               /\ Cardinality(SchedulingRows(i, Len(decisions[i]))) = Len(new_tasks[i])
    <3>1. Len(new_tasks[i]) = 0 /\ Len(decisions[i]) = 0 /\ new_tasks[i] = <<>>
      BY <2>1, EmptyIsSeq DEF NoLoop
    <3>2. SchedulingRows(i, Len(decisions[i])) = {}
      BY <3>1 DEF SchedulingRows
    <3>3. 1..0 = {}
      OBVIOUS
    <3>4. Cardinality({}) = 0
      BY FS_EmptySet
    <3>5. Cardinality(SchedulingRows(i, Len(decisions[i]))) = Len(new_tasks[i])
      BY <3>1, <3>2, <3>4
    <3>6. 1..Len(new_tasks[i]) = {} /\ 1..Len(decisions[i]) = {}
      BY <3>1, <3>3
    <3> QED
      BY <3>1, <3>2, <3>5, <3>6
  <2>2. \A i \in Ingestion : NoLoop(i) \/ LoopCorrect(i)
    BY DEF PlanInv, LoopStands
  <2>3. CapKept
    BY <2>1, <2>2, CorrectLoopPromises DEF CapKept
  <2>4. TasksAreLawful /\ NoLaterThanNeeded
    BY <2>1, <2>2, CorrectLoopPromises DEF TasksAreLawful, NoLaterThanNeeded, TaskSound
  <2>5. DecisionsExplainTasks
    BY <2>1, <2>2, CorrectLoopPromises DEF DecisionsExplainTasks
  <2>6. CallsKeepBusinessHours
    BY <2>1, <2>2, CorrectLoopPromises DEF CallsKeepBusinessHours, TaskSound
  <2> QED
    BY <2>3, <2>4, <2>5, <2>6
<1> QED
  BY <1>1, PlanInvariant, PTL
=============================================================================
