-------------------------- MODULE EventOnceProofs --------------------------
(***************************************************************************)
(* Ingestion implements EventOnce, for any number of requests, events,     *)
(* customers and accounts: what a commit writes about an event is counted  *)
(* alike by the planner and by every later reading of the rows.            *)
(***************************************************************************)
EXTENDS IngestionProofs, FiniteSetTheorems

IsSeq(s) == \E T : s \in Seq(T)

BeforeLoop == {"find_event", "load_customer", "load_accounts", "flush_customer",
               "load_account", "flush_account", "insert_event", "count_recent"}

\* An event makes no more tasks than it has proposals, and that is at most three.
LoopSound(i) ==
  /\ IsSeq(proposals[i]) /\ IsSeq(new_tasks[i]) /\ IsSeq(decisions[i])
  /\ Len(new_tasks[i]) + Len(proposals[i]) <= 3
  /\ step[i] \in BeforeLoop => new_tasks[i] = <<>>

HasTask(i, n) == status[<<i, n>>] # "none"

\* The rows of an event's tasks, and the tasks it cancels.
TasksSound(i) ==
  /\ \A n \in 1..3 : HasTask(i, n) <=> step[i] = "committed" /\ n <= Len(new_tasks[i])
  /\ \A t \in to_cancel[i] : status[t] # "none"

AnswerSound(i) ==
  /\ step[i] \notin {"committed", "duplicate"} => answer[i] = NoResult
  /\ step[i] = "committed" => answer[i] = ResultFromExistingEvent(i)

EventsSound ==
  \A e \in EventId : inbound_events[e] # None =>
    step[inbound_events[e]] = "committed" /\ EventOf(inbound_events[e]) = e

-----------------------------------------------------------------------------
(***************************************************************************)
(* The loop.                                                               *)
(***************************************************************************)
LEMMA Appended ==
  ASSUME NEW s, NEW e, IsSeq(s)
  PROVE  IsSeq(Append(s, e)) /\ Len(Append(s, e)) = Len(s) + 1 /\ Len(s) \in Nat
<1>1. PICK T : s \in Seq(T)
  BY DEF IsSeq
<1>2. s \in Seq(T \cup {e})
  BY <1>1
<1>3. Append(s, e) \in Seq(T \cup {e})
  BY <1>2
<1> QED
  BY <1>1, <1>2, <1>3 DEF IsSeq

LEMMA Shortened ==
  ASSUME NEW s, IsSeq(s), s # <<>>
  PROVE  IsSeq(Tail(s)) /\ Len(Tail(s)) = Len(s) - 1 /\ Len(s) \in Nat
<1>1. PICK T : s \in Seq(T)
  BY DEF IsSeq
<1> QED
  BY <1>1 DEF IsSeq

LEMMA EmptyIsSeq == IsSeq(<<>>) /\ Len(<<>>) = 0
<1>1. <<>> \in Seq({})
  OBVIOUS
<1> QED
  BY <1>1 DEF IsSeq

LEMMA ProposalsAreFew ==
  ASSUME NEW type \in PolicyEvent, NEW now, NEW zone
  PROVE  /\ IsSeq(ProposalsForEvent(type, now, zone))
         /\ Len(ProposalsForEvent(type, now, zone)) \in Nat
         /\ Len(ProposalsForEvent(type, now, zone)) <= 3
<1> DEFINE email == [channel |-> "email", scheduled_at |-> now]
           late == [channel |-> "sms", scheduled_at |-> now + 30]
           soon == [channel |-> "sms", scheduled_at |-> now + 15]
           call == [channel |-> "call", scheduled_at |-> NextBusinessDayAt10(now, zone)]
<1>1. \/ ProposalsForEvent(type, now, zone) = <<email, late, call>>
      \/ ProposalsForEvent(type, now, zone) = <<email, soon>>
  BY DEF ProposalsForEvent, PolicyEvent
<1> HIDE DEF email, late, soon, call
<1>2. /\ <<email, late, call>> \in Seq({email, late, call}) /\ Len(<<email, late, call>>) = 3
      /\ <<email, soon>> \in Seq({email, soon}) /\ Len(<<email, soon>>) = 2
  OBVIOUS
<1>3. IsSeq(<<email, late, call>>) /\ IsSeq(<<email, soon>>)
  BY <1>2 DEF IsSeq
<1>4. CASE ProposalsForEvent(type, now, zone) = <<email, late, call>>
  BY <1>2, <1>3, <1>4
<1>5. CASE ProposalsForEvent(type, now, zone) = <<email, soon>>
  BY <1>2, <1>3, <1>5
<1> QED
  BY <1>1, <1>4, <1>5

\* One turn of the loop moves a proposal to a decision, and at most one task.
LEMMA TurnOfLoop ==
  ASSUME LoopDomains, NEW i \in Ingestion, PlanProposal(i), LoopSound(i)
  PROVE  LoopSound(i)'
<1> USE DEF LoopDomains, LoopSound
<1>1. /\ step' = step /\ At(i, "plan") /\ proposals[i] # <<>>
      /\ proposals'[i] = Tail(proposals[i])
      /\ \E d : decisions'[i] = Append(decisions[i], d)
      /\ new_tasks'[i] = new_tasks[i] \/ \E p : new_tasks'[i] = Append(new_tasks[i], p)
  BY DEF PlanProposal, BlockProposal, DeferProposal,
         ScheduleProposal, RecordDecision
<1>2. IsSeq(proposals'[i]) /\ IsSeq(decisions'[i]) /\ IsSeq(new_tasks'[i])
  BY <1>1, Appended, Shortened
<1>3. Len(new_tasks'[i]) <= Len(new_tasks[i]) + 1 /\ Len(new_tasks'[i]) \in Nat
  BY <1>1, Appended
<1>4. Len(proposals'[i]) = Len(proposals[i]) - 1 /\ Len(proposals[i]) \in Nat
  BY <1>1, Shortened
<1>5. Len(new_tasks[i]) \in Nat
  BY Appended
<1> QED
  BY <1>1, <1>2, <1>3, <1>4, <1>5 DEF At, BeforeLoop

\* Steps that do not plan leave the loop alone.
LEMMA LoopLeftAlone ==
  ASSUME NEW i \in Ingestion, Statement(i), ~CountRecent(i), ~PlanProposal(i)
  PROVE  UNCHANGED planningVars
<1>1. CASE Failing(i)
  BY <1>1, FailingEnds DEF End
<1>2. CASE InsertCustomer(i) \/ UpdateCustomer(i) \/ InsertAccount(i) \/ UpdateAccount(i)
  BY <1>2 DEF InsertCustomer, UpdateCustomer, InsertAccount, UpdateAccount, FlushesCustomer,
              FlushesAccount
<1>3. CASE Commit(i)
  BY <1>3 DEF Commit, End
<1> QED
  BY <1>1, <1>2, <1>3 DEF Statement, Receive, Proceed, Failing, MissEvent, LoadCustomer,
     LoadAccounts, SameCustomer, LoadAccount, SameAccount, InsertEvent, SetOptedOut, SetPaused,
     SelectTasks

\* No statement leads back.
LEMMA StepsLeadOn ==
  ASSUME TablesTypeOK, NEW i \in Ingestion, Statement(i), step'[i] \in BeforeLoop
  PROVE  step[i] \in BeforeLoop
<1> USE DEF TablesTypeOK, BeforeLoop, Goto, At
<1>1. CASE Failing(i)
  <2>1. PICK s \in {"duplicate", "failed", "rejected", "aborted"} : End(i, s)
    BY <1>1, FailingEnds
  <2> QED
    BY <2>1 DEF End
<1>2. CASE InsertCustomer(i) \/ UpdateCustomer(i) \/ InsertAccount(i) \/ UpdateAccount(i)
  BY <1>2 DEF InsertCustomer, UpdateCustomer, InsertAccount, UpdateAccount
<1>3. CASE Commit(i)
  BY <1>3 DEF Commit, End
<1>4. CASE PlanProposal(i) \/ CountRecent(i)
  BY <1>4 DEF PlanProposal, CountRecent
<1> QED
  BY <1>1, <1>2, <1>3, <1>4 DEF Statement, Receive, Proceed, Failing, MissEvent, LoadCustomer,
     LoadAccounts, SameCustomer, LoadAccount, SameAccount, InsertEvent, SetOptedOut, SetPaused,
     SelectTasks

\* A loop that begins has made no task yet.
LEMMA LoopOfOwn ==
  ASSUME IngestionInv, NEW i \in Ingestion, Statement(i), LoopSound(i)
  PROVE  LoopSound(i)'
<1>0. TablesTypeOK /\ LoopDomains /\ OptOutSound(i)
  BY DEF IngestionInv, RowsInv
<1>1. CASE PlanProposal(i)
  BY <1>0, <1>1, TurnOfLoop
<1>2. CASE CountRecent(i)
  <2> DEFINE asked == ProposalsForEvent(request[i].event_type,
                                                request[i].occurred_at, request[i].timezone)
  <2>1. /\ new_tasks' = new_tasks /\ decisions' = decisions /\ step[i] = "count_recent"
        /\ step' = [step EXCEPT ![i] = "plan"]
        /\ proposals' = [proposals EXCEPT ![i] = asked]
    BY <1>2 DEF CountRecent, StartLoop, At, Goto
  <2>2. IsSeq(asked) /\ Len(asked) \in Nat /\ Len(asked) <= 3
    BY <1>0, <2>1, ProposalsAreFew DEF OptOutSound
  <2> HIDE DEF asked
  <2>3. new_tasks[i] = <<>> /\ Len(new_tasks[i]) = 0
    BY <2>1, EmptyIsSeq DEF LoopSound, BeforeLoop
  <2>4. proposals'[i] = asked /\ step'[i] = "plan"
    BY <1>0, <2>1 DEF LoopDomains, TablesTypeOK
  <2>5. /\ IsSeq(proposals'[i]) /\ IsSeq(new_tasks'[i]) /\ IsSeq(decisions'[i])
        /\ Len(new_tasks'[i]) = 0 /\ new_tasks'[i] = <<>>
        /\ Len(proposals'[i]) \in Nat /\ Len(proposals'[i]) <= 3
    BY <2>1, <2>2, <2>3, <2>4 DEF LoopSound
  <2>6. Len(new_tasks'[i]) + Len(proposals'[i]) <= 3
    BY <2>5
  <2> QED
    BY <2>5, <2>6 DEF LoopSound
<1>3. CASE ~PlanProposal(i) /\ ~CountRecent(i)
  <2>1. UNCHANGED planningVars
    BY <1>3, LoopLeftAlone
  <2> QED
    BY <1>0, <2>1, StepsLeadOn DEF LoopSound, planningVars
<1> QED
  BY <1>1, <1>2, <1>3

\* What does not touch the loop keeps what is known of it.
LEMMA LoopOfOthers ==
  ASSUME NEW k \in Ingestion, LoopSound(k), step'[k] = step[k], proposals'[k] = proposals[k],
         new_tasks'[k] = new_tasks[k], decisions'[k] = decisions[k]
  PROVE  LoopSound(k)'
BY DEF LoopSound

-----------------------------------------------------------------------------
(***************************************************************************)
(* The counts of an answer.                                                *)
(***************************************************************************)
LEMMA TasksAreFinite == IsFiniteSet(Task)
<1>1. IsFiniteSet(1..3)
  <2>1. 1 \in Int /\ 3 \in Int
    OBVIOUS
  <2> QED
    BY <2>1, FS_Interval, Zenon
<1> QED
  BY <1>1, FS_Product, IngestionAssumption DEF Task

\* The first so many tasks of a transaction are so many.
LEMMA FirstTasks ==
  ASSUME NEW i \in Ingestion, NEW L \in 0..3
  PROVE  Cardinality({t \in Task : t[1] = i /\ t[2] <= L}) = L
<1> DEFINE S == {t \in Task : t[1] = i /\ t[2] <= L}
           f == [n \in 1..L |-> <<i, n>>]
<1>1. f \in [1..L -> S]
  BY DEF Task
<1>2. \A t \in S : t[2] \in 1..L /\ f[t[2]] = t
  BY DEF Task
<1>3. \A m, n \in 1..L : f[m] = f[n] => m = n
  OBVIOUS
<1>4. f \in Bijection(1..L, S)
  BY <1>1, <1>2, <1>3 DEF Bijection, Injection, Surjection, IsInjective
<1>5. L \in Nat
  OBVIOUS
<1> HIDE DEF S, f
<1>6. ExistsBijection(1..L, S)
  BY <1>4, Zenon DEF ExistsBijection
<1>7. Cardinality(S) = L
  BY <1>5, <1>6, FS_CountingElements, Zenon
<1> QED
  BY <1>7 DEF S

LEMMA CountIsNatural ==
  ASSUME NEW i \in Ingestion, IsSeq(decisions[i]), NEW outcome
  PROVE  DecisionCount(i, outcome) \in Nat
<1>1. Len(decisions[i]) \in Nat
  BY DEF IsSeq
<1>2. IsFiniteSet(1..Len(decisions[i]))
  BY <1>1, FS_Interval
<1>3. IsFiniteSet({n \in 1..Len(decisions[i]) : decisions[i][n].decision = outcome})
  BY <1>2, FS_Subset
<1> QED
  BY <1>3, FS_CardinalityType DEF DecisionCount

\* What the planner answers is a result.
LEMMA PlannerAnswers ==
  ASSUME TablesTypeOK, NEW i \in Ingestion, LoopSound(i)
  PROVE  ResultFromPlanner(i) \in Result \ {NoResult}
<1>1. to_cancel[i] \in SUBSET Task
  BY DEF TablesTypeOK
<1>2. Cardinality(to_cancel[i]) \in Nat
  BY <1>1, TasksAreFinite, FS_Subset, FS_CardinalityType
<1>3. Len(new_tasks[i]) \in Nat /\ Len(decisions[i]) \in Nat
  BY DEF LoopSound, IsSeq
<1>4. DecisionCount(i, "block") \in Nat /\ DecisionCount(i, "defer") \in Nat
  BY CountIsNatural DEF LoopSound
<1> QED
  BY <1>2, <1>3, <1>4, NoneIsNoRow DEF ResultFromPlanner, Result, NoResult

-----------------------------------------------------------------------------
(***************************************************************************)
(* What changes the tasks, the cancellations and the answers.              *)
(***************************************************************************)
LEMMA AnswersAtTheEnd ==
  ASSUME NEW i \in Ingestion, Statement(i), ~Commit(i), ~Duplicate(i)
  PROVE  UNCHANGED answer
<1>1. CASE Failing(i)
  BY <1>1 DEF Failing, ReplayEvent, EventCollides, CustomerCollides, AccountCollides,
              RejectAccount, DeadlockVictim, ConnectionLost, Rollback
<1>2. CASE PlanProposal(i)
  BY <1>2 DEF PlanProposal, sharedVars
<1>3. CASE InsertCustomer(i) \/ UpdateCustomer(i) \/ InsertAccount(i) \/ UpdateAccount(i)
  BY <1>3 DEF InsertCustomer, UpdateCustomer, InsertAccount, UpdateAccount, FlushesCustomer,
              FlushesAccount, sharedVars
<1> QED
  BY <1>1, <1>2, <1>3 DEF Statement, Receive, Proceed, Failing, MissEvent, LoadCustomer,
     LoadAccounts, SameCustomer, LoadAccount, SameAccount, InsertEvent, CountRecent,
     SetOptedOut, SetPaused, SelectTasks, sharedVars

LEMMA ResultStands ==
  ASSUME NEW k \in Ingestion, decisions'[k] = decisions[k], to_cancel'[k] = to_cancel[k],
         \A n \in 1..3 : HasTask(k, n)' <=> HasTask(k, n)
  PROVE  ResultFromExistingEvent(k)' = ResultFromExistingEvent(k)
<1>1. {t \in Task : t[1] = k /\ status'[t] # "none"} = {t \in Task : t[1] = k /\ status[t] # "none"}
  BY DEF HasTask, Task
<1> QED
  BY <1>1 DEF ResultFromExistingEvent, DecisionCount

\* A commit adds the transaction's own tasks and no other.
LEMMA TasksOfCommit ==
  ASSUME TablesTypeOK, NEW i \in Ingestion, Commit(i), TasksSound(i)
  PROVE  /\ \A n \in 1..3 : HasTask(i, n)' <=> n <= Len(new_tasks[i])
         /\ \A k \in Ingestion \ {i}, n \in 1..3 : HasTask(k, n)' <=> HasTask(k, n)
<1>1. step[i] # "committed" /\ \A n \in 1..3 : status[<<i, n>>] = "none" /\ <<i, n>> \in Task
  BY CommitSteps DEF TasksSound, HasTask, Task
<1>2. \A t \in to_cancel[i] : t \in Task /\ status[t] # "none"
  BY DEF TasksSound, TablesTypeOK
<1>3. \A k \in Ingestion, n \in 1..3 : <<k, n>> \in Task /\ <<k, n>>[1] = k /\ <<k, n>>[2] = n
  BY DEF Task
<1> QED
  BY <1>1, <1>2, <1>3 DEF Commit, HasTask

LEMMA FewNewTasks ==
  ASSUME NEW i \in Ingestion, LoopSound(i)
  PROVE  Len(new_tasks[i]) \in 0..3
<1>1. Len(new_tasks[i]) \in Nat /\ Len(proposals[i]) \in Nat
  BY DEF LoopSound, IsSeq
<1>2. Len(new_tasks[i]) + Len(proposals[i]) <= 3
  BY DEF LoopSound
<1>3. \A a, b \in Nat : a + b <= 3 => a \in 0..3
  OBVIOUS
<1> QED
  BY <1>1, <1>2, <1>3, Zenon

\* The answer of a planner is what a retry reads back.
LEMMA ReadBack ==
  ASSUME TablesTypeOK, LoopDomains, NEW i \in Ingestion, Commit(i), TasksSound(i), LoopSound(i)
  PROVE  ResultFromExistingEvent(i)' = ResultFromPlanner(i)
<1>1. Len(new_tasks[i]) \in 0..3
  BY FewNewTasks
<1>2. {t \in Task : t[1] = i /\ status'[t] # "none"}
        = {t \in Task : t[1] = i /\ t[2] <= Len(new_tasks[i])}
  <2>1. \A n \in 1..3 : status'[<<i, n>>] # "none" <=> n <= Len(new_tasks[i])
    BY TasksOfCommit, Zenon DEF HasTask
  <2>2. \A t \in Task : t[1] = i => t[2] \in 1..3 /\ t = <<i, t[2]>>
    BY DEF Task
  <2> QED
    BY <2>1, <2>2
<1>3. Cardinality({t \in Task : t[1] = i /\ status'[t] # "none"}) = Len(new_tasks[i])
  BY <1>1, <1>2, FirstTasks
<1>4. UNCHANGED <<decisions, to_cancel>>
  BY DEF Commit, End, planningVars
<1> QED
  BY <1>3, <1>4 DEF ResultFromExistingEvent, ResultFromPlanner, DecisionCount

-----------------------------------------------------------------------------
(***************************************************************************)
(* The invariant.                                                          *)
(***************************************************************************)
OnceInv == /\ IngestionInv /\ EventsSound
           /\ \A i \in Ingestion : LoopSound(i) /\ TasksSound(i) /\ AnswerSound(i)

\* Which tasks there are, and which transaction is which event's, for a commit ...
LEMMA OnceInvByCommit ==
  ASSUME OnceInv, NEW i \in Ingestion, Commit(i), Statement(i)
  PROVE  /\ EventsSound'
         /\ \A k \in Ingestion : TasksSound(k)' /\ AnswerSound(k)'
<1>0. TablesTypeOK /\ LoopDomains /\ TasksSound(i) /\ LoopSound(i)
  BY DEF OnceInv, IngestionInv, RowsInv
<1>1. OthersKept(i) /\ request' = request /\ step'[i] = "committed"
  BY <1>0, StatementKeepsOthers, EndsOfStatements
<1>2. UNCHANGED to_cancel /\ UNCHANGED new_tasks /\ UNCHANGED decisions
  BY DEF Commit, End, planningVars
<1>3. /\ \A n \in 1..3 : HasTask(i, n)' <=> n <= Len(new_tasks[i])
      /\ \A k \in Ingestion \ {i}, n \in 1..3 : HasTask(k, n)' <=> HasTask(k, n)
  BY <1>0, TasksOfCommit
<1>4. \A t \in Task : status[t] # "none" => status'[t] # "none"
  BY DEF Commit
<1>5. \A k \in Ingestion : to_cancel[k] \in SUBSET Task
  BY <1>0 DEF TablesTypeOK
<1>6. \A k \in Ingestion : TasksSound(k)'
  <2>1. ASSUME NEW k \in Ingestion
        PROVE  \A n \in 1..3 : HasTask(k, n)' <=> step'[k] = "committed" /\ n <= Len(new_tasks'[k])
    BY <1>1, <1>2, <1>3 DEF OnceInv, TasksSound, OthersKept
  <2>2. ASSUME NEW k \in Ingestion PROVE \A t \in to_cancel'[k] : status'[t] # "none"
    BY <1>2, <1>4, <1>5 DEF OnceInv, TasksSound
  <2> QED
    BY <2>1, <2>2 DEF TasksSound
<1>7. AnswerSound(i)'
  <2>1. ResultFromExistingEvent(i)' = ResultFromPlanner(i)
    BY <1>0, ReadBack
  <2>2. answer'[i] = ResultFromPlanner(i)
    BY <1>0 DEF Commit, LoopDomains
  <2> QED
    BY <1>1, <2>1, <2>2 DEF AnswerSound
<1>8. ASSUME NEW k \in Ingestion \ {i} PROVE AnswerSound(k)'
  <2>1. ResultFromExistingEvent(k)' = ResultFromExistingEvent(k)
    BY <1>2, <1>3, ResultStands
  <2> QED
    BY <1>1, <2>1 DEF OnceInv, AnswerSound, OthersKept
<1>9. EventsSound'
  <2>1. \A e \in EventId : inbound_events'[e] = (IF e = EventOf(i) THEN i ELSE inbound_events[e])
    BY <1>0 DEF Commit, TablesTypeOK
  <2>2. \A e \in EventId : inbound_events[e] \in Ingestion \cup {None}
    BY <1>0 DEF TablesTypeOK
  <2> QED
    BY <1>1, <2>1, <2>2 DEF OnceInv, EventsSound, OthersKept, EventOf
<1> QED
  BY <1>6, <1>7, <1>8, <1>9

\* ... and for any other statement.
LEMMA OnceInvByOthers ==
  ASSUME OnceInv, NEW i \in Ingestion, Statement(i), ~Commit(i)
  PROVE  /\ EventsSound'
         /\ \A k \in Ingestion : TasksSound(k)' /\ AnswerSound(k)'
<1>0. TablesTypeOK /\ LoopDomains
  BY DEF OnceInv, IngestionInv, RowsInv
<1>1. OthersKept(i) /\ request' = request /\ step'[i] # "committed" /\ step[i] # "committed"
  BY <1>0, StatementKeepsOthers, EndsOfStatements, StatementsAreOpen DEF Ended
<1>2. UNCHANGED <<inbound_events, status>>
  BY OnlyCommitWrites DEF tableVars
<1>3. \A t \in to_cancel'[i] : status[t] # "none"
  <2>1. CASE SelectTasks(i)
    BY <1>0, <2>1 DEF SelectTasks, ScheduledTasks, TablesTypeOK
  <2>2. CASE ~SelectTasks(i)
    BY <2>2, CancelsBySelection DEF OnceInv, TasksSound
  <2> QED
    BY <2>1, <2>2
<1>4. ASSUME NEW k \in Ingestion PROVE TasksSound(k)'
  BY <1>1, <1>2, <1>3 DEF OnceInv, TasksSound, HasTask, OthersKept
<1>5. AnswerSound(i)'
  <2>1. step'[i] # "duplicate" => answer'[i] = NoResult
    <3>1. CASE Duplicate(i)
      BY <1>0, <3>1 DEF Duplicate, End, Goto, TablesTypeOK
    <3>2. CASE ~Duplicate(i)
      BY <1>1, <3>2, AnswersAtTheEnd, StatementsAreOpen DEF OnceInv, AnswerSound, Ended
    <3> QED
      BY <3>1, <3>2
  <2> QED
    BY <1>1, <2>1 DEF AnswerSound
<1>6. ASSUME NEW k \in Ingestion \ {i} PROVE AnswerSound(k)'
  <2>1. ResultFromExistingEvent(k)' = ResultFromExistingEvent(k)
    BY <1>1, <1>2, ResultStands DEF OthersKept, HasTask
  <2> QED
    BY <1>1, <2>1 DEF OnceInv, AnswerSound, OthersKept
<1>7. EventsSound'
  BY <1>0, <1>1, <1>2 DEF OnceInv, EventsSound, OthersKept, EventOf, TablesTypeOK
<1> QED
  BY <1>4, <1>5, <1>6, <1>7

\* Workers, operators and time make no task of nothing.
LEMMA OutsideKeepsTasks ==
  ASSUME TablesTypeOK, Outside
  PROVE  \A t \in Task : status'[t] # "none" <=> status[t] # "none"
<1> USE DEF TablesTypeOK
<1>1. CASE \E a \in Account : CancelOutreach(a)
  BY <1>1 DEF CancelOutreach
<1>2. ASSUME NEW t \in Task, NEW s \in {"sent", "failed"}, Work(t) \/ RecordManually(t, s)
      PROVE  \A u \in Task : status'[u] # "none" <=> status[u] # "none"
  <2>1. status[t] # "none" /\ \E r \in TaskStatus : status' = [status EXCEPT ![t] = r]
    BY <1>2 DEF Work, RecordManually, Lifecycle!Attempt, Lifecycle!Succeed, Lifecycle!Fail,
         Lifecycle!Override, Lifecycle!Move, TaskStatus
  <2> QED
    BY <2>1 DEF TaskStatus
<1>3. CASE Tick(AtHour(24)) \/ UNCHANGED vars
  BY <1>3 DEF Tick, tableVars, vars, ingestionVars
<1> QED
  BY <1>1, <1>2, <1>3 DEF Outside, Operate

LEMMA OnceInvInitially == Init => OnceInv
<1> SUFFICES ASSUME Init PROVE OnceInv
  OBVIOUS
<1>1. IngestionInv
  BY IngestionInitially
<1>2. EventsSound
  BY DEF Init, IngestionInit, EventsSound
<1>3. ASSUME NEW i \in Ingestion PROVE LoopSound(i)
  BY EmptyIsSeq DEF Init, IngestionInit, LoopSound
<1>4. ASSUME NEW i \in Ingestion PROVE TasksSound(i) /\ AnswerSound(i)
  BY DEF Init, IngestionInit, TasksSound, AnswerSound, HasTask, Task
<1> QED
  BY <1>1, <1>2, <1>3, <1>4 DEF OnceInv

LEMMA OnceInvPreserved ==
  ASSUME OnceInv, [Next]_vars
  PROVE  OnceInv'
<1>0. IngestionInv' /\ TablesTypeOK /\ LoopDomains
  BY IngestionInvPreserved DEF OnceInv, IngestionInv, RowsInv
<1>1. CASE Outside /\ SessionsKept
  <2>1. \A t \in Task : status'[t] # "none" <=> status[t] # "none"
    BY <1>0, <1>1, OutsideKeepsTasks
  <2>2. EventsSound'
    BY <1>1 DEF SessionsKept, OnceInv, EventsSound, EventOf
  <2>3. ASSUME NEW k \in Ingestion PROVE LoopSound(k)' /\ TasksSound(k)' /\ AnswerSound(k)'
    <3>1. UNCHANGED <<step, to_cancel, answer, loaded, proposals, decisions, new_tasks>>
      BY <1>1 DEF SessionsKept, planningVars
    <3>2. \A n \in 1..3 : HasTask(k, n)' <=> HasTask(k, n)
      BY <2>1 DEF HasTask, Task
    <3>3. to_cancel[k] \in SUBSET Task
      BY <1>0 DEF TablesTypeOK
    <3>4. ResultFromExistingEvent(k)' = ResultFromExistingEvent(k)
      BY <3>1, <3>2, ResultStands
    <3>5. LoopSound(k)'
      BY <3>1, LoopOfOthers DEF OnceInv
    <3> QED
      BY <2>1, <3>1, <3>2, <3>3, <3>4, <3>5 DEF OnceInv, TasksSound, AnswerSound
  <2> QED
    BY <1>0, <2>2, <2>3 DEF OnceInv
<1>2. ASSUME NEW i \in Ingestion, Statement(i) PROVE OnceInv'
  <2>1. EventsSound' /\ \A k \in Ingestion : TasksSound(k)' /\ AnswerSound(k)'
    BY <1>2, OnceInvByCommit, OnceInvByOthers
  <2>2. ASSUME NEW k \in Ingestion PROVE LoopSound(k)'
    <3>1. OthersKept(i)
      BY <1>0, <1>2, StatementKeepsOthers
    <3> QED
      BY <1>2, <3>1, LoopOfOwn, LoopOfOthers DEF OnceInv, OthersKept
  <2> QED
    BY <1>0, <2>1, <2>2 DEF OnceInv
<1> QED
  BY <1>1, <1>2, StepKinds

\* The invariant the refinement needs: which rows there are, who made them and
\* what was answered about them.
THEOREM OnceInvariant == Spec => []OnceInv
<1>1. OnceInv /\ [Next]_vars => OnceInv'
  BY OnceInvPreserved
<1> QED
  BY <1>1, OnceInvInitially, PTL DEF Spec

-----------------------------------------------------------------------------
(***************************************************************************)
(* The refinement.                                                         *)
(***************************************************************************)
LEMMA CommitTakesEffect ==
  ASSUME OnceInv, NEW i \in Ingestion, Commit(i), Statement(i)
  PROVE  Once!TakeEffect(i)
<1>0. TablesTypeOK /\ LoopDomains /\ EventSound(i) /\ LoopSound(i) /\ AnswerSound(i)
  BY DEF OnceInv, IngestionInv, RowsInv, RowsSound
<1>1. EventOf(i) \in EventId /\ step[i] \in AfterInsert /\ step[i] \notin Ended
  BY <1>0, RequestTypes, CommitSteps, StatementsAreOpen
<1>2. inbound_events[EventOf(i)] = None /\ answer[i] = NoResult
  BY <1>0, <1>1 DEF EventSound, AnswerSound, Ended
<1>3. ResultFromPlanner(i) \in Result \ {NoResult}
  BY <1>0, PlannerAnswers
<1>4. /\ inbound_events' = [inbound_events EXCEPT ![EventOf(i)] = i]
      /\ answer' = [answer EXCEPT ![i] = ResultFromPlanner(i)]
      /\ answer'[i] = ResultFromPlanner(i)
      /\ request' = request
  BY <1>0 DEF Commit, End, LoopDomains
<1>5. answer' = [answer EXCEPT ![i] = answer'[i]]
  BY <1>4
<1>6. [j \in Ingestion |-> EventOf(j)]' = [j \in Ingestion |-> EventOf(j)]
  BY <1>4 DEF EventOf
<1> QED
  BY <1>2, <1>3, <1>4, <1>5, <1>6 DEF Once!TakeEffect

\* What an event may have an effect on.
Books == <<customers, accounts, {t \in Task : status[t] # "none"},
           [i \in Committed |-> <<decisions[i], to_cancel[i]>>]>>

LEMMA BooksKept ==
  ASSUME OnceInv, NEW i \in Ingestion, Statement(i), ~Commit(i)
  PROVE  Books' = Books
<1>0. TablesTypeOK /\ LoopDomains
  BY DEF OnceInv, IngestionInv, RowsInv
<1>1. UNCHANGED tableVars
  BY OnlyCommitWrites
<1>2. OthersKept(i) /\ step[i] # "committed" /\ step'[i] # "committed"
  BY <1>0, StatementKeepsOthers, EndsOfStatements, StatementsAreOpen DEF Ended
<1>3. Committed' = Committed
  BY <1>2 DEF Committed, OthersKept
<1>4. \A k \in Committed : decisions'[k] = decisions[k] /\ to_cancel'[k] = to_cancel[k]
  BY <1>2 DEF Committed, OthersKept
<1> QED
  BY <1>1, <1>3, <1>4 DEF Books, tableVars

LEMMA DuplicateRepeats ==
  ASSUME OnceInv, NEW i \in Ingestion, Duplicate(i), Statement(i), ~Commit(i)
  PROVE  Once!Repeat(i)
<1> DEFINE first == inbound_events[EventOf(i)]
<1>0. TablesTypeOK /\ LoopDomains /\ EventsSound /\ AnswerSound(i)
  BY DEF OnceInv, IngestionInv, RowsInv
<1>1. EventOf(i) \in EventId
  BY <1>0, RequestTypes
<1>2. first # None /\ first \in Ingestion /\ step[first] = "committed"
  BY <1>0, <1>1 DEF Duplicate, EventsSound, TablesTypeOK
<1>3. answer[first] = ResultFromExistingEvent(first)
  BY <1>2 DEF OnceInv, AnswerSound
<1>4. answer[i] = NoResult
  BY <1>0, StatementsAreOpen DEF AnswerSound, Ended
<1>5. answer' = [answer EXCEPT ![i] = answer[first]]
  BY <1>3 DEF Duplicate
<1>6. UNCHANGED <<inbound_events, request>> /\ Books' = Books
  BY BooksKept DEF Duplicate, End, tableVars
<1>7. [j \in Ingestion |-> EventOf(j)]' = [j \in Ingestion |-> EventOf(j)]
  BY <1>6 DEF EventOf
<1> QED
  BY <1>2, <1>4, <1>5, <1>6, <1>7 DEF Once!Repeat, Books

LEMMA OnceStep ==
  ASSUME OnceInv, [Next]_vars
  PROVE  [Once!OnceNext]_(Once!onceVars)
<1>0. TablesTypeOK /\ LoopDomains
  BY DEF OnceInv, IngestionInv, RowsInv
<1>1. CASE Outside /\ SessionsKept
  <2>1. {t \in Task : status'[t] # "none"} = {t \in Task : status[t] # "none"}
    BY <1>0, <1>1, OutsideKeepsTasks
  <2>2. UNCHANGED <<customers, accounts, inbound_events, request, step, to_cancel, answer, decisions>>
    BY <1>1 DEF SessionsKept, planningVars
  <2>3. Books' = Books
    BY <2>1, <2>2 DEF Books, Committed
  <2>4. [j \in Ingestion |-> EventOf(j)]' = [j \in Ingestion |-> EventOf(j)]
    BY <2>2 DEF EventOf
  <2> QED
    BY <2>2, <2>3, <2>4 DEF Once!onceVars, Books
<1>2. ASSUME NEW i \in Ingestion, Statement(i) PROVE [Once!OnceNext]_(Once!onceVars)
  <2>1. CASE Commit(i)
    BY <1>2, <2>1, CommitTakesEffect DEF Once!OnceNext
  <2>2. CASE ~Commit(i) /\ Duplicate(i)
    BY <1>2, <2>2, DuplicateRepeats DEF Once!OnceNext
  <2>3. CASE ~Commit(i) /\ ~Duplicate(i)
    <3>1. Books' = Books /\ UNCHANGED answer
      BY <1>2, <2>3, BooksKept, AnswersAtTheEnd
    <3>2. UNCHANGED <<inbound_events, request>>
      BY <1>0, <1>2, <2>3, OnlyCommitWrites, StatementKeepsOthers DEF tableVars
    <3>3. [j \in Ingestion |-> EventOf(j)]' = [j \in Ingestion |-> EventOf(j)]
      BY <3>2 DEF EventOf
    <3> QED
      BY <3>1, <3>2, <3>3 DEF Once!onceVars, Books
  <2> QED
    BY <2>1, <2>2, <2>3
<1> QED
  BY <1>1, <1>2, StepKinds

\* However often and however concurrently an event is sent, it takes effect at
\* most once and as a whole, and every answer about it is the first one.
THEOREM EventsTakeEffectOnceHolds == Spec => EventsTakeEffectOnce
<1>1. Init => Once!OnceInit
  <2> SUFFICES ASSUME Init PROVE Once!OnceInit
    OBVIOUS
  <2>1. TablesTypeOK
    BY RowsInitially
  <2>2. [i \in Ingestion |-> EventOf(i)] \in [Ingestion -> EventId]
    BY <2>1, RequestTypes
  <2> QED
    BY <2>2 DEF Once!OnceInit, Init, IngestionInit
<1>2. OnceInv /\ [Next]_vars => [Once!OnceNext]_(Once!onceVars)
  BY OnceStep
<1> QED
  BY <1>1, <1>2, OnceInvariant, PTL DEF Spec, Once!OnceSpec, EventsTakeEffectOnce
=============================================================================
