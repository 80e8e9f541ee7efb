---------------------------- MODULE OverlapProofs ----------------------------
(***************************************************************************)
(* What an event can miss is what it overlaps.  Cancellations: whatever    *)
(* had committed when an event queried the tasks is cancelled with it, or  *)
(* has been attempted, answered or cancelled by somebody else.  Snapshots: *)
(* a column that a transaction leaves alone says what its request says,    *)
(* unless one that it had not seen has written it since.                   *)
(***************************************************************************)
EXTENDS IngestionProofs

\* The task does not wait for its first attempt, and never will again.
Settled(t) == /\ step[t[1]] = "committed"
              /\ status[t] # "scheduled" \/ attempt_count[t] > 0

CancelSound(j) ==
  step[j] \in {"commit", "committed"} /\ request[j].event_type \in CancellingEvent =>
    \A t \in Task : t[1] \in seen_tasks[j] /\ OfAccount(j, t) =>
      \/ Settled(t)
      \/ step[j] = "commit" /\ step[t[1]] = "committed" /\ t \in to_cancel[j]

CancelInv == IngestionInv /\ AttemptsSound /\ \A j \in Ingestion : CancelSound(j)

-----------------------------------------------------------------------------
(***************************************************************************)
(* The events.                                                             *)
(***************************************************************************)
LEMMA SettledStands ==
  ASSUME TablesTypeOK, LoopDomains, NEW i \in Ingestion, Statement(i), UNCHANGED attempt_count,
         step[i] # "committed", NEW t \in Task, Settled(t)
  PROVE  Settled(t)'
<1>1. t[1] \in Ingestion \ {i}
  BY DEF Settled, Task
<1>2. step'[t[1]] = step[t[1]]
  BY <1>1, StatementKeepsOthers DEF OthersKept
<1> QED
  BY <1>1, <1>2, TaskOfOthers DEF Settled

\* The tasks of an account are those of its one customer.
LEMMA TasksOfAccount ==
  ASSUME IngestionInv, NEW j \in Ingestion, step[j] = "select_tasks", NEW t \in Task,
         step[t[1]] = "committed", OfAccount(j, t)
  PROVE  OfCustomer(j, t)
<1>1. t[1] \in Ingestion
  BY DEF Task
<1>2. OwnAccount(t[1])
  BY <1>1 DEF IngestionInv, RowsInv, RowsSound, AccountSound
<1>3. OwnAccount(j)
  BY <1>2 DEF IngestionInv, RowsInv, RowsSound, AccountSound, OwnAccount, OfAccount, AccountOf,
     AfterAccount, AfterInsert
<1> QED
  BY <1>2, <1>3 DEF OwnAccount, OfAccount, OfCustomer

LEMMA CommitIsReached ==
  ASSUME TablesTypeOK, NEW i \in Ingestion, Statement(i), ~SelectTasks(i), ~Commit(i)
  PROVE  step'[i] \notin {"commit", "committed"}
<1> USE DEF TablesTypeOK, Goto, At
<1>1. step'[i] # "committed"
  BY EndsOfStatements
<1>2. CASE Failing(i)
  <2>1. PICK s \in {"duplicate", "failed", "rejected", "aborted"} : End(i, s)
    BY <1>2, FailingEnds
  <2> QED
    BY <2>1 DEF End
<1>3. CASE InsertCustomer(i) \/ UpdateCustomer(i) \/ InsertAccount(i) \/ UpdateAccount(i)
  BY <1>3 DEF InsertCustomer, UpdateCustomer, InsertAccount, UpdateAccount, FlushesCustomer,
              FlushesAccount
<1>4. CASE InsertEvent(i)
  BY <1>4, PlanGoesOn DEF InsertEvent
<1>5. CASE PlanProposal(i)
  BY <1>5 DEF PlanProposal
<1> QED
  BY <1>1, <1>2, <1>3, <1>4, <1>5 DEF Statement, Receive, Proceed, Failing, MissEvent,
     LoadCustomer, LoadAccounts, SameCustomer, LoadAccount, SameAccount, CountRecent,
     SetOptedOut, SetPaused

LEMMA CancelOfOwn ==
  ASSUME CancelInv, NEW j \in Ingestion, Statement(j), UNCHANGED attempt_count
  PROVE  CancelSound(j)'
<1>0. TablesTypeOK /\ LoopDomains /\ OptOutSound(j) /\ CancelSound(j)
  BY DEF CancelInv, IngestionInv, RowsInv
<1>1. request' = request /\ step[j] \notin Ended
  BY <1>0, StatementKeepsOthers, StatementsAreOpen
<1>2. CASE SelectTasks(j)
  <2>1. /\ seen_tasks'[j] = Committed /\ to_cancel'[j] = ScheduledTasks(j)
        /\ step' = [step EXCEPT ![j] = "commit"] /\ step[j] = "select_tasks" /\ status' = status
    BY <1>0, <1>2 DEF SelectTasks, SeeTasks, Goto, At, sharedVars, tableVars, TablesTypeOK
  <2>2. step'[j] = "commit"
    BY <1>0, <2>1 DEF TablesTypeOK
  <2>3. ASSUME NEW t \in Task, t[1] \in seen_tasks'[j], OfAccount(j, t)
        PROVE  Settled(t)' \/ (step'[t[1]] = "committed" /\ t \in to_cancel'[j])
    <3>1. t[1] \in Ingestion /\ step[t[1]] = "committed" /\ t[1] # j
      BY <2>1, <2>3 DEF Committed
    <3>2. OfCustomer(j, t) /\ step'[t[1]] = "committed"
      BY <2>1, <2>3, <3>1, TasksOfAccount DEF CancelInv
    <3> QED
      BY <2>1, <2>3, <3>2 DEF ScheduledTasks, Settled
  <2> QED
    BY <1>1, <2>2, <2>3 DEF CancelSound, OfAccount, AccountOf
<1>3. CASE Commit(j)
  <2>1. CASE request[j].event_type \in CancellingEvent
    <3>1. step[j] = "commit" /\ step'[j] = "committed" /\ UNCHANGED <<seen_tasks, to_cancel>>
      BY <1>0, <1>3, <2>1, EndsOfStatements
         DEF Commit, Planned, At, OptOutSound, CancellingEvent, End, historyVars
    <3>2. ASSUME NEW t \in Task, t[1] \in seen_tasks[j], OfAccount(j, t) PROVE Settled(t)'
      <4>1. CASE Settled(t)
        BY <1>0, <1>1, <4>1, SettledStands DEF Ended
      <4>2. CASE step[t[1]] = "committed" /\ t \in to_cancel[j]
        <5>1. step' = [step EXCEPT ![j] = "committed"] /\ t[1] # j /\ t[1] \in Ingestion
          BY <1>0, <1>1, <1>3, <4>2, CommitSteps DEF Ended, Task
        <5>2. status'[t] = "cancelled"
          BY <1>3, <4>2, <5>1 DEF Commit
        <5> QED
          BY <1>0, <4>2, <5>1, <5>2 DEF Settled, TablesTypeOK
      <4> QED
        BY <1>0, <2>1, <3>1, <3>2, <4>1, <4>2 DEF CancelSound
    <3> QED
      BY <1>1, <3>1, <3>2 DEF CancelSound, OfAccount, AccountOf
  <2>2. CASE request[j].event_type \notin CancellingEvent
    BY <1>1, <2>2 DEF CancelSound
  <2> QED
    BY <2>1, <2>2
<1>4. CASE ~SelectTasks(j) /\ ~Commit(j)
  BY <1>0, <1>4, CommitIsReached DEF CancelSound
<1> QED
  BY <1>2, <1>3, <1>4

LEMMA CancelOfOthers ==
  ASSUME CancelInv, NEW i \in Ingestion, Statement(i), UNCHANGED attempt_count,
         NEW j \in Ingestion, j # i
  PROVE  CancelSound(j)'
<1>0. TablesTypeOK /\ LoopDomains /\ CancelSound(j)
  BY DEF CancelInv, IngestionInv, RowsInv
<1>1. OthersKept(i) /\ request' = request /\ step[i] # "committed"
  BY <1>0, StatementKeepsOthers, StatementsAreOpen DEF Ended
<1>2. ASSUME NEW t \in Task, step[t[1]] = "committed" PROVE step'[t[1]] = "committed"
  <2>1. t[1] \in Ingestion /\ t[1] # i
    BY <1>1, <1>2 DEF Task
  <2> QED
    BY <1>1, <1>2, <2>1 DEF OthersKept
<1>3. ASSUME NEW t \in Task, Settled(t) PROVE Settled(t)'
  BY <1>0, <1>1, <1>3, SettledStands
<1>4. step'[j] = step[j] /\ seen_tasks'[j] = seen_tasks[j] /\ to_cancel'[j] = to_cancel[j]
  BY <1>1 DEF OthersKept
<1> QED
  BY <1>0, <1>1, <1>2, <1>3, <1>4 DEF CancelSound, OfAccount, AccountOf

LEMMA CancelInvPreserved ==
  ASSUME CancelInv, [Next]_vars
  PROVE  CancelInv'
<1>0. IngestionInv' /\ TablesTypeOK /\ AttemptsSound
  BY IngestionInvPreserved DEF CancelInv, IngestionInv, RowsInv
<1>1. CASE Outside /\ SessionsKept
  <2>1. /\ AttemptsSound'
        /\ \A t \in Task : status[t] # "scheduled" \/ attempt_count[t] > 0 =>
             status'[t] # "scheduled" \/ attempt_count'[t] > 0
    BY <1>0, <1>1, TaskOutside
  <2>2. UNCHANGED <<request, step, seen_tasks, to_cancel>>
    BY <1>1 DEF SessionsKept, historyVars
  <2>3. ASSUME NEW j \in Ingestion PROVE CancelSound(j)'
    BY <2>1, <2>2 DEF CancelInv, CancelSound, Settled, OfAccount, AccountOf
  <2> QED
    BY <1>0, <2>1, <2>3 DEF CancelInv
<1>2. ASSUME NEW i \in Ingestion, Statement(i), UNCHANGED attempt_count PROVE CancelInv'
  <2>1. AttemptsSound'
    BY <1>0, <1>2, AttemptsByStatement
  <2>2. \A j \in Ingestion : CancelSound(j)'
    BY <1>2, CancelOfOwn, CancelOfOthers
  <2> QED
    BY <1>0, <2>1, <2>2 DEF CancelInv
<1> QED
  BY <1>1, <1>2, StepKinds

\* A task that had committed when a cancelling event about its account queried
\* the tasks does not wait for a first attempt once that event has committed.
THEOREM CancelledOrOverlappedHolds == Spec => []CancelledOrOverlapped
<1>1. Init => CancelInv
  BY IngestionInitially, AttemptsAssumption
     DEF CancelInv, Init, IngestionInit, AttemptsSound, CancelSound
<1>2. CancelInv /\ [Next]_vars => CancelInv'
  BY CancelInvPreserved
<1>3. CancelInv => CancelledOrOverlapped
  BY DEF CancelInv, AttemptsSound, CancelSound, CancelledOrOverlapped, Committed, Settled,
         OfAccount
<1> QED
  BY <1>1, <1>2, <1>3, PTL DEF Spec

-----------------------------------------------------------------------------
(***************************************************************************)
(* Snapshots that overlap.                                                 *)
(***************************************************************************)
\* The columns of a customer that a snapshot sets, and whether two rows, or a
\* row and a request, say the same in one.
Column == Channel \cup {"timezone"}
Agree(column, r, s) == IF column = "timezone" THEN r.timezone = s.timezone
                       ELSE column \in r.consent <=> column \in s.consent

\* The other transactions about the row that have committed and that the
\* transaction had not seen.
LaterCustomers(i) ==
  {j \in Committed \ {i} : CustomerOf(j) = CustomerOf(i) /\ j \notin seen_customer[i]}
LaterAccounts(i) ==
  {j \in Committed \ {i} : AccountOf(j) = AccountOf(i) /\ j \notin seen_customer[i]}

\* Of which one says what the row says.
LaterColumn(i, column, row) ==
  \E j \in LaterCustomers(i) : Agree(column, row, request[j])
LaterStatus(i, row) == \E j \in LaterAccounts(i) : row.status = StatusAsked(j)

\* The rows as they are once the transaction has committed.
CustomerLeft(i) == Latest(new_customer[i], customers[CustomerOf(i)])
AccountLeft(i) == Latest(new_account[i], accounts[AccountOf(i)])

SessionSound(i) ==
  /\ seen_customer[i] \subseteq Committed
  /\ step[i] \in {"find_event", "load_customer"} \cup Ended => read_account[i] = None
  /\ step[i] \notin AfterCustomer => new_customer[i] = None
  /\ step[i] \notin AfterAccount => new_account[i] = None

\* A column is still as it was loaded, or a later snapshot's; what has been
\* written is the request's own or has been left as it was.
CustomerStands(i) ==
  \A column \in Column :
    /\ step[i] \in AfterLoad /\ read_customer[i] # None =>
         \/ Agree(column, customers[CustomerOf(i)], read_customer[i])
         \/ LaterColumn(i, column, customers[CustomerOf(i)])
    /\ new_customer[i] # None =>
         \/ Agree(column, new_customer[i], request[i])
         \/ Agree(column, new_customer[i], customers[CustomerOf(i)])
    /\ step[i] \in AfterCustomer \cup {"committed"} =>
         \/ Agree(column, CustomerLeft(i), request[i])
         \/ LaterColumn(i, column, CustomerLeft(i))

\* The status it asks for, before the pause and after it.
StatusSoFar(i) == IF step[i] \in {"insert_event", "pause"}
                  THEN request[i].status ELSE StatusAsked(i)

AccountStands(i) ==
  /\ read_account[i] # None =>
       \/ accounts[AccountOf(i)].status = read_account[i].status
       \/ LaterStatus(i, accounts[AccountOf(i)])
  /\ new_account[i] # None =>
       \/ new_account[i].status = StatusSoFar(i)
       \/ new_account[i].status = accounts[AccountOf(i)].status
  /\ step[i] \in AfterAccount \cup {"committed"} =>
       \/ AccountLeft(i).status = StatusSoFar(i)
       \/ LaterStatus(i, AccountLeft(i))
  /\ step[i] = "pause" => request[i].event_type = "account_paused"

Stands(i) == SessionSound(i) /\ CustomerStands(i) /\ AccountStands(i)

SnapshotInv == RowsInv /\ \A i \in Ingestion : Stands(i)

-----------------------------------------------------------------------------
(***************************************************************************)
(* Columns.                                                                *)
(***************************************************************************)
LEMMA AgreeIsEquality ==
  ASSUME NEW column \in Column
  PROVE  /\ \A r : Agree(column, r, r)
         /\ \A r, s : Agree(column, r, s) => Agree(column, s, r)
         /\ \A r, s, t : Agree(column, r, s) /\ Agree(column, s, t) => Agree(column, r, t)
BY DEF Agree

\* A snapshot that differs in no column says what was loaded.
LEMMA SameColumns ==
  ASSUME NEW i \in Ingestion, ~CustomerChanged(i), NEW column \in Column
  PROVE  Agree(column, request[i], read_customer[i])
BY DEF CustomerChanged, Agree

\* An UPDATE of the columns that differ: the request's, or left as they are.
LEMMA MergedColumns ==
  ASSUME NEW i \in Ingestion, NEW column \in Column
  PROVE  \/ Agree(column, MergedCustomer(i), request[i])
         \/ /\ Agree(column, request[i], read_customer[i])
            /\ Agree(column, MergedCustomer(i), customers[CustomerOf(i)])
<1> DEFINE read == read_customer[i]
           row == customers[CustomerOf(i)]
           merged == MergedCustomer(i)
<1>1. CASE column = "timezone"
  <2>1. merged.timezone = IF request[i].timezone # read.timezone
                          THEN request[i].timezone ELSE row.timezone
    BY DEF MergedCustomer
  <2> QED
    BY <1>1, <2>1 DEF Agree
<1>2. CASE column # "timezone"
  <2>1. column \in Channel
    BY <1>2 DEF Column
  <2>2. column \in merged.consent <=>
          IF (column \in request[i].consent) # (column \in read.consent)
          THEN column \in request[i].consent ELSE column \in row.consent
    BY <2>1 DEF MergedCustomer
  <2> QED
    BY <1>2, <2>2 DEF Agree
<1> QED
  BY <1>1, <1>2

-----------------------------------------------------------------------------
(***************************************************************************)
(* Of the others' statements only a commit about the row touches it, and   *)
(* what it changes is then a later snapshot's.                             *)
(***************************************************************************)
LEMMA CommittedByStatement ==
  ASSUME TablesTypeOK, LoopDomains, NEW i \in Ingestion, Statement(i)
  PROVE  /\ Committed' = IF Commit(i) THEN Committed \cup {i} ELSE Committed
         /\ i \notin Committed
<1>1. /\ OthersKept(i) /\ step[i] # "committed"
      /\ step'[i] = "committed" <=> Commit(i)
  BY StatementKeepsOthers, StatementsAreOpen, EndsOfStatements DEF Ended
<1> QED
  BY <1>1 DEF OthersKept, Committed

LEMMA LaterGrow ==
  ASSUME TablesTypeOK, LoopDomains, NEW i \in Ingestion, Statement(i), NEW k \in Ingestion \ {i},
         seen_customer[k] \subseteq Committed
  PROVE  /\ LaterCustomers(k) \subseteq LaterCustomers(k)'
         /\ LaterAccounts(k) \subseteq LaterAccounts(k)'
         /\ Commit(i) /\ CustomerOf(i) = CustomerOf(k) => i \in LaterCustomers(k)'
         /\ Commit(i) /\ AccountOf(i) = AccountOf(k) => i \in LaterAccounts(k)'
<1>1. /\ OthersKept(i) /\ request' = request
      /\ Committed' = IF Commit(i) THEN Committed \cup {i} ELSE Committed
      /\ i \notin Committed
  BY StatementKeepsOthers, CommittedByStatement
<1>2. seen_customer'[k] = seen_customer[k] /\ i \notin seen_customer[k]
  BY <1>1 DEF OthersKept
<1> QED
  BY <1>1, <1>2 DEF LaterCustomers, LaterAccounts, CustomerOf, AccountOf

LEMMA CustomerMoves ==
  ASSUME SnapshotInv, NEW i \in Ingestion, Statement(i), NEW k \in Ingestion \ {i},
         NEW column \in Column
  PROVE  /\ \/ Agree(column, customers'[CustomerOf(k)], customers[CustomerOf(k)])
            \/ LaterColumn(k, column, customers[CustomerOf(k)])'
         /\ new_customer[k] # None => customers'[CustomerOf(k)] = customers[CustomerOf(k)]
<1>1. /\ TablesTypeOK /\ LoopDomains /\ SessionSound(k) /\ CustomerStands(i)
      /\ CustomerSound(i) /\ CustomerSound(k) /\ request' = request
  BY StatementKeepsOthers DEF SnapshotInv, RowsInv, RowsSound, Stands
<1>2. CASE customers'[CustomerOf(k)] = customers[CustomerOf(k)]
  BY <1>2, AgreeIsEquality
<1>3. CASE customers'[CustomerOf(k)] # customers[CustomerOf(k)]
  <2>1. Commit(i)
    BY <1>1, <1>3, OnlyCommitWrites DEF tableVars
  <2>2. /\ CustomerOf(i) = CustomerOf(k) /\ new_customer[i] # None
        /\ customers'[CustomerOf(k)] = new_customer[i]
    BY <1>1, <1>3, <2>1, RequestTypes DEF Commit, TablesTypeOK, Latest
  <2>3. new_customer[k] = None
    BY <1>1, <2>2, NoneIsNoRow DEF CustomerSound
  <2>4. i \in LaterCustomers(k)'
    BY <1>1, <2>1, <2>2, LaterGrow DEF SessionSound
  <2>5. \/ Agree(column, new_customer[i], request[i])
        \/ Agree(column, new_customer[i], customers[CustomerOf(i)])
    BY <1>1, <2>2 DEF CustomerStands
  <2>6. CustomerOf(k)' = CustomerOf(k) /\ request'[i] = request[i]
    BY <1>1 DEF CustomerOf
  <2> QED
    BY <2>2, <2>3, <2>4, <2>5, <2>6 DEF LaterColumn
<1> QED
  BY <1>2, <1>3

LEMMA AccountMoves ==
  ASSUME SnapshotInv, NEW i \in Ingestion, Statement(i), NEW k \in Ingestion \ {i}
  PROVE  /\ \/ accounts'[AccountOf(k)].status = accounts[AccountOf(k)].status
            \/ LaterStatus(k, accounts[AccountOf(k)])'
         /\ new_account[k] # None => accounts'[AccountOf(k)] = accounts[AccountOf(k)]
<1>1. /\ TablesTypeOK /\ LoopDomains /\ SessionSound(k) /\ AccountStands(i)
      /\ AccountSound(i) /\ AccountSound(k) /\ request' = request
  BY StatementKeepsOthers DEF SnapshotInv, RowsInv, RowsSound, Stands
<1> SUFFICES ASSUME accounts'[AccountOf(k)] # accounts[AccountOf(k)]
             PROVE  /\ \/ accounts'[AccountOf(k)].status = accounts[AccountOf(k)].status
                       \/ LaterStatus(k, accounts[AccountOf(k)])'
                    /\ new_account[k] = None
  OBVIOUS
<1>2. Commit(i)
  BY <1>1, OnlyCommitWrites DEF tableVars
<1>3. /\ AccountOf(i) = AccountOf(k) /\ new_account[i] # None
      /\ accounts'[AccountOf(k)] = new_account[i]
  BY <1>1, <1>2, RequestTypes DEF Commit, TablesTypeOK, Latest
<1>4. new_account[k] = None
  BY <1>1, <1>3, NoneIsNoRow DEF AccountSound
<1>5. i \in LaterAccounts(k)'
  BY <1>1, <1>2, <1>3, LaterGrow DEF SessionSound
<1>6. \/ new_account[i].status = StatusAsked(i)
      \/ new_account[i].status = accounts[AccountOf(i)].status
  BY <1>1, <1>2, <1>3, CommitSteps DEF AccountStands, StatusSoFar
<1>7. AccountOf(k)' = AccountOf(k) /\ StatusAsked(i)' = StatusAsked(i)
  BY <1>1 DEF AccountOf, StatusAsked
<1> QED
  BY <1>3, <1>4, <1>5, <1>6, <1>7 DEF LaterStatus

\* What a later snapshot says it says for good, of a row that stays.
LEMMA LaterStays ==
  ASSUME TablesTypeOK, LoopDomains, NEW i \in Ingestion, Statement(i), NEW k \in Ingestion \ {i},
         seen_customer[k] \subseteq Committed
  PROVE  /\ \A column, row : LaterColumn(k, column, row) =>
              \E j \in LaterCustomers(k)' : Agree(column, row, request'[j])
         /\ \A row : LaterStatus(k, row) =>
              \E j \in LaterAccounts(k)' : row.status = StatusAsked(j)'
<1>1. request' = request
  BY StatementKeepsOthers
<1> QED
  BY <1>1, LaterGrow DEF LaterColumn, LaterStatus, StatusAsked

LEMMA CustomerOfOthers ==
  ASSUME SnapshotInv, NEW i \in Ingestion, Statement(i), NEW k \in Ingestion \ {i}
  PROVE  CustomerStands(k)'
<1>1. /\ TablesTypeOK /\ LoopDomains /\ SessionSound(k) /\ CustomerStands(k)
      /\ OthersKept(i) /\ request' = request
  BY StatementKeepsOthers DEF SnapshotInv, RowsInv, Stands
<1> DEFINE row == customers[CustomerOf(k)]
           left == CustomerLeft(k)
<1> SUFFICES ASSUME NEW column \in Column
             PROVE  /\ step[k] \in AfterLoad /\ read_customer[k] # None =>
                         \/ Agree(column, row', read_customer[k])
                         \/ LaterColumn(k, column, row)'
                    /\ new_customer[k] # None =>
                         \/ Agree(column, new_customer[k], request[k])
                         \/ Agree(column, new_customer[k], row')
                    /\ step[k] \in AfterCustomer \cup {"committed"} =>
                         \/ Agree(column, left', request[k])
                         \/ LaterColumn(k, column, left)'
  BY <1>1 DEF CustomerStands, OthersKept
<1>2. /\ CustomerOf(k)' = CustomerOf(k) /\ row' = customers'[CustomerOf(k)]
      /\ left' = Latest(new_customer[k], row')
  BY <1>1 DEF CustomerOf, CustomerLeft, OthersKept, Latest
<1>3. /\ Agree(column, row', row) \/ LaterColumn(k, column, row)'
      /\ new_customer[k] # None => row' = row
  BY <1>2, CustomerMoves
<1>4. \A r : LaterColumn(k, column, r) =>
        \E j \in LaterCustomers(k)' : Agree(column, r, request'[j])
  BY <1>1, LaterStays DEF SessionSound
<1>5. LaterColumn(k, column, row) /\ Agree(column, row', row) => LaterColumn(k, column, row)'
  BY <1>4, AgreeIsEquality DEF LaterColumn
<1>6. CASE new_customer[k] # None
  <2>1. left' = left /\ row' = row
    BY <1>2, <1>3, <1>6 DEF CustomerLeft, Latest
  <2>2. LaterColumn(k, column, left) => LaterColumn(k, column, left)'
    BY <1>4, <2>1 DEF LaterColumn
  <2> QED
    BY <1>1, <1>3, <1>5, <2>1, <2>2, AgreeIsEquality DEF CustomerStands
<1>7. CASE new_customer[k] = None
  <2>1. left' = row' /\ left = row
    BY <1>2, <1>7 DEF CustomerLeft, Latest
  <2>2. LaterColumn(k, column, left)' <=> LaterColumn(k, column, row)'
    BY <2>1 DEF LaterColumn
  <2> QED
    BY <1>1, <1>3, <1>5, <1>7, <2>1, <2>2, AgreeIsEquality DEF CustomerStands
<1> QED
  BY <1>6, <1>7

LEMMA AccountOfOthers ==
  ASSUME SnapshotInv, NEW i \in Ingestion, Statement(i), NEW k \in Ingestion \ {i}
  PROVE  AccountStands(k)'
<1>1. /\ TablesTypeOK /\ LoopDomains /\ SessionSound(k) /\ AccountStands(k)
      /\ OthersKept(i) /\ request' = request
  BY StatementKeepsOthers DEF SnapshotInv, RowsInv, Stands
<1> DEFINE row == accounts[AccountOf(k)]
           left == AccountLeft(k)
<1>2. /\ AccountOf(k)' = AccountOf(k) /\ StatusSoFar(k)' = StatusSoFar(k)
      /\ row' = accounts'[AccountOf(k)] /\ left' = Latest(new_account[k], row')
  BY <1>1 DEF AccountOf, AccountLeft, OthersKept, Latest, StatusSoFar, StatusAsked
<1>3. /\ row'.status = row.status \/ LaterStatus(k, row)'
      /\ new_account[k] # None => row' = row
  BY <1>2, AccountMoves
<1>4. \A r : LaterStatus(k, r) => \E j \in LaterAccounts(k)' : r.status = StatusAsked(j)'
  BY <1>1, LaterStays DEF SessionSound
<1>5. LaterStatus(k, row) /\ row'.status = row.status => LaterStatus(k, row)'
  BY <1>4 DEF LaterStatus
<1>6. /\ read_account[k] # None =>
           row'.status = read_account[k].status \/ LaterStatus(k, row)'
      /\ new_account[k] # None =>
           new_account[k].status = StatusSoFar(k) \/ new_account[k].status = row'.status
  BY <1>1, <1>3, <1>5 DEF AccountStands
<1>7. step[k] \in AfterAccount \cup {"committed"} =>
        left'.status = StatusSoFar(k) \/ LaterStatus(k, left)'
  <2>1. CASE new_account[k] # None
    <3>1. left' = left
      BY <1>2, <2>1 DEF AccountLeft, Latest
    <3>2. LaterStatus(k, left) => LaterStatus(k, left)'
      BY <1>4, <3>1 DEF LaterStatus
    <3> QED
      BY <1>1, <3>1, <3>2 DEF AccountStands
  <2>2. CASE new_account[k] = None
    <3>1. left' = row' /\ left = row
      BY <1>2, <2>2 DEF AccountLeft, Latest
    <3>2. LaterStatus(k, left)' <=> LaterStatus(k, row)'
      BY <3>1 DEF LaterStatus
    <3> QED
      BY <1>1, <1>3, <1>5, <3>1, <3>2 DEF AccountStands
  <2> QED
    BY <2>1, <2>2
<1>8. step[k] = "pause" => request[k].event_type = "account_paused"
  BY <1>1 DEF AccountStands
<1> QED
  BY <1>1, <1>2, <1>6, <1>7, <1>8 DEF AccountStands, OthersKept

LEMMA StandsForOthers ==
  ASSUME SnapshotInv, NEW i \in Ingestion, Statement(i), NEW k \in Ingestion \ {i}
  PROVE  Stands(k)'
<1>1. TablesTypeOK /\ LoopDomains /\ SessionSound(k)
  BY DEF SnapshotInv, RowsInv, Stands
<1>2. OthersKept(i) /\ Committed \subseteq Committed'
  BY <1>1, StatementKeepsOthers, CommittedByStatement
<1>3. SessionSound(k)'
  BY <1>1, <1>2 DEF SessionSound, OthersKept
<1> QED
  BY <1>3, CustomerOfOthers, AccountOfOthers DEF Stands

-----------------------------------------------------------------------------
(***************************************************************************)
(* Its own statements.                                                     *)
(***************************************************************************)
\* But for the load of the customer, which begins it anew.
LEMMA LaterBefore ==
  ASSUME TablesTypeOK, LoopDomains, NEW i \in Ingestion, Statement(i), ~LoadCustomer(i)
  PROVE  /\ seen_customer' = seen_customer /\ request' = request
         /\ LaterCustomers(i)' = LaterCustomers(i)
         /\ LaterAccounts(i)' = LaterAccounts(i)
<1>1. /\ seen_customer' = seen_customer /\ request' = request
      /\ Committed' \ {i} = Committed \ {i}
  BY SeenByLoad, StatementKeepsOthers, CommittedByStatement
<1> QED
  BY <1>1 DEF LaterCustomers, LaterAccounts, CustomerOf, AccountOf

LEMMA SessionOfOwn ==
  ASSUME SnapshotInv, NEW i \in Ingestion, Statement(i)
  PROVE  SessionSound(i)'
<1>0. TablesTypeOK /\ LoopDomains /\ SessionSound(i)
  BY DEF SnapshotInv, RowsInv, Stands
<1>1. seen_customer'[i] \subseteq Committed'
  <2>1. Committed \subseteq Committed'
    BY <1>0, CommittedByStatement
  <2>2. CASE LoadCustomer(i)
    BY <1>0, <2>1, <2>2 DEF LoadCustomer, TablesTypeOK
  <2>3. CASE ~LoadCustomer(i)
    BY <1>0, <2>1, <2>3, LaterBefore DEF SessionSound
  <2> QED
    BY <2>2, <2>3
<1>2. /\ step'[i] \in {"find_event", "load_customer"} \cup Ended => read_account'[i] = None
      /\ step'[i] \notin AfterCustomer => new_customer'[i] = None
      /\ step'[i] \notin AfterAccount => new_account'[i] = None
  <2> USE <1>0 DEF TablesTypeOK, Goto, At, Ended, SessionSound, AfterCustomer, AfterAccount,
                   AfterInsert
  <2>1. CASE Failing(i)
    BY <2>1, FailingEnds DEF End
  <2>2. CASE Commit(i)
    BY <2>2 DEF Commit, End
  <2>3. CASE \/ MissEvent(i) \/ LoadCustomer(i) \/ LoadAccounts(i) \/ SameCustomer(i)
             \/ LoadAccount(i) \/ SameAccount(i) \/ SelectTasks(i) \/ CountRecent(i)
    BY <2>3 DEF MissEvent, LoadCustomer, LoadAccounts, SameCustomer, LoadAccount, SameAccount,
       SelectTasks, CountRecent, sessionVars
  <2>4. CASE InsertCustomer(i) \/ UpdateCustomer(i) \/ InsertAccount(i) \/ UpdateAccount(i)
    BY <2>4 DEF InsertCustomer, UpdateCustomer, InsertAccount, UpdateAccount, FlushesCustomer,
         FlushesAccount
  <2>5. CASE InsertEvent(i)
    BY <2>5, PlanGoesOn DEF InsertEvent
  <2>6. CASE PlanProposal(i)
    BY <2>6 DEF PlanProposal
  <2>7. CASE SetOptedOut(i) \/ SetPaused(i)
    BY <2>7 DEF SetOptedOut, SetPaused
  <2> QED
    BY <2>1, <2>2, <2>3, <2>4, <2>5, <2>6, <2>7 DEF Statement, Receive, Proceed, Failing
<1> QED
  BY <1>1, <1>2 DEF SessionSound

LEMMA CustomerOfOwn ==
  ASSUME SnapshotInv, NEW i \in Ingestion, Statement(i)
  PROVE  CustomerStands(i)'
<1>0. /\ TablesTypeOK /\ LoopDomains /\ SessionSound(i) /\ CustomerStands(i) /\ CustomerSound(i)
      /\ request' = request /\ CustomerOf(i)' = CustomerOf(i)
  BY StatementKeepsOthers DEF SnapshotInv, RowsInv, RowsSound, Stands, CustomerOf
<1> DEFINE c == CustomerOf(i)
<1>1. CASE LoadCustomer(i)
  <2>1. /\ read_customer'[i] = customers'[c] /\ new_customer'[i] = None
        /\ step'[i] \notin AfterCustomer \cup {"committed"}
    BY <1>0, <1>1 DEF LoadCustomer, TablesTypeOK, At, Goto, sharedVars, tableVars, SessionSound,
       AfterCustomer, AfterAccount, AfterInsert
  <2> QED
    BY <1>0, <2>1, AgreeIsEquality DEF CustomerStands
<1> SUFFICES ASSUME ~LoadCustomer(i), NEW column \in Column
             PROVE  /\ step'[i] \in AfterLoad /\ read_customer'[i] # None =>
                         \/ Agree(column, customers'[c], read_customer'[i])
                         \/ LaterColumn(i, column, customers'[c])
                    /\ new_customer'[i] # None =>
                         \/ Agree(column, new_customer'[i], request[i])
                         \/ Agree(column, new_customer'[i], customers'[c])
                    /\ step'[i] \in AfterCustomer \cup {"committed"} =>
                         \/ Agree(column, CustomerLeft(i)', request[i])
                         \/ LaterColumn(i, column, CustomerLeft(i)')
  BY <1>0, <1>1, LaterBefore DEF CustomerStands, LaterColumn
<1>K. /\ step[i] \in AfterLoad /\ read_customer[i] # None =>
           \/ Agree(column, customers[c], read_customer[i])
           \/ LaterColumn(i, column, customers[c])
      /\ new_customer[i] # None =>
           \/ Agree(column, new_customer[i], request[i])
           \/ Agree(column, new_customer[i], customers[c])
      /\ step[i] \in AfterCustomer \cup {"committed"} =>
           \/ Agree(column, CustomerLeft(i), request[i])
           \/ LaterColumn(i, column, CustomerLeft(i))
  BY <1>0 DEF CustomerStands
<1>L. CustomerLeft(i)' = Latest(new_customer'[i], customers'[c])
  BY <1>0 DEF CustomerLeft, Latest
<1> USE <1>0, <1>K, <1>L, RequestTypes
    DEF TablesTypeOK, AfterLoad, AfterCustomer, AfterAccount, AfterInsert, At, Goto
<1>2. CASE Failing(i)
  BY <1>2, FailingEnds DEF End
<1>3. CASE \/ MissEvent(i) \/ LoadAccounts(i) \/ LoadAccount(i) \/ SameAccount(i)
           \/ SelectTasks(i) \/ CountRecent(i) \/ PlanProposal(i)
  <2>1. UNCHANGED <<customers, read_customer, new_customer>>
    BY <1>3 DEF MissEvent, LoadAccounts, LoadAccount, SameAccount, SelectTasks, CountRecent,
       PlanProposal, sharedVars, tableVars, sessionVars
  <2>2. /\ step'[i] \in AfterLoad => step[i] \in AfterLoad
        /\ step'[i] \in AfterCustomer \cup {"committed"} =>
             step[i] \in AfterCustomer \cup {"committed"}
    BY <1>3 DEF MissEvent, LoadAccounts, LoadAccount, SameAccount, SelectTasks, CountRecent,
       PlanProposal
  <2> QED
    BY <2>1, <2>2 DEF CustomerLeft
<1>4. CASE SameCustomer(i)
  <2>1. /\ UNCHANGED <<customers, read_customer, new_customer>> /\ new_customer[i] = None
        /\ read_customer[i] # None /\ ~CustomerChanged(i) /\ step[i] \in AfterLoad
    BY <1>4 DEF SameCustomer, sharedVars, tableVars, sessionVars, SessionSound
  <2>2. Agree(column, request[i], read_customer[i])
    BY <2>1, SameColumns
  <2>3. CustomerLeft(i)' = customers[c]
    BY <2>1 DEF Latest
  <2> QED
    BY <2>1, <2>2, <2>3, AgreeIsEquality
<1>5. CASE InsertCustomer(i)
  <2>1. /\ new_customer'[i] = NewCustomer(i) /\ customers' = customers
        /\ read_customer'[i] = None
    BY <1>5 DEF InsertCustomer, FlushesCustomer, sharedVars, tableVars
  <2>2. Agree(column, new_customer'[i], request[i]) /\ NewCustomer(i) # None
    BY <2>1, NoneIsNoRow, CustomerWritten DEF Agree, NewCustomer
  <2> QED
    BY <2>1, <2>2 DEF Latest
<1>6. CASE UpdateCustomer(i)
  <2>1. /\ new_customer'[i] = MergedCustomer(i) /\ UNCHANGED <<customers, read_customer>>
        /\ read_customer[i] # None /\ step[i] \in AfterLoad
    BY <1>6 DEF UpdateCustomer, FlushesCustomer, sharedVars, tableVars
  <2>2. \/ Agree(column, MergedCustomer(i), request[i])
        \/ /\ Agree(column, request[i], read_customer[i])
           /\ Agree(column, MergedCustomer(i), customers[c])
    BY MergedColumns
  <2>3. MergedCustomer(i) # None
    BY <1>6, NoneIsNoRow, CustomerWritten DEF UpdateCustomer
  <2>4. CustomerLeft(i)' = MergedCustomer(i)
    BY <2>1, <2>3 DEF Latest
  <2>5. LaterColumn(i, column, customers[c]) /\ Agree(column, MergedCustomer(i), customers[c])
          => LaterColumn(i, column, MergedCustomer(i))
    BY AgreeIsEquality DEF LaterColumn
  <2> QED
    BY <2>1, <2>2, <2>4, <2>5, AgreeIsEquality
<1>7. CASE InsertAccount(i) \/ UpdateAccount(i)
  <2>1. UNCHANGED <<customers, read_customer, new_customer>>
    BY <1>7 DEF InsertAccount, UpdateAccount, FlushesAccount, sharedVars, tableVars
  <2>2. step[i] \in AfterLoad /\ step[i] \in AfterCustomer
    BY <1>7 DEF InsertAccount, UpdateAccount
  <2> QED
    BY <2>1, <2>2 DEF CustomerLeft
<1>8. CASE InsertEvent(i)
  <2>1. /\ UNCHANGED <<customers, read_customer, new_customer>>
        /\ step[i] \in AfterLoad /\ step[i] \in AfterCustomer
    BY <1>8 DEF InsertEvent, sharedVars, tableVars, sessionVars
  <2> QED
    BY <2>1 DEF CustomerLeft
<1>9. CASE SetOptedOut(i)
  <2> DEFINE left == CustomerLeft(i)
             row == [left EXCEPT !.opted_out = TRUE]
  <2>1. /\ UNCHANGED <<customers, read_customer>>
        /\ step[i] \in AfterLoad /\ step[i] \in AfterCustomer
        /\ UNCHANGED new_customer \/ new_customer' = [new_customer EXCEPT ![i] = row]
    BY <1>9 DEF SetOptedOut, sharedVars, tableVars, CustomerLeft
  <2>2. left \in CustomerRow
    BY <1>9 DEF SetOptedOut, CustomerSound, CustomerLeft, Latest
  <2>3. row \in CustomerRow /\ row.timezone = left.timezone /\ row.consent = left.consent
    BY <2>2 DEF CustomerRow
  <2>4. Agree(column, row, left) /\ row # None
    BY <2>3, NoneIsNoRow DEF Agree
  <2>5. CASE UNCHANGED new_customer
    BY <2>1, <2>5 DEF CustomerLeft
  <2>6. CASE new_customer' = [new_customer EXCEPT ![i] = row]
    <3>1. new_customer'[i] = row
      BY <2>6
    <3> HIDE DEF row
    <3>2. CustomerLeft(i)' = row
      BY <2>4, <3>1 DEF Latest
    <3>3. LaterColumn(i, column, left) => LaterColumn(i, column, row)
      BY <2>4, AgreeIsEquality DEF LaterColumn
    <3>4. IF new_customer[i] # None THEN left = new_customer[i] ELSE left = customers[c]
      BY DEF CustomerLeft, Latest
    <3> HIDE DEF left
    <3>5. \/ Agree(column, left, request[i])
          \/ Agree(column, left, customers[c])
      BY <3>4, AgreeIsEquality
    <3>6. Agree(column, left, request[i]) \/ LaterColumn(i, column, left)
      BY <2>1 DEF left
    <3> QED
      BY <2>1, <2>4, <3>1, <3>2, <3>3, <3>5, <3>6, AgreeIsEquality
  <2> QED
    BY <2>1, <2>5, <2>6
<1>10. CASE SetPaused(i)
  <2>1. /\ UNCHANGED <<customers, read_customer, new_customer>>
        /\ step[i] \in AfterLoad /\ step[i] \in AfterCustomer
    BY <1>10 DEF SetPaused, sharedVars, tableVars
  <2> QED
    BY <2>1 DEF CustomerLeft
<1>11. CASE Commit(i)
  <2>1. new_customer'[i] = None /\ step'[i] = "committed" /\ step[i] \in AfterCustomer
    BY <1>11, CommitSteps DEF Commit, End
  <2>2. customers'[c] = CustomerLeft(i)
    BY <1>11 DEF Commit, CustomerLeft
  <2>3. CustomerLeft(i)' = CustomerLeft(i)
    BY <2>1, <2>2 DEF Latest
  <2> QED
    BY <2>1, <2>3
<1> QED
  BY <1>2, <1>3, <1>4, <1>5, <1>6, <1>7, <1>8, <1>9, <1>10, <1>11
     DEF Statement, Receive, Proceed, Failing

LEMMA AccountOfOwn ==
  ASSUME SnapshotInv, NEW i \in Ingestion, Statement(i)
  PROVE  AccountStands(i)'
<1>0. /\ TablesTypeOK /\ LoopDomains /\ SessionSound(i) /\ AccountStands(i) /\ AccountSound(i)
      /\ request' = request /\ AccountOf(i)' = AccountOf(i) /\ StatusAsked(i)' = StatusAsked(i)
  BY StatementKeepsOthers
     DEF SnapshotInv, RowsInv, RowsSound, Stands, AccountOf, StatusAsked
<1> DEFINE a == AccountOf(i)
           sofar == IF step'[i] \in {"insert_event", "pause"}
                    THEN request[i].status ELSE StatusAsked(i)
<1>1. CASE LoadCustomer(i)
  <2>1. /\ read_account'[i] = None /\ new_account'[i] = None /\ step'[i] # "pause"
        /\ step'[i] \notin AfterAccount \cup {"committed"}
    BY <1>0, <1>1 DEF LoadCustomer, TablesTypeOK, At, Goto, SessionSound, AfterAccount, AfterInsert
  <2> QED
    BY <1>0, <2>1 DEF AccountStands
<1> SUFFICES ASSUME ~LoadCustomer(i)
             PROVE  /\ read_account'[i] # None =>
                         \/ accounts'[a].status = read_account'[i].status
                         \/ LaterStatus(i, accounts'[a])
                    /\ new_account'[i] # None =>
                         \/ new_account'[i].status = sofar
                         \/ new_account'[i].status = accounts'[a].status
                    /\ step'[i] \in AfterAccount \cup {"committed"} =>
                         \/ AccountLeft(i)'.status = sofar
                         \/ LaterStatus(i, AccountLeft(i)')
                    /\ step'[i] = "pause" => request[i].event_type = "account_paused"
  <2>1. ~LoadCustomer(i) => \A r : LaterStatus(i, r) =>
          \E j \in LaterAccounts(i)' : r.status = StatusAsked(j)'
    <3>1. \A j : StatusAsked(j)' = StatusAsked(j)
      BY <1>0 DEF StatusAsked
    <3> QED
      BY <1>0, <3>1, LaterBefore DEF LaterStatus
  <2>2. StatusSoFar(i)' = sofar
    BY <1>0 DEF StatusSoFar
  <2> HIDE DEF sofar
  <2> QED
    BY <1>0, <1>1, <2>1, <2>2 DEF AccountStands, LaterStatus
<1>K. /\ read_account[i] # None =>
           \/ accounts[a].status = read_account[i].status
           \/ LaterStatus(i, accounts[a])
      /\ new_account[i] # None =>
           \/ new_account[i].status = StatusSoFar(i)
           \/ new_account[i].status = accounts[a].status
      /\ step[i] \in AfterAccount \cup {"committed"} =>
           \/ AccountLeft(i).status = StatusSoFar(i)
           \/ LaterStatus(i, AccountLeft(i))
      /\ step[i] = "pause" => request[i].event_type = "account_paused"
  BY <1>0 DEF AccountStands
<1>L. AccountLeft(i)' = Latest(new_account'[i], accounts'[a])
  BY <1>0 DEF AccountLeft, Latest
<1> USE <1>0, <1>K, <1>L, RequestTypes
    DEF TablesTypeOK, AfterAccount, AfterInsert, At, Goto, StatusSoFar
<1>2. CASE Failing(i)
  <2>1. PICK s \in {"duplicate", "failed", "rejected", "aborted"} : End(i, s)
    BY <1>2, FailingEnds
  <2> QED
    BY <2>1 DEF End
<1>3. CASE MissEvent(i) \/ SameCustomer(i) \/ SelectTasks(i) \/ CountRecent(i) \/ PlanProposal(i)
  <2>1. UNCHANGED <<accounts, read_account, new_account>>
    BY <1>3 DEF MissEvent, SameCustomer, SelectTasks, CountRecent, PlanProposal,
       sharedVars, tableVars, sessionVars
  <2>2. /\ step'[i] \notin {"insert_event", "pause", "committed"}
        /\ step'[i] \in AfterAccount => /\ step[i] \in AfterAccount
                                        /\ step[i] \notin {"insert_event", "pause"}
        /\ step'[i] \notin AfterAccount => new_account[i] = None
    BY <1>3 DEF MissEvent, SameCustomer, SelectTasks, CountRecent, PlanProposal, SessionSound,
       PolicyEvent
  <2> QED
    BY <2>1, <2>2 DEF AccountLeft
<1>4. CASE LoadAccounts(i) \/ LoadAccount(i)
  <2>1. /\ accounts' = accounts /\ new_account'[i] = None
        /\ step'[i] \notin AfterAccount \cup {"committed", "pause"}
    BY <1>4 DEF LoadAccounts, LoadAccount, sharedVars, tableVars, SessionSound
  <2>2. read_account'[i] \in {None, accounts[a], read_account[i]}
    BY <1>4 DEF LoadAccounts, LoadAccount
  <2> QED
    BY <2>1, <2>2
<1>5. CASE InsertCustomer(i) \/ UpdateCustomer(i)
  <2>1. /\ UNCHANGED <<accounts, read_account, new_account>> /\ new_account[i] = None
        /\ step'[i] \notin AfterAccount \cup {"committed", "pause"}
    BY <1>5 DEF InsertCustomer, UpdateCustomer, FlushesCustomer, sharedVars, tableVars,
       SessionSound
  <2> QED
    BY <2>1
<1>6. CASE SameAccount(i)
  <2>1. /\ UNCHANGED <<accounts, read_account, new_account>> /\ new_account[i] = None
        /\ read_account[i] # None /\ request[i].status = read_account[i].status
        /\ step'[i] = "insert_event"
    BY <1>6 DEF SameAccount, sharedVars, tableVars, sessionVars, SessionSound
  <2> QED
    BY <2>1 DEF Latest
<1>7. CASE InsertAccount(i)
  <2>1. PICK row \in AccountRow : FlushesAccount(i, row) /\ row.status = request[i].status
    BY <1>7, AccountWritten DEF InsertAccount
  <2>2. /\ UNCHANGED <<accounts, read_account>> /\ new_account'[i] = row /\ row # None
        /\ step'[i] = "insert_event"
    BY <1>7, <2>1, NoneIsNoRow DEF InsertAccount, FlushesAccount, sharedVars, tableVars
  <2> QED
    BY <2>1, <2>2 DEF Latest
<1>8. CASE UpdateAccount(i)
  <2> DEFINE row == [accounts[a] EXCEPT !.status = MergedStatus(i)]
  <2>1. /\ UNCHANGED <<accounts, read_account>> /\ new_account'[i] = row
        /\ read_account[i] # None /\ step'[i] = "insert_event"
    BY <1>8 DEF UpdateAccount, FlushesAccount, sharedVars, tableVars
  <2>2. accounts[a] \in AccountRow
    BY <1>8 DEF UpdateAccount, AccountSound, OwnAccount
  <2>3. row \in AccountRow /\ row.status = MergedStatus(i)
    BY <1>8, <2>2, AccountWritten DEF UpdateAccount, AccountRow
  <2> HIDE DEF row
  <2>4. row # None /\ AccountLeft(i)' = row
    BY <2>1, <2>3, NoneIsNoRow DEF Latest
  <2>5. \/ row.status = request[i].status
        \/ row.status = accounts[a].status /\ request[i].status = read_account[i].status
    BY <2>3 DEF MergedStatus
  <2>6. LaterStatus(i, accounts[a]) /\ row.status = accounts[a].status => LaterStatus(i, row)
    BY DEF LaterStatus
  <2> QED
    BY <2>1, <2>4, <2>5, <2>6
<1>9. CASE InsertEvent(i)
  <2>1. UNCHANGED <<accounts, read_account, new_account>> /\ step[i] = "insert_event"
    BY <1>9 DEF InsertEvent, sharedVars, tableVars, sessionVars
  <2>2. /\ step'[i] \in AfterInsert
        /\ step'[i] = "pause" <=> request[i].event_type = "account_paused"
    BY <1>9, PlanGoesOn DEF InsertEvent, Plan, PolicyEvent
  <2>3. sofar = request[i].status
    BY <2>2 DEF StatusAsked
  <2> QED
    BY <2>1, <2>2, <2>3 DEF AccountLeft
<1>10. CASE SetOptedOut(i)
  <2>1. /\ UNCHANGED <<accounts, read_account, new_account>> /\ step[i] = "opt_out"
        /\ step'[i] = "select_tasks"
    BY <1>10 DEF SetOptedOut, sharedVars, tableVars
  <2> QED
    BY <2>1 DEF AccountLeft
<1>11. CASE SetPaused(i)
  <2> DEFINE row == Paused(Latest(new_account[i], accounts[a]))
  <2>1. Latest(new_account[i], accounts[a]) \in AccountRow
    BY <1>11 DEF SetPaused, AccountSound, OwnAccount, Latest
  <2>2. row \in AccountRow /\ row.status = "paused"
    BY <2>1 DEF Paused, AccountRow, AccountStatus
  <2>3. /\ UNCHANGED <<accounts, read_account>> /\ step[i] = "pause"
        /\ step'[i] = "select_tasks"
        /\ \/ UNCHANGED new_account /\ request[i].status = "paused"
           \/ new_account' = [new_account EXCEPT ![i] = row]
    BY <1>11 DEF SetPaused, sharedVars, tableVars
  <2>4. sofar = "paused"
    BY <2>3 DEF StatusAsked
  <2> HIDE DEF row
  <2>5. CASE UNCHANGED new_account /\ request[i].status = "paused"
    BY <2>3, <2>4, <2>5 DEF AccountLeft
  <2>6. CASE new_account' = [new_account EXCEPT ![i] = row]
    BY <2>2, <2>3, <2>4, <2>6, NoneIsNoRow DEF Latest
  <2> QED
    BY <2>3, <2>5, <2>6
<1>12. CASE Commit(i)
  <2>1. /\ new_account'[i] = None /\ read_account'[i] = None /\ step'[i] = "committed"
        /\ step[i] \in AfterAccount /\ step[i] \notin {"insert_event", "pause"}
    BY <1>12, CommitSteps DEF Commit, End
  <2>2. accounts'[a] = AccountLeft(i)
    BY <1>12 DEF Commit, AccountLeft
  <2>3. AccountLeft(i)' = AccountLeft(i)
    BY <2>1, <2>2 DEF Latest
  <2> QED
    BY <2>1, <2>3
<1> QED
  BY <1>2, <1>3, <1>4, <1>5, <1>6, <1>7, <1>8, <1>9, <1>10, <1>11, <1>12
     DEF Statement, Receive, Proceed, Failing

-----------------------------------------------------------------------------
LEMMA SnapshotInvPreserved ==
  ASSUME SnapshotInv, [Next]_vars
  PROVE  SnapshotInv'
<1>1. RowsInv'
  BY RowsPreserved DEF SnapshotInv, RowsInv
<1>2. CASE SessionsKept
  <2>1. ASSUME NEW i \in Ingestion PROVE Stands(i)'
    <3>1. /\ LaterCustomers(i)' = LaterCustomers(i) /\ LaterAccounts(i)' = LaterAccounts(i)
          /\ Committed' = Committed /\ request' = request
      BY <1>2 DEF SessionsKept, historyVars, LaterCustomers, LaterAccounts, Committed,
         CustomerOf, AccountOf
    <3>2. Stands(i)
      BY DEF SnapshotInv
    <3> QED
      BY <1>2, <3>1, <3>2 DEF Stands, SessionSound, CustomerStands, AccountStands, CustomerLeft,
         AccountLeft, LaterColumn, LaterStatus, Latest, StatusAsked, StatusSoFar, CustomerOf,
         AccountOf, SessionsKept, sessionVars, historyVars
  <2> QED
    BY <1>1, <2>1 DEF SnapshotInv
<1>3. ASSUME NEW i \in Ingestion, Statement(i) PROVE SnapshotInv'
  <2>1. Stands(i)'
    BY <1>3, SessionOfOwn, CustomerOfOwn, AccountOfOwn DEF Stands
  <2>2. ASSUME NEW k \in Ingestion \ {i} PROVE Stands(k)'
    BY <1>3, StandsForOthers
  <2> QED
    BY <1>1, <2>1, <2>2 DEF SnapshotInv
<1> QED
  BY <1>2, <1>3, StepKinds

\* No snapshot is undone: what a column says is said by the last snapshot or
\* by one it had not seen (event_ingestion.py:192-249).
THEOREM SnapshotsNotUndoneHolds == Spec => []SnapshotsNotUndone
<1>1. Init => SnapshotInv
  <2> SUFFICES ASSUME Init PROVE SnapshotInv
    OBVIOUS
  <2>1. RowsInv
    BY RowsInitially DEF RowsInv
  <2>2. ASSUME NEW i \in Ingestion PROVE Stands(i)
    BY DEF Init, IngestionInit, Stands, SessionSound, CustomerStands, AccountStands, AfterLoad,
       AfterCustomer, AfterAccount, AfterInsert
  <2> QED
    BY <2>1, <2>2 DEF SnapshotInv
<1>2. SnapshotInv /\ [Next]_vars => SnapshotInv'
  BY SnapshotInvPreserved
<1>3. SnapshotInv => SnapshotsNotUndone
  <2> SUFFICES ASSUME SnapshotInv, NEW i \in Committed
               PROVE  /\ \E j \in Successors(i, CustomerOf) :
                           customers[CustomerOf(i)].timezone = request[j].timezone
                      /\ \A channel \in Channel : \E j \in Successors(i, CustomerOf) :
                           channel \in customers[CustomerOf(i)].consent
                             <=> channel \in request[j].consent
                      /\ \E j \in Successors(i, AccountOf) :
                           accounts[AccountOf(i)].status = StatusAsked(j)
    BY DEF SnapshotsNotUndone
  <2>1. i \in Ingestion /\ step[i] = "committed" /\ Stands(i)
    BY DEF SnapshotInv, Committed
  <2>2. /\ CustomerLeft(i) = customers[CustomerOf(i)] /\ AccountLeft(i) = accounts[AccountOf(i)]
        /\ StatusSoFar(i) = StatusAsked(i)
    BY <2>1 DEF Stands, SessionSound, CustomerLeft, AccountLeft, Latest, StatusSoFar,
       AfterCustomer, AfterAccount, AfterInsert
  <2>3. /\ {i} \cup LaterCustomers(i) \subseteq Successors(i, CustomerOf)
        /\ {i} \cup LaterAccounts(i) \subseteq Successors(i, AccountOf)
    BY DEF Successors, LaterCustomers, LaterAccounts
  <2>4. ASSUME NEW column \in Column
        PROVE  \E j \in Successors(i, CustomerOf) :
                 Agree(column, customers[CustomerOf(i)], request[j])
    BY <2>1, <2>2, <2>3 DEF Stands, CustomerStands, LaterColumn
  <2>5. \E j \in Successors(i, CustomerOf) :
          customers[CustomerOf(i)].timezone = request[j].timezone
    <3>1. "timezone" \in Column
      BY DEF Column
    <3> QED
      BY <2>4, <3>1 DEF Agree
  <2>6. ASSUME NEW channel \in Channel
        PROVE  \E j \in Successors(i, CustomerOf) :
                 channel \in customers[CustomerOf(i)].consent <=> channel \in request[j].consent
    <3>1. channel \in Column /\ channel # "timezone"
      BY DEF Column, Channel
    <3> QED
      BY <2>4, <3>1 DEF Agree
  <2>7. \E j \in Successors(i, AccountOf) : accounts[AccountOf(i)].status = StatusAsked(j)
    BY <2>1, <2>2, <2>3 DEF Stands, AccountStands, LaterStatus
  <2> QED
    BY <2>5, <2>6, <2>7
<1> QED
  BY <1>1, <1>2, <1>3, PTL DEF Spec
=============================================================================
