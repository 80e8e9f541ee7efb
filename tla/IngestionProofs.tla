-------------------------- MODULE IngestionProofs --------------------------
(***************************************************************************)
(* Event ingestion for any number of requests, events, customers and       *)
(* accounts.  The invariant has a part for each transaction, and the       *)
(* proof two halves: what the statements of a transaction do to its own    *)
(* part, and what they leave of the others', which is all that a row's     *)
(* holder and the columns an UPDATE leaves alone can promise.              *)
(***************************************************************************)
EXTENDS OutreachSystem, TLAPS

\* One statement of the transaction.
Statement(i) == Receive(i) \/ Proceed(i) \/ ConnectionLost(i)

\* A statement that ends it without a commit.
Failing(i) == \/ ReplayEvent(i) \/ EventCollides(i) \/ CustomerCollides(i)
              \/ AccountCollides(i) \/ RejectAccount(i) \/ DeadlockVictim(i)
              \/ ConnectionLost(i)

AfterInsert == {"count_recent", "plan", "opt_out", "pause", "select_tasks", "commit"}
AfterAccount == {"insert_event"} \cup AfterInsert
AfterCustomer == {"load_account", "flush_account"} \cup AfterAccount
AfterLoad == {"load_accounts", "flush_customer"} \cup AfterCustomer

-----------------------------------------------------------------------------
\* What a transaction has read of its customer, and what it is to write.
CustomerSound(i) ==
  LET c == CustomerOf(i) IN
  /\ read_customer[i] # None =>
       customers[c] # None /\ (read_customer[i].opted_out => customers[c].opted_out)
  /\ new_customer[i] # None =>
       holder[c] = i /\ (IsOptedOut(c) => new_customer[i].opted_out)
  /\ step[i] \in AfterCustomer => read_customer[i] # None \/ new_customer[i] # None
  /\ step[i] = "committed" => customers[c] # None

OwnAccount(i) == /\ accounts[AccountOf(i)] # None
                 /\ accounts[AccountOf(i)].customer = CustomerOf(i)

\* Likewise of its account.
AccountSound(i) ==
  LET a == AccountOf(i) IN
  /\ read_account[i] # None => OwnAccount(i)
  /\ new_account[i] # None =>
       /\ holder[a] = i /\ new_account[i].customer = CustomerOf(i)
       /\ accounts[a] # None => OwnAccount(i)
  /\ step[i] \in AfterAccount => read_account[i] # None \/ new_account[i] # None
  /\ step[i] = "committed" => OwnAccount(i)

\* Its event's row is its own to commit.
EventSound(i) ==
  step[i] \in AfterInsert => holder[EventOf(i)] = i /\ inbound_events[EventOf(i)] = None

RowsSound == \A i \in Ingestion : CustomerSound(i) /\ AccountSound(i) /\ EventSound(i)

-----------------------------------------------------------------------------
IsOptOut(i) == request[i].event_type = "opt_out_received"

SeenOptOut(i) == \E j \in seen_customer[i] : CustomerOf(j) = CustomerOf(i) /\ IsOptOut(j)

\* An opt-out reaches the row, from the row the session, from there the loop.
OptOutSound(i) ==
  /\ step[i] = "committed" /\ IsOptOut(i) => IsOptedOut(CustomerOf(i))
  /\ step[i] \in {"select_tasks", "commit"} /\ IsOptOut(i) =>
       OptedOut(i) \/ (new_customer[i] # None /\ new_customer[i].opted_out)
  /\ step[i] \in {"count_recent", "plan"} => request[i].event_type \in PolicyEvent
  /\ step[i] = "pause" => request[i].event_type = "account_paused"
  /\ step[i] \in AfterLoad /\ SeenOptOut(i) => OptedOut(i)
  /\ step[i] = "plan" => loaded[i].opted_out = OptedOut(i)
  /\ step[i] \in {"find_event", "load_customer"} => new_tasks[i] = <<>>
  /\ new_tasks[i] # <<>> => ~SeenOptOut(i)

LoopDomains == /\ DOMAIN loaded = Ingestion /\ DOMAIN proposals = Ingestion
               /\ DOMAIN decisions = Ingestion /\ DOMAIN new_tasks = Ingestion
               /\ DOMAIN answer = Ingestion /\ DOMAIN recent_count = Ingestion

RowsInv == TablesTypeOK /\ LoopDomains /\ RowsSound

IngestionInv == RowsInv /\ \A i \in Ingestion : OptOutSound(i)

-----------------------------------------------------------------------------
(***************************************************************************)
(* What a statement leaves to the other transactions.                      *)
(***************************************************************************)
\* What the sessions of the others hold.
OthersKept(i) ==
  \A k \in Ingestion : k # i =>
    /\ step'[k] = step[k] /\ answer'[k] = answer[k] /\ to_cancel'[k] = to_cancel[k]
    /\ read_customer'[k] = read_customer[k] /\ read_account'[k] = read_account[k]
    /\ new_customer'[k] = new_customer[k] /\ new_account'[k] = new_account[k]
    /\ seen_customer'[k] = seen_customer[k] /\ seen_tasks'[k] = seen_tasks[k]
    /\ loaded'[k] = loaded[k] /\ proposals'[k] = proposals[k]
    /\ decisions'[k] = decisions[k] /\ new_tasks'[k] = new_tasks[k]
    /\ recent_count'[k] = recent_count[k] /\ began_at'[k] = began_at[k]

\* The locks of the others.
LocksKept(i) == \A r \in Row, k \in Ingestion : k # i => (holder'[r] = k <=> holder[r] = k)

LEMMA RequestTypes ==
  ASSUME TablesTypeOK, NEW i \in Ingestion
  PROVE  /\ CustomerOf(i) \in Customer /\ AccountOf(i) \in Account /\ EventOf(i) \in EventId
         /\ request[i].timezone \in Timezone /\ request[i].consent \in SUBSET Channel
         /\ request[i].status \in AccountStatus /\ request[i].event_type \in InboundEventType
         /\ CustomerOf(i) \in Row /\ AccountOf(i) \in Row /\ EventOf(i) \in Row
         /\ CustomerOf(i) # AccountOf(i) /\ CustomerOf(i) # EventOf(i) /\ AccountOf(i) # EventOf(i)
BY IngestionAssumption
   DEF TablesTypeOK, InboundEventRequest, CustomerOf, AccountOf, EventOf, Row

LEMMA NoneIsNoRow == None \notin CustomerRow /\ None \notin AccountRow /\ None \notin Ingestion
BY IngestionAssumption

LEMMA PlanGoesOn ==
  ASSUME NEW type
  PROVE  /\ Plan(type) \in {"count_recent", "opt_out", "pause", "select_tasks"}
         /\ Plan(type) = "count_recent" <=> type \in PolicyEvent
         /\ Plan(type) = "opt_out" <=> type = "opt_out_received"
         /\ Plan(type) = "pause" <=> type = "account_paused"
BY DEF Plan, PolicyEvent

LEMMA FailingEnds ==
  ASSUME NEW i \in Ingestion, Failing(i)
  PROVE  /\ \E s \in {"duplicate", "failed", "rejected", "aborted"} : End(i, s)
         /\ UNCHANGED <<tableVars, to_cancel>>
         /\ \A k \in Ingestion \ {i} : answer'[k] = answer[k] \/ DOMAIN answer # Ingestion
BY DEF Failing, ReplayEvent, EventCollides, CustomerCollides, AccountCollides, RejectAccount,
       DeadlockVictim, ConnectionLost, Duplicate, Rollback

\* Each statement touches its own session, and no lock but a free one.
LEMMA StatementKeepsOthers ==
  ASSUME TablesTypeOK, LoopDomains, NEW i \in Ingestion, Statement(i)
  PROVE  OthersKept(i) /\ LocksKept(i) /\ request' = request
<1> USE DEF TablesTypeOK, LoopDomains
<1>1. CASE Failing(i)
  <2>1. PICK s \in {"duplicate", "failed", "rejected", "aborted"} : End(i, s)
    BY <1>1, FailingEnds
  <2>2. UNCHANGED to_cancel /\ \A k \in Ingestion \ {i} : answer'[k] = answer[k]
    BY <1>1, FailingEnds DEF tableVars
  <2> QED
    BY <2>1, <2>2, NoneIsNoRow DEF End, Goto, historyVars, planningVars, OthersKept, LocksKept
<1>2. CASE \/ MissEvent(i) \/ LoadCustomer(i) \/ LoadAccounts(i) \/ SameCustomer(i)
           \/ LoadAccount(i) \/ SameAccount(i) \/ SelectTasks(i)
  BY <1>2 DEF MissEvent, LoadCustomer, LoadAccounts, SameCustomer, LoadAccount, SameAccount,
              SelectTasks, SeeTasks, Goto, sharedVars, sessionVars, historyVars, planningVars,
              OthersKept, LocksKept
<1>3. CASE InsertCustomer(i) \/ UpdateCustomer(i)
  <2>1. PICK row : FlushesCustomer(i, row)
    BY <1>3 DEF InsertCustomer, UpdateCustomer
  <2>2. holder[CustomerOf(i)] = None
    BY <1>3 DEF InsertCustomer, UpdateCustomer, Free
  <2> QED
    BY <2>1, <2>2, RequestTypes, NoneIsNoRow
       DEF FlushesCustomer, Hold, Goto, sharedVars, historyVars, planningVars,
           OthersKept, LocksKept
<1>4. CASE InsertAccount(i) \/ UpdateAccount(i)
  <2>1. PICK row : FlushesAccount(i, row)
    BY <1>4 DEF InsertAccount, UpdateAccount
  <2>2. holder[AccountOf(i)] = None
    BY <1>4 DEF InsertAccount, UpdateAccount, Free
  <2> QED
    BY <2>1, <2>2, RequestTypes, NoneIsNoRow
       DEF FlushesAccount, Hold, Goto, sharedVars, historyVars, planningVars,
           OthersKept, LocksKept
<1>5. CASE InsertEvent(i)
  BY <1>5, RequestTypes, NoneIsNoRow
     DEF InsertEvent, Free, Hold, Goto, sharedVars, sessionVars, historyVars, planningVars,
         OthersKept, LocksKept
<1>6. CASE CountRecent(i)
  BY <1>6 DEF CountRecent, StartLoop, SeeTasks, Goto, sharedVars, sessionVars, OthersKept, LocksKept
<1>7. CASE PlanProposal(i)
  BY <1>7 DEF PlanProposal, BlockProposal, DeferProposal,
              ScheduleProposal, RecordDecision,
              sharedVars, sessionVars, historyVars, OthersKept, LocksKept
<1>8. CASE SetOptedOut(i)
  BY <1>8, RequestTypes, NoneIsNoRow
     DEF SetOptedOut, Writable, Hold, Goto, sharedVars, historyVars, planningVars,
         OthersKept, LocksKept
<1>9. CASE SetPaused(i)
  BY <1>9, RequestTypes, NoneIsNoRow
     DEF SetPaused, Writable, Hold, Goto, sharedVars, historyVars, planningVars,
         OthersKept, LocksKept
<1>10. CASE Commit(i)
  BY <1>10, NoneIsNoRow
     DEF Commit, End, Goto, historyVars, planningVars, OthersKept, LocksKept
<1> QED
  BY <1>1, <1>2, <1>3, <1>4, <1>5, <1>6, <1>7, <1>8, <1>9, <1>10
     DEF Statement, Receive, Proceed, Failing

\* A request whose transaction has ended takes no more steps.
LEMMA StatementsAreOpen ==
  ASSUME NEW i \in Ingestion, Statement(i)
  PROVE  step[i] \notin Ended
<1>1. CASE DeadlockVictim(i)
  <2>1. PICK j \in Ingestion : WaitsFor(i, j)
    BY <1>1 DEF DeadlockVictim, Deadlocked
  <2> QED
    BY <2>1 DEF WaitsFor, Wanted, At, Ended
<1>2. CASE PlanProposal(i) \/ CountRecent(i) \/ Commit(i) \/ ConnectionLost(i)
  BY <1>2 DEF PlanProposal, CountRecent, Commit, Planned, ConnectionLost, At, Ended
<1> QED
  BY <1>1, <1>2 DEF Statement, Receive, Proceed, ReplayEvent, EventCollides, CustomerCollides,
     AccountCollides, RejectAccount, MissEvent, LoadCustomer, LoadAccounts, SameCustomer,
     LoadAccount, SameAccount, InsertCustomer, UpdateCustomer, InsertAccount, UpdateAccount,
     InsertEvent, SetOptedOut, SetPaused, SelectTasks, At, Ended

\* Only a commit commits, and only a duplicate ends as one.
LEMMA EndsOfStatements ==
  ASSUME TablesTypeOK, NEW i \in Ingestion, Statement(i)
  PROVE  /\ step'[i] = "committed" <=> Commit(i)
         /\ ~Commit(i) /\ ~Duplicate(i) => step'[i] # "duplicate"
<1> USE DEF TablesTypeOK, Goto, At
<1>1. CASE Failing(i)
  <2>1. PICK s \in {"duplicate", "failed", "rejected", "aborted"} : End(i, s)
    BY <1>1, FailingEnds
  <2>2. step'[i] # "committed"
    BY <2>1 DEF End
  <2>3. ~Commit(i)
    BY <2>2 DEF Commit, End
  <2>4. ~Duplicate(i) => step'[i] # "duplicate"
    BY <1>1 DEF Failing, ReplayEvent, EventCollides, CustomerCollides, AccountCollides,
                RejectAccount, DeadlockVictim, ConnectionLost, Rollback, End
  <2> QED
    BY <2>2, <2>3, <2>4
<1>2. CASE Commit(i)
  BY <1>2 DEF Commit, End
<1>3. ASSUME ~Failing(i), ~Commit(i) PROVE step'[i] \notin {"committed", "duplicate"}
  <2>1. CASE InsertCustomer(i) \/ UpdateCustomer(i) \/ InsertAccount(i) \/ UpdateAccount(i)
    BY <2>1 DEF InsertCustomer, UpdateCustomer, InsertAccount, UpdateAccount, FlushesCustomer,
                FlushesAccount
  <2>2. CASE InsertEvent(i)
    BY <2>2, PlanGoesOn DEF InsertEvent
  <2>3. CASE PlanProposal(i)
    BY <2>3 DEF PlanProposal
  <2> QED
    BY <1>3, <2>1, <2>2, <2>3 DEF Statement, Receive, Proceed, Failing, MissEvent, LoadCustomer,
       LoadAccounts, SameCustomer, LoadAccount, SameAccount, CountRecent, SetOptedOut,
       SetPaused, SelectTasks
<1> QED
  BY <1>1, <1>2, <1>3

\* Only its query of the tasks to cancel selects some.
LEMMA CancelsBySelection ==
  ASSUME NEW i \in Ingestion, Statement(i), ~SelectTasks(i)
  PROVE  UNCHANGED to_cancel
<1>1. CASE Failing(i)
  BY <1>1, FailingEnds
<1>2. CASE PlanProposal(i) \/ Commit(i)
  BY <1>2 DEF PlanProposal, Commit
<1>3. CASE InsertCustomer(i) \/ UpdateCustomer(i) \/ InsertAccount(i) \/ UpdateAccount(i)
  BY <1>3 DEF InsertCustomer, UpdateCustomer, InsertAccount, UpdateAccount, FlushesCustomer,
              FlushesAccount
<1> QED
  BY <1>1, <1>2, <1>3 DEF Statement, Receive, Proceed, Failing, MissEvent, LoadCustomer,
     LoadAccounts, SameCustomer, LoadAccount, SameAccount, InsertEvent, CountRecent,
     SetOptedOut, SetPaused

-----------------------------------------------------------------------------
(***************************************************************************)
(* The rows that are written.                                              *)
(***************************************************************************)
\* A snapshot's customer, and a loaded customer with it merged in.
LEMMA CustomerWritten ==
  ASSUME TablesTypeOK, NEW i \in Ingestion, CustomerSound(i)
  PROVE  /\ NewCustomer(i) \in CustomerRow
         /\ read_customer[i] # None =>
              /\ MergedCustomer(i) \in CustomerRow
              /\ MergedCustomer(i).opted_out = customers[CustomerOf(i)].opted_out
<1>1. NewCustomer(i) \in CustomerRow
  BY RequestTypes DEF NewCustomer, CustomerRow
<1>2. ASSUME read_customer[i] # None
      PROVE  /\ MergedCustomer(i) \in CustomerRow
             /\ MergedCustomer(i).opted_out = customers[CustomerOf(i)].opted_out
  <2>1. customers[CustomerOf(i)] \in CustomerRow /\ read_customer[i] \in CustomerRow
    BY <1>2, RequestTypes DEF TablesTypeOK, CustomerSound
  <2> QED
    BY <2>1, RequestTypes DEF MergedCustomer, CustomerRow
<1> QED
  BY <1>1, <1>2

\* The account's row keeps its customer.
LEMMA AccountWritten ==
  ASSUME TablesTypeOK, NEW i \in Ingestion, AccountSound(i)
  PROVE  /\ [customer |-> CustomerOf(i), status |-> request[i].status] \in AccountRow
         /\ read_account[i] # None =>
              LET row == [accounts[AccountOf(i)] EXCEPT !.status = MergedStatus(i)]
              IN  row \in AccountRow /\ row.customer = CustomerOf(i)
<1>1. ASSUME read_account[i] # None
      PROVE  LET row == [accounts[AccountOf(i)] EXCEPT !.status = MergedStatus(i)]
             IN  row \in AccountRow /\ row.customer = CustomerOf(i)
  <2>1. /\ accounts[AccountOf(i)] \in AccountRow /\ read_account[i] \in AccountRow
        /\ accounts[AccountOf(i)].customer = CustomerOf(i)
    BY <1>1, RequestTypes DEF TablesTypeOK, AccountSound, OwnAccount
  <2> QED
    BY <2>1, RequestTypes DEF MergedStatus, AccountRow
<1> QED
  BY <1>1, RequestTypes DEF AccountRow

\* The second writes of an opt-out and of a pause.
LEMMA WrittenAgain ==
  ASSUME TablesTypeOK, NEW i \in Ingestion, CustomerSound(i), AccountSound(i)
  PROVE  /\ step[i] = "opt_out" =>
              LET row == [Latest(new_customer[i], customers[CustomerOf(i)]) EXCEPT !.opted_out = TRUE]
              IN  row \in CustomerRow /\ row.opted_out
         /\ step[i] = "pause" =>
              LET row == Paused(Latest(new_account[i], accounts[AccountOf(i)]))
              IN  row \in AccountRow /\ row.customer = CustomerOf(i)
<1>1. ASSUME step[i] = "opt_out" PROVE Latest(new_customer[i], customers[CustomerOf(i)]) \in CustomerRow
  BY <1>1, RequestTypes
     DEF TablesTypeOK, CustomerSound, Latest, AfterCustomer, AfterAccount, AfterInsert
<1>2. ASSUME step[i] = "pause"
      PROVE  /\ Latest(new_account[i], accounts[AccountOf(i)]) \in AccountRow
             /\ Latest(new_account[i], accounts[AccountOf(i)]).customer = CustomerOf(i)
  BY <1>2, RequestTypes
     DEF TablesTypeOK, AccountSound, OwnAccount, Latest, AfterAccount, AfterInsert
<1> QED
  BY <1>1, <1>2 DEF CustomerRow, AccountRow, Paused, AccountStatus

\* A commit leaves the rows of customers and accounts well typed.
LEMMA CommitTypes ==
  ASSUME TablesTypeOK, NEW i \in Ingestion, Commit(i)
  PROVE  /\ customers' \in [Customer -> CustomerRow \cup {None}]
         /\ accounts' \in [Account -> AccountRow \cup {None}]
         /\ inbound_events' \in [EventId -> Ingestion \cup {None}]
         /\ status' \in [Task -> TaskStatus \cup {"none"}]
BY RequestTypes DEF TablesTypeOK, Commit, Latest, TaskStatus

LEMMA EndTypes ==
  ASSUME TablesTypeOK, NEW i \in Ingestion, NEW s \in Ended, End(i, s)
  PROVE  /\ clock' \in 0..LatestTime /\ request' \in [Ingestion -> InboundEventRequest]
         /\ step' \in [Ingestion -> Step] /\ began_at' \in [Ingestion -> 0..LatestTime]
         /\ holder' \in [Row -> Ingestion \cup {None}]
         /\ read_customer' \in [Ingestion -> CustomerRow \cup {None}]
         /\ read_account' \in [Ingestion -> AccountRow \cup {None}]
         /\ new_customer' \in [Ingestion -> CustomerRow \cup {None}]
         /\ new_account' \in [Ingestion -> AccountRow \cup {None}]
         /\ seen_customer' \in [Ingestion -> SUBSET Ingestion]
         /\ seen_tasks' \in [Ingestion -> SUBSET Ingestion]
BY DEF TablesTypeOK, End, Goto, Ended, Step, historyVars

\* Every statement keeps the types.
LEMMA StatementTypes ==
  ASSUME TablesTypeOK, LoopDomains, RowsSound, NEW i \in Ingestion, Statement(i)
  PROVE  TablesTypeOK' /\ LoopDomains'
<1> USE DEF TablesTypeOK, LoopDomains
<1>0. CustomerSound(i) /\ AccountSound(i)
  BY DEF RowsSound
<1>1. CASE Failing(i)
  <2>1. PICK s \in {"duplicate", "failed", "rejected", "aborted"} : End(i, s)
    BY <1>1, FailingEnds
  <2>2. UNCHANGED <<tableVars, to_cancel>> /\ DOMAIN answer' = Ingestion
    BY <1>1, FailingEnds DEF Failing, ReplayEvent, EventCollides, CustomerCollides,
         AccountCollides, RejectAccount, DeadlockVictim, ConnectionLost, Duplicate, Rollback
  <2>3. s \in Ended
    BY DEF Ended
  <2> QED
    BY <2>1, <2>2, <2>3, EndTypes DEF End, tableVars, planningVars
<1>2. CASE \/ MissEvent(i) \/ LoadCustomer(i) \/ LoadAccounts(i) \/ SameCustomer(i)
           \/ LoadAccount(i) \/ SameAccount(i) \/ SelectTasks(i)
  <2>1. Committed \in SUBSET Ingestion /\ ScheduledTasks(i) \in SUBSET Task
    BY DEF Committed, ScheduledTasks
  <2>2. CASE MissEvent(i) \/ SameCustomer(i) \/ SameAccount(i) \/ SelectTasks(i)
    BY <2>1, <2>2 DEF MissEvent, SameCustomer, SameAccount, SelectTasks, SeeTasks, Goto, Step,
         sharedVars, tableVars, sessionVars, historyVars, planningVars
  <2>3. CASE LoadCustomer(i)
    BY <2>1, <2>3, RequestTypes
       DEF LoadCustomer, Goto, Step, sharedVars, tableVars, planningVars
  <2>4. CASE LoadAccounts(i) \/ LoadAccount(i)
    BY <2>4, RequestTypes
       DEF LoadAccounts, LoadAccount, Goto, Step, sharedVars, tableVars, historyVars, planningVars
  <2> QED
    BY <1>2, <2>2, <2>3, <2>4
<1>3. CASE InsertCustomer(i) \/ UpdateCustomer(i)
  <2>1. PICK row \in CustomerRow : FlushesCustomer(i, row)
    BY <1>3, <1>0, CustomerWritten DEF InsertCustomer, UpdateCustomer
  <2> QED
    BY <2>1, RequestTypes
       DEF FlushesCustomer, Hold, Goto, Step, sharedVars, tableVars, historyVars, planningVars
<1>4. CASE InsertAccount(i) \/ UpdateAccount(i)
  <2>1. PICK row \in AccountRow : FlushesAccount(i, row)
    BY <1>4, <1>0, AccountWritten DEF InsertAccount, UpdateAccount
  <2> QED
    BY <2>1, RequestTypes
       DEF FlushesAccount, Hold, Goto, Step, sharedVars, tableVars, historyVars, planningVars
<1>5. CASE InsertEvent(i)
  BY <1>5, RequestTypes, PlanGoesOn
     DEF InsertEvent, Hold, Goto, Step, sharedVars, tableVars, sessionVars, historyVars,
         planningVars
<1>6. CASE CountRecent(i)
  <2>1. Committed \in SUBSET Ingestion
    BY DEF Committed
  <2> QED
    BY <1>6, <2>1 DEF CountRecent, StartLoop, SeeTasks, Goto, Step, sharedVars, tableVars,
                      sessionVars
<1>7. CASE PlanProposal(i)
  BY <1>7 DEF PlanProposal, BlockProposal, DeferProposal,
              ScheduleProposal, RecordDecision,
              sharedVars, tableVars, sessionVars, historyVars
<1>8. CASE SetOptedOut(i)
  <2> DEFINE row == [Latest(new_customer[i], customers[CustomerOf(i)]) EXCEPT !.opted_out = TRUE]
  <2>1. row \in CustomerRow
    BY <1>8, <1>0, WrittenAgain DEF SetOptedOut, At
  <2>2. \/ UNCHANGED <<holder, new_customer>>
        \/ Hold(i, CustomerOf(i)) /\ new_customer' = [new_customer EXCEPT ![i] = row]
    BY <1>8 DEF SetOptedOut
  <2> HIDE DEF row
  <2> QED
    BY <1>8, <2>1, <2>2, RequestTypes
       DEF SetOptedOut, Hold, Goto, Step, sharedVars, tableVars, historyVars, planningVars
<1>9. CASE SetPaused(i)
  <2> DEFINE row == Paused(Latest(new_account[i], accounts[AccountOf(i)]))
  <2>1. row \in AccountRow
    BY <1>9, <1>0, WrittenAgain DEF SetPaused, At
  <2>2. \/ UNCHANGED <<holder, new_account>>
        \/ Hold(i, AccountOf(i)) /\ new_account' = [new_account EXCEPT ![i] = row]
    BY <1>9 DEF SetPaused
  <2> HIDE DEF row
  <2> QED
    BY <1>9, <2>1, <2>2, RequestTypes
       DEF SetPaused, Hold, Goto, Step, sharedVars, tableVars, historyVars, planningVars
<1>10. CASE Commit(i)
  <2>1. End(i, "committed") /\ "committed" \in Ended /\ UNCHANGED to_cancel
        /\ DOMAIN answer' = Ingestion
    BY <1>10 DEF Commit, Ended
  <2> QED
    BY <1>10, <2>1, CommitTypes, EndTypes DEF End, planningVars
<1> QED
  BY <1>1, <1>2, <1>3, <1>4, <1>5, <1>6, <1>7, <1>8, <1>9, <1>10
     DEF Statement, Receive, Proceed, Failing

-----------------------------------------------------------------------------
(***************************************************************************)
(* What a statement does to the committed rows.                            *)
(***************************************************************************)
\* A row changes only under its holder, and for the better: it exists, an
\* opt-out stays, an account keeps its customer.
RowsEvolve(i) ==
  /\ \A c \in Customer :
       \/ customers'[c] = customers[c]
       \/ holder[c] = i /\ customers'[c] # None /\ (IsOptedOut(c) => IsOptedOut(c)')
  /\ \A a \in Account :
       \/ accounts'[a] = accounts[a]
       \/ /\ holder[a] = i /\ accounts'[a] # None
          /\ accounts[a] # None => accounts'[a].customer = accounts[a].customer
  /\ \A e \in EventId : inbound_events'[e] = inbound_events[e] \/ holder[e] = i

LEMMA OnlyCommitWrites ==
  ASSUME NEW i \in Ingestion, Statement(i), ~Commit(i)
  PROVE  UNCHANGED tableVars
<1>1. CASE Failing(i)
  BY <1>1, FailingEnds
<1>2. CASE PlanProposal(i)
  BY <1>2 DEF PlanProposal, sharedVars
<1>3. CASE InsertCustomer(i) \/ UpdateCustomer(i) \/ InsertAccount(i) \/ UpdateAccount(i)
  BY <1>3 DEF InsertCustomer, UpdateCustomer, InsertAccount, UpdateAccount, FlushesCustomer,
              FlushesAccount, sharedVars
<1> QED
  BY <1>1, <1>2, <1>3 DEF Statement, Receive, Proceed, Failing, MissEvent, LoadCustomer,
     LoadAccounts, SameCustomer, LoadAccount, SameAccount, InsertEvent, CountRecent,
     SetOptedOut, SetPaused, SelectTasks, sharedVars

\* What a request does to a task of somebody else.
LEMMA TaskOfOthers ==
  ASSUME TablesTypeOK, NEW i \in Ingestion, Statement(i), NEW t \in Task, t[1] # i
  PROVE  status'[t] = status[t] \/ (Commit(i) /\ t \in to_cancel[i] /\ status'[t] = "cancelled")
<1>1. CASE Commit(i)
  BY <1>1 DEF Commit
<1>2. CASE ~Commit(i)
  BY <1>2, OnlyCommitWrites DEF tableVars
<1> QED
  BY <1>1, <1>2

LEMMA CommitSteps ==
  ASSUME TablesTypeOK, NEW i \in Ingestion, Commit(i)
  PROVE  step[i] \in AfterInsert /\ step[i] \in AfterAccount /\ step[i] \in AfterCustomer
         /\ step[i] \in {"plan", "commit"} /\ step' = [step EXCEPT ![i] = "committed"]
BY DEF Commit, Planned, At, End, Goto, AfterInsert, AfterAccount, AfterCustomer

LEMMA RowsEvolveAll ==
  ASSUME TablesTypeOK, RowsSound, NEW i \in Ingestion, Statement(i)
  PROVE  RowsEvolve(i)
<1>1. CASE ~Commit(i)
  BY <1>1, OnlyCommitWrites DEF RowsEvolve, tableVars, IsOptedOut
<1>2. CASE Commit(i)
  <2> USE DEF TablesTypeOK
  <2>0. CustomerSound(i) /\ AccountSound(i) /\ EventSound(i)
    BY DEF RowsSound
  <2>1. \A c \in Customer :
          \/ customers'[c] = customers[c]
          \/ holder[c] = i /\ customers'[c] # None /\ (IsOptedOut(c) => IsOptedOut(c)')
    BY <1>2, <2>0, RequestTypes DEF Commit, Latest, CustomerSound, IsOptedOut
  <2>2. \A a \in Account :
          \/ accounts'[a] = accounts[a]
          \/ /\ holder[a] = i /\ accounts'[a] # None
             /\ accounts[a] # None => accounts'[a].customer = accounts[a].customer
    BY <1>2, <2>0, RequestTypes DEF Commit, Latest, AccountSound, OwnAccount
  <2>3. \A e \in EventId : inbound_events'[e] = inbound_events[e] \/ holder[e] = i
    BY <1>2, <2>0, RequestTypes, CommitSteps DEF Commit, EventSound
  <2> QED
    BY <2>1, <2>2, <2>3 DEF RowsEvolve
<1> QED
  BY <1>1, <1>2

-----------------------------------------------------------------------------
(***************************************************************************)
(* The rows' part of the invariant.                                        *)
(***************************************************************************)
\* What the others know of their rows stays true.
LEMMA RowsOfOthers ==
  ASSUME TablesTypeOK, LoopDomains, RowsSound, NEW i \in Ingestion, Statement(i),
         NEW k \in Ingestion, k # i
  PROVE  (CustomerSound(k) /\ AccountSound(k) /\ EventSound(k))'
<1>1. OthersKept(i) /\ LocksKept(i) /\ request' = request /\ RowsEvolve(i)
  BY StatementKeepsOthers, RowsEvolveAll
<1>2. CustomerSound(k) /\ AccountSound(k) /\ EventSound(k)
  BY DEF RowsSound
<1>3. /\ CustomerOf(k)' = CustomerOf(k) /\ AccountOf(k)' = AccountOf(k)
      /\ EventOf(k)' = EventOf(k)
  BY <1>1 DEF CustomerOf, AccountOf, EventOf
<1>4. CustomerSound(k)'
  BY <1>1, <1>2, <1>3, RequestTypes
     DEF CustomerSound, OthersKept, LocksKept, RowsEvolve, IsOptedOut
<1>5. AccountSound(k)'
  BY <1>1, <1>2, <1>3, RequestTypes
     DEF AccountSound, OwnAccount, OthersKept, LocksKept, RowsEvolve
<1>6. EventSound(k)'
  BY <1>1, <1>2, <1>3, RequestTypes DEF EventSound, OthersKept, LocksKept, RowsEvolve
<1> QED
  BY <1>4, <1>5, <1>6

\* What a transaction knows of its own rows, statement by statement.
LEMMA RowsOfOwn ==
  ASSUME TablesTypeOK, LoopDomains, RowsSound, NEW i \in Ingestion, Statement(i)
  PROVE  (CustomerSound(i) /\ AccountSound(i) /\ EventSound(i))'
<1> DEFINE c == CustomerOf(i)  a == AccountOf(i)  e == EventOf(i)
<1>0. /\ CustomerSound(i) /\ AccountSound(i) /\ EventSound(i)
      /\ request' = request
  BY StatementKeepsOthers DEF RowsSound
<1> USE <1>0, RequestTypes, NoneIsNoRow
    DEF TablesTypeOK, CustomerSound, AccountSound, OwnAccount, EventSound, CustomerOf,
        AccountOf, EventOf, IsOptedOut, AfterInsert, AfterAccount, AfterCustomer, At, Goto
<1>1. CASE Failing(i)
  <2>1. PICK s \in {"duplicate", "failed", "rejected", "aborted"} : End(i, s)
    BY <1>1, FailingEnds
  <2>2. UNCHANGED tableVars
    BY <1>1, FailingEnds
  <2> QED
    BY <2>1, <2>2 DEF End, tableVars
<1>2. CASE MissEvent(i) \/ LoadCustomer(i) \/ SameCustomer(i) \/ SelectTasks(i)
  BY <1>2 DEF MissEvent, LoadCustomer, SameCustomer, SelectTasks, sharedVars, tableVars,
              sessionVars
<1>3. CASE LoadAccounts(i) \/ LoadAccount(i) \/ SameAccount(i)
  BY <1>3 DEF LoadAccounts, LoadAccount, SameAccount, OwnedByAnother, sharedVars, tableVars,
              sessionVars
<1>4. CASE InsertCustomer(i) \/ UpdateCustomer(i)
  <2>1. PICK row \in CustomerRow :
          /\ FlushesCustomer(i, row)
          /\ customers[c] # None => row.opted_out = customers[c].opted_out
    BY <1>4, CustomerWritten DEF InsertCustomer, UpdateCustomer
  <2>2. Free(c)
    BY <1>4 DEF InsertCustomer, UpdateCustomer
  <2> QED
    BY <1>4, <2>1, <2>2 DEF InsertCustomer, UpdateCustomer, FlushesCustomer, Free, Hold,
         sharedVars, tableVars
<1>5. CASE InsertAccount(i) \/ UpdateAccount(i)
  <2>1. PICK row \in AccountRow :
          /\ FlushesAccount(i, row) /\ row.customer = CustomerOf(i)
          /\ accounts[a] # None => OwnAccount(i)
    BY <1>5, AccountWritten DEF InsertAccount, UpdateAccount
  <2> QED
    BY <1>5, <2>1 DEF InsertAccount, UpdateAccount, FlushesAccount, Free, Hold,
         sharedVars, tableVars
<1>6. CASE InsertEvent(i)
  BY <1>6, PlanGoesOn DEF InsertEvent, Free, Hold, sharedVars, tableVars, sessionVars
<1>7. CASE CountRecent(i)
  BY <1>7 DEF CountRecent, sharedVars, tableVars, sessionVars
<1>8. CASE PlanProposal(i)
  BY <1>8 DEF PlanProposal, sharedVars, tableVars, sessionVars
<1>9. CASE SetOptedOut(i)
  <2> DEFINE row == [Latest(new_customer[i], customers[c]) EXCEPT !.opted_out = TRUE]
  <2>1. row \in CustomerRow /\ row.opted_out
    BY <1>9, WrittenAgain DEF SetOptedOut
  <2>2. \/ UNCHANGED <<holder, new_customer>>
        \/ Hold(i, c) /\ Writable(i, c) /\ new_customer' = [new_customer EXCEPT ![i] = row]
    BY <1>9 DEF SetOptedOut
  <2> HIDE DEF row
  <2> QED
    BY <1>9, <2>1, <2>2 DEF SetOptedOut, Hold, Writable, sharedVars, tableVars
<1>10. CASE SetPaused(i)
  <2> DEFINE row == Paused(Latest(new_account[i], accounts[a]))
  <2>1. row \in AccountRow /\ row.customer = CustomerOf(i)
    BY <1>10, WrittenAgain DEF SetPaused
  <2>2. \/ UNCHANGED <<holder, new_account>>
        \/ Hold(i, a) /\ Writable(i, a) /\ new_account' = [new_account EXCEPT ![i] = row]
    BY <1>10 DEF SetPaused
  <2>3. accounts[a] # None => OwnAccount(i)
    BY <1>10 DEF SetPaused
  <2> HIDE DEF row
  <2> QED
    BY <1>10, <2>1, <2>2, <2>3 DEF SetPaused, Hold, Writable, sharedVars, tableVars
<1>11. CASE Commit(i)
  <2>1. /\ read_customer'[i] = None /\ new_customer'[i] = None
        /\ read_account'[i] = None /\ new_account'[i] = None /\ step'[i] = "committed"
    BY <1>11 DEF Commit, End
  <2>2. customers'[c] # None
    BY <1>11, CommitSteps DEF Commit, Latest
  <2>3. OwnAccount(i)'
    BY <1>11, CommitSteps DEF Commit, Latest
  <2> QED
    BY <2>1, <2>2, <2>3
<1> QED
  BY <1>1, <1>2, <1>3, <1>4, <1>5, <1>6, <1>7, <1>8, <1>9, <1>10, <1>11
     DEF Statement, Receive, Proceed, Failing

-----------------------------------------------------------------------------
(***************************************************************************)
(* The invariant of the rows.                                              *)
(***************************************************************************)
\* The steps that are no statement of a request: workers, operators and time.
Outside == Operate \/ (Tick(AtHour(24)) /\ UNCHANGED attempt_count) \/ UNCHANGED vars

SessionsKept == UNCHANGED <<customers, accounts, inbound_events, holder, request, step,
                            sessionVars, to_cancel, answer, historyVars, planningVars>>

LEMMA StepKinds ==
  ASSUME [Next]_vars
  PROVE  \/ \E i \in Ingestion : Statement(i) /\ UNCHANGED attempt_count
         \/ Outside /\ SessionsKept
<1>1. CASE Operate
  BY <1>1 DEF Operate, Work, RecordManually, CancelOutreach, ingestionButStatus, SessionsKept,
              Outside
<1>2. CASE Tick(AtHour(24)) /\ UNCHANGED attempt_count
  BY <1>2 DEF Tick, tableVars, SessionsKept, Outside
<1>3. CASE UNCHANGED vars
  BY <1>3 DEF vars, ingestionVars, tableVars, SessionsKept, Outside
<1> QED
  BY <1>1, <1>2, <1>3 DEF Next, IngestionNext, Statement, Quiescent

LEMMA OutsideTypes ==
  ASSUME TablesTypeOK, Outside
  PROVE  clock' \in 0..LatestTime /\ began_at' \in [Ingestion -> 0..LatestTime]
         /\ status' \in [Task -> TaskStatus \cup {"none"}]
<1> USE DEF TablesTypeOK
<1>1. CASE Operate
  <2>1. began_at' = began_at /\ clock' = clock
    BY <1>1 DEF Operate, Work, RecordManually, CancelOutreach, ingestionButStatus
  <2>2. CASE \E a \in Account : CancelOutreach(a)
    BY <2>1, <2>2 DEF CancelOutreach, TaskStatus
  <2>3. ASSUME NEW t \in Task, NEW s \in {"sent", "failed"}, Work(t) \/ RecordManually(t, s)
        PROVE  status' \in [Task -> TaskStatus \cup {"none"}]
    <3>1. PICK r \in TaskStatus : status' = [status EXCEPT ![t] = r]
      BY <2>3 DEF Work, RecordManually, Lifecycle!Attempt, Lifecycle!Succeed, Lifecycle!Fail,
           Lifecycle!Override, Lifecycle!Move, TaskStatus
    <3> QED
      BY <3>1
  <2> QED
    BY <1>1, <2>1, <2>2, <2>3 DEF Operate
<1>2. CASE Tick(AtHour(24))
  BY <1>2, IngestionAssumption DEF Tick, AtHour, tableVars
<1>3. CASE UNCHANGED vars
  BY <1>3 DEF vars, ingestionVars, tableVars
<1> QED
  BY <1>1, <1>2, <1>3 DEF Outside

LEMMA RowsInitially == Init => TablesTypeOK /\ LoopDomains /\ RowsSound
<1> SUFFICES ASSUME Init PROVE TablesTypeOK /\ LoopDomains /\ RowsSound
  OBVIOUS
<1> USE DEF Init, IngestionInit
<1>1. PICK b \in Beginning : /\ customers = b.customers /\ accounts = b.accounts
                             /\ clock = b.clock /\ request = b.request
  OBVIOUS
<1>2. /\ customers \in [Customer -> CustomerRow \cup {None}]
      /\ accounts \in [Account -> AccountRow \cup {None}]
      /\ clock \in 0..LatestTime /\ request \in [Ingestion -> InboundEventRequest]
  BY <1>1, IngestionAssumption DEF Beginnings
<1>3. TablesTypeOK
  BY <1>2, IngestionAssumption DEF TablesTypeOK, Step
<1>4. LoopDomains
  BY DEF LoopDomains
<1>5. RowsSound
  BY DEF RowsSound, CustomerSound, AccountSound, EventSound, AfterCustomer, AfterAccount,
         AfterInsert
<1> QED
  BY <1>3, <1>4, <1>5

LEMMA RowsPreserved ==
  ASSUME TablesTypeOK, LoopDomains, RowsSound, [Next]_vars
  PROVE  TablesTypeOK' /\ LoopDomains' /\ RowsSound'
<1>1. CASE Outside /\ SessionsKept
  <2>1. TablesTypeOK'
    BY <1>1, OutsideTypes DEF TablesTypeOK, SessionsKept, sessionVars, historyVars
  <2>2. LoopDomains'
    BY <1>1 DEF LoopDomains, SessionsKept, planningVars
  <2>3. RowsSound'
    BY <1>1 DEF RowsSound, CustomerSound, AccountSound, OwnAccount, EventSound, CustomerOf,
                AccountOf, EventOf, IsOptedOut, SessionsKept, sessionVars
  <2> QED
    BY <2>1, <2>2, <2>3
<1>2. ASSUME NEW i \in Ingestion, Statement(i)
      PROVE  TablesTypeOK' /\ LoopDomains' /\ RowsSound'
  <2>1. TablesTypeOK' /\ LoopDomains'
    BY <1>2, StatementTypes
  <2>2. \A k \in Ingestion : (CustomerSound(k) /\ AccountSound(k) /\ EventSound(k))'
    BY <1>2, RowsOfOwn, RowsOfOthers
  <2> QED
    BY <2>1, <2>2 DEF RowsSound
<1> QED
  BY <1>1, <1>2, StepKinds

LEMMA RowsInvariant == Spec => []RowsInv
<1>1. Init => RowsInv
  BY RowsInitially DEF RowsInv
<1>2. RowsInv /\ [Next]_vars => RowsInv'
  BY RowsPreserved DEF RowsInv
<1> QED
  BY <1>1, <1>2, PTL DEF Spec

\* The tables, the locks and the sessions are always well typed.
THEOREM TablesTypeCorrect == Spec => []TablesTypeOK
BY RowsInvariant, PTL DEF RowsInv

\* An account whose event was accepted stays its customer's.
THEOREM LineageKeptHolds == Spec => []LineageKept
<1>1. RowsInv => LineageKept
  BY DEF RowsInv, RowsSound, AccountSound, OwnAccount, LineageKept, Committed
<1> QED
  BY <1>1, RowsInvariant, PTL

\* No step takes an opt-out back.
THEOREM OptOutIsDurableHolds == Spec => OptOutIsDurable
<1>1. ASSUME RowsInv, [Next]_vars
      PROVE  \A c \in Customer : IsOptedOut(c) => IsOptedOut(c)'
  <2>1. CASE SessionsKept
    BY <2>1 DEF SessionsKept, IsOptedOut
  <2>2. ASSUME NEW i \in Ingestion, Statement(i)
        PROVE  \A c \in Customer : IsOptedOut(c) => IsOptedOut(c)'
    BY <1>1, <2>2, RowsEvolveAll DEF RowsInv, RowsEvolve, IsOptedOut
  <2> QED
    BY <1>1, <2>1, <2>2, StepKinds
<1>2. RowsInv /\ [Next]_vars => [\A c \in Customer : IsOptedOut(c) => IsOptedOut(c)']_vars
  BY <1>1
<1> QED
  BY <1>2, RowsInvariant, PTL DEF Spec, OptOutIsDurable

-----------------------------------------------------------------------------
(***************************************************************************)
(* Opt-outs.                                                               *)
(***************************************************************************)
\* The policy blocks every channel of a customer who opted out.
LEMMA OptedOutBlocked ==
  ASSUME NEW i \in Ingestion, loaded[i].opted_out = TRUE
  PROVE  PolicyResult(i).decision = "block"
BY DEF PolicyResult, PolicyInputFor, evaluate_policy,
       BlockReasons, OptOutBlockReasons

\* Only planning adds to new_tasks, and not for a customer who opted out.
LEMMA TasksOfLoop ==
  ASSUME LoopDomains, NEW i \in Ingestion, Statement(i)
  PROVE  new_tasks'[i] = new_tasks[i] \/ (At(i, "plan") /\ loaded[i].opted_out # TRUE)
<1>1. CASE Failing(i)
  BY <1>1, FailingEnds DEF End, planningVars
<1>2. CASE PlanProposal(i)
  BY <1>2, OptedOutBlocked DEF PlanProposal, BlockProposal, DeferProposal,
       ScheduleProposal
<1>3. CASE InsertCustomer(i) \/ UpdateCustomer(i) \/ InsertAccount(i) \/ UpdateAccount(i)
  BY <1>3 DEF InsertCustomer, UpdateCustomer, InsertAccount, UpdateAccount, FlushesCustomer,
              FlushesAccount, planningVars
<1>4. CASE Commit(i)
  BY <1>4 DEF Commit, End, planningVars
<1>5. CASE CountRecent(i)
  BY <1>5 DEF CountRecent, StartLoop
<1> QED
  BY <1>1, <1>2, <1>3, <1>4, <1>5 DEF Statement, Receive, Proceed, Failing, MissEvent,
     LoadCustomer, LoadAccounts, SameCustomer, LoadAccount, SameAccount, InsertEvent,
     SetOptedOut, SetPaused, SelectTasks, planningVars

\* Whose opt-outs a transaction has seen changes only as it loads the customer.
LEMMA SeenByLoad ==
  ASSUME TablesTypeOK, NEW i \in Ingestion, Statement(i), ~LoadCustomer(i)
  PROVE  seen_customer' = seen_customer
<1>1. CASE Failing(i)
  BY <1>1, FailingEnds DEF End, historyVars
<1>2. CASE PlanProposal(i)
  BY <1>2 DEF PlanProposal, historyVars
<1>3. CASE InsertCustomer(i) \/ UpdateCustomer(i) \/ InsertAccount(i) \/ UpdateAccount(i)
  BY <1>3 DEF InsertCustomer, UpdateCustomer, InsertAccount, UpdateAccount, FlushesCustomer,
              FlushesAccount, historyVars
<1>4. CASE Commit(i)
  BY <1>4 DEF Commit, End, historyVars
<1> QED
  BY <1>1, <1>2, <1>3, <1>4 DEF Statement, Receive, Proceed, Failing, MissEvent,
     LoadAccounts, SameCustomer, LoadAccount, SameAccount, InsertEvent, CountRecent,
     SetOptedOut, SetPaused, SelectTasks, historyVars

LEMMA OptOutsOfOthers ==
  ASSUME TablesTypeOK, LoopDomains, RowsSound, NEW i \in Ingestion, Statement(i),
         NEW k \in Ingestion, k # i, OptOutSound(k)
  PROVE  OptOutSound(k)'
<1>1. OthersKept(i) /\ request' = request /\ RowsEvolve(i)
  BY StatementKeepsOthers, RowsEvolveAll
<1>2. SeenOptOut(k)' <=> SeenOptOut(k)
  BY <1>1 DEF SeenOptOut, OthersKept, CustomerOf, IsOptOut
<1>3. OptedOut(k)' = OptedOut(k) /\ CustomerOf(k)' = CustomerOf(k) /\ CustomerOf(k) \in Customer
  BY <1>1, RequestTypes DEF OptedOut, OthersKept, CustomerOf
<1>4. IsOptedOut(CustomerOf(k)) => IsOptedOut(CustomerOf(k))'
  BY <1>1, <1>3 DEF RowsEvolve, IsOptedOut
<1> QED
  BY <1>1, <1>2, <1>3, <1>4 DEF OptOutSound, OthersKept, IsOptOut

\* A customer who is loaded after an opt-out has committed is loaded opted out.
LEMMA LoadSeesOptOuts ==
  ASSUME TablesTypeOK, \A k \in Ingestion : OptOutSound(k), NEW i \in Ingestion,
         LoadCustomer(i), request' = request
  PROVE  SeenOptOut(i)' => OptedOut(i)' /\ step'[i] = "load_accounts"
<1> SUFFICES ASSUME SeenOptOut(i)' PROVE OptedOut(i)' /\ step'[i] = "load_accounts"
  OBVIOUS
<1>1. PICK j \in Committed : CustomerOf(j) = CustomerOf(i) /\ IsOptOut(j)
  BY DEF SeenOptOut, LoadCustomer, TablesTypeOK, CustomerOf, IsOptOut
<1>2. IsOptedOut(CustomerOf(i))
  BY <1>1 DEF OptOutSound, Committed
<1> QED
  BY <1>2 DEF LoadCustomer, IsOptedOut, OptedOut, TablesTypeOK, Goto

LEMMA OptOutsOfOwn ==
  ASSUME TablesTypeOK, LoopDomains, RowsSound, \A k \in Ingestion : OptOutSound(k),
         NEW i \in Ingestion, Statement(i)
  PROVE  OptOutSound(i)'
<1>0. OptOutSound(i) /\ request' = request /\ CustomerOf(i) \in Customer
  BY StatementKeepsOthers, RequestTypes
<1>1. CASE LoadCustomer(i)
  <2>1. SeenOptOut(i)' => OptedOut(i)' /\ step'[i] = "load_accounts"
    BY <1>0, <1>1, LoadSeesOptOuts
  <2>2. step'[i] \in {"flush_customer", "load_accounts"} /\ new_tasks'[i] = <<>>
    BY <1>0, <1>1 DEF LoadCustomer, Goto, At, OptOutSound, planningVars, TablesTypeOK
  <2> QED
    BY <2>1, <2>2 DEF OptOutSound
<1> SUFFICES ASSUME ~LoadCustomer(i) PROVE OptOutSound(i)'
  BY <1>1
<1>2. SeenOptOut(i)' <=> SeenOptOut(i)
  BY <1>0, SeenByLoad DEF SeenOptOut, CustomerOf, IsOptOut
<1>3. new_tasks'[i] # <<>> => ~SeenOptOut(i)'
  BY <1>0, <1>2, TasksOfLoop
     DEF OptOutSound, At, AfterLoad, AfterCustomer, AfterAccount, AfterInsert, OptedOut
<1> USE <1>0, <1>2, <1>3
    DEF TablesTypeOK, LoopDomains, OptOutSound, OptedOut, AfterLoad, AfterCustomer,
        AfterAccount, AfterInsert, At, Goto
<1>4. CASE Failing(i)
  <2>1. PICK s \in {"duplicate", "failed", "rejected", "aborted"} : End(i, s)
    BY <1>4, FailingEnds
  <2> QED
    BY <2>1 DEF End
<1>5. CASE MissEvent(i) \/ LoadAccounts(i) \/ SameCustomer(i) \/ LoadAccount(i) \/ SameAccount(i)
  BY <1>5 DEF MissEvent, LoadAccounts, SameCustomer, LoadAccount, SameAccount, sessionVars,
              planningVars
<1>6. CASE InsertCustomer(i) \/ UpdateCustomer(i) \/ InsertAccount(i) \/ UpdateAccount(i)
  BY <1>6 DEF InsertCustomer, UpdateCustomer, InsertAccount, UpdateAccount, FlushesCustomer,
              FlushesAccount, planningVars
<1>7. CASE InsertEvent(i)
  BY <1>7, PlanGoesOn DEF InsertEvent, sessionVars, planningVars, IsOptOut
<1>8. CASE CountRecent(i)
  BY <1>8 DEF CountRecent, StartLoop, sessionVars
<1>9. CASE PlanProposal(i)
  BY <1>9 DEF PlanProposal, BlockProposal, DeferProposal,
              ScheduleProposal, RecordDecision, sessionVars
<1>10. CASE SetOptedOut(i)
  <2>1. OptedOut(i) \/ (new_customer'[i] # None /\ new_customer'[i].opted_out)
    <3> DEFINE row == [Latest(new_customer[i], customers[CustomerOf(i)]) EXCEPT !.opted_out = TRUE]
    <3>1. row \in CustomerRow /\ row.opted_out
      BY <1>10, WrittenAgain DEF SetOptedOut, RowsSound
    <3>2. OptedOut(i) \/ new_customer' = [new_customer EXCEPT ![i] = row]
      BY <1>10 DEF SetOptedOut
    <3> HIDE DEF row
    <3> QED
      BY <3>1, <3>2, NoneIsNoRow
  <2> QED
    BY <1>10, <2>1 DEF SetOptedOut, planningVars
<1>11. CASE SetPaused(i)
  BY <1>11 DEF SetPaused, planningVars, IsOptOut
<1>12. CASE SelectTasks(i)
  BY <1>12 DEF SelectTasks, sessionVars, planningVars, IsOptOut
<1>13. CASE Commit(i)
  <2>1. step'[i] = "committed"
    BY <1>13 DEF Commit, End
  <2>2. IsOptOut(i) => step[i] = "commit"
    BY <1>13 DEF Commit, Planned, IsOptOut, PolicyEvent
  <2>3. IsOptOut(i) => IsOptedOut(CustomerOf(i))'
    <3>1. CASE IsOptOut(i) /\ OptedOut(i)
      <4>1. IsOptedOut(CustomerOf(i))
        BY <3>1 DEF RowsSound, CustomerSound, IsOptedOut
      <4> QED
        BY <4>1, RowsEvolveAll DEF RowsEvolve, IsOptedOut, CustomerOf
    <3>2. CASE IsOptOut(i) /\ ~OptedOut(i)
      BY <1>13, <2>2, <3>2 DEF Commit, Latest, IsOptedOut, CustomerOf
    <3> QED
      BY <3>1, <3>2
  <2> QED
    BY <2>1, <2>3 DEF IsOptOut, CustomerOf
<1> QED
  BY <1>4, <1>5, <1>6, <1>7, <1>8, <1>9, <1>10, <1>11, <1>12, <1>13
     DEF Statement, Receive, Proceed, Failing

LEMMA IngestionInvPreserved ==
  ASSUME IngestionInv, [Next]_vars
  PROVE  IngestionInv'
<1>1. RowsInv'
  BY RowsPreserved DEF IngestionInv, RowsInv
<1>2. CASE SessionsKept
  BY <1>1, <1>2 DEF IngestionInv, SessionsKept, OptOutSound, OptedOut, SeenOptOut, IsOptOut,
     IsOptedOut, CustomerOf, sessionVars, historyVars, planningVars
<1>3. ASSUME NEW i \in Ingestion, Statement(i) PROVE IngestionInv'
  <2>1. \A k \in Ingestion : OptOutSound(k)'
    BY <1>3, OptOutsOfOwn, OptOutsOfOthers DEF IngestionInv, RowsInv
  <2> QED
    BY <1>1, <2>1 DEF IngestionInv
<1> QED
  BY <1>2, <1>3, StepKinds

LEMMA IngestionInitially == Init => IngestionInv
BY RowsInitially
   DEF Init, IngestionInit, IngestionInv, RowsInv, OptOutSound, SeenOptOut, AfterLoad,
       AfterCustomer, AfterAccount, AfterInsert

\* The inductive invariant: what every transaction has read is still so of the
\* rows, what it has written it holds, and opt-outs reach rows, sessions and loops.
THEOREM IngestionInvariant == Spec => []IngestionInv
<1>1. IngestionInv /\ [Next]_vars => IngestionInv'
  BY IngestionInvPreserved
<1> QED
  BY <1>1, IngestionInitially, PTL DEF Spec

\* Nothing is planned after an opt-out that had committed when the customer was loaded.
THEOREM OptedOutNotPlannedHolds == Spec => []OptedOutNotPlanned
<1>1. IngestionInv => OptedOutNotPlanned
  BY DEF IngestionInv, OptOutSound, SeenOptOut, IsOptOut, OptedOutNotPlanned, Committed
<1> QED
  BY <1>1, IngestionInvariant, PTL

-----------------------------------------------------------------------------
(***************************************************************************)
(* Tasks, once they are there.                                             *)
(***************************************************************************)
\* Attempts are counted, up to the most there may be, before they are made.
AttemptsSound == /\ attempt_count \in [Task -> 0..MaxAttempts]
                 /\ \A t \in Task : status[t] = "dispatching" => attempt_count[t] > 0

\* What workers, operators and time do to a task.
LEMMA TaskOutside ==
  ASSUME TablesTypeOK, AttemptsSound, Outside
  PROVE  /\ AttemptsSound'
         /\ \A t \in Task : status[t] # "scheduled" \/ attempt_count[t] > 0 =>
              status'[t] # "scheduled" \/ attempt_count'[t] > 0
<1> USE DEF TablesTypeOK, AttemptsSound
<1>1. CASE \E a \in Account : CancelOutreach(a)
  BY <1>1 DEF CancelOutreach
<1>2. ASSUME NEW u \in Task, Lifecycle!Attempt(u)
      PROVE  /\ AttemptsSound'
             /\ \A t \in Task : status[t] # "scheduled" \/ attempt_count[t] > 0 =>
                  status'[t] # "scheduled" \/ attempt_count'[t] > 0
  BY <1>2, AttemptsAssumption DEF Lifecycle!Attempt, Lifecycle!Move
<1>3. ASSUME NEW u \in Task, NEW r \in {"sent", "failed", "scheduled"},
             status[u] = "dispatching" \/ r # "scheduled",
             status' = [status EXCEPT ![u] = r], attempt_count' = attempt_count
      PROVE  /\ AttemptsSound'
             /\ \A t \in Task : status[t] # "scheduled" \/ attempt_count[t] > 0 =>
                  status'[t] # "scheduled" \/ attempt_count'[t] > 0
  BY <1>3
<1>4. ASSUME NEW u \in Task, Lifecycle!Succeed(u) \/ Lifecycle!Fail(u)
                               \/ \E s \in {"sent", "failed"} : Lifecycle!Override(u, s)
      PROVE  \E r \in {"sent", "failed", "scheduled"} :
               /\ status[u] = "dispatching" \/ r # "scheduled"
               /\ status' = [status EXCEPT ![u] = r] /\ attempt_count' = attempt_count
  BY <1>4 DEF Lifecycle!Succeed, Lifecycle!Fail, Lifecycle!Override, Lifecycle!Move
<1>5. CASE Tick(AtHour(24)) /\ UNCHANGED attempt_count
  BY <1>5 DEF Tick, tableVars
<1>6. CASE UNCHANGED vars
  BY <1>6 DEF vars, ingestionVars, tableVars
<1> QED
  BY <1>1, <1>2, <1>3, <1>4, <1>5, <1>6 DEF Outside, Operate, Work, RecordManually

LEMMA AttemptsByStatement ==
  ASSUME TablesTypeOK, AttemptsSound, NEW i \in Ingestion, Statement(i), UNCHANGED attempt_count
  PROVE  AttemptsSound'
<1>1. ASSUME NEW t \in Task PROVE status'[t] = "dispatching" => status[t] = "dispatching"
  <2>1. CASE Commit(i)
    BY <2>1 DEF Commit
  <2>2. CASE ~Commit(i)
    BY <2>2, OnlyCommitWrites DEF tableVars
  <2> QED
    BY <2>1, <2>2
<1> QED
  BY <1>1 DEF AttemptsSound
=============================================================================
