--------------------------- MODULE EventIngestion ---------------------------
(***************************************************************************)
(* POST /v1/events: domain/event_ingestion.py and the planner it calls,    *)
(* one database transaction for each request, statement by statement.      *)
(*                                                                         *)
(* customers, accounts, inbound_events and status are the COMMITTED rows.  *)
(* An open transaction keeps what it has written, and the locks of those   *)
(* rows, to itself; an INSERT of an external id somebody is inserting, or  *)
(* an UPDATE of a row somebody has updated, waits.  SQLAlchemy loads an    *)
(* object once in a session, and writes only the columns that differ from  *)
(* what it loaded.                                                         *)
(*                                                                         *)
(* The loop over the proposals is that of PlanningLoop.  The locks of      *)
(* task rows, and the order cancellations take them in, are the matter of  *)
(* AccountCancellation: here a cancellation shows as a whole at its commit.*)
(***************************************************************************)
EXTENDS PlanningLoop

CONSTANTS
  Customer, Account, EventId,   \* external ids; an event's is source and id
  Beginning,      \* what the system may begin with: some of Beginnings
  LatestTime,     \* the database's clock stops here
  None            \* no row, nobody

InboundEventType == {"account_delinquent", "payment_failed", "payment_received",
                     "hardship_requested", "opt_out_received", "account_paused"}

CustomerRow == [timezone : Timezone, consent : SUBSET Channel, opted_out : BOOLEAN]
AccountRow == [customer : Customer, status : AccountStatus]

InboundEventRequest ==
  [event : EventId, event_type : InboundEventType, occurred_at : Int,
   customer : Customer, timezone : Timezone, consent : SUBSET Channel,
   account : Account, status : AccountStatus]

\* The rows of earlier requests, in which an account has a customer, the
\* database's time, and what the requests to come ask.
Beginnings ==
  {b \in [customers : [Customer -> CustomerRow \cup {None}],
          accounts : [Account -> AccountRow \cup {None}],
          clock : 0..LatestTime, request : [Ingestion -> InboundEventRequest]] :
     \A a \in Account : b.accounts[a] # None => b.customers[b.accounts[a].customer] # None}

ASSUME IngestionAssumption ==
  /\ Beginning \subseteq Beginnings
  /\ LatestTime \in Nat /\ IsFiniteSet(Ingestion)
  /\ None \notin CustomerRow \cup AccountRow \cup Ingestion
  /\ Customer \cap Account = {} /\ Customer \cap EventId = {} /\ Account \cap EventId = {}

VARIABLES
  clock,           \* the database's time
  customers,       \* the row of each customer
  accounts,        \* the row of each account
  inbound_events,  \* the row of each event: the transaction that inserted it
  status,          \* the status of each task, "none" before there is one
  holder,          \* the open transaction that has written a row
  request,         \* the body of each request
  step,            \* the statement each transaction is at
  began_at,        \* now() of the transaction: created_at of its rows
  read_customer, read_account,   \* the rows as the session loaded them
  new_customer, new_account,     \* the rows as the transaction leaves them
  to_cancel,       \* the tasks it cancels
  answer,          \* the response
  seen_customer,   \* history: what had committed when it loaded the customer
  seen_tasks       \* history: what had committed when it queried the tasks

tableVars == <<customers, accounts, inbound_events, status>>
sessionVars == <<read_customer, read_account, new_customer, new_account>>
historyVars == <<seen_customer, seen_tasks>>

\* What only a commit, an answer or the clock changes.
sharedVars == <<clock, tableVars, request, answer>>
ingestionVars == <<clock, tableVars, holder, request, step, began_at, sessionVars,
                   to_cancel, answer, historyVars, planningVars>>

\* A row of any table, by the unique value that names it.
Row == Customer \cup Account \cup EventId

\* The task of a transaction's n-th INSERT into outreach_tasks.
Task == Ingestion \X (1..3)

TaskStatus == {"scheduled", "dispatching", "sent", "failed", "cancelled"}

Step == {"find_event", "load_customer", "load_accounts", "flush_customer",
         "load_account", "flush_account", "insert_event", "count_recent", "plan", "opt_out", "pause",
         "select_tasks", "commit", "committed", "duplicate", "rejected", "failed", "aborted"}
Ended == {"committed", "duplicate", "rejected", "failed", "aborted"}

\* The response; one that is no result is an error.
Result == [event_id : Ingestion \cup {None}, created_tasks : Nat, blocked_tasks : Nat,
           deferred_tasks : Nat, cancelled_tasks : Nat, policy_decisions : Nat]
NoResult == [event_id |-> None, created_tasks |-> 0, blocked_tasks |-> 0,
             deferred_tasks |-> 0, cancelled_tasks |-> 0, policy_decisions |-> 0]

TablesTypeOK ==
  /\ clock \in 0..LatestTime
  /\ customers \in [Customer -> CustomerRow \cup {None}]
  /\ accounts \in [Account -> AccountRow \cup {None}]
  /\ inbound_events \in [EventId -> Ingestion \cup {None}]
  /\ status \in [Task -> TaskStatus \cup {"none"}]
  /\ holder \in [Row -> Ingestion \cup {None}]
  /\ request \in [Ingestion -> InboundEventRequest]
  /\ step \in [Ingestion -> Step]
  /\ began_at \in [Ingestion -> 0..LatestTime]
  /\ read_customer \in [Ingestion -> CustomerRow \cup {None}]
  /\ read_account \in [Ingestion -> AccountRow \cup {None}]
  /\ new_customer \in [Ingestion -> CustomerRow \cup {None}]
  /\ new_account \in [Ingestion -> AccountRow \cup {None}]
  /\ to_cancel \in [Ingestion -> SUBSET Task]
  /\ seen_customer \in [Ingestion -> SUBSET Ingestion]
  /\ seen_tasks \in [Ingestion -> SUBSET Ingestion]

\* The planning loops and what is answered from them.
LoopTypeOK ==
  /\ answer \in [Ingestion -> Result]
  /\ proposals \in [Ingestion -> Seq(Proposal)]
  /\ recent_count \in [Ingestion -> Nat]
  /\ decisions \in [Ingestion -> Seq(Decision)]
  /\ new_tasks \in [Ingestion -> Seq(Proposal)]
  /\ loaded \in [Ingestion -> Loaded \cup {None}]

IngestionInit ==
  /\ \E b \in Beginning : /\ customers = b.customers /\ accounts = b.accounts
                          /\ clock = b.clock /\ request = b.request
  /\ inbound_events = [e \in EventId |-> None]
  /\ status = [t \in Task |-> "none"]
  /\ holder = [r \in Row |-> None]
  /\ step = [i \in Ingestion |-> "find_event"]
  /\ began_at = [i \in Ingestion |-> 0]
  /\ read_customer = [i \in Ingestion |-> None]
  /\ read_account = [i \in Ingestion |-> None]
  /\ new_customer = [i \in Ingestion |-> None]
  /\ new_account = [i \in Ingestion |-> None]
  /\ to_cancel = [i \in Ingestion |-> {}]
  /\ answer = [i \in Ingestion |-> NoResult]
  /\ seen_customer = [i \in Ingestion |-> {}]
  /\ seen_tasks = [i \in Ingestion |-> {}]
  /\ loaded = [i \in Ingestion |-> None]
  /\ proposals = [i \in Ingestion |-> <<>>]
  /\ recent_count = [i \in Ingestion |-> 0]
  /\ decisions = [i \in Ingestion |-> <<>>]
  /\ new_tasks = [i \in Ingestion |-> <<>>]

-----------------------------------------------------------------------------
EventOf(i) == request[i].event
CustomerOf(i) == request[i].customer
AccountOf(i) == request[i].account

Committed == {i \in Ingestion : step[i] = "committed"}

At(i, s) == step[i] = s
Goto(i, s) == step' = [step EXCEPT ![i] = s]

Latest(new, old) == IF new # None THEN new ELSE old

Free(row) == holder[row] = None
Hold(i, row) == holder' = [holder EXCEPT ![row] = i]

\* The session ends: its locks go, and what it wrote has been committed or is lost.
End(i, s) ==
  /\ Goto(i, s)
  /\ holder' = [r \in Row |-> IF holder[r] = i THEN None ELSE holder[r]]
  /\ read_customer' = [read_customer EXCEPT ![i] = None]
  /\ read_account' = [read_account EXCEPT ![i] = None]
  /\ new_customer' = [new_customer EXCEPT ![i] = None]
  /\ new_account' = [new_account EXCEPT ![i] = None]
  /\ UNCHANGED <<clock, request, began_at, historyVars, planningVars>>

\* Without a commit.
Rollback(i, s) == End(i, s) /\ UNCHANGED <<tableVars, to_cancel, answer>>

DecisionCount(i, outcome) ==
  Cardinality({n \in 1..Len(decisions[i]) : decisions[i][n].decision = outcome})

\* Flawed: the counts come from the tasks' present status.
ResultOfLiveTasks(i) ==
  [event_id |-> i,
   created_tasks |-> Cardinality({t \in Task : t[1] = i /\ status[t] = "scheduled"}),
   blocked_tasks |-> DecisionCount(i, "block"), deferred_tasks |-> DecisionCount(i, "defer"),
   cancelled_tasks |-> Cardinality({t \in to_cancel[i] : status[t] = "cancelled"}),
   policy_decisions |-> Len(decisions[i])]

\* _result_from_existing_event, from the committed rows about the event.
ResultFromExistingEvent(i) ==
  [event_id |-> i,
   created_tasks |-> Cardinality({t \in Task : t[1] = i /\ status[t] # "none"}),
   blocked_tasks |-> DecisionCount(i, "block"), deferred_tasks |-> DecisionCount(i, "defer"),
   cancelled_tasks |-> Cardinality(to_cancel[i]),
   policy_decisions |-> Len(decisions[i])]

\* The event is there already: the session writes nothing.
Duplicate(i) ==
  /\ inbound_events[EventOf(i)] # None
  /\ answer' = [answer EXCEPT ![i] = ResultFromExistingEvent(inbound_events[EventOf(i)])]
  /\ End(i, "duplicate")
  /\ UNCHANGED <<tableVars, to_cancel>>

\* _find_existing_event finds it.
ReplayEvent(i) == At(i, "find_event") /\ Duplicate(i)

\* now() stays what it is at the transaction's first statement.
MissEvent(i) ==
  /\ At(i, "find_event")
  /\ inbound_events[EventOf(i)] = None
  /\ Goto(i, "load_customer")
  /\ began_at' = [began_at EXCEPT ![i] = clock]
  /\ UNCHANGED <<sharedVars, holder, sessionVars, to_cancel, historyVars, planningVars>>

-----------------------------------------------------------------------------
LoadCustomer(i) ==
  /\ At(i, "load_customer")
  /\ read_customer' = [read_customer EXCEPT ![i] = customers[CustomerOf(i)]]
  /\ seen_customer' = [seen_customer EXCEPT ![i] = Committed]
  /\ Goto(i, IF customers[CustomerOf(i)] = None THEN "flush_customer" ELSE "load_accounts")
  /\ UNCHANGED <<sharedVars, holder, began_at, read_account, new_customer, new_account,
                 to_cancel, seen_tasks, planningVars>>

\* lazy="selectin": with a customer come its accounts, by a SELECT of their own.
LoadAccounts(i) ==
  LET found == accounts[AccountOf(i)] IN
  /\ At(i, "load_accounts")
  /\ read_account' = [read_account EXCEPT ![i] =
       IF found # None /\ found.customer = CustomerOf(i) THEN found ELSE None]
  /\ Goto(i, "flush_customer")
  /\ UNCHANGED <<sharedVars, holder, began_at, read_customer, new_customer, new_account,
                 to_cancel, historyVars, planningVars>>

SnapshotFlag(i) == FALSE   \* flawed

\* customer.opted_out of the object in the session.
OptedOut(i) == read_customer[i] # None /\ read_customer[i].opted_out

NewCustomer(i) == [timezone |-> request[i].timezone, consent |-> request[i].consent,
                   opted_out |-> FALSE]

CustomerChanged(i) == \/ request[i].timezone # read_customer[i].timezone
                      \/ request[i].consent # read_customer[i].consent

\* Flawed: the UPDATE writes every column of the object.
WholeCustomer(i) == [timezone |-> request[i].timezone, consent |-> request[i].consent,
                     opted_out |-> OptedOut(i)]

\* The columns that differ from those loaded, over the row there is by now.
MergedCustomer(i) ==
  LET read == read_customer[i]
      row == customers[CustomerOf(i)]
      Changed(channel) == (channel \in request[i].consent) # (channel \in read.consent)
  IN  [timezone |-> IF request[i].timezone # read.timezone
                    THEN request[i].timezone ELSE row.timezone,
       consent |-> {channel \in Channel : IF Changed(channel)
                                          THEN channel \in request[i].consent
                                          ELSE channel \in row.consent},
       opted_out |-> row.opted_out]

FlushesCustomer(i, row) ==
  /\ Hold(i, CustomerOf(i))
  /\ new_customer' = [new_customer EXCEPT ![i] = row]
  /\ Goto(i, "load_account")
  /\ UNCHANGED <<sharedVars, began_at, read_customer, read_account, new_account,
                 to_cancel, historyVars, planningVars>>

InsertCustomer(i) ==
  /\ At(i, "flush_customer") /\ read_customer[i] = None
  /\ Free(CustomerOf(i)) /\ customers[CustomerOf(i)] = None
  /\ FlushesCustomer(i, NewCustomer(i))

\* An IntegrityError outside the try block: a 500.
CustomerCollides(i) ==
  /\ At(i, "flush_customer") /\ read_customer[i] = None
  /\ Free(CustomerOf(i)) /\ customers[CustomerOf(i)] # None
  /\ Rollback(i, "failed")

\* Name, phone number and email may have changed when nothing else has.
UpdateCustomer(i) ==
  /\ At(i, "flush_customer") /\ read_customer[i] # None
  /\ Free(CustomerOf(i))
  /\ FlushesCustomer(i, MergedCustomer(i))

SameCustomer(i) ==
  /\ At(i, "flush_customer") /\ read_customer[i] # None
  /\ ~CustomerChanged(i)
  /\ Goto(i, "load_account")
  /\ UNCHANGED <<sharedVars, holder, began_at, sessionVars, to_cancel, historyVars,
                 planningVars>>

-----------------------------------------------------------------------------
NotOwned(i) == FALSE   \* flawed

\* An account that came with its customer is not another customer's.
OwnedByAnother(i) == /\ read_account[i] = None
                     /\ accounts[AccountOf(i)] # None
                     /\ accounts[AccountOf(i)].customer # CustomerOf(i)

RejectAccount(i) == At(i, "load_account") /\ OwnedByAnother(i) /\ Rollback(i, "rejected")

LoadAccount(i) ==
  /\ At(i, "load_account") /\ ~OwnedByAnother(i)
  /\ read_account' = [read_account EXCEPT ![i] =
       IF @ # None THEN @ ELSE accounts[AccountOf(i)]]
  /\ Goto(i, "flush_account")
  /\ UNCHANGED <<sharedVars, holder, began_at, read_customer, new_customer, new_account,
                 to_cancel, historyVars, planningVars>>

FlushesAccount(i, row) ==
  /\ Hold(i, AccountOf(i))
  /\ new_account' = [new_account EXCEPT ![i] = row]
  /\ Goto(i, "insert_event")
  /\ UNCHANGED <<sharedVars, began_at, read_customer, read_account, new_customer,
                 to_cancel, historyVars, planningVars>>

InsertAccount(i) ==
  /\ At(i, "flush_account") /\ read_account[i] = None
  /\ Free(AccountOf(i)) /\ accounts[AccountOf(i)] = None
  /\ FlushesAccount(i, [customer |-> CustomerOf(i), status |-> request[i].status])

AccountCollides(i) ==
  /\ At(i, "flush_account") /\ read_account[i] = None
  /\ Free(AccountOf(i)) /\ accounts[AccountOf(i)] # None
  /\ Rollback(i, "failed")

OldStatus(i) == accounts[AccountOf(i)].status   \* flawed

MergedStatus(i) == IF request[i].status # read_account[i].status
                   THEN request[i].status ELSE accounts[AccountOf(i)].status

\* The balance and the days past due may have changed when the status has not.
UpdateAccount(i) ==
  /\ At(i, "flush_account") /\ read_account[i] # None
  /\ Free(AccountOf(i))
  /\ FlushesAccount(i, [accounts[AccountOf(i)] EXCEPT !.status = MergedStatus(i)])

SameAccount(i) ==
  /\ At(i, "flush_account") /\ read_account[i] # None
  /\ request[i].status = read_account[i].status
  /\ Goto(i, "insert_event")
  /\ UNCHANGED <<sharedVars, holder, began_at, sessionVars, to_cancel, historyVars,
                 planningVars>>

-----------------------------------------------------------------------------
\* Where plan_outreach_for_event goes from here.
Plan(event_type) == CASE event_type \in PolicyEvent -> "count_recent"
                      [] event_type = "opt_out_received" -> "opt_out"
                      [] event_type = "account_paused" -> "pause"
                      [] OTHER -> "select_tasks"

InsertEvent(i) ==
  /\ At(i, "insert_event")
  /\ Free(EventOf(i)) /\ inbound_events[EventOf(i)] = None
  /\ Hold(i, EventOf(i))
  /\ Goto(i, Plan(request[i].event_type))
  /\ UNCHANGED <<sharedVars, began_at, sessionVars, to_cancel, historyVars, planningVars>>

\* The same event won the race: roll back and answer as it was answered.
EventCollides(i) == At(i, "insert_event") /\ Free(EventOf(i)) /\ Duplicate(i)

-----------------------------------------------------------------------------
OfCustomer(i, t) == CustomerOf(t[1]) = CustomerOf(i)
OfAccount(i, t) == AccountOf(t[1]) = AccountOf(i)

RecentAttemptStatus == {"scheduled", "dispatching", "sent", "failed"}

\* Flawed: of the account, not the customer.
AttemptsOfAccount(i) ==
  {t \in Task : /\ OfAccount(i, t) /\ status[t] \in RecentAttemptStatus
                /\ began_at[t[1]] >= request[i].occurred_at - Day}

RecentAttempts(i) ==
  {t \in Task : /\ OfCustomer(i, t) /\ status[t] \in RecentAttemptStatus
                /\ began_at[t[1]] >= request[i].occurred_at - Day}

SeeTasks(i) == seen_tasks' = [seen_tasks EXCEPT ![i] = Committed]

\* Flawed: the customer as it was loaded, not as the snapshot left it.
StartStaleLoop(i) ==
  LET now == request[i].occurred_at
      customer == Latest(read_customer[i], NewCustomer(i))
  IN
  /\ loaded' = [loaded EXCEPT ![i] =
       [event_type |-> request[i].event_type, now |-> now,
        timezone |-> customer.timezone, consent |-> customer.consent,
        opted_out |-> OptedOut(i), account_status |-> request[i].status,
        recent_attempts |-> Cardinality(RecentAttempts(i))]]
  /\ proposals' = [proposals EXCEPT ![i] =
       ProposalsForEvent(request[i].event_type, now, customer.timezone)]
  /\ recent_count' = [recent_count EXCEPT ![i] = Cardinality(RecentAttempts(i))]
  /\ UNCHANGED <<decisions, new_tasks>>

\* The objects in the session hold the snapshot, and the opt-out as loaded.
StartLoop(i) ==
  LET now == request[i].occurred_at IN
  /\ loaded' = [loaded EXCEPT ![i] =
       [event_type |-> request[i].event_type, now |-> now,
        timezone |-> request[i].timezone, consent |-> request[i].consent,
        opted_out |-> OptedOut(i), account_status |-> request[i].status,
        recent_attempts |-> Cardinality(RecentAttempts(i))]]
  /\ proposals' = [proposals EXCEPT ![i] =
       ProposalsForEvent(request[i].event_type, now, request[i].timezone)]
  /\ recent_count' = [recent_count EXCEPT ![i] = Cardinality(RecentAttempts(i))]
  /\ UNCHANGED <<decisions, new_tasks>>

CountRecent(i) ==
  /\ At(i, "count_recent")
  /\ StartLoop(i)
  /\ SeeTasks(i)
  /\ Goto(i, "plan")
  /\ UNCHANGED <<sharedVars, holder, began_at, sessionVars, to_cancel, seen_customer>>

PlanProposal(i) ==
  /\ At(i, "plan")
  /\ BlockProposal(i) \/ DeferProposal(i) \/ ScheduleProposal(i)
  /\ UNCHANGED <<sharedVars, holder, step, began_at, sessionVars, to_cancel, historyVars>>

-----------------------------------------------------------------------------
\* An UPDATE of the customer or the account that may be the second one.
Writable(i, row) == holder[row] \in {None, i}

SetOptedOut(i) ==
  /\ At(i, "opt_out")
  /\ \/ OptedOut(i) /\ UNCHANGED <<holder, new_customer>>
     \/ /\ ~OptedOut(i) /\ Writable(i, CustomerOf(i))
        /\ Hold(i, CustomerOf(i))
        /\ new_customer' = [new_customer EXCEPT ![i] =
             [Latest(new_customer[i], customers[CustomerOf(i)]) EXCEPT !.opted_out = TRUE]]
  /\ Goto(i, "select_tasks")
  /\ UNCHANGED <<sharedVars, began_at, read_customer, read_account, new_account,
                 to_cancel, historyVars, planningVars>>

EventNameAsStatus(row) == [row EXCEPT !.status = "account_paused"]   \* flawed

Paused(row) == [row EXCEPT !.status = "paused"]

SetPaused(i) ==
  /\ At(i, "pause")
  /\ \/ request[i].status = "paused" /\ UNCHANGED <<holder, new_account>>
     \/ /\ request[i].status # "paused" /\ Writable(i, AccountOf(i))
        /\ Hold(i, AccountOf(i))
        /\ new_account' = [new_account EXCEPT ![i] =
             Paused(Latest(new_account[i], accounts[AccountOf(i)]))]
  /\ Goto(i, "select_tasks")
  /\ UNCHANGED <<sharedVars, began_at, read_customer, read_account, new_customer,
                 to_cancel, historyVars, planningVars>>

\* Flawed: the tasks of the transactions the session had seen at its start.
TasksSeenBefore(i) == {t \in Task : /\ OfAccount(i, t) /\ OfCustomer(i, t)
                                    /\ status[t] = "scheduled" /\ t[1] \in seen_customer[i]}

ScheduledTasks(i) == {t \in Task : /\ OfAccount(i, t) /\ OfCustomer(i, t)
                                   /\ status[t] = "scheduled"}

SelectTasks(i) ==
  /\ At(i, "select_tasks")
  /\ to_cancel' = [to_cancel EXCEPT ![i] = ScheduledTasks(i)]
  /\ SeeTasks(i)
  /\ Goto(i, "commit")
  /\ UNCHANGED <<sharedVars, holder, began_at, sessionVars, seen_customer, planningVars>>

-----------------------------------------------------------------------------
Planned(i) == At(i, "plan") /\ proposals[i] = <<>>

\* _result_from_planner, from the counters of the loop and the cancellation.
ResultFromPlanner(i) ==
  [event_id |-> i, created_tasks |-> Len(new_tasks[i]),
   blocked_tasks |-> DecisionCount(i, "block"), deferred_tasks |-> DecisionCount(i, "defer"),
   cancelled_tasks |-> Cardinality(to_cancel[i]),
   policy_decisions |-> Len(decisions[i])]

Commit(i) ==
  /\ Planned(i) \/ At(i, "commit")
  /\ customers' = [customers EXCEPT ![CustomerOf(i)] = Latest(new_customer[i], @)]
  /\ accounts' = [accounts EXCEPT ![AccountOf(i)] = Latest(new_account[i], @)]
  /\ inbound_events' = [inbound_events EXCEPT ![EventOf(i)] = i]
  /\ status' = [t \in Task |->
       CASE t \in to_cancel[i] -> "cancelled"
         [] t[1] = i /\ t[2] <= Len(new_tasks[i]) -> "scheduled"
         [] OTHER -> status[t]]
  /\ answer' = [answer EXCEPT ![i] = ResultFromPlanner(i)]
  /\ End(i, "committed")
  /\ UNCHANGED to_cancel

-----------------------------------------------------------------------------
\* The row a transaction's statement is about to write, if any.
Wanted(i) == CASE At(i, "flush_customer") \/ At(i, "opt_out") -> {CustomerOf(i)}
               [] At(i, "flush_account") \/ At(i, "pause") -> {AccountOf(i)}
               [] At(i, "insert_event") -> {EventOf(i)}
               [] OTHER -> {}

WaitsFor(i, j) == i # j /\ \E row \in Wanted(i) : holder[row] = j

\* Transactions each of which waits for another one of them.
Deadlocked(X) == X # {} /\ \A i \in X : \E j \in X : WaitsFor(i, j)

NoVictim(i) == FALSE   \* flawed

DeadlockVictim(i) ==
  /\ \E X \in SUBSET Ingestion : i \in X /\ Deadlocked(X)
  /\ Rollback(i, "aborted")

\* The API process dies, or loses its connection; the server rolls back.
ConnectionLost(i) ==
  /\ step[i] \notin Ended \cup {"find_event"}
  /\ Rollback(i, "aborted")

Tick(ticks) ==
  /\ clock + ticks <= LatestTime
  /\ clock' = clock + ticks
  /\ UNCHANGED <<tableVars, holder, request, step, began_at, sessionVars, to_cancel,
                 answer, historyVars, planningVars>>

Receive(i) == ReplayEvent(i) \/ MissEvent(i)

\* The statements of a request that has begun.
Proceed(i) ==
  \/ LoadCustomer(i) \/ LoadAccounts(i) \/ InsertCustomer(i) \/ CustomerCollides(i) \/ UpdateCustomer(i)
  \/ SameCustomer(i) \/ RejectAccount(i) \/ LoadAccount(i) \/ InsertAccount(i)
  \/ AccountCollides(i) \/ UpdateAccount(i) \/ SameAccount(i) \/ InsertEvent(i)
  \/ EventCollides(i) \/ CountRecent(i) \/ PlanProposal(i) \/ SetOptedOut(i)
  \/ SetPaused(i) \/ SelectTasks(i) \/ Commit(i) \/ DeadlockVictim(i)

IngestionNext ==
  \/ \E i \in Ingestion : Receive(i) \/ Proceed(i) \/ ConnectionLost(i)
  \/ Tick(AtHour(24))
=============================================================================
