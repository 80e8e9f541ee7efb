--------------------------- MODULE OutreachSystem ---------------------------
(***************************************************************************)
(* Event ingestion together with what becomes of the tasks it creates.     *)
(* The workers, the manual results and the API's cancellation appear as    *)
(* TaskLifecycle lets them act, which is what TaskFlow implements.         *)
(***************************************************************************)
EXTENDS EventIngestion

CONSTANT MaxAttempts   \* max_attempts

ASSUME AttemptsAssumption == MaxAttempts \in Nat

VARIABLE attempt_count   \* of each task

vars == <<ingestionVars, attempt_count>>

\* Which account a task has depends on the requests: see CancelOutreach.
Lifecycle == INSTANCE TaskLifecycle WITH
  Task <- Task, Account <- {}, account_id <- [t \in Task |-> None],
  MaxAttempts <- MaxAttempts, status <- status, attempt_count <- attempt_count

ingestionButStatus ==
  <<clock, customers, accounts, inbound_events, holder, request, step, began_at,
    sessionVars, to_cancel, answer, historyVars, planningVars>>

Init == IngestionInit /\ attempt_count = [t \in Task |-> 0]

Work(t) == /\ Lifecycle!Attempt(t) \/ Lifecycle!Succeed(t) \/ Lifecycle!Fail(t)
           /\ UNCHANGED ingestionButStatus

RecordManually(t, s) == Lifecycle!Override(t, s) /\ UNCHANGED ingestionButStatus

\* The API's cancellation, at its commit.
CancelOutreach(a) ==
  /\ \E T \in SUBSET {t \in Task : AccountOf(t[1]) = a /\ status[t] = "scheduled"} \ {{}} :
       status' = [t \in Task |-> IF t \in T THEN "cancelled" ELSE status[t]]
  /\ UNCHANGED <<ingestionButStatus, attempt_count>>

Operate ==
  \/ \E t \in Task : Work(t) \/ \E s \in {"sent", "failed"} : RecordManually(t, s)
  \/ \E a \in Account : CancelOutreach(a)

\* Every request has ended; the operators may do nothing more.
Quiescent == /\ \A i \in Ingestion : step[i] \in Ended
             /\ UNCHANGED vars

Next ==
  \/ IngestionNext /\ UNCHANGED attempt_count
  \/ Operate
  \/ Quiescent

Spec == Init /\ [][Next]_vars

\* A handler that has begun runs to its end: the server grants free locks and
\* breaks deadlocks.  No request need be sent and no connection lost.
FairSpec ==
  /\ Spec
  /\ \A i \in Ingestion : WF_vars(Proceed(i) /\ UNCHANGED attempt_count)

\* The rows an event may add or change; a task's later life is not its effect.
Once == INSTANCE EventOnce WITH
  Request <- Ingestion, Event <- EventId, Reply <- Result, NoReply <- NoResult,
  about <- [i \in Ingestion |-> EventOf(i)],
  effect <- inbound_events,
  reply <- answer,
  books <- <<customers, accounts, {t \in Task : status[t] # "none"},
             [i \in Committed |-> <<decisions[i], to_cancel[i]>>]>>

-----------------------------------------------------------------------------
TypeOK == TablesTypeOK /\ LoopTypeOK /\ attempt_count \in [Task -> 0..MaxAttempts]

\* However often and however concurrently an event is sent, it takes effect at
\* most once, as a whole, and each answer repeats the first, although it is
\* counted from rows that changed meanwhile (event_ingestion.py:96-101, 252-304).
EventsTakeEffectOnce == Once!OnceSpec

\* Nothing takes an opt-out back: no snapshot, whenever it was loaded and
\* whatever it overtook (models.py:87-89, event_ingestion.py:195-199).
IsOptedOut(c) == customers[c] # None /\ customers[c].opted_out
OptOutIsDurable == [][\A c \in Customer : IsOptedOut(c) => IsOptedOut(c)']_vars

\* An event whose transaction loaded the customer after an opt-out of theirs
\* had committed plans nothing, whatever it says of the customer and whatever
\* commits meanwhile (planner.py:225, engine.py:107-110).
OptedOutNotPlanned ==
  \A i \in Committed : new_tasks[i] # <<>> =>
    \A j \in seen_customer[i] :
      ~(CustomerOf(j) = CustomerOf(i) /\ request[j].event_type = "opt_out_received")

\* Every task there is keeps to what its event said, whatever its transaction
\* had loaded and whoever committed meanwhile: a channel the snapshot consents
\* to, an account whose status admits outreach, the contact hours of the zone
\* the snapshot names, not before the event (planner.py:247-262, 305-315).
TasksKeepToSnapshot ==
  \A t \in Task : status[t] # "none" =>
    LET asked == request[t[1]]
        task == new_tasks[t[1]][t[2]]
    IN  /\ t[2] <= Len(new_tasks[t[1]])
        /\ task.channel \in asked.consent
        /\ asked.status \in {"current", "delinquent"}
        /\ ContactHours(asked.timezone, task.channel, task.scheduled_at)
        /\ task.scheduled_at >= asked.occurred_at

CancellingEvent == InboundEventType \ PolicyEvent

\* A task that still waits for its first attempt although a cancelling event
\* about its account has committed was not there when that event looked: what
\* such an event can miss are tasks of transactions it overlapped, or that
\* began after it (planner.py:372-396).
CancelledOrOverlapped ==
  \A t \in Task : status[t] = "scheduled" /\ attempt_count[t] = 0 =>
    \A j \in Committed :
      request[j].event_type \in CancellingEvent /\ AccountOf(j) = AccountOf(t[1])
        => t[1] \notin seen_tasks[j]

\* The customer's contacts of the 24 hours before the transaction began that
\* are its own or were there when it counted.
Counted(i) == {t \in Task : /\ t[1] \in seen_tasks[i] \cup {i}
                            /\ OfCustomer(i, t)
                            /\ status[t] \in RecentAttemptStatus
                            /\ began_at[t[1]] >= began_at[i] - Day}

\* An event that is not dated ahead of the database's clock keeps the cap over
\* all contacts of the customer, of any account, whose transactions had
\* committed when it counted, and what becomes of them later only takes some
\* away: what may exceed the cap is overlap alone (planner.py:399-419).
CapKeptInOrder ==
  \A i \in Committed : request[i].occurred_at <= began_at[i] /\ new_tasks[i] # <<>> =>
    Cardinality(Counted(i)) <= FrequencyCap

\* Every account whose event was accepted is that customer's for good, however
\* its first events raced (event_ingestion.py:225-243, models.py:126-127).
LineageKept ==
  \A i \in Committed : /\ accounts[AccountOf(i)] # None
                       /\ accounts[AccountOf(i)].customer = CustomerOf(i)

\* What the account's status is to be when the event has been handled.
StatusAsked(i) ==
  IF request[i].event_type = "account_paused" THEN "paused" ELSE request[i].status

\* The transaction, and those about the same row that it had not seen.
Successors(i, Of(_)) ==
  {i} \cup {j \in Committed : Of(j) = Of(i) /\ j \notin seen_customer[i]}

\* Snapshots that overlap may mix in a row, for each writes only the columns
\* that differ from what it loaded, but nothing is lost: what a column says is
\* said by the last snapshot or by one it had not seen, never by one that it
\* had seen and was to replace (event_ingestion.py:192-249, models.py:118).
SnapshotsNotUndone ==
  \A i \in Committed :
    LET customer == customers[CustomerOf(i)]
        account == accounts[AccountOf(i)]
    IN  /\ \E j \in Successors(i, CustomerOf) : customer.timezone = request[j].timezone
        /\ \A channel \in Channel : \E j \in Successors(i, CustomerOf) :
             channel \in customer.consent <=> channel \in request[j].consent
        /\ \E j \in Successors(i, AccountOf) : account.status = StatusAsked(j)

\* A handler that has begun comes to an end, though it may wait for the rows
\* of others and they for its own.
RequestsEnd ==
  \A i \in Ingestion : step[i] # "find_event" ~> step[i] \in Ended

-----------------------------------------------------------------------------
(***************************************************************************)
(* What the documents say, and overlapping transactions or dates ahead of  *)
(* the clock refute.                                                       *)
(***************************************************************************)
\* A duplicate call returns the persisted result (event_ingestion.py:100-101):
\* a request about an event that has taken effect does not fail.
DuplicatesAreAnswered ==
  \A i \in Ingestion : step[i] = "failed" =>
    \A j \in Committed : EventOf(j) = EventOf(i) => i = j

\* The rolling contact-frequency cap is enforced (compliance-assumptions.md:72),
\* for events at the same time too: no customer has more contacts planned
\* within 24 hours than the cap allows.
CapKeptOverall ==
  \A i \in Committed :
    request[i].occurred_at <= began_at[i] =>
      Cardinality({t \in Task : /\ OfCustomer(i, t)
                                /\ status[t] \in RecentAttemptStatus
                                /\ began_at[t[1]] \in began_at[i] - Day .. began_at[i]})
        <= FrequencyCap
=============================================================================
