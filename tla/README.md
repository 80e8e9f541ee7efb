# Verification of the AI compliance outreach orchestrator

TLA+ models of the orchestrator in `src/src/orchestrator`, the TLC runs that
check them on small instances, and theorems about them that TLAPS checks for
every instance. Paths below are relative to the repository.

## 1. The system

A collections system posts events about overdue accounts
(`POST /v1/events`). The orchestrator decides, under a fixed compliance
policy, which contacts (email, SMS, call) to schedule, keeps them as rows of
`outreach_tasks`, and one or more worker processes send the ones that are due
through channel adapters. Operators may record a delivery result by hand and
may cancel an account's scheduled outreach. Everything shares one PostgreSQL
database through SQLAlchemy sessions at READ COMMITTED; there is no queue and
no lock other than the database's row locks.

### 1.1 Inventory

| Component | Code | State | Operations | Module |
|---|---|---|---|---|
| Outreach task table | `models.py` 46-52, 236-318, `domain/audit_log.py`, `db.py` | `status`, `attempt_count`, `max_attempts`, `scheduled_at`, `last_error`, audit rows, row locks of open transactions | conditional `UPDATE`, append audit row, commit | `OutreachTasks` |
| Dispatch worker | `workers/dispatch.py`, `channels/base.py` | per process: `now` and the selected ids of the pass, the claimed task's refreshed attributes | select, claim, send, record success / failure, sleep, die | `DispatchWorker` |
| Manual delivery results | `domain/operational_outreach.py` 44-103, `api/tasks.py` | per request: the loaded task and its status | load and check, conditional update, 409 | `OperationalOutreach` |
| Account cancellation API | `domain/operational_outreach.py` 106-161, `api/accounts.py` | per transaction: the selected rows not reached yet, locks held | select, conditional update row by row, commit, roll back | `AccountCancellation` |
| Outreach planner | `orchestration/planner.py` | customer opt-out, account status, new tasks, decisions | plan for an event; cancel on payment, opt-out, hardship, pause | policy loop in `PlanningLoop`, the rest in `EventIngestion`, locks of a cancellation in `AccountCancellation` |
| Policy engine | `policy/engine.py` | none | `evaluate_policy` | `PolicyEngine` |
| Event ingestion | `domain/event_ingestion.py`, `domain/inbound_events.py`, `api/events.py` | inbound events with a unique idempotency key, customers, accounts; per request: the session's objects, locks, the planner's loop | look up, load, insert or update the snapshot, insert the event, plan, commit, replay, reject, fail | `EventIngestion`, promise in `EventOnce` |
| Task lifecycle | (what the docs promise of a task) | status, attempts | claim, retry, settle, cancel | `TaskLifecycle` (abstract) |
| Channel adapters | `channels/mock_*.py` | none | always succeed | the provider is the external part of `DispatchWorker` |
| Query and audit endpoints, correlation id, settings, app assembly | `api/audit.py`, `api/health.py`, `api/correlation.py`, `settings.py`, `main.py` | none | read only | not modelled |
| Migrations, demo seeding | `alembic/`, `scripts/` | none at run time | run once by hand | not modelled |

### 1.2 How they interact

* Ingestion calls the planner inside its transaction; the planner calls the
  policy engine for each proposal and inserts tasks, or selects and cancels
  them. All of it commits once.
* Workers, manual results and cancellations never call each other. They meet in
  the rows of `outreach_tasks`, and what protects a row is the `WHERE` clause of
  each `UPDATE` (and the absence of one in the planner's cancellation).
* A worker holds no transaction while it calls the provider, so everything may
  happen to the task between the claim and the record of the outcome.
* Audit rows are written in the transaction of the change they explain.

### 1.3 What is hard here, and what makes each component right

* **Dispatch.** Several workers select the same tasks; a selection is stale when
  used; the outcome comes back after somebody else settled the task; the worker
  dies after the claim; the provider accepts and the answer is lost. Right means:
  one sender per task at a time, no more attempts than allowed, no second
  contact after a confirmed one, the retry delay is kept, an overtaken outcome
  leaves nothing behind, and everything due ends.
* **Manual results.** A status read in one statement decides in a later one.
  Right means: a recorded result stands against every worker and cancellation.
* **Cancellation.** Many rows, one commit; a plain `SELECT` before the updates;
  two lock orders in the code. Right means: only scheduled tasks of the account
  are cancelled, cancelled is final, cancellations end.
* **Audit.** Right means: the trail of a task accounts for its present state.
* **Planning.** A window in the customer's wall clock, met from instants in
  another zone, across midnights, weekends and clock changes; a cap shared by the
  proposals of one event; a deferral for two reasons. Right means: every task
  respects consent, opt-out, account status and contact hours, is put off no
  longer than needed, and stays within the cap; the decision rows tell which
  tasks exist.
* **Ingestion.** One transaction of a dozen statements, and any number of them at
  once: what a session loaded is stale when it is flushed, unique keys decide who
  was first, rows are locked in more than one order, the process may die between
  any two statements. Right means: an event takes effect once, as a whole, and
  each later answer about it repeats the first; an opt-out is never taken back and
  plans nothing after it; an account stays its customer's; no snapshot is
  undone by one it was to replace; a cancelling event misses only what it
  overlapped; the cap holds across events; every handler ends.

`PROJECT.json` lists each of these hazards at its line with the properties that
would catch it.

## 2. Modules

```
OutreachTasks            rows, audit trail, row locks, conditional UPDATE
  |- DispatchWorker      workers, provider, clock
  |- OperationalOutreach manual results
  |- AccountCancellation the two cancelling transactions, deadlock detection
TaskFlow                 the three at once; all properties
  |- TaskLifecycle       abstract: what may happen to a task     (INSTANCE)
  |- MCTaskFlow          constants and symmetry for TLC
  |    |- QuietHours     the customer's wall clock beside the workers'
  |- TaskFlowProofs      types, dispatch invariant
       |- HistoryProofs  row guards, audit trail, finality, lock order, lifecycle

PolicyEngine             evaluate_policy, the customer's wall clock
PlanningLoop             the steps of the planning loop and what a loop promises
  |- LoopProofs          clock lemmas; one loop, from its beginning through each step
  |- OutreachPlanner     loops on their own
       |- MCOutreachPlanner   zones, events and customers for TLC
       |- PlannerProofs       the loop's theorems                  (and LoopProofs)

EventIngestion           the transaction of POST /v1/events, with the planning
                         loop inside it (EXTENDS PlanningLoop)
OutreachSystem           ingestion, and the later life of its tasks
  |- TaskLifecycle       what workers and operators do to a task  (INSTANCE)
  |- EventOnce           abstract: an event takes effect once     (INSTANCE)
  |- MCOutreachSystem    what the instances begin with
  |- IngestionProofs     rows, locks, opt-outs
       |- OverlapProofs       what a cancelling event can miss; snapshots not undone
       |- EventOnceProofs     the refinement of EventOnce
            |- PlanningProofs the cap across events, the loops in their
                              transactions                         (and LoopProofs)
```

The two halves meet in `TaskLifecycle`: `TaskFlow` shows that the workers, the
manual results and the API's cancellation do to a task no more than it says, and
`OutreachSystem` lets them do all it says to the tasks that ingestion creates.

### 2.1 OutreachTasks

The variables are the **committed** columns. The rules by which every other
module translates a transaction:

* A transaction that touches **one row** is one action. At READ COMMITTED an
  `UPDATE ... WHERE id = t AND status = s` waits for the row's lock and then
  re-evaluates its `WHERE` on the newest committed version, so it acts on the
  committed row at one instant: `Matches` (row count 1) or `Misses` (row count
  0). `Matches` needs the row unlocked; `Misses` does not, because waiting for
  the holder leads either to the same miss or to a match later.
* A transaction that touches **several rows** (the two cancellations) takes the
  lock of each row as it updates it and makes all its writes visible at commit,
  with their audit rows; a rollback only releases the locks.
* A `SELECT` reads committed rows at one instant and takes no lock.
* `audit[t]` keeps, for each audit row about task `t`, its event type, the
  status it leads to, and the attempt number where the payload has one. Payload
  wording, actor and correlation id are left out.

`blocked` is in the status enum but no code path assigns it to a task.
`session.get` returning nothing after a row count of 1 (dispatch.py) cannot
happen: nothing in `src/orchestrator` deletes tasks (only the demo script empties
the tables, before it posts its events). The cancellations filter by customer as well
as account; an account never changes its customer, so the account decides.

### 2.2 DispatchWorker

| Action | Code (`workers/dispatch.py`) |
|---|---|
| `Poll` | `dispatch_due_tasks`: take `now`, select due ids, ordered, limited |
| `Claim`, `SkipClaim` | `_claim_task`: conditional update, refresh, `dispatch_started`, commit; or row count 0 |
| `SendAccepted`, `SendRejected`, `SendAnswerLost` | `adapter.send` outside a transaction, and `except Exception` |
| `RecordSuccess`, `RecordFailure`, `DiscardOutcome` | `_record_success`, `_record_failure`; row count 0 rolls back |
| `Crash`, `Restart` | process death; compose has no restart policy, so a restart is never assumed |
| `Tick` | time |

`now` and the query are one step: the code takes them back to back and nothing
reads `now` in between. Ties of `scheduled_at` and `created_at` come in any
order. A pass that selects nothing changes nothing and is not a step.
`delivered` and `unanswered` are history variables: what the provider accepted,
and how much of it the worker was never told. An exception outside the adapter
call ends the process (`_run_loop` catches nothing) and is a `Crash`.

### 2.3 OperationalOutreach and AccountCancellation

`LoadTask` / `RejectTask` are the load and the status check,
`RecordManualResult` / `ConflictResult` the update conditional on the loaded
status, in another step. `SelectTasks`, `UpdateRow`, `SkipRow`, `CommitCancel`
are the statements of a cancelling transaction. An `ApiCancel` transaction
updates conditionally in `created_at, id` order. An `EventCancel` transaction is
the planner's: it assigns `task.status` on the objects it loaded, in whatever
order they came; the flush in `append_audit_event` sends each
`UPDATE ... WHERE id = t`, without the status. `DeadlockVictim` is PostgreSQL's
deadlock detector, `ConnectionLost` a dying API process.

### 2.4 TaskLifecycle

The promise, per task: it is claimed only from scheduled and each claim is one
attempt of at most `MaxAttempts`; from dispatching it goes back to scheduled
only while an attempt is left, or ends sent or failed; an operator may settle
what is not sent or cancelled; only scheduled is cancelled. `TaskFlow` without
planner cancellations implements it (`ImplementsLifecycle`); with them it does
not, which is the first finding.

### 2.5 PolicyEngine, PlanningLoop and OutreachPlanner

`PolicyEngine` is a pure module, one operator per rule of `policy/engine.py`.
Instants and wall clock readings are integers that count minutes: both ends of
the window are whole minutes, so the seconds an instant carries never decide.
Reasons are a set, the three consent flags the set of channels consented to
(so that the three missing-consent reasons are one), and a missing
`defer_until` is the empty set. The time zone database is external: a zone has a
standard offset and one summer period an hour ahead, and `TimezoneAssumption`
says that clocks change between midnight and 05:00 of standard time.
`replace(hour=9)` and `+ timedelta(days=1)` are arithmetic on the wall clock,
as `datetime` does it within one zone; `Instant` turns a reading back into an
instant.

`PlanningLoop` is the loop of `_plan_policy_event`, one step per proposal:
`BlockProposal`, `DeferProposal` and `ScheduleProposal` are its three ways
through, each with the decision row it writes first, and a task that is added
raises the count the next proposal sees. The properties of a loop are stated here,
so that both its users have them. `OutreachPlanner` begins loops on their own:
what one starts from (the event, the customer, the account, the result of
`_recent_attempt_count`) is any member of `Case`. An ingestion's writes show only
when it commits, so loops do not meet. `EventIngestion` begins one in a
transaction, with the session's objects after the snapshot was merged into them
and the count of that moment (`StartLoop`); what becomes of a count that is stale
by the commit is `OutreachSystem`'s matter.

### 2.6 EventIngestion

One transaction for each request, `step[i]` the statement it is at. `customers`,
`accounts`, `inbound_events` and `status` are committed rows; `read_*` the objects
as the session loaded them, `new_*` the versions it has written and not committed,
`holder` the row locks and the keys of uncommitted inserts.

| Actions | Code |
|---|---|
| `MissEvent`, `ReplayEvent` | `_find_existing_event`, `_result_from_existing_event` |
| `LoadCustomer`, `LoadAccounts`, `InsertCustomer`, `UpdateCustomer`, `SameCustomer`, `CustomerCollides` | `_upsert_customer`, the `selectin` load of `Customer.accounts`, the flush |
| `RejectAccount`, `LoadAccount`, `InsertAccount`, `UpdateAccount`, `SameAccount`, `AccountCollides` | `_upsert_account`, the 409, the flush |
| `InsertEvent`, `EventCollides` | the insert under `try`, `IntegrityError`, rollback and replay |
| `CountRecent` (`StartLoop`), `PlanProposal` | `_recent_attempt_count`, the loop of `_plan_policy_event` |
| `SetOptedOut`, `SetPaused`, `SelectTasks` | the other branches of `plan_outreach_for_event`, `_cancel_scheduled_tasks` |
| `Commit` | `_result_from_planner`, `session.commit` |
| `DeadlockVictim`, `ConnectionLost` | PostgreSQL's deadlock detector, a dying API process |

What SQLAlchemy and PostgreSQL make of the code, and the model keeps:

* A session loads an object once. The customer comes with its accounts by a
  second `SELECT`, so the account `_upsert_account` compares may be older than the
  query that seems to load it; only an account that did not come with its customer
  is read again.
* A flush writes **the columns that differ** from what was loaded, over the row
  there is by then (`MergedCustomer`, `MergedStatus`). Columns that no property
  tells apart (name, phone, email, balance, days past due) may have changed or
  not, so a flush that changes none of the others may still lock the row
  (`UpdateCustomer` beside `SameCustomer`).
* An insert of a key that another open transaction is inserting waits, and then
  succeeds or collides. Only the collision of the event is caught.
* `now()`, and with it `created_at`, is the time of the transaction's first
  statement (`began_at`); `occurred_at` is whatever the request says.
* Cancelled tasks show at the commit. The locks of task rows are the matter of
  `AccountCancellation`, whose `EventCancel` is this same cancellation, row by
  row; here no task is claimed between a planner's `SELECT` and its commit without
  being overwritten, as the first finding says.

Validation of the body (422), wording, correlation ids and the audit rows of
ingestion are left out; the answer is its counts and the event it is about.
`seen_customer` and `seen_tasks` are history variables: which transactions had
committed when this one loaded the customer, and when it queried the tasks.

### 2.7 OutreachSystem, EventOnce, QuietHours

`OutreachSystem` adds what becomes of the tasks, as `TaskLifecycle` allows it; the
API's cancellation takes scheduled tasks of one account, at its commit.
`EventOnce` is the promise to the sources: a request about an event that has not
taken effect takes effect as a whole with its answer, any other one repeats the
answer and has no effect. `Once` maps the books to customers, accounts, the tasks
there are and, for each committed event, its decisions and cancellations; a
request that fails, is rejected or aborted is a stutter.

`QuietHours` runs `TaskFlow` with one minute a tick from 19:59 of the customers'
time, with a task that was lawfully planned for that minute.

## 3. Runs

| Run | Instance | Question |
|---|---|---|
| `ops` | 2 tasks, 2 workers (symmetric), 2 attempts, batch 2, clock horizon 1, lost answers, 1 manual result, 1 API cancellation | claims, retries, results, audit, implementation of `TaskLifecycle` |
| `cancel_locks` | 3 tasks of 2 accounts, 2 API cancellations, 1 worker, 1 manual result | lock order and row guards of the API's cancellation |
| `events` | 2 tasks, 2 workers of which one may die, for good or not, 1 planner and 1 API cancellation, fair | what survives the planner's blind write and a crash, the record of every contact made included; a dead worker does not hold up the other's tasks |
| `liveness` | 2 tasks, 1 worker, batch 1, both cancellations, 1 manual result, fair | everything ends, deadlock included |
| `planning` | 1 ingestion, 2 zones, cap 3; both event types; 192 customers and accounts at 3 moments, 2 at each quarter of an hour of a week and the minute before it | the policy, the times it yields, the cap within an event |
| `ingestion` | 3 requests (symmetric) with any of 3 bodies about one account (the same event repeated, a payment, a hardship) or any of 7 snapshots that disagree (2 customers, 2 accounts, opt-outs, pauses); tables empty or with a known account; cap 1, 1 attempt | exactly once, opt-outs, ownership, snapshots, tasks that keep to their event's snapshot, cancellations that overlap |
| `contacts` | 2 requests, about two accounts of one customer, of today or tomorrow, while a day may pass, cap 2; or an opt-out among a payment and a pause; fair | the cap across events, handlers that end |
| `planner_overwrites` | 2 tasks, 1 worker, 1 planner cancellation | finding 1, a violation |
| `retry_after_cancel` | 2 tasks, 1 worker, 1 API cancellation | finding 2, a violation |
| `duplicate_fails` | 2 requests with one first event of a new customer | finding 3, a violation |
| `cap_race` | 2 requests about two accounts of a customer, cap 1 | finding 4, a violation |
| `quiet_hours` | 1 task planned for the window's last minute, 1 worker | finding 5, a violation |

Bounds. Every interference in this code is between two actors about one row, or
between two transactions about two rows, so two workers, two cancellations and
two tasks (three where account and order matter) contain each pair. Two attempts
give a first, a retried and a last one. A horizon of 1 with a retry delay of 1
lets a stale selection meet a moved `scheduled_at`. `Tick` goes beyond `Horizon`
while a scheduled task lies ahead, so the horizon never strands a retry.
`liveness` takes batches of one, so that a task may be left to a later pass.
`planning` needs a week (weekends), both clock changes (the second zone has them
on Tuesday and Thursday), and the minutes on either side of each quarter of an
hour, which contain each end of the window and the moments from which the 15
and 30 minutes of the proposals reach it; counts from 0 to one over the cap.
`ingestion` needs three requests: one that planned, one that overtakes, and one
that is overtaken or repeats; a third attempt or a larger cap adds nothing there,
while `contacts` needs a cap that one event of two channels fills, and a day that
may pass between two of them. Where the clock decides nothing it begins at
`LatestTime`. The theorems of section 4 remove the bounds for all of the safety
properties.

`CHECK_DEADLOCK` stays on in every run: `Quiescent` (in `planning`, `Finished`) is
the only place where the system may stop, and it requires every task to be out of
`scheduled`, every request answered and every cancellation ended; in
`OutreachSystem`, every request to have ended.

Fairness (`FairSpec`). Weak fairness of a live worker's steps: the loop polls
for ever, and an adapter call is taken to end, accepted or raised (the mocks
always return; the code sets no timeout, so this is what it asks of a real
adapter). Of an operation that has begun: FastAPI runs a handler to its end,
PostgreSQL grants a free lock and breaks a deadlock; in `OutreachSystem` that is
weak fairness of each begun request's statements, `DeadlockVictim` among them.
Of time. Nothing is assumed of requests being sent, of a crash, of a
restart, or of a lost connection.

### 3.1 Findings

1. `planner_overwrites`: the docstring of `_cancel_scheduled_tasks`
   (planner.py:367-368) says dispatching, sent and failed tasks "are not
   rewritten". The flush emits `UPDATE ... WHERE id`, so a task that a worker
   claimed, or sent, after the `SELECT` becomes cancelled. The API's own
   cancellation re-checks the status and does not have this behaviour.
2. `retry_after_cancel`: phase-7-operational-apis.md:71 calls the tasks a
   cancellation leaves alone "historical or inactive records". A dispatching
   one whose send fails goes back to scheduled and is sent again later.
3. `duplicate_fails`: "duplicate calls return the existing persisted result"
   (event_ingestion.py:100-101). When the event is its customer's or account's
   first, the request that loses the race fails at the flush of the customer (or
   account), outside the `try`, with a 500. compliance-assumptions.md:135 says that
   the demo focuses on sequential retries; the code does handle the collision of
   the event, which comes later.
4. `cap_race`: "The demo enforces a rolling contact-frequency cap"
   (compliance-assumptions.md:72). Two events about one account that change its row
   are serialised by the row's lock; two events about two accounts of a customer
   need have no row in common, and each counts before the other has committed.
5. `quiet_hours`: "Call and SMS should not be sent outside the allowed local-time
   window" (compliance-assumptions.md:62). The window is looked at when a task is
   planned. A worker sends what is due when it gets to it, and a retry is put off
   by a fixed delay, so a task of the last minutes is sent after 20:00.

### 3.2 Conditions the properties need

Some properties carry a condition that is part of what they say about the code.

* `CapKeptInOrder` speaks of events not dated ahead of the database's clock and of
  contacts that had committed when the event counted. The window is counted back
  from `occurred_at` while `created_at` is the database's time, so an event dated
  more than a day ahead counts none of today's contacts; nothing bounds
  `occurred_at`. Overlap is finding 4.
* `SnapshotsNotUndone` speaks of single columns. Two transactions that overlap each
  write the columns that differ from what they loaded, and the row may end with some
  columns of each snapshot. What a column says is then said by the last snapshot or
  by one it had not seen when it loaded the row, never by one it had seen. Order is
  that of arrival, not of occurrence (event_ingestion.py:192-249).
* `CancelledOrOverlapped` speaks of one account. An opt-out is the customer's, but
  it cancels the tasks of the event's account only (planner.py:374-376); scheduled
  tasks of the customer's other accounts stay, and the worker does not look at the
  opt-out. compliance-assumptions.md:47 says "the affected customer/account", which
  may be read either way.
* `OptedOutNotPlanned` speaks of an opt-out that had committed when the customer was
  loaded; one that commits later in the same transaction's time is not seen.

## 4. Theorems

For any number of tasks, accounts, workers, requests and transactions, from the
named assumptions on the constants only (finite non-empty `Task`, positive
`MaxAttempts` and `BatchLimit`, `ApiCancel` and `EventCancel` partition `Txn`).

*TaskFlowProofs.* `TypeCorrect`. `DispatchInvariant`: none of "one sender", "attempts
bounded" and "one contact" is inductive, because each depends on what a worker
remembers. `DispatchInv` adds what they need: a task in flight is not scheduled
(so nobody else can claim it) and its `attempt_count` is the one its worker
refreshed (so the retry decision on the copy equals one on the row); a scheduled
task has an attempt left and no confirmed contact; a confirmed contact is either
recorded or in the hands of the one worker that is about to record it. The last
point is where the planner's blind write is harmless: it moves a task out of
scheduled only to cancelled. `AttemptBound`, `SingleSenderHolds` and
`AtMostOneContactHolds` follow. Crashes, restarts, lost answers and both
cancellations are included.

*HistoryProofs.* `RowsGuardedHolds` gives the invariant of locks and
loaded statuses: a row an API cancellation holds is still scheduled, because
every other writer needs the lock. `AuditExplains` and `CancelledFinal` hold of
the whole system, and so does `ClaimedWhenDue`, because a pass's `now` never lies
ahead of the clock. `HistoryKept`, `ManualStands` and `LifecycleImplemented` are
proved under `EventCancel = {}`: finding 1 shows they are false without it. They
share one lemma that says, action by action, what a step may do to a task.
`NoLockCycleHolds` has the same condition: API cancellations take their locks
oldest first, so whatever one holds is older than the row it waits for. Of a
circle, take the cancellation whose row is youngest (the fewest younger rows): the
one it waits for would wait for a younger row still.

The trail itself: `AttemptsNumbered` says that the `dispatch_started` rows number a
task's attempts without a gap or a repetition, for a claim appends the next number
in the transaction that counts it and every other writer appends another kind of
row. `ContactsAuditedHolds` needs more than itself (`CountedFirst`): the provider
never has more messages than attempts were counted, and while a call is open there
is room for one more. That is where `SingleSender` is used: two open calls for one
task would have room for one message between them. `AttemptsNumbered` turns the
count of attempts into the count of rows.

*LoopProofs.* About `PlanningLoop`, for any zones that satisfy `TimezoneAssumption`,
any events, customers, accounts and cap, with no word on what else goes on. The
lemmas on the clock come first: a reading splits into a day and a minute
(`DayAndMinute`), a reading of the day is an hour or more ahead of an earlier one of
the night (`HourApart`), so each reading between 06:00 and midnight is shown at some
instant (`InstantReads`) and the clock runs forward between two instants of which
one is by day (`ClockRunsByDay`); the opening is the first reading of the window
after one outside it (`OpeningAfter`). Then one loop: `LoopCorrect(i)` says that the
proposals left are among those the event asks for, that the running count is the one
loaded plus the tasks added, that each task and each decision is sound, and that the
tasks are those the decision rows explain. `LoopBegins` and `LoopContinues` are its
two halves of an invariant, `CorrectLoopPromises` what follows from it.

*PlannerProofs.* The loops on their own: `PlannerTypeCorrect`, `CapKeptHolds`,
`TasksAreLawfulHolds`, `DecisionsExplainTasksHolds`, `NoLaterThanNeededHolds` and
`CallsKeepBusinessHoursHolds`, from `LoopCorrect` of every loop.

*IngestionProofs.* For any number of requests, events, customers and accounts,
from `IngestionAssumption` (finitely many requests) and `AttemptsAssumption`.
`RowsInv` and `IngestionInv` have one part for each transaction: what it has read
is still so of the row, or the row has moved on in the ways rows do; what it has
written and not committed it holds. The proof has two halves: what a statement
does to its own transaction's part, and what it keeps of the others' (`OthersKept`,
`LocksKept`, `RowsEvolve`). The second half is where the row locks, the unique keys
and the columns an `UPDATE` leaves alone do their work: an opt-out survives a stale
writer because that writer loaded "not opted out", changed nothing about it, and
so does not write the column. `TablesTypeCorrect`, `LineageKeptHolds`,
`OptOutIsDurableHolds` and `OptedOutNotPlannedHolds` follow.

*EventOnceProofs.* `EventsTakeEffectOnceHolds`, the refinement of `EventOnce`. Its
invariant says which rows there are and who made them: a committed event has one
transaction, that transaction's tasks are all there, and each answer is the count
of what was committed. A commit maps to the event's effect, a replay to a repeated
answer, everything else to a stutter.

*OverlapProofs.* `CancelledOrOverlappedHolds`: a task once settled (attempted,
answered or cancelled) never again waits for a first attempt, and what a cancelling
transaction saw scheduled it takes with it at its commit. `SnapshotsNotUndoneHolds`:
`SnapshotInv` follows a column from the load to the commit. Until it is written it is
still what was loaded or a later snapshot's; what is written is the request's own, or
left alone because the loaded row already agreed with the request; and what others
commit meanwhile is theirs, who are the later ones. A pause changes the status a
second time, so the status asked for is one thing before that step and another after.

*PlanningProofs.* `CapKeptInOrderHolds`: the contacts an event counted can only become
fewer, for statuses outside the counted ones are final, and those it adds
are counted one by one. `PlanInvariant`: each transaction either has no loop yet or
has one that is correct and decides on what its request says, and that stays so
whatever the other transactions, workers and operators do, because a bystander
keeps its loop untouched (`LoopOfBystander`) and a rollback ends its loop where it
stands. What the session's merged objects say is what the request says, although
the row was loaded before others committed: the opt-out alone may differ. From it follow
`SystemTypeCorrect` (with the answers: each replay is a result again),
`TasksKeepToSnapshotHolds` (with the part of `OnceInv` that says where the tasks of
a transaction come from), and `LoopsKeepTheirPromises`: what `PlannerProofs` shows
of loops on their own holds of all loops of the system.

Every invariant and every action property that a passing run checks is the subject of
a theorem; the five properties of `planning` are proved twice, of the loops on their
own and of the system. Only model-checked: `EventuallySettled`, `ScheduledIsDrained`,
`CancellationsEnd` and `RequestsEnd` (liveness under fairness is beyond the
prover).

## 5. Not modelled

* The query and audit endpoints read and change nothing. The correlation id
  travels into audit rows and no behaviour depends on it. Settings, app assembly
  and the health endpoint keep no state. The mock adapters never fail; the
  model's provider may, as `channels/base.py` allows.
* The migrations and the demo script are run by hand on a system that is not
  serving. No step of theirs meets a step of another actor, so a model would have
  nothing to interleave. What a reader should know of them: one migration adds a
  column that may not be null and has no default, so it needs an empty table, and
  the demo script's reset deletes rows that the rest of the program never deletes.
* Inside `OutreachSystem`, a planner's cancellation does not take the locks of the
  tasks one by one, nor does a worker race it there: that is `TaskFlow`'s
  `EventCancel`, where it is checked row by row.
* Wording of audit payloads and messages, validation of request bodies, and the
  columns that no property tells apart (section 2.6).
