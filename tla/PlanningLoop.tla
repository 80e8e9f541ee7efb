---------------------------- MODULE PlanningLoop ----------------------------
(***************************************************************************)
(* The planning loop: what the planner does, inside the transaction of the *)
(* ingestion that called it, for an event that may produce outreach        *)
(* (orchestration/planner.py, _plan_policy_event).  What it writes shows   *)
(* to nobody until the ingestion commits.  The module has the steps of the *)
(* loop and what each loop promises; OutreachPlanner starts loops on their *)
(* own, EventIngestion inside the transactions they are part of.           *)
(*                                                                         *)
(* Instant 0 is a Monday, 00:00 UTC.                                       *)
(***************************************************************************)
EXTENDS PolicyEngine, Sequences, FiniteSets

CONSTANTS
  Ingestion,      \* transactions that plan outreach
  FrequencyCap    \* frequency_cap

ASSUME CapAssumption == FrequencyCap \in Nat

VARIABLES
  loaded,         \* what the loop of each ingestion was begun with
  proposals,      \* the proposals its loop has not reached
  recent_count,   \* recent_count
  decisions,      \* the policy_decisions rows it has added, oldest first
  new_tasks       \* the outreach_tasks rows it has added, oldest first

planningVars == <<loaded, proposals, recent_count, decisions, new_tasks>>

\* The events that may produce outreach.
PolicyEvent == {"account_delinquent", "payment_failed"}

\* The event, its occurred_at, the customer's and the account's columns as
\* the session has them, and the number of recent attempts the query counted.
Loaded == [event_type : PolicyEvent, now : Int, timezone : Timezone,
           consent : SUBSET Channel, opted_out : BOOLEAN,
           account_status : AccountStatus, recent_attempts : Nat]

Proposal == [channel : Channel, scheduled_at : Int]

Decision == [channel : Channel, decision : {"allow", "block", "defer"},
             reasons : SUBSET {"customer_opted_out", "missing_consent", "account_paused",
                               "account_resolved", "quiet_hours",
                               "frequency_cap_exceeded", "policy_allowed"}]

-----------------------------------------------------------------------------
DayNumber(local) == local \div Day
Weekend(day) == day % 7 >= 5

SkipNothing(day) == day + 1   \* flawed

\* The loop stops at the first later day that is not of a weekend.
NextBusinessDay(day) ==
  CHOOSE d \in day + 1 .. day + 3 : ~Weekend(d) /\ \A e \in day + 1 .. d - 1 : Weekend(e)

NextBusinessDayAt10(now, z) ==
  Instant(z, Day * NextBusinessDay(DayNumber(LocalTime(z, now))) + AtHour(10))

ProposalsForEvent(event_type, now, z) ==
  CASE event_type = "account_delinquent" ->
         << [channel |-> "email", scheduled_at |-> now],
            [channel |-> "sms", scheduled_at |-> now + 30],
            [channel |-> "call", scheduled_at |-> NextBusinessDayAt10(now, z)] >>
    [] event_type = "payment_failed" ->
         << [channel |-> "email", scheduled_at |-> now],
            [channel |-> "sms", scheduled_at |-> now + 15] >>

-----------------------------------------------------------------------------
PolicyInputFor(i) ==
  LET p == Head(proposals[i]) IN
  [channel |-> p.channel, scheduled_at |-> p.scheduled_at,
   customer_timezone |-> loaded[i].timezone, consent |-> loaded[i].consent,
   opted_out |-> loaded[i].opted_out, account_status |-> loaded[i].account_status,
   recent_outbound_attempt_count |-> recent_count[i], frequency_cap |-> FrequencyCap]

PolicyResult(i) == evaluate_policy(PolicyInputFor(i))

\* Flawed: the decision is stored where its reasons belong.
MisfileReasons(i) ==
  /\ proposals[i] # <<>>
  /\ decisions' = [decisions EXCEPT ![i] =
       Append(@, [channel |-> Head(proposals[i]).channel,
                  decision |-> PolicyResult(i).decision,
                  reasons |-> {PolicyResult(i).decision}])]
  /\ proposals' = [proposals EXCEPT ![i] = Tail(@)]
  /\ UNCHANGED loaded

\* The decision row, whatever the decision; then the next proposal.
RecordDecision(i) ==
  /\ proposals[i] # <<>>
  /\ decisions' = [decisions EXCEPT ![i] =
       Append(@, [channel |-> Head(proposals[i]).channel,
                  decision |-> PolicyResult(i).decision,
                  reasons |-> PolicyResult(i).reasons])]
  /\ proposals' = [proposals EXCEPT ![i] = Tail(@)]
  /\ UNCHANGED loaded

DropUntimed(result) == result.defer_until = {}   \* flawed

\* A deferral that makes no task, even if it has a time to defer to.
NotSchedulable(result) == \/ "frequency_cap_exceeded" \in result.reasons
                          \/ result.defer_until = {}

BlockProposal(i) ==
  /\ RecordDecision(i)
  /\ PolicyResult(i).decision = "block"
  /\ UNCHANGED <<recent_count, new_tasks>>

DeferProposal(i) ==
  /\ RecordDecision(i)
  /\ PolicyResult(i).decision = "defer" /\ NotSchedulable(PolicyResult(i))
  /\ UNCHANGED <<recent_count, new_tasks>>

TaskTime(i) == IF PolicyResult(i).decision = "defer"
               THEN CHOOSE u \in PolicyResult(i).defer_until : TRUE
               ELSE Head(proposals[i]).scheduled_at

\* Flawed: the count is the one of before the loop.
ScheduleUncounted(i) ==
  /\ RecordDecision(i)
  /\ \/ PolicyResult(i).decision = "allow"
     \/ PolicyResult(i).decision = "defer" /\ ~NotSchedulable(PolicyResult(i))
  /\ new_tasks' = [new_tasks EXCEPT ![i] =
       Append(@, [channel |-> Head(proposals[i]).channel, scheduled_at |-> TaskTime(i)])]
  /\ UNCHANGED recent_count

ScheduleProposal(i) ==
  /\ RecordDecision(i)
  /\ \/ PolicyResult(i).decision = "allow"
     \/ PolicyResult(i).decision = "defer" /\ ~NotSchedulable(PolicyResult(i))
  /\ new_tasks' = [new_tasks EXCEPT ![i] =
       Append(@, [channel |-> Head(proposals[i]).channel, scheduled_at |-> TaskTime(i)])]
  /\ recent_count' = [recent_count EXCEPT ![i] = @ + 1]

-----------------------------------------------------------------------------
\* The contacts of a customer, those counted before the loop and those the
\* loop adds, stay within the cap; what was over it before stays as it was:
\* no event schedules past the cap (planner.py:214-236, 316-317).
CapKept ==
  \A i \in Ingestion : new_tasks[i] # <<>> =>
    loaded[i].recent_attempts + Len(new_tasks[i]) <= FrequencyCap

\* Whether a customer may be contacted through the channel at that time:
\* calls and messages from 09:00 until before 20:00 of the customer's clock.
ContactHours(z, channel, instant) ==
  LET time == TimeOfDay(LocalTime(z, instant))
  IN  channel = "email" \/ (AtHour(9) <= time /\ time < AtHour(20))

\* Every new task is for a channel consented to, of a customer who has not
\* opted out, about an account that is neither paused nor resolved, at a time
\* the window admits in the customer's zone and not before the event: deferral
\* leads into the window (planner.py:281-295, engine.py:131-163).
TasksAreLawful ==
  \A i \in Ingestion : \A k \in 1..Len(new_tasks[i]) :
    LET task == new_tasks[i][k] IN
    /\ task.channel \in loaded[i].consent
    /\ ~loaded[i].opted_out
    /\ loaded[i].account_status \in {"current", "delinquent"}
    /\ ContactHours(loaded[i].timezone, task.channel, task.scheduled_at)
    /\ task.scheduled_at >= loaded[i].now

\* Those of the first n decisions of a loop that make a task.
SchedulingRows(i, n) ==
  {m \in 1..n : decisions[i][m].decision = "allow" \/ decisions[i][m].reasons = {"quiet_hours"}}

\* The tasks are those of the decisions that allow, or defer for quiet hours
\* alone, channel by channel: the rows a duplicate's answer is counted from
\* tell what the first answer told (planner.py:289-293, event_ingestion.py:260-296).
DecisionsExplainTasks ==
  \A i \in Ingestion :
    LET rows == SchedulingRows(i, Len(decisions[i])) IN
    /\ Cardinality(rows) = Len(new_tasks[i])
    /\ \A n \in rows : decisions[i][n].channel =
                         new_tasks[i][Cardinality(SchedulingRows(i, n))].channel

\* 10:00 on the first later day that is not of a weekend, for the customer.
NextBusinessMorning(i, instant) ==
  LET local == LocalTime(loaded[i].timezone, instant)
      today == DayNumber(LocalTime(loaded[i].timezone, loaded[i].now))
  IN  /\ TimeOfDay(local) = AtHour(10)
      /\ ~Weekend(DayNumber(local))
      /\ DayNumber(local) > today
      /\ \A d \in today + 1 .. DayNumber(local) - 1 : Weekend(d)

\* A call is placed at 10:00 of the customer's first later day that is not of
\* a weekend, so that its proposal never meets quiet hours, the days the
\* clocks change included (planner.py:449-464).
CallsKeepBusinessHours ==
  \A i \in Ingestion :
    /\ \A k \in 1..Len(decisions[i]) :
         decisions[i][k].channel = "call" => "quiet_hours" \notin decisions[i][k].reasons
    /\ \A k \in 1..Len(new_tasks[i]) : new_tasks[i][k].channel = "call" =>
         NextBusinessMorning(i, new_tasks[i][k].scheduled_at)

\* What the loop of an ingestion was to decide on.
Asked(i) ==
  LET all == ProposalsForEvent(loaded[i].event_type, loaded[i].now, loaded[i].timezone)
  IN  {all[n] : n \in 1..Len(all)}

\* A task waits no longer than it must: between the time that was proposed and
\* the task's, no minute was inside the window (engine.py:148-163).
NoLaterThanNeeded ==
  \A i \in Ingestion : \A k \in 1..Len(new_tasks[i]) :
    LET task == new_tasks[i][k] IN
    \E p \in Asked(i) :
      /\ p.channel = task.channel
      /\ \A u \in p.scheduled_at .. task.scheduled_at - 1 :
           ~ContactHours(loaded[i].timezone, task.channel, u)
=============================================================================
