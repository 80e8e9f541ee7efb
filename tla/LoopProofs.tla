----------------------------- MODULE LoopProofs -----------------------------
(***************************************************************************)
(* What a planning loop promises, for any customer, zone, moment, count    *)
(* and cap, wherever it runs: the clocks, the policy, the proposals, and   *)
(* one loop from its beginning through each of its steps.                  *)
(***************************************************************************)
EXTENDS PlanningLoop, FiniteSetTheorems, SequenceTheorems, TLAPS

(***************************************************************************)
(* Clocks.                                                                 *)
(***************************************************************************)

\* Days and minutes of the day.
LEMMA DayAndMinute ==
  ASSUME NEW n \in Int
  PROVE  /\ n = 1440 * (n \div 1440) + (n % 1440)
         /\ n \div 1440 \in Int
         /\ n % 1440 \in 0..1439
OBVIOUS

\* Of two readings in the order of the clock, one in the day and one in the
\* night before five, an hour lies between.
LEMMA HourApart ==
  ASSUME NEW n \in Int, NEW m \in Int, m <= n, n % 1440 >= 360, m % 1440 < 300
  PROVE  n - m >= 60
<1> DEFINE p == n \div 1440
           q == m \div 1440
           r == n % 1440
           s == m % 1440
<1>1. n = 1440 * p + r /\ p \in Int /\ r \in 0..1439
  BY DayAndMinute
<1>2. m = 1440 * q + s /\ q \in Int /\ s \in 0..1439
  BY DayAndMinute
<1>3. r >= 360 /\ s < 300
  OBVIOUS
<1> HIDE DEF p, q, r, s
<1>4. p >= q
  BY <1>1, <1>2
<1> QED
  BY <1>1, <1>2, <1>3, <1>4

\* A reading of the wall clock between 06:00 and midnight has its instant: the
\* conversions of zoneinfo are each other's inverse there.
LEMMA InstantReads ==
  ASSUME NEW z \in Timezone, NEW local \in Int, TimeOfDay(local) >= 360
  PROVE  Instant(z, local) \in Int /\ LocalTime(z, Instant(z, local)) = local
<1> DEFINE late == local - z.standard
           from == z.summer_from
           until == z.summer_until
<1>1. z.standard \in Int /\ from \in Int /\ until \in Int
  BY TimezoneAssumption
<1>2. from < until => (from + z.standard) % 1440 < 300 /\ (until + z.standard) % 1440 < 300
  BY TimezoneAssumption DEF Day, AtHour
<1>3. \E u \in {late - 60, late} : LocalTime(z, u) = local
  <2>1. CASE from <= late /\ late < until
    <3>1. late - 60 >= from
      <4>1. local % 1440 >= 360
        BY DEF TimeOfDay, Day
      <4>2. (from + z.standard) % 1440 < 300
        BY <1>1, <1>2, <2>1
      <4>3. local - (from + z.standard) >= 60
        <5> HIDE DEF from
        <5>1. from + z.standard \in Int /\ from + z.standard <= local
          BY <1>1, <2>1
        <5> QED
          BY <4>1, <4>2, <5>1, HourApart
      <4> QED
        BY <1>1, <4>3
    <3>2. LocalTime(z, late - 60) = local
      BY <1>1, <2>1, <3>1 DEF LocalTime, utcoffset
    <3> QED
      BY <3>2
  <2>2. CASE ~(from <= late /\ late < until)
    BY <1>1, <2>2 DEF LocalTime, utcoffset
  <2> QED
    BY <2>1, <2>2
<1>4. /\ Instant(z, local) \in {late - 60, late}
      /\ LocalTime(z, Instant(z, local)) = local
  <2>1. {late - 60, late} = {local - z.standard - 60, local - z.standard}
    BY <1>1
  <2> QED
    BY <1>3, <2>1 DEF Instant
<1> QED
  BY <1>1, <1>4

\* The wall clock never goes back to, or from, a reading past 06:00.
LEMMA ClockRunsByDay ==
  ASSUME NEW z \in Timezone, NEW a \in Int, NEW b \in Int, a < b,
         TimeOfDay(LocalTime(z, a)) >= 360 \/ TimeOfDay(LocalTime(z, b)) >= 360
  PROVE  LocalTime(z, a) < LocalTime(z, b)
<1> DEFINE from == z.summer_from
           until == z.summer_until
           back == until + z.standard
<1>1. z.standard \in Int /\ from \in Int /\ until \in Int
  BY TimezoneAssumption
<1>2. from < until => back % 1440 < 300
  BY TimezoneAssumption DEF Day, AtHour
<1> SUFFICES ASSUME LocalTime(z, a) >= LocalTime(z, b) PROVE FALSE
  BY <1>1 DEF LocalTime, utcoffset
<1>3. /\ from <= a /\ a < until /\ until <= b /\ b - a <= 60
      /\ LocalTime(z, a) = a + z.standard + 60 /\ LocalTime(z, b) = b + z.standard
  BY <1>1 DEF LocalTime, utcoffset
<1>4. /\ back \in Int /\ back % 1440 < 300
      /\ LocalTime(z, a) \in Int /\ LocalTime(z, b) \in Int
      /\ back <= LocalTime(z, a) /\ LocalTime(z, a) - back < 60
      /\ back <= LocalTime(z, b) /\ LocalTime(z, b) - back < 60
  BY <1>1, <1>2, <1>3
<1> HIDE DEF back
<1> QED
  BY <1>4, HourApart DEF TimeOfDay, Day

\* The reading the policy defers to: nine o'clock, later than the reading it
\* was asked about, with nothing of the window in between.
LEMMA OpeningAfter ==
  ASSUME NEW local \in Int, ~InWindow(local)
  PROVE  /\ NextOpening(local) \in Int
         /\ TimeOfDay(NextOpening(local)) = 540
         /\ local < NextOpening(local)
         /\ \A v \in Int : local <= v /\ v < NextOpening(local) => ~InWindow(v)
<1> DEFINE q == local \div 1440
           r == local % 1440
<1>1. local = 1440 * q + r /\ q \in Int /\ r \in 0..1439
  BY DayAndMinute
<1>2. r < 540 \/ r >= 1200
  BY DEF InWindow, TimeOfDay, Day, OUTREACH_WINDOW_START, OUTREACH_WINDOW_END, AtHour
<1>3. NextOpening(local) = (local - r) + 540 + (IF r < 540 THEN 0 ELSE 1440)
  BY DEF NextOpening, Midnight, TimeOfDay, Day, OUTREACH_WINDOW_START, AtHour
<1> HIDE DEF q, r
<1>4. /\ NextOpening(local) = 1440 * q + 540 + (IF r < 540 THEN 0 ELSE 1440)
      /\ NextOpening(local) \in Int
  BY <1>1, <1>3
<1>5. NextOpening(local) % 1440 = 540
  BY <1>1, <1>4
<1>6. local < NextOpening(local)
  BY <1>1, <1>2, <1>4
<1>7. ASSUME NEW v \in Int, local <= v, v < NextOpening(local)
      PROVE  ~InWindow(v)
  <2> DEFINE p == v \div 1440
             m == v % 1440
  <2>1. v = 1440 * p + m /\ p \in Int /\ m \in 0..1439
    BY DayAndMinute
  <2> HIDE DEF p, m
  <2>2. m < 540 \/ m >= 1200
    <3>1. CASE r < 540
      <4>1. p = q
        BY <1>1, <1>4, <1>7, <2>1, <3>1
      <4> QED
        BY <1>4, <1>7, <2>1, <3>1, <4>1, <1>1
    <3>2. CASE r >= 1200
      <4>1. p = q \/ p = q + 1
        BY <1>1, <1>4, <1>7, <2>1, <3>2
      <4> QED
        BY <1>4, <1>7, <2>1, <3>2, <4>1, <1>1
    <3> QED
      BY <1>2, <3>1, <3>2
  <2> QED
    BY <2>1, <2>2 DEF m, InWindow, TimeOfDay, Day, OUTREACH_WINDOW_START,
                      OUTREACH_WINDOW_END, AtHour
<1> QED
  BY <1>4, <1>5, <1>6, <1>7 DEF TimeOfDay, Day

\* A quiet-hours deferral is to the first instant, from the one asked about,
\* at which the window is open, also on the days the clocks change.
LEMMA DeferredToOpening ==
  ASSUME NEW in \in PolicyInput, QuietHoursDeferUntil(in) # {}
  PROVE  \E u \in Int :
           /\ QuietHoursDeferUntil(in) = {u}
           /\ u >= in.scheduled_at
           /\ InWindow(LocalTime(in.customer_timezone, u))
           /\ \A v \in in.scheduled_at .. u - 1 :
                ~InWindow(LocalTime(in.customer_timezone, v))
<1> DEFINE z == in.customer_timezone
           at == in.scheduled_at
           local == LocalTime(z, at)
           target == NextOpening(local)
           u == Instant(z, target)
<1>1. z \in Timezone /\ at \in Int
  BY DEF PolicyInput
<1> HIDE DEF z, at
<1>2. \A v \in Int : LocalTime(z, v) \in Int
  BY <1>1, TimezoneAssumption DEF LocalTime, utcoffset
<1>3. ~InWindow(local) /\ QuietHoursDeferUntil(in) = {u}
  BY DEF QuietHoursDeferUntil, z, at
<1>4. local \in Int
  BY <1>1, <1>2
<1> HIDE DEF local
<1>5. /\ target \in Int /\ TimeOfDay(target) = 540 /\ local < target
      /\ \A v \in Int : local <= v /\ v < target => ~InWindow(v)
  BY <1>3, <1>4, OpeningAfter
<1> HIDE DEF target
<1>6. u \in Int /\ LocalTime(z, u) = target
  BY <1>1, <1>5, InstantReads
<1> HIDE DEF u
<1>7. u >= at
  <2> SUFFICES ASSUME u < at PROVE FALSE
    BY <1>1, <1>6
  <2>1. LocalTime(z, u) < local
    BY <1>1, <1>5, <1>6, ClockRunsByDay DEF local
  <2> QED
    BY <1>4, <1>5, <1>6, <2>1
<1>8. InWindow(target)
  BY <1>5 DEF InWindow, OUTREACH_WINDOW_START, OUTREACH_WINDOW_END, AtHour
<1>9. ASSUME NEW v \in at .. u - 1, InWindow(LocalTime(z, v))
      PROVE  FALSE
  <2>1. v \in Int /\ at <= v /\ v < u
    BY <1>1, <1>6
  <2>2. TimeOfDay(LocalTime(z, v)) >= 360
    BY <1>2, <1>9, <2>1 DEF InWindow, OUTREACH_WINDOW_START, AtHour, TimeOfDay, Day
  <2>3. LocalTime(z, v) < target
    BY <1>1, <1>6, <2>1, <2>2, ClockRunsByDay
  <2>4. local <= LocalTime(z, v)
    <3>1. CASE v = at
      BY <3>1, <1>4 DEF local
    <3>2. CASE at < v
      BY <1>1, <1>2, <1>4, <2>1, <2>2, <3>2, ClockRunsByDay DEF local
    <3> QED
      BY <1>1, <2>1, <3>1, <3>2
  <2> QED
    BY <1>2, <1>5, <1>9, <2>1, <2>3, <2>4
<1>10. \A v \in at .. u - 1 : ~InWindow(LocalTime(z, v))
  BY <1>9
<1> QED
  BY <1>3, <1>6, <1>7, <1>8, <1>10 DEF z, at

-----------------------------------------------------------------------------
(***************************************************************************)
(* The policy's decision.                                                  *)
(***************************************************************************)

\* A result that makes a task.
Schedules(r) == r.decision = "allow" \/ (r.decision = "defer" /\ ~NotSchedulable(r))

\* What each decision says of the facts it was made on.
LEMMA DecisionMeans ==
  ASSUME NEW in \in PolicyInput, NEW r, r = evaluate_policy(in)
  PROVE  /\ r.decision \in {"allow", "block", "defer"}
         /\ r.reasons \subseteq {"customer_opted_out", "missing_consent", "account_paused",
                                "account_resolved", "quiet_hours",
                                "frequency_cap_exceeded", "policy_allowed"}
         /\ "quiet_hours" \in r.reasons => QuietHoursDeferUntil(in) # {}
         /\ r.decision # "block" => /\ ~in.opted_out /\ in.channel \in in.consent
                                    /\ in.account_status \in {"current", "delinquent"}
         /\ r.decision = "allow" => QuietHoursDeferUntil(in) = {} /\ ~CapReached(in)
         /\ r.decision = "defer" /\ ~NotSchedulable(r) =>
              /\ r.defer_until = QuietHoursDeferUntil(in)
              /\ QuietHoursDeferUntil(in) # {} /\ ~CapReached(in)
         /\ Schedules(r) <=> r.decision = "allow" \/ r.reasons = {"quiet_hours"}
<1> DEFINE hard == BlockReasons(in)
           soft == DeferReasons(in)
<1>1. hard \subseteq {"customer_opted_out", "missing_consent", "account_paused", "account_resolved"}
  BY DEF BlockReasons, OptOutBlockReasons, ChannelConsentBlockReasons, AccountStatusBlockReasons
<1>2. hard = {} => /\ ~in.opted_out /\ in.channel \in in.consent
                   /\ in.account_status \in {"current", "delinquent"}
  <2> SUFFICES ASSUME hard = {}
               PROVE  /\ ~in.opted_out /\ in.channel \in in.consent
                      /\ in.account_status \in {"current", "delinquent"}
    OBVIOUS
  <2>1. /\ OptOutBlockReasons(in) = {} /\ ChannelConsentBlockReasons(in) = {}
        /\ AccountStatusBlockReasons(in) = {}
    BY DEF BlockReasons
  <2>2. ~in.opted_out
    BY <2>1 DEF OptOutBlockReasons
  <2>3. in.channel \in in.consent
    BY <2>1 DEF ChannelConsentBlockReasons
  <2>4. in.account_status \in AccountStatus
    BY DEF PolicyInput
  <2>5. in.account_status # "paused" /\ in.account_status # "resolved"
    BY <2>1, <2>4 DEF AccountStatusBlockReasons, AccountStatus
  <2> QED
    BY <2>2, <2>3, <2>4, <2>5 DEF AccountStatus
<1>3. /\ soft \subseteq {"quiet_hours", "frequency_cap_exceeded"}
      /\ "quiet_hours" \in soft <=> QuietHoursDeferUntil(in) # {}
      /\ "frequency_cap_exceeded" \in soft <=> CapReached(in)
  BY DEF DeferReasons
<1> HIDE DEF hard, soft
<1>4. r = IF hard # {} THEN [decision |-> "block", reasons |-> hard, defer_until |-> {}]
          ELSE IF soft # {} THEN [decision |-> "defer", reasons |-> soft,
                                  defer_until |-> QuietHoursDeferUntil(in)]
          ELSE [decision |-> "allow", reasons |-> {"policy_allowed"}, defer_until |-> {}]
  BY DEF evaluate_policy, hard, soft
<1>5. CASE hard # {}
  BY <1>1, <1>4, <1>5 DEF Schedules
<1>6. CASE hard = {} /\ soft # {}
  BY <1>2, <1>3, <1>4, <1>6 DEF NotSchedulable, Schedules
<1>7. CASE hard = {} /\ soft = {}
  BY <1>2, <1>3, <1>4, <1>7 DEF Schedules
<1> QED
  BY <1>5, <1>6, <1>7

(***************************************************************************)
(* The proposals.                                                          *)
(***************************************************************************)

\* The day the planner's search for a business day ends at.
LEMMA BusinessDayFound ==
  ASSUME NEW day \in Int
  PROVE  /\ NextBusinessDay(day) \in day + 1 .. day + 3
         /\ ~Weekend(NextBusinessDay(day))
         /\ \A e \in day + 1 .. NextBusinessDay(day) - 1 : Weekend(e)
<1> DEFINE q == day \div 7
           r == day % 7
           Found(d) == ~Weekend(d) /\ \A e \in day + 1 .. d - 1 : Weekend(e)
<1>1. day = 7 * q + r /\ q \in Int /\ r \in 0..6
  OBVIOUS
<1> HIDE DEF q, r
<1>2. \E d \in day + 1 .. day + 3 : Found(d)
  <2>1. CASE r <= 3
    <3>1. (day + 1) % 7 = r + 1
      BY <1>1, <2>1
    <3>2. Found(day + 1)
      BY <1>1, <2>1, <3>1 DEF Weekend
    <3> QED
      BY <3>2
  <2>2. CASE r = 4
    <3>1. (day + 1) % 7 = 5 /\ (day + 2) % 7 = 6 /\ (day + 3) % 7 = 0
      BY <1>1, <2>2
    <3>2. \A e \in day + 1 .. day + 2 : e = day + 1 \/ e = day + 2
      OBVIOUS
    <3>3. Found(day + 3)
      BY <3>1, <3>2 DEF Weekend
    <3> QED
      BY <3>3
  <2>3. CASE r = 5
    <3>1. (day + 1) % 7 = 6 /\ (day + 2) % 7 = 0
      BY <1>1, <2>3
    <3>2. \A e \in day + 1 .. day + 1 : e = day + 1
      OBVIOUS
    <3>3. Found(day + 2)
      BY <3>1, <3>2 DEF Weekend
    <3> QED
      BY <3>3
  <2>4. CASE r = 6
    <3>1. (day + 1) % 7 = 0
      BY <1>1, <2>4
    <3>2. Found(day + 1)
      BY <1>1, <3>1 DEF Weekend
    <3> QED
      BY <3>2
  <2> QED
    BY <1>1, <2>1, <2>2, <2>3, <2>4
<1>3. NextBusinessDay(day) = CHOOSE d \in day + 1 .. day + 3 : Found(d)
  BY DEF NextBusinessDay
<1> HIDE DEF Found
<1>4. NextBusinessDay(day) \in day + 1 .. day + 3 /\ Found(NextBusinessDay(day))
  BY <1>2, <1>3
<1> QED
  BY <1>4 DEF Found

\* Every proposal is for the time of the event or later, and the call's is for
\* the next business morning of the customer.
LEMMA AskedSound ==
  ASSUME NEW i \in Ingestion, loaded[i] \in Loaded, NEW p \in Asked(i)
  PROVE  /\ p \in Proposal
         /\ p.scheduled_at >= loaded[i].now
         /\ p.channel = "call" => NextBusinessMorning(i, p.scheduled_at)
<1> DEFINE z == loaded[i].timezone
           now == loaded[i].now
           local == LocalTime(z, now)
           today == DayNumber(local)
           d == NextBusinessDay(today)
           reading == 1440 * d + 600
           call == NextBusinessDayAt10(now, z)
<1>1. /\ z \in Timezone /\ now \in Int /\ loaded[i].event_type \in PolicyEvent
  BY DEF Loaded
<1> HIDE DEF z, now
<1>2. local \in Int
  BY <1>1, TimezoneAssumption DEF LocalTime, utcoffset
<1> HIDE DEF local
<1>3. today \in Int /\ local <= 1440 * today + 1439
  BY <1>2, DayAndMinute DEF DayNumber, Day
<1> HIDE DEF today
<1>4. /\ d \in today + 1 .. today + 3 /\ ~Weekend(d)
      /\ \A e \in today + 1 .. d - 1 : Weekend(e)
  <2>1. today \in Int
    BY <1>3
  <2>2. \A day \in Int : /\ NextBusinessDay(day) \in day + 1 .. day + 3
                         /\ ~Weekend(NextBusinessDay(day))
                         /\ \A e \in day + 1 .. NextBusinessDay(day) - 1 : Weekend(e)
    BY BusinessDayFound
  <2> QED
    BY <2>1, <2>2
<1> HIDE DEF d
<1>5. /\ reading \in Int /\ reading % 1440 = 600 /\ reading \div 1440 = d
      /\ local < reading
  BY <1>2, <1>3, <1>4
<1>6. call = Instant(z, reading)
  BY DEF NextBusinessDayAt10, Day, AtHour, d, today, local
<1> HIDE DEF reading, call
<1>7. call \in Int /\ LocalTime(z, call) = reading
  BY <1>1, <1>5, <1>6, InstantReads DEF TimeOfDay, Day
<1>8. call >= now
  <2> SUFFICES ASSUME call < now PROVE FALSE
    BY <1>1, <1>7
  <2>1. LocalTime(z, call) < local
    BY <1>1, <1>5, <1>7, ClockRunsByDay DEF local, TimeOfDay, Day
  <2> QED
    BY <1>2, <1>5, <1>7, <2>1
<1>9. NextBusinessMorning(i, call)
  <2>1. TimeOfDay(LocalTime(z, call)) = AtHour(10) /\ DayNumber(LocalTime(z, call)) = d
    BY <1>5, <1>7 DEF TimeOfDay, DayNumber, Day, AtHour
  <2>2. /\ TimeOfDay(LocalTime(z, call)) = AtHour(10)
        /\ ~Weekend(DayNumber(LocalTime(z, call)))
        /\ DayNumber(LocalTime(z, call)) > today
        /\ \A e \in today + 1 .. DayNumber(LocalTime(z, call)) - 1 : Weekend(e)
    BY <1>3, <1>4, <2>1
  <2> QED
    BY <2>2 DEF NextBusinessMorning, z, now, today, local
<1>10. Asked(i) \subseteq { [channel |-> "email", scheduled_at |-> now],
                           [channel |-> "sms", scheduled_at |-> now + 30],
                           [channel |-> "sms", scheduled_at |-> now + 15],
                           [channel |-> "call", scheduled_at |-> call] }
  <2>1. CASE loaded[i].event_type = "account_delinquent"
    <3> DEFINE all == << [channel |-> "email", scheduled_at |-> now],
                         [channel |-> "sms", scheduled_at |-> now + 30],
                         [channel |-> "call", scheduled_at |-> call] >>
    <3>1. Asked(i) = {all[n] : n \in 1..3}
      BY <2>1 DEF Asked, ProposalsForEvent, now, z, call
    <3> QED
      BY <3>1
  <2>2. CASE loaded[i].event_type = "payment_failed"
    <3> DEFINE all == << [channel |-> "email", scheduled_at |-> now],
                         [channel |-> "sms", scheduled_at |-> now + 15] >>
    <3>1. Asked(i) = {all[n] : n \in 1..2}
      BY <2>2 DEF Asked, ProposalsForEvent, now, z
    <3> QED
      BY <3>1
  <2> QED
    BY <1>1, <2>1, <2>2 DEF PolicyEvent
<1>11. p \in { [channel |-> "email", scheduled_at |-> now],
               [channel |-> "sms", scheduled_at |-> now + 30],
               [channel |-> "sms", scheduled_at |-> now + 15],
               [channel |-> "call", scheduled_at |-> call] }
  BY <1>10
<1>12. p \in Proposal /\ p.scheduled_at >= now
  BY <1>1, <1>7, <1>8, <1>11 DEF Proposal, Channel
<1>13. p.channel = "call" => p.scheduled_at = call
  BY <1>11
<1> QED
  BY <1>9, <1>12, <1>13 DEF now

-----------------------------------------------------------------------------
(***************************************************************************)
(* What one loop keeps.                                                    *)
(***************************************************************************)
LoopFunctions == /\ DOMAIN loaded = Ingestion /\ DOMAIN proposals = Ingestion
                 /\ DOMAIN recent_count = Ingestion
                 /\ DOMAIN decisions = Ingestion /\ DOMAIN new_tasks = Ingestion

LoopTyped(i) ==
  /\ loaded[i] \in Loaded
  /\ proposals[i] \in Seq(Proposal) /\ recent_count[i] \in Nat
  /\ decisions[i] \in Seq(Decision) /\ new_tasks[i] \in Seq(Proposal)

\* Its count is what the query found and what it added itself.
CountSound(i) ==
  /\ recent_count[i] = loaded[i].recent_attempts + Len(new_tasks[i])
  /\ new_tasks[i] # <<>> => recent_count[i] <= FrequencyCap

\* What the three properties about single tasks say of one.
TaskSound(i, task) ==
  /\ task.channel \in loaded[i].consent
  /\ ~loaded[i].opted_out
  /\ loaded[i].account_status \in {"current", "delinquent"}
  /\ ContactHours(loaded[i].timezone, task.channel, task.scheduled_at)
  /\ task.scheduled_at >= loaded[i].now
  /\ task.channel = "call" => NextBusinessMorning(i, task.scheduled_at)
  /\ \E p \in Asked(i) :
       /\ p.channel = task.channel
       /\ \A u \in p.scheduled_at .. task.scheduled_at - 1 :
            ~ContactHours(loaded[i].timezone, task.channel, u)

RowSound(row) == row.channel = "call" => "quiet_hours" \notin row.reasons

\* What DecisionsExplainTasks says of one loop.
Explained(i) ==
  /\ Cardinality(SchedulingRows(i, Len(decisions[i]))) = Len(new_tasks[i])
  /\ \A n \in SchedulingRows(i, Len(decisions[i])) :
       decisions[i][n].channel = new_tasks[i][Cardinality(SchedulingRows(i, n))].channel

LoopCorrect(i) ==
  /\ LoopTyped(i) /\ CountSound(i) /\ Explained(i)
  /\ \A k \in 1..Len(proposals[i]) : proposals[i][k] \in Asked(i)
  /\ \A k \in 1..Len(new_tasks[i]) : TaskSound(i, new_tasks[i][k])
  /\ \A k \in 1..Len(decisions[i]) : RowSound(decisions[i][k])

-----------------------------------------------------------------------------
(***************************************************************************)
(* The step.                                                               *)
(***************************************************************************)
\* The rows a step adds.
NewTask(i) == [channel |-> Head(proposals[i]).channel, scheduled_at |-> TaskTime(i)]
NewRow(i) == [channel |-> Head(proposals[i]).channel,
              decision |-> PolicyResult(i).decision, reasons |-> PolicyResult(i).reasons]

\* The loop of i is as it was.
LoopKept(i) == /\ loaded'[i] = loaded[i] /\ proposals'[i] = proposals[i]
               /\ recent_count'[i] = recent_count[i]
               /\ decisions'[i] = decisions[i] /\ new_tasks'[i] = new_tasks[i]

LoopStep(i) == BlockProposal(i) \/ DeferProposal(i) \/ ScheduleProposal(i)

\* What a step does to its loop; it leaves the others alone.
LEMMA StepEffect ==
  ASSUME LoopFunctions, NEW i \in Ingestion, LoopStep(i)
  PROVE  /\ proposals[i] # <<>> /\ loaded' = loaded
         /\ proposals'[i] = Tail(proposals[i])
         /\ decisions'[i] = Append(decisions[i], NewRow(i))
         /\ IF Schedules(PolicyResult(i))
            THEN /\ new_tasks'[i] = Append(new_tasks[i], NewTask(i))
                 /\ recent_count'[i] = recent_count[i] + 1
            ELSE new_tasks'[i] = new_tasks[i] /\ recent_count'[i] = recent_count[i]
         /\ \A j \in Ingestion \ {i} : LoopKept(j)
         /\ LoopFunctions'
<1> USE DEF LoopFunctions, LoopKept, RecordDecision, NewRow
<1>1. CASE BlockProposal(i)
  BY <1>1 DEF BlockProposal, Schedules
<1>2. CASE DeferProposal(i)
  BY <1>2 DEF DeferProposal, Schedules
<1>3. CASE ScheduleProposal(i)
  BY <1>3 DEF ScheduleProposal, Schedules, NewTask
<1> QED
  BY <1>1, <1>2, <1>3 DEF LoopStep

\* What is said of a loop's tasks depends on what it loaded alone.
LEMMA LoadedTells ==
  ASSUME NEW i \in Ingestion, loaded'[i] = loaded[i]
  PROVE  /\ Asked(i)' = Asked(i)
         /\ \A task : TaskSound(i, task)' <=> TaskSound(i, task)
BY DEF Asked, TaskSound, NextBusinessMorning

\* The property of one loop, after a step, with the number of its rows named.
LEMMA ExplainedNext ==
  ASSUME NEW i \in Ingestion, NEW length, Len(decisions'[i]) = length,
         Cardinality(SchedulingRows(i, length)') = Len(new_tasks'[i]),
         \A n \in SchedulingRows(i, length)' :
           decisions'[i][n].channel = new_tasks'[i][Cardinality(SchedulingRows(i, n)')].channel
  PROVE  Explained(i)'
<1>1. SchedulingRows(i, Len(decisions[i]))' = SchedulingRows(i, length)'
  BY DEF SchedulingRows
<1> QED
  BY <1>1 DEF Explained

\* A loop that is left alone stays correct.
LEMMA LoopLeft ==
  ASSUME NEW i \in Ingestion, LoopCorrect(i), LoopKept(i)
  PROVE  LoopCorrect(i)'
<1> USE DEF LoopKept
<1>1. Asked(i)' = Asked(i) /\ \A task : TaskSound(i, task)' <=> TaskSound(i, task)
  BY LoadedTells
<1>2. LoopTyped(i)' /\ CountSound(i)'
  BY DEF LoopCorrect, LoopTyped, CountSound
<1>3. Explained(i)'
  <2>1. \A n : SchedulingRows(i, n)' = SchedulingRows(i, n)
    BY DEF SchedulingRows
  <2>2. PICK length : length = Len(decisions[i])
    OBVIOUS
  <2>3. Len(decisions'[i]) = length
    BY <2>2
  <2>4. SchedulingRows(i, length)' = SchedulingRows(i, length)
    BY <2>1
  <2>5. /\ Cardinality(SchedulingRows(i, length)) = Len(new_tasks[i])
        /\ \A n \in SchedulingRows(i, length) :
             decisions[i][n].channel = new_tasks[i][Cardinality(SchedulingRows(i, n))].channel
    BY <2>2 DEF LoopCorrect, Explained
  <2> QED
    BY <2>1, <2>3, <2>4, <2>5, ExplainedNext
<1> QED
  BY <1>1, <1>2, <1>3 DEF LoopCorrect

\* The input the policy is given at a proposal.
LEMMA InputSound ==
  ASSUME NEW i \in Ingestion, LoopCorrect(i), proposals[i] # <<>>
  PROVE  /\ Head(proposals[i]) \in Asked(i)
         /\ PolicyInputFor(i) \in PolicyInput
         /\ PolicyInputFor(i).channel = Head(proposals[i]).channel
         /\ PolicyInputFor(i).scheduled_at = Head(proposals[i]).scheduled_at
         /\ PolicyInputFor(i).customer_timezone = loaded[i].timezone
<1>1. loaded[i] \in Loaded /\ recent_count[i] \in Nat /\ proposals[i] \in Seq(Proposal)
  BY DEF LoopCorrect, LoopTyped
<1>2. Len(proposals[i]) \in Nat /\ Len(proposals[i]) >= 1 /\ Head(proposals[i]) = proposals[i][1]
  BY <1>1
<1>3. Head(proposals[i]) \in Asked(i)
  BY <1>2 DEF LoopCorrect
<1>4. Head(proposals[i]) \in Proposal
  BY <1>1, <1>3, AskedSound
<1>5. PolicyInputFor(i) \in PolicyInput
  BY <1>1, <1>4, CapAssumption DEF PolicyInputFor, PolicyInput, Proposal, Loaded
<1> QED
  BY <1>3, <1>5 DEF PolicyInputFor

\* A call's proposal meets no quiet hours.
LEMMA CallsMeetNoQuiet ==
  ASSUME NEW i \in Ingestion, loaded[i] \in Loaded, NEW p \in Asked(i), p.channel = "call"
  PROVE  /\ NextBusinessMorning(i, p.scheduled_at)
         /\ InWindow(LocalTime(loaded[i].timezone, p.scheduled_at))
<1>1. NextBusinessMorning(i, p.scheduled_at)
  BY AskedSound
<1>2. TimeOfDay(LocalTime(loaded[i].timezone, p.scheduled_at)) = 600
  BY <1>1 DEF NextBusinessMorning, AtHour
<1> QED
  BY <1>1, <1>2 DEF InWindow, OUTREACH_WINDOW_START, OUTREACH_WINDOW_END, AtHour

\* The row a step adds: its types, and that it tells whether a task is made.
LEMMA NewRowSound ==
  ASSUME NEW i \in Ingestion, LoopCorrect(i), proposals[i] # <<>>
  PROVE  /\ NewRow(i) \in Decision /\ RowSound(NewRow(i))
         /\ Schedules(PolicyResult(i)) <=>
              NewRow(i).decision = "allow" \/ NewRow(i).reasons = {"quiet_hours"}
<1> DEFINE in == PolicyInputFor(i)
           p == Head(proposals[i])
<1>1. /\ p \in Asked(i) /\ in \in PolicyInput /\ in.channel = p.channel
      /\ in.scheduled_at = p.scheduled_at /\ in.customer_timezone = loaded[i].timezone
      /\ loaded[i] \in Loaded
  BY InputSound DEF LoopCorrect, LoopTyped
<1>2. PolicyResult(i) = evaluate_policy(in)
  BY DEF PolicyResult
<1> HIDE DEF in
<1>3. /\ PolicyResult(i).decision \in {"allow", "block", "defer"}
      /\ PolicyResult(i).reasons \subseteq
           {"customer_opted_out", "missing_consent", "account_paused", "account_resolved",
            "quiet_hours", "frequency_cap_exceeded", "policy_allowed"}
      /\ "quiet_hours" \in PolicyResult(i).reasons => QuietHoursDeferUntil(in) # {}
      /\ Schedules(PolicyResult(i)) <=>
           PolicyResult(i).decision = "allow" \/ PolicyResult(i).reasons = {"quiet_hours"}
  BY <1>1, <1>2, DecisionMeans
<1>4. p.channel \in Channel
  BY <1>1 DEF PolicyInput
<1>5. p.channel = "call" => QuietHoursDeferUntil(in) = {}
  BY <1>1, CallsMeetNoQuiet DEF QuietHoursDeferUntil
<1> QED
  BY <1>3, <1>4, <1>5 DEF NewRow, Decision, RowSound

\* The task a step adds is within the cap, lawful and as early as it can be.
LEMMA NewTaskSound ==
  ASSUME NEW i \in Ingestion, LoopCorrect(i), proposals[i] # <<>>, Schedules(PolicyResult(i))
  PROVE  /\ recent_count[i] < FrequencyCap
         /\ NewTask(i) \in Proposal
         /\ TaskSound(i, NewTask(i))
<1> DEFINE in == PolicyInputFor(i)
           r == PolicyResult(i)
           p == Head(proposals[i])
           z == loaded[i].timezone
           Open(u) == ContactHours(z, p.channel, u)
<1>1. r.decision = "allow" \/ (r.decision = "defer" /\ ~NotSchedulable(r))
  BY DEF Schedules
<1>2. /\ p \in Asked(i) /\ in \in PolicyInput
      /\ in.channel = p.channel /\ in.scheduled_at = p.scheduled_at /\ in.customer_timezone = z
  BY InputSound
<1>3. /\ in.opted_out = loaded[i].opted_out /\ in.consent = loaded[i].consent
      /\ in.account_status = loaded[i].account_status
      /\ in.recent_outbound_attempt_count = recent_count[i] /\ in.frequency_cap = FrequencyCap
  BY DEF PolicyInputFor
<1>4. r = evaluate_policy(in)
  BY DEF PolicyResult
<1>5. /\ loaded[i] \in Loaded /\ recent_count[i] \in Nat /\ z \in Timezone
      /\ loaded[i].now \in Int
  BY DEF LoopCorrect, LoopTyped, Loaded
<1>6. p \in Proposal /\ p.scheduled_at >= loaded[i].now /\ p.scheduled_at \in Int
  BY <1>2, <1>5, AskedSound DEF Proposal
<1>7. /\ TaskTime(i) = IF r.decision = "defer" THEN CHOOSE u \in r.defer_until : TRUE
                       ELSE p.scheduled_at
      /\ NewTask(i) = [channel |-> p.channel, scheduled_at |-> TaskTime(i)]
  BY DEF NewTask, TaskTime
<1>8. p.channel = "call" => /\ NextBusinessMorning(i, p.scheduled_at)
                            /\ InWindow(LocalTime(z, p.scheduled_at))
  BY <1>2, <1>5, CallsMeetNoQuiet
<1> HIDE DEF in, r, p, z
<1>9. \A u \in Int : Open(u) <=> p.channel = "email" \/ InWindow(LocalTime(z, u))
  BY DEF ContactHours, InWindow, OUTREACH_WINDOW_START, OUTREACH_WINDOW_END
<1>10. /\ ~in.opted_out /\ in.channel \in in.consent
       /\ in.account_status \in {"current", "delinquent"} /\ ~CapReached(in)
       /\ r.decision = "allow" => QuietHoursDeferUntil(in) = {}
       /\ r.decision = "defer" => /\ r.defer_until = QuietHoursDeferUntil(in)
                                  /\ QuietHoursDeferUntil(in) # {}
  BY <1>1, <1>2, <1>4, DecisionMeans
<1>11. recent_count[i] < FrequencyCap
  BY <1>3, <1>5, <1>10, CapAssumption DEF CapReached
<1>12. /\ TaskTime(i) \in Int /\ TaskTime(i) >= p.scheduled_at
       /\ Open(TaskTime(i))
       /\ \A u \in p.scheduled_at .. TaskTime(i) - 1 : ~Open(u)
       /\ p.channel = "call" => TaskTime(i) = p.scheduled_at
  <2> HIDE DEF Open
  <2>1. CASE r.decision = "allow"
    <3>1. TaskTime(i) = p.scheduled_at
      BY <1>7, <2>1
    <3>2. p.channel = "email" \/ InWindow(LocalTime(z, p.scheduled_at))
      BY <1>2, <1>10, <2>1 DEF QuietHoursDeferUntil
    <3> QED
      BY <1>6, <1>9, <3>1, <3>2
  <2>2. CASE r.decision = "defer"
    <3>1. PICK u \in Int : /\ QuietHoursDeferUntil(in) = {u} /\ u >= p.scheduled_at
                           /\ InWindow(LocalTime(z, u))
                           /\ \A v \in p.scheduled_at .. u - 1 : ~InWindow(LocalTime(z, v))
      BY <1>2, <1>10, <2>2, DeferredToOpening
    <3>2. TaskTime(i) = u
      BY <1>7, <1>10, <2>2, <3>1
    <3>3. p.channel # "email" /\ p.channel # "call"
      BY <1>2, <1>8, <1>10, <2>2 DEF QuietHoursDeferUntil
    <3> QED
      BY <1>6, <1>9, <3>1, <3>2, <3>3
  <2> QED
    BY <1>1, <2>1, <2>2
<1>13. NewTask(i) \in Proposal
  BY <1>6, <1>7, <1>12 DEF Proposal
<1>14. TaskTime(i) >= loaded[i].now
  BY <1>5, <1>6, <1>12
<1>15. \E q \in Asked(i) : /\ q.channel = NewTask(i).channel
                           /\ \A u \in q.scheduled_at .. NewTask(i).scheduled_at - 1 :
                                ~ContactHours(loaded[i].timezone, NewTask(i).channel, u)
  BY <1>2, <1>7, <1>12 DEF z
<1>16. ContactHours(loaded[i].timezone, NewTask(i).channel, NewTask(i).scheduled_at)
  BY <1>7, <1>12 DEF z
<1>17. NewTask(i).channel = p.channel /\ NewTask(i).scheduled_at = TaskTime(i)
  BY <1>7
<1> HIDE DEF Open
<1> QED
  BY <1>2, <1>3, <1>8, <1>10, <1>11, <1>12, <1>13, <1>14, <1>15, <1>16, <1>17 DEF TaskSound

\* The rows that make a task are finitely many, and none past the rows counted.
LEMMA RowsCounted ==
  ASSUME NEW i \in Ingestion, NEW n \in Nat
  PROVE  /\ IsFiniteSet(SchedulingRows(i, n)) /\ Cardinality(SchedulingRows(i, n)) \in Nat
         /\ \A m \in 1..n : /\ SchedulingRows(i, m) \subseteq SchedulingRows(i, n)
                            /\ Cardinality(SchedulingRows(i, m)) <= Cardinality(SchedulingRows(i, n))
                            /\ m \in SchedulingRows(i, m) =>
                                 Cardinality(SchedulingRows(i, m)) \in Nat \ {0}
<1>1. \A m \in Nat : IsFiniteSet(SchedulingRows(i, m)) /\ Cardinality(SchedulingRows(i, m)) \in Nat
  <2> SUFFICES ASSUME NEW m \in Nat
               PROVE  /\ IsFiniteSet(SchedulingRows(i, m))
                      /\ Cardinality(SchedulingRows(i, m)) \in Nat
    OBVIOUS
  <2>1. IsFiniteSet(1..m) /\ SchedulingRows(i, m) \subseteq 1..m
    BY FS_Interval DEF SchedulingRows
  <2> QED
    BY <2>1, FS_Subset, FS_CardinalityType
<1>2. ASSUME NEW m \in 1..n
      PROVE  /\ SchedulingRows(i, m) \subseteq SchedulingRows(i, n)
             /\ Cardinality(SchedulingRows(i, m)) <= Cardinality(SchedulingRows(i, n))
             /\ m \in SchedulingRows(i, m) => Cardinality(SchedulingRows(i, m)) \in Nat \ {0}
  <2>1. SchedulingRows(i, m) \subseteq SchedulingRows(i, n)
    BY DEF SchedulingRows
  <2>2. m \in SchedulingRows(i, m) => Cardinality(SchedulingRows(i, m)) # 0
    BY <1>1, FS_EmptySet
  <2> QED
    BY <1>1, <2>1, <2>2, FS_Subset
<1> QED
  BY <1>1, <1>2

-----------------------------------------------------------------------------
(***************************************************************************)
(* A loop from its beginning through its steps.                            *)
(***************************************************************************)
\* The loop of i as it begins.
LoopFresh(i) ==
  /\ loaded[i] \in Loaded
  /\ proposals[i] = ProposalsForEvent(loaded[i].event_type, loaded[i].now, loaded[i].timezone)
  /\ recent_count[i] = loaded[i].recent_attempts
  /\ decisions[i] = <<>> /\ new_tasks[i] = <<>>

\* A loop is correct when it begins.
LEMMA LoopBegins ==
  \A i \in Ingestion : LoopFresh(i) => LoopCorrect(i)
<1> SUFFICES ASSUME NEW i \in Ingestion, LoopFresh(i) PROVE LoopCorrect(i)
  OBVIOUS
<1> DEFINE all == ProposalsForEvent(loaded[i].event_type, loaded[i].now, loaded[i].timezone)
<1>1. loaded[i] \in Loaded /\ proposals[i] = all
  BY DEF LoopFresh
<1>2. \E T : all \in Seq(T)
  <2> DEFINE now == loaded[i].now
             call == NextBusinessDayAt10(now, loaded[i].timezone)
             few == { [channel |-> "email", scheduled_at |-> now],
                      [channel |-> "sms", scheduled_at |-> now + 30],
                      [channel |-> "sms", scheduled_at |-> now + 15],
                      [channel |-> "call", scheduled_at |-> call] }
  <2>1. CASE loaded[i].event_type = "account_delinquent"
    <3>1. all = << [channel |-> "email", scheduled_at |-> now],
                   [channel |-> "sms", scheduled_at |-> now + 30],
                   [channel |-> "call", scheduled_at |-> call] >>
      BY <2>1 DEF ProposalsForEvent
    <3> HIDE DEF all, call, now
    <3>2. all \in Seq(few)
      BY <3>1
    <3> QED
      BY <3>2
  <2>2. CASE loaded[i].event_type = "payment_failed"
    <3>1. all = << [channel |-> "email", scheduled_at |-> now],
                   [channel |-> "sms", scheduled_at |-> now + 15] >>
      BY <2>2 DEF ProposalsForEvent
    <3> HIDE DEF all, call, now
    <3>2. all \in Seq(few)
      BY <3>1
    <3> QED
      BY <3>2
  <2> QED
    BY <1>1, <2>1, <2>2 DEF Loaded, PolicyEvent
<1>3. all \in Seq({all[n] : n \in 1..Len(all)})
  <2> HIDE DEF all
  <2> QED
    BY <1>2
<1>4. proposals[i] \in Seq(Asked(i))
  BY <1>1, <1>3 DEF Asked
<1>5. Asked(i) \subseteq Proposal
  BY <1>1, AskedSound
<1>6. proposals[i] \in Seq(Proposal) /\ \A k \in 1..Len(proposals[i]) : proposals[i][k] \in Asked(i)
  BY <1>4, <1>5
<1>7. LoopTyped(i) /\ CountSound(i)
  BY <1>1, <1>6 DEF LoopFresh, LoopTyped, CountSound, Loaded
<1>8. SchedulingRows(i, 0) = {} /\ Len(decisions[i]) = 0 /\ Len(new_tasks[i]) = 0
  BY DEF SchedulingRows, LoopFresh
<1>9. Explained(i)
  BY <1>8, FS_EmptySet DEF Explained
<1>10. 1..0 = {}
  OBVIOUS
<1> QED
  BY <1>6, <1>7, <1>8, <1>9, <1>10 DEF LoopCorrect

\* The same of a loop that a step begins.
LEMMA LoopBeginsNext ==
  (\A i \in Ingestion : LoopFresh(i) => LoopCorrect(i))'
BY LoopBegins, PTL

\* A step keeps what the rows tell of the tasks.
LEMMA StepExplained ==
  ASSUME LoopFunctions, NEW i \in Ingestion, LoopCorrect(i), LoopStep(i)
  PROVE  Explained(i)'
<1>1. /\ proposals[i] # <<>> /\ decisions'[i] = Append(decisions[i], NewRow(i))
      /\ IF Schedules(PolicyResult(i))
         THEN new_tasks'[i] = Append(new_tasks[i], NewTask(i))
         ELSE new_tasks'[i] = new_tasks[i]
  BY StepEffect
<1>2. /\ decisions[i] \in Seq(Decision) /\ new_tasks[i] \in Seq(Proposal)
  BY DEF LoopCorrect, LoopTyped
<1>3. /\ NewRow(i) \in Decision
      /\ Schedules(PolicyResult(i)) <=>
           NewRow(i).decision = "allow" \/ NewRow(i).reasons = {"quiet_hours"}
      /\ NewRow(i).channel = Head(proposals[i]).channel
  BY <1>1, NewRowSound DEF NewRow
<1>4. PICK length \in Nat : length = Len(decisions[i])
  BY <1>2, LenProperties
<1>5. PICK count \in Nat : count = Len(new_tasks[i])
  BY <1>2, LenProperties
<1>6. /\ Len(decisions'[i]) = length + 1 /\ decisions'[i][length + 1] = NewRow(i)
      /\ \A n \in 1..length : decisions'[i][n] = decisions[i][n]
  BY <1>1, <1>2, <1>3, <1>4, AppendProperties
<1>7. /\ Cardinality(SchedulingRows(i, length)) = count
      /\ \A n \in SchedulingRows(i, length) :
           decisions[i][n].channel = new_tasks[i][Cardinality(SchedulingRows(i, n))].channel
  BY <1>4, <1>5 DEF LoopCorrect, Explained
<1>8. \A n \in 0..length : SchedulingRows(i, n)' = SchedulingRows(i, n)
  BY <1>6 DEF SchedulingRows
<1>9. 1..(length + 1) = (1..length) \cup {length + 1}
  OBVIOUS
<1>10. /\ \A n \in SchedulingRows(i, length) : n \in 1..length /\ n \in SchedulingRows(i, n)
       /\ length + 1 \notin SchedulingRows(i, length)
  BY DEF SchedulingRows
<1>11. \A n \in SchedulingRows(i, length) : Cardinality(SchedulingRows(i, n)) \in 1..count
  BY <1>7, <1>10, RowsCounted
<1>12. CASE Schedules(PolicyResult(i))
  <2>1. SchedulingRows(i, length + 1)' = SchedulingRows(i, length) \cup {length + 1}
    BY <1>3, <1>6, <1>9, <1>12 DEF SchedulingRows
  <2>2. Cardinality(SchedulingRows(i, length + 1)') = count + 1
    BY <1>7, <1>10, <2>1, RowsCounted, FS_AddElement
  <2>3. /\ Len(new_tasks'[i]) = count + 1 /\ new_tasks'[i][count + 1] = NewTask(i)
        /\ \A n \in 1..count : new_tasks'[i][n] = new_tasks[i][n]
    BY <1>1, <1>2, <1>5, <1>12, NewTaskSound, AppendProperties
  <2>4. ASSUME NEW n \in SchedulingRows(i, length + 1)'
        PROVE  decisions'[i][n].channel = new_tasks'[i][Cardinality(SchedulingRows(i, n)')].channel
    <3>1. CASE n = length + 1
      BY <1>3, <1>6, <2>2, <2>3, <3>1 DEF NewTask
    <3>2. CASE n \in SchedulingRows(i, length)
      BY <1>6, <1>7, <1>8, <1>10, <1>11, <2>3, <3>2
    <3> QED
      BY <2>1, <2>4, <3>1, <3>2
  <2> QED
    BY <1>6, <2>2, <2>3, <2>4, ExplainedNext
<1>13. CASE ~Schedules(PolicyResult(i))
  <2>1. SchedulingRows(i, length + 1)' = SchedulingRows(i, length)
    BY <1>3, <1>6, <1>9, <1>13 DEF SchedulingRows
  <2>2. new_tasks'[i] = new_tasks[i]
    BY <1>1, <1>13
  <2>3. ASSUME NEW n \in SchedulingRows(i, length + 1)'
        PROVE  decisions'[i][n].channel = new_tasks'[i][Cardinality(SchedulingRows(i, n)')].channel
    BY <1>6, <1>7, <1>8, <1>10, <2>1, <2>2
  <2> QED
    BY <1>5, <1>6, <1>7, <2>1, <2>2, <2>3, ExplainedNext
<1> QED
  BY <1>12, <1>13

\* A step keeps its loop correct.
LEMMA LoopContinues ==
  ASSUME LoopFunctions, NEW i \in Ingestion, LoopCorrect(i), LoopStep(i)
  PROVE  LoopCorrect(i)'
<1>1. /\ proposals[i] # <<>> /\ loaded'[i] = loaded[i]
      /\ proposals'[i] = Tail(proposals[i])
      /\ decisions'[i] = Append(decisions[i], NewRow(i))
      /\ IF Schedules(PolicyResult(i))
         THEN /\ new_tasks'[i] = Append(new_tasks[i], NewTask(i))
              /\ recent_count'[i] = recent_count[i] + 1
         ELSE new_tasks'[i] = new_tasks[i] /\ recent_count'[i] = recent_count[i]
  BY StepEffect
<1>2. /\ loaded[i] \in Loaded /\ proposals[i] \in Seq(Proposal) /\ recent_count[i] \in Nat
      /\ decisions[i] \in Seq(Decision) /\ new_tasks[i] \in Seq(Proposal)
      /\ loaded[i].recent_attempts \in Nat
      /\ recent_count[i] = loaded[i].recent_attempts + Len(new_tasks[i])
      /\ new_tasks[i] # <<>> => recent_count[i] <= FrequencyCap
  BY DEF LoopCorrect, LoopTyped, CountSound, Loaded
<1>3. Asked(i)' = Asked(i) /\ \A task : TaskSound(i, task)' <=> TaskSound(i, task)
  BY <1>1, LoadedTells
<1>4. NewRow(i) \in Decision /\ RowSound(NewRow(i))
  BY <1>1, NewRowSound
<1>5. /\ decisions'[i] \in Seq(Decision)
      /\ \A k \in 1..Len(decisions'[i]) : RowSound(decisions'[i][k])
  <2>1. /\ decisions'[i] \in Seq(Decision) /\ Len(decisions'[i]) = Len(decisions[i]) + 1
        /\ decisions'[i][Len(decisions[i]) + 1] = NewRow(i)
        /\ \A n \in 1..Len(decisions[i]) : decisions'[i][n] = decisions[i][n]
    BY <1>1, <1>2, <1>4, AppendProperties
  <2>2. \A k \in 1..Len(decisions[i]) : RowSound(decisions[i][k])
    BY DEF LoopCorrect
  <2>3. ASSUME NEW k \in 1..Len(decisions'[i])
        PROVE  k \in 1..Len(decisions[i]) \/ k = Len(decisions[i]) + 1
    BY <1>2, <2>1
  <2> QED
    BY <1>4, <2>1, <2>2, <2>3
<1>6. /\ proposals'[i] \in Seq(Proposal)
      /\ \A k \in 1..Len(proposals'[i]) : proposals'[i][k] \in Asked(i)
  <2>1. /\ proposals'[i] \in Seq(Proposal) /\ Len(proposals'[i]) = Len(proposals[i]) - 1
        /\ \A k \in 1..Len(proposals'[i]) : /\ proposals'[i][k] = proposals[i][k + 1]
                                           /\ k + 1 \in 1..Len(proposals[i])
    BY <1>1, <1>2, HeadTailProperties
  <2> QED
    BY <2>1 DEF LoopCorrect
<1>7. /\ new_tasks'[i] \in Seq(Proposal) /\ recent_count'[i] \in Nat
      /\ recent_count'[i] = loaded[i].recent_attempts + Len(new_tasks'[i])
      /\ new_tasks'[i] # <<>> => recent_count'[i] <= FrequencyCap
      /\ \A k \in 1..Len(new_tasks'[i]) : TaskSound(i, new_tasks'[i][k])
  <2>1. \A k \in 1..Len(new_tasks[i]) : TaskSound(i, new_tasks[i][k])
    BY DEF LoopCorrect
  <2>2. CASE Schedules(PolicyResult(i))
    <3>1. /\ recent_count[i] < FrequencyCap
          /\ NewTask(i) \in Proposal /\ TaskSound(i, NewTask(i))
      BY <1>1, <2>2, NewTaskSound
    <3>2. /\ new_tasks'[i] = Append(new_tasks[i], NewTask(i))
          /\ recent_count'[i] = recent_count[i] + 1
      BY <1>1, <2>2
    <3>3. /\ new_tasks'[i] \in Seq(Proposal) /\ Len(new_tasks'[i]) = Len(new_tasks[i]) + 1
          /\ new_tasks'[i][Len(new_tasks[i]) + 1] = NewTask(i)
          /\ \A n \in 1..Len(new_tasks[i]) : new_tasks'[i][n] = new_tasks[i][n]
      BY <1>2, <3>1, <3>2, AppendProperties
    <3>4. Len(new_tasks[i]) \in Nat
      BY <1>2
    <3>5. ASSUME NEW k \in 1..Len(new_tasks'[i])
          PROVE  k \in 1..Len(new_tasks[i]) \/ k = Len(new_tasks[i]) + 1
      BY <3>3, <3>4
    <3>6. \A k \in 1..Len(new_tasks'[i]) : TaskSound(i, new_tasks'[i][k])
      BY <2>1, <3>1, <3>3, <3>5
    <3>7. recent_count'[i] <= FrequencyCap
      BY <1>2, <3>1, <3>2, CapAssumption
    <3>8. recent_count'[i] \in Nat /\ recent_count'[i] = loaded[i].recent_attempts + Len(new_tasks'[i])
      BY <1>2, <3>2, <3>3, <3>4
    <3> QED
      BY <3>3, <3>6, <3>7, <3>8
  <2>3. CASE ~Schedules(PolicyResult(i))
    BY <1>1, <1>2, <2>1, <2>3
  <2> QED
    BY <2>2, <2>3
<1>8. LoopTyped(i)' /\ CountSound(i)'
  BY <1>1, <1>2, <1>5, <1>6, <1>7 DEF LoopTyped, CountSound
<1>9. Explained(i)'
  BY StepExplained
<1> QED
  BY <1>3, <1>5, <1>6, <1>7, <1>8, <1>9 DEF LoopCorrect

\* What a correct loop promises.
LEMMA CorrectLoopPromises ==
  ASSUME NEW i \in Ingestion, LoopCorrect(i)
  PROVE  /\ new_tasks[i] # <<>> => loaded[i].recent_attempts + Len(new_tasks[i]) <= FrequencyCap
         /\ LET rows == SchedulingRows(i, Len(decisions[i])) IN
            /\ Cardinality(rows) = Len(new_tasks[i])
            /\ \A n \in rows : decisions[i][n].channel =
                                 new_tasks[i][Cardinality(SchedulingRows(i, n))].channel
         /\ \A k \in 1..Len(decisions[i]) :
              decisions[i][k].channel = "call" => "quiet_hours" \notin decisions[i][k].reasons
         /\ \A k \in 1..Len(new_tasks[i]) : TaskSound(i, new_tasks[i][k])
BY DEF LoopCorrect, CountSound, Explained, RowSound
=============================================================================
