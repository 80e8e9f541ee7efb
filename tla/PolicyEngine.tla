---------------------------- MODULE PolicyEngine ----------------------------
(***************************************************************************)
(* The compliance policy: policy/engine.py.  Instants and wall clock       *)
(* readings are whole minutes (the window's ends are), reasons form a set  *)
(* and the three consent flags are the set of the channels consented to.   *)
(*                                                                         *)
(* Time zones are external (zoneinfo).  A zone has a standard offset and   *)
(* one summer period, an hour ahead; an instance covers as many days as    *)
(* it needs to meet both changes.                                          *)
(***************************************************************************)
EXTENDS Integers

CONSTANT Timezone   \* the customers' zones

Day == 1440
AtHour(h) == 60 * h

\* Clocks change at night: no wall clock reading between 06:00 and midnight is
\* skipped or repeated.
ASSUME TimezoneAssumption ==
  \A z \in Timezone :
    /\ z \in [standard : Int, summer_from : Int, summer_until : Int]
    /\ z.summer_from < z.summer_until =>
         /\ (z.summer_from + z.standard) % Day < AtHour(5)
         /\ (z.summer_until + z.standard) % Day < AtHour(5)

utcoffset(z, instant) ==
  z.standard + IF z.summer_from <= instant /\ instant < z.summer_until THEN 60 ELSE 0

\* datetime.astimezone(zone), and back.
LocalTime(z, instant) == instant + utcoffset(z, instant)
Instant(z, local) ==
  CHOOSE u \in {local - z.standard - 60, local - z.standard} : LocalTime(z, u) = local

TimeOfDay(local) == local % Day
Midnight(local) == local - TimeOfDay(local)

-----------------------------------------------------------------------------
Channel == {"call", "sms", "email"}
AccountStatus == {"current", "delinquent", "resolved", "paused"}

PolicyInput == [channel : Channel, scheduled_at : Int, customer_timezone : Timezone,
                consent : SUBSET Channel, opted_out : BOOLEAN,
                account_status : AccountStatus,
                recent_outbound_attempt_count : Nat, frequency_cap : Nat]

OUTREACH_WINDOW_START == AtHour(9)
OUTREACH_WINDOW_END == AtHour(20)

OptOutBlockReasons(in) == IF in.opted_out THEN {"customer_opted_out"} ELSE {}

ChannelConsentBlockReasons(in) ==
  IF in.channel \in in.consent THEN {} ELSE {"missing_consent"}

AccountStatusBlockReasons(in) ==
  CASE in.account_status = "paused" -> {"account_paused"}
    [] in.account_status = "resolved" -> {"account_resolved"}
    [] OTHER -> {}

BlockReasons(in) == OptOutBlockReasons(in) \cup ChannelConsentBlockReasons(in)
                                           \cup AccountStatusBlockReasons(in)

WindowToTheMinute(local) == /\ OUTREACH_WINDOW_START <= TimeOfDay(local)
                            /\ TimeOfDay(local) <= OUTREACH_WINDOW_END   \* flawed

InWindow(local) == /\ OUTREACH_WINDOW_START <= TimeOfDay(local)
                   /\ TimeOfDay(local) < OUTREACH_WINDOW_END

AlwaysNextDay(local) == Midnight(local) + Day + OUTREACH_WINDOW_START   \* flawed

\* 09:00 of the same day before the window, of the next day after it.
NextOpening(local) ==
  Midnight(local) + OUTREACH_WINDOW_START
    + IF TimeOfDay(local) < OUTREACH_WINDOW_START THEN 0 ELSE Day

\* Nothing, or the time to defer to, as a set of at most one instant.
QuietHoursDeferUntil(in) ==
  LET local == LocalTime(in.customer_timezone, in.scheduled_at) IN
  IF in.channel = "email" \/ InWindow(local)
  THEN {}
  ELSE {Instant(in.customer_timezone, NextOpening(local))}

CapReached(in) == in.recent_outbound_attempt_count >= in.frequency_cap

DeferReasons(in) ==
  (IF QuietHoursDeferUntil(in) # {} THEN {"quiet_hours"} ELSE {})
    \cup (IF CapReached(in) THEN {"frequency_cap_exceeded"} ELSE {})

evaluate_policy(in) ==
  IF BlockReasons(in) # {}
  THEN [decision |-> "block", reasons |-> BlockReasons(in), defer_until |-> {}]
  ELSE IF DeferReasons(in) # {}
  THEN [decision |-> "defer", reasons |-> DeferReasons(in),
        defer_until |-> QuietHoursDeferUntil(in)]
  ELSE [decision |-> "allow", reasons |-> {"policy_allowed"}, defer_until |-> {}]
=============================================================================
