------------------------- MODULE MCOutreachPlanner -------------------------
(***************************************************************************)
(* One planning loop over a week in which the clocks change twice.         *)
(***************************************************************************)
EXTENDS OutreachPlanner

\* The second zone goes to summer time on Tuesday at 02:00 and back on
\* Thursday at 02:00; the first never changes.
MCTimezone ==
  { [standard |-> 330, summer_from |-> 0, summer_until |-> 0],
    [standard |-> -300, summer_from |-> Day + 420, summer_until |-> 3 * Day + 360] }

Anyone == { [consent |-> c, opted_out |-> o, account_status |-> s, recent_attempts |-> n] :
              c \in SUBSET Channel, o \in BOOLEAN,
              s \in {"delinquent", "paused", "resolved"}, n \in 0 .. FrequencyCap + 1 }

Contactable == { [consent |-> Channel, opted_out |-> FALSE,
                  account_status |-> "current", recent_attempts |-> n] : n \in {0, 1} }

Cases(people, moments) ==
  { [event_type |-> e, now |-> t, timezone |-> z, consent |-> p.consent,
     opted_out |-> p.opted_out, account_status |-> p.account_status,
     recent_attempts |-> p.recent_attempts] :
      e \in PolicyEvent, t \in moments, z \in Timezone, p \in people }

\* Anyone at a few moments, and the contactable at every quarter of an hour
\* and a minute before it.
MCCase == Cases(Anyone, {0, Day + 840, 4 * Day + 1500}) \cup
          Cases(Contactable, {15 * k : k \in 0 .. 671} \cup {15 * k - 1 : k \in 1 .. 671})
=============================================================================
