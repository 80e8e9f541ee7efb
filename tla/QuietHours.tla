----------------------------- MODULE QuietHours -----------------------------
(***************************************************************************)
(* TaskFlow with the customer's wall clock beside the workers': one minute *)
(* a tick, and tasks that were all planned for a lawful time.              *)
(***************************************************************************)
EXTENDS MCTaskFlow

CONSTANT Zone   \* of the customers

Policy == INSTANCE PolicyEngine WITH Timezone <- {Zone}

\* The workers' clock starts at 19:59 of the customers' time.
LateEvening == [standard |-> Policy!AtHour(20) - 1, summer_from |-> 0, summer_until |-> 0]

\* Calls and messages are not sent outside the customer's contact hours
\* (compliance-assumptions.md:62): the minute of a dispatch, which nothing but
\* scheduled_at decides, is one the window admits (dispatch.py:49-77, 173).
DispatchedInWindow ==
  [][\A t \in Task :
       attempt_count'[t] # attempt_count[t] =>
         Policy!InWindow(Policy!LocalTime(Zone, clock))]_vars
=============================================================================
