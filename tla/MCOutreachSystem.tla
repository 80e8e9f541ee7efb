-------------------------- MODULE MCOutreachSystem --------------------------
(***************************************************************************)
(* Small instances of OutreachSystem.                                      *)
(***************************************************************************)
EXTENDS OutreachSystem, TLC

CONSTANTS c1, c2, a1, a2, e1, e2, e3

\* Two zones in which instant 0, midnight UTC, is 10:00 and 11:00.
East == [standard |-> AtHour(10), summer_from |-> 0, summer_until |-> 0]
FarEast == [standard |-> AtHour(11), summer_from |-> 0, summer_until |-> 0]
MCTimezone == {East, FarEast}

Ask(e, type, c, consent, a, s) ==
  [event |-> e, event_type |-> type, occurred_at |-> 0, customer |-> c,
   timezone |-> East, consent |-> consent, account |-> a, status |-> s]

Profile(consent, opted_out) == [timezone |-> East, consent |-> consent, opted_out |-> opted_out]

\* Nobody is known, or the first customer with the first account is.
Nobody == [customers |-> [c \in Customer |-> None], accounts |-> [a \in Account |-> None]]
Known(s) ==
  [customers |-> [c \in Customer |-> IF c = c1 THEN Profile({"email"}, FALSE) ELSE None],
   accounts |-> [a \in Account |-> IF a = a1 THEN [customer |-> c1, status |-> s] ELSE None]]

\* Any requests with these bodies, from that time on.
Begin(tables, time, bodies) ==
  {[customers |-> d.customers, accounts |-> d.accounts, clock |-> time, request |-> r] :
     d \in tables, r \in [Ingestion -> bodies]}

\* The same event again and again, a payment and a hardship for its account.
Retries == { Ask(e1, "payment_failed", c1, {"email"}, a1, "delinquent"),
             Ask(e2, "payment_received", c1, {"email"}, a1, "resolved"),
             Ask(e3, "hardship_requested", c1, {"email"}, a1, "delinquent") }

\* Snapshots that disagree, an opt-out and a pause, of two customers and two accounts.
Snapshots ==
  { Ask(e1, "account_delinquent", c1, {"email", "call"}, a1, "delinquent"),
    [Ask(e2, "payment_failed", c1, {"sms"}, a2, "delinquent") EXCEPT !.timezone = FarEast],
    Ask(e2, "payment_failed", c2, {"email"}, a1, "delinquent"),
    Ask(e2, "opt_out_received", c1, {"email"}, a1, "current"),
    Ask(e3, "account_paused", c1, {"email"}, a1, "current"),
    Ask(e3, "account_paused", c1, {"email"}, a2, "paused"),
    Ask(e1, "opt_out_received", c1, {}, a1, "delinquent") }

Contact(e, a, d) ==
  [Ask(e, "payment_failed", c1, {"email"}, a, "delinquent") EXCEPT !.occurred_at = d]

\* Contacts about two accounts of one customer, dated the first or the second
\* day, through one channel or two.
Contacts == { [Contact(e1, a1, d) EXCEPT !.consent = {"email", "sms"}] : d \in {0, Day} }
  \cup { Contact(e2, a2, d) : d \in {0, Day} }

\* An opt-out locks the account before the customer, others the other way round.
Crossing ==
  { Ask(e1, "opt_out_received", c1, {"email"}, a1, "delinquent"),
    Ask(e2, "payment_received", c1, {"sms"}, a1, "resolved"),
    Ask(e3, "account_paused", c1, {"email"}, a1, "delinquent") }

\* Where the clock does not matter it stands at its limit.
MCIngestion == Begin({Nobody, Known("delinquent")}, LatestTime, Retries)
                 \cup Begin({Nobody, Known("delinquent")}, LatestTime, Snapshots)
MCContacts == Begin({Known("current")}, 0, Contacts)
                \cup Begin({Known("current")}, LatestTime, Crossing)

\* For the runs that expect a violation.
MCDuplicates == Begin({Nobody}, 0, {Ask(e1, "payment_failed", c1, {"email"}, a1, "delinquent")})
MCSameDay == Begin({Known("current")}, 0, {Contact(e1, a1, 0), Contact(e2, a2, 0)})

AlikeRequests == Permutations(Ingestion)
=============================================================================
