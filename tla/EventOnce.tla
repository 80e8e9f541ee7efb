------------------------------ MODULE EventOnce ------------------------------
(***************************************************************************)
(* What ingestion promises the sources of events, with nothing said of     *)
(* rows, keys, locks and statements: an event takes effect at most once,   *)
(* all at once, and every answer about it tells what it did that time      *)
(* (architecture.md 90-101).                                               *)
(***************************************************************************)
CONSTANTS Request, Event, Reply, None, NoReply

VARIABLES
  about,    \* the event of each request
  effect,   \* the request by which each event took effect
  reply,    \* the answers given
  books     \* all that an event may have an effect on

onceVars == <<about, effect, reply, books>>

OnceInit ==
  /\ about \in [Request -> Event]
  /\ effect = [e \in Event |-> None]
  /\ reply = [r \in Request |-> NoReply]

\* A first answer, with the effect it tells of.
TakeEffect(r) ==
  /\ effect[about[r]] = None
  /\ reply[r] = NoReply
  /\ effect' = [effect EXCEPT ![about[r]] = r]
  /\ reply'[r] \in Reply \ {NoReply}
  /\ reply' = [reply EXCEPT ![r] = reply'[r]]
  /\ UNCHANGED about

\* Any later one: the same answer, and no effect.
Repeat(r) ==
  /\ effect[about[r]] # None
  /\ reply[r] = NoReply
  /\ reply' = [reply EXCEPT ![r] = reply[effect[about[r]]]]
  /\ UNCHANGED <<about, effect, books>>

OnceNext == \E r \in Request : TakeEffect(r) \/ Repeat(r)

OnceSpec == OnceInit /\ [][OnceNext]_onceVars
=============================================================================
