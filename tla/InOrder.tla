------------------------------ MODULE InOrder ------------------------------
(***************************************************************************)
(* What a process that reads from and publishes to an MQTT broker promises *)
(* of every topic: the messages sent from the opening on come out in       *)
(* order.  A message may come out again or be lost on the way, but none    *)
(* comes out before the one before it, unless that one is lost.  Only a    *)
(* broker that forgets breaks the promise.                                 *)
(***************************************************************************)
EXTENDS Naturals, Sequences

CONSTANTS
  Topics,
  Outlets,      \* the topics whose messages come out
  Tags          \* the numbers of the messages on a topic, from 1 on

VARIABLES
  count,        \* messages sent on a topic
  open,         \* the broker sends to the process
  base,         \* messages sent on a topic when it was opened
  out,          \* the messages that came out
  lost,         \* the messages of a topic that nobody took
  forgotten     \* the broker has forgotten who listens

vars == <<count, open, base, out, lost, forgotten>>

Init ==
  /\ count = [v \in Topics |-> 0]
  /\ open = FALSE
  /\ base = [v \in Topics |-> 0]
  /\ out = [v \in Outlets |-> <<>>]
  /\ lost = [v \in Topics |-> {}]
  /\ forgotten = FALSE

Send(v) ==
  /\ count' = [count EXCEPT ![v] = @ + 1]
  /\ UNCHANGED <<open, base, out, lost, forgotten>>

Open ==
  /\ ~open
  /\ open' = TRUE
  /\ base' = count
  /\ UNCHANGED <<count, out, lost, forgotten>>

\* Message k was sent since the opening.  It is due when it is the first, or
\* the one before it came out or is lost.
Sent(v, k) == base[v] < k /\ k <= count[v]
Due(v, k) ==
  \/ k = base[v] + 1
  \/ k - 1 \in lost[v]
  \/ \E i \in DOMAIN out[v] : out[v][i] = k - 1

Deliver(v, k) ==
  /\ open
  /\ forgotten \/ (Sent(v, k) /\ Due(v, k))
  /\ out' = [out EXCEPT ![v] = Append(@, k)]
  /\ UNCHANGED <<count, open, base, lost, forgotten>>

\* What one connection holds of all topics may be lost together.
Lose ==
  /\ open
  /\ lost' \in [Topics -> SUBSET Tags]
  /\ \A v \in Topics :
       /\ lost[v] \subseteq lost'[v]
       /\ forgotten \/ \A k \in lost'[v] \ lost[v] : Sent(v, k)
  /\ UNCHANGED <<count, open, base, out, forgotten>>

Forget ==
  /\ forgotten' = TRUE
  /\ UNCHANGED <<count, open, base, out, lost>>

Next ==
  \/ \E v \in Topics : Send(v)
  \/ Open
  \/ \E v \in Outlets, k \in Tags : Deliver(v, k)
  \/ Lose
  \/ Forget

Spec == Init /\ [][Next]_vars

=============================================================================
