-------------------------- MODULE BroadcastStream --------------------------
(***************************************************************************)
(* What a variable manager promises to the readers of its variable: every  *)
(* reader sees the values published after it joined, each once and in      *)
(* order, no reader falls more than Window values behind the source, and a *)
(* stream ends early only after the source was closed.                     *)
(***************************************************************************)
EXTENDS Integers, Sequences

CONSTANTS Values,    \* number of values the source publishes
          Readers,
          Window     \* values buffered for a reader

VARIABLES published,   \* number of values published
          closing,     \* the source was closed before its end
          status,      \* "none" | "open" | "ended" | "left"
          from,        \* published when the reader joined
          got          \* what the reader has received

vars == <<published, closing, status, from, got>>

Init ==
  /\ published = 0
  /\ closing = FALSE
  /\ status = [r \in Readers |-> "none"]
  /\ from = [r \in Readers |-> 0]
  /\ got = [r \in Readers |-> <<>>]

Open(r) == status[r] = "open"
Awaited(r) == from[r] + Len(got[r]) + 1        \* the value r waits for

Join(r) ==
  /\ status[r] = "none"
  /\ status' = [status EXCEPT ![r] = "open"]
  /\ from' = [from EXCEPT ![r] = published]
  /\ UNCHANGED <<published, closing, got>>

\* The slowest reader holds up the source once its window is full.
Publish ==
  /\ published < Values
  /\ \A r \in Readers : Open(r) => published < Awaited(r) + Window
  /\ published' = published + 1
  /\ UNCHANGED <<closing, status, from, got>>

Deliver(r) ==
  /\ Open(r)
  /\ Awaited(r) <= published
  /\ got' = [got EXCEPT ![r] = Append(@, Awaited(r))]
  /\ UNCHANGED <<published, closing, status, from>>

\* A sole reader may be connected to the source itself.
Forward(r) ==
  /\ Open(r)
  /\ \A q \in Readers \ {r} : ~Open(q)
  /\ Awaited(r) = published + 1
  /\ published < Values
  /\ published' = published + 1
  /\ got' = [got EXCEPT ![r] = Append(@, Awaited(r))]
  /\ UNCHANGED <<closing, status, from>>

End(r) ==
  /\ Open(r)
  /\ closing \/ Awaited(r) = Values + 1
  /\ status' = [status EXCEPT ![r] = "ended"]
  /\ UNCHANGED <<published, closing, from, got>>

Leave(r) ==
  /\ Open(r)
  /\ status' = [status EXCEPT ![r] = "left"]
  /\ UNCHANGED <<published, closing, from, got>>

Close ==
  /\ closing' = TRUE
  /\ UNCHANGED <<published, status, from, got>>

Next ==
  \/ \E r \in Readers : Join(r) \/ Deliver(r) \/ Forward(r) \/ End(r) \/ Leave(r)
  \/ Publish
  \/ Close

Spec == Init /\ [][Next]_vars

=============================================================================
