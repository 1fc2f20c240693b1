---------------------------- MODULE AnomalyLoop ----------------------------
(***************************************************************************)
(* What the MAPE-K loop promises the robot: anomalies are handled one      *)
(* after another.  For each the loop settles on one mask, tells the robot  *)
(* the turns for that mask and nothing else, and only then is ready for    *)
(* the next one.  An anomaly may be lost on the way, by a mask without a   *)
(* plan or by a node that stops; then the loop does nothing any more.      *)
(***************************************************************************)
CONSTANTS
  Plans,        \* what the robot is to do for a mask: a function of the masks
  NoPlan,       \* what it has for a mask without a plan
  NoMask        \* no mask was settled on yet

VARIABLES
  phase,        \* "quiet" | "raised" | "settled" | "told" | "lost"
  target,       \* the mask settled on last
  robot         \* what the robot was told last

vars == <<phase, target, robot>>

Init ==
  /\ phase = "quiet"
  /\ target = NoMask
  /\ robot = NoPlan

Raise ==
  /\ phase = "quiet"
  /\ phase' = "raised"
  /\ UNCHANGED <<target, robot>>

\* The mask need not be the one that raised the anomaly.
Settle ==
  /\ phase = "raised"
  /\ target' # NoMask /\ target' \in DOMAIN Plans
  /\ phase' = IF Plans[target'] = NoPlan THEN "lost" ELSE "settled"
  /\ UNCHANGED robot

Tell ==
  /\ phase = "settled"
  /\ phase' = "told"
  /\ robot' = Plans[target]
  /\ UNCHANGED target

Finish ==
  /\ phase = "told"
  /\ phase' = "quiet"
  /\ UNCHANGED <<target, robot>>

Lose ==
  /\ phase \in {"raised", "settled", "told"}
  /\ phase' = "lost"
  /\ UNCHANGED <<target, robot>>

Next == Raise \/ Settle \/ Tell \/ Finish \/ Lose

Spec == Init /\ [][Next]_vars

=============================================================================
