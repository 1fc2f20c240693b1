------------------------------- MODULE MapleK -------------------------------
(***************************************************************************)
(* The MAPE-K loop of the robot: the nodes Monitor, Analysis, Plan,        *)
(* Execute and Legitimate of Realization/Nodes, which call each other only *)
(* by events and share the knowledge base.                                 *)
(*                                                                         *)
(* Events go through the broker: every node handles the events it          *)
(* subscribed to one at a time, in the order the broker published them.    *)
(* Every access to the knowledge base and every publish_event is a step    *)
(* of its own, since the nodes are processes of their own.                 *)
(*                                                                         *)
(* A lidar mask is the set of the occluded cells.  A cell is a direction   *)
(* in units of base_angle, 0 ahead of the robot, -HalfTurn behind it.      *)
(***************************************************************************)
EXTENDS Integers, Sequences, FiniteSets

CONSTANTS
  HalfTurn,       \* number of cells in half a turn
  Masks,          \* what the lidar can see: sets of occluded cells
  NoMask,         \* a key of the knowledge base that was never written
  Window,         \* SLIDING_WINDOW_SIZE
  Sensitivity,    \* REPLANNING_SENSITIVITY, in cells
  QueueBound,     \* bound: undelivered scans and new_data events
  MaxChanges,     \* bound: how often the surroundings change
  MaxRestarts,    \* bound: how often a container is restarted
  Restartable     \* the nodes whose containers may be restarted

Cells == (-HalfTurn)..(HalfTurn - 1)

Nodes == {"Monitor", "Analysis", "Plan", "Execute", "Legitimate"}

ASSUME MapleKAssumption ==
  /\ HalfTurn \in Nat \ {0}
  /\ Masks \subseteq SUBSET Cells
  /\ Masks # {}
  /\ \A mask \in SUBSET Cells : mask # NoMask
  /\ Window \in Nat \ {0}
  /\ Sensitivity \in Nat
  /\ QueueBound \in Nat
  /\ MaxChanges \in Nat
  /\ MaxRestarts \in Nat
  /\ Restartable \subseteq Nodes

VARIABLES
  world,        \* what surrounds the robot
  changes,      \* number of times it has changed
  restarts,     \* number of restarts so far
  scanQ,        \* /Scan events Monitor has not handled
  inbox,        \* number of events each other node has not handled
  pc,           \* control point of each node's handler
  laserScan,    \* knowledge: laser_scan
  lidarMask,    \* knowledge: lidar_mask
  plannedMask,  \* knowledge: planned_lidar_mask
  directions,   \* knowledge: directions
  handling,     \* knowledge: HandlingAnomalyData._anomaly
  window,       \* Analysis: the scans in the sliding window
  planMask,     \* Plan: lidar_mask as the handler read it
  toExecute,    \* Execute: directions as the handler read it
  executed,     \* the last message on /spin_config
  failed        \* the assertion of Plan has failed

varsWorld == <<world, changes, restarts>>
varsKnowledge == <<laserScan, lidarMask, plannedMask, directions, handling>>
varsLocal == <<window, planMask, toExecute>>
vars == <<varsWorld, scanQ, inbox, pc, varsKnowledge, varsLocal, executed,
          failed>>

NoDirections == [form |-> "none", turns |-> <<>>]

Init ==
  /\ world \in Masks
  /\ changes = 0
  /\ restarts = 0
  /\ scanQ = <<>>
  /\ inbox = [n \in Nodes |-> 0]
  /\ pc = [n \in Nodes |-> "idle"]
  /\ laserScan = NoMask
  /\ lidarMask = NoMask
  /\ plannedMask = NoMask
  /\ directions = NoDirections
  /\ handling = FALSE
  /\ window = <<>>
  /\ planMask = NoMask
  /\ toExecute = NoDirections
  /\ executed = NoDirections
  /\ failed = FALSE

-----------------------------------------------------------------------------
(* The computations of the nodes.                                          *)

\* sliding_prob_lidar_mask keeps the last Window scans.
Slide(w, scan) ==
  LET all == Append(w, scan) IN
  IF Len(all) > Window THEN Tail(all) ELSE all

\* With a window of three and OCCLUSION_THRESHOLD 0.3, one free scan makes a
\* cell free: a cell is occluded if every scan of the window says so.
AllOccluded(w) == {c \in Cells : \A i \in DOMAIN w : c \in w[i]}

\* An absent planned_lidar_mask counts as one without occlusions.
OrEmpty(mask) == IF mask = NoMask THEN {} ELSE mask

\* dist(): the cells in which the masks differ.
Difference(m1, m2) == (m1 \ m2) \cup (m2 \ m1)

NeedsReplanning(mask, planned) ==
  Cardinality(Difference(mask, OrEmpty(planned))) > Sensitivity

\* rotation_angles: the angle of each occluded cell, 0 for a free one.
Angles(mask) == mask \cup {0}
Leftmost(mask) == CHOOSE x \in Angles(mask) : \A z \in Angles(mask) : x <= z
Rightmost(mask) == CHOOSE y \in Angles(mask) : \A z \in Angles(mask) : z <= y

Magnitude(x) == IF x < 0 THEN -x ELSE x

Turns_GoesOn(mask) ==       \* fault: the second of three turns is not turned back
  LET x == Leftmost(mask)
      y == Rightmost(mask)
  IN IF x < 0 /\ 0 < y THEN <<y, y - x, -x>> ELSE <<x + y, -(x + y)>>

\* calculate_lidar_occlusion_rotation_angles: the turns to make in order, or
\* <<>> where its last case, assert False, is reached.
Turns(mask) ==
  LET x == Leftmost(mask)
      y == Rightmost(mask)
  IN CASE 0 <= x -> <<y, -y>>
       [] 0 > x /\ y <= 0 -> <<x, -x>>
       [] x < 0 /\ 0 < y /\ y - x > HalfTurn -> <<2 * HalfTurn>>
       [] x < 0 /\ 0 < y /\ y - x <= HalfTurn /\ Magnitude(x) > Magnitude(y)
            -> <<x, y - x, -y>>
       [] x < 0 /\ 0 < y /\ y - x <= HalfTurn /\ Magnitude(y) > Magnitude(x)
            -> <<y, x - y, -x>>
       [] OTHER -> <<>>

-----------------------------------------------------------------------------
(* The surroundings and the lidar, which publishes on /Scan.               *)

WorldChanges ==
  /\ changes < MaxChanges
  /\ changes' = changes + 1
  /\ world' \in Masks \ {world}
  /\ UNCHANGED <<restarts, scanQ, inbox, pc, varsKnowledge, varsLocal,
                 executed, failed>>

Scan ==
  /\ Len(scanQ) < QueueBound
  /\ scanQ' = Append(scanQ, world)
  /\ UNCHANGED <<varsWorld, inbox, pc, varsKnowledge, varsLocal, executed,
                 failed>>

-----------------------------------------------------------------------------
(* Control of the handlers.                                                *)

\* A node begins to handle its next event.
Begin(n, next) ==
  /\ pc[n] = "idle"
  /\ inbox[n] > 0
  /\ inbox' = [inbox EXCEPT ![n] = @ - 1]
  /\ pc' = [pc EXCEPT ![n] = next]

\* A handler goes on from one control point to the next.
Move(n, here, next) ==
  /\ pc[n] = here
  /\ pc' = [pc EXCEPT ![n] = next]

\* publish_event: the event reaches every subscriber in the same order.
Publish(subscribers) ==
  inbox' = [n \in Nodes |-> inbox[n] + IF n \in subscribers THEN 1 ELSE 0]

-----------------------------------------------------------------------------
(* Monitor: monitor_data, on /Scan.                                        *)

MonitorWrite ==
  /\ scanQ # <<>>
  /\ Move("Monitor", "idle", "publish")
  /\ scanQ' = Tail(scanQ)
  /\ laserScan' = Head(scanQ)
  /\ UNCHANGED <<varsWorld, inbox, lidarMask, plannedMask, directions,
                 handling, varsLocal, executed, failed>>

MonitorPublish ==
  /\ inbox["Analysis"] < QueueBound
  /\ Move("Monitor", "publish", "idle")
  /\ Publish({"Analysis"})
  /\ UNCHANGED <<varsWorld, scanQ, varsKnowledge, varsLocal, executed, failed>>

-----------------------------------------------------------------------------
(* Analysis: analyse_scan_data, on new_data.                               *)

AnalysisRead ==
  /\ Begin("Analysis", "write")
  /\ window' = Slide(window, laserScan)
  /\ UNCHANGED <<varsWorld, scanQ, varsKnowledge, planMask, toExecute,
                 executed, failed>>

AnalysisWrite ==
  /\ Move("Analysis", "write", "check")
  /\ lidarMask' = AllOccluded(window)
  /\ UNCHANGED <<varsWorld, scanQ, inbox, laserScan, plannedMask, directions,
                 handling, varsLocal, executed, failed>>

AnalysisCheck_Unguarded ==  \* fault: the anomaly being handled is ignored
  /\ Move("Analysis", "check", "compare")
  /\ UNCHANGED <<varsWorld, scanQ, inbox, varsKnowledge, varsLocal, executed,
                 failed>>

\* Return early while an anomaly is handled.
AnalysisCheck ==
  /\ Move("Analysis", "check", IF handling THEN "idle" ELSE "compare")
  /\ UNCHANGED <<varsWorld, scanQ, inbox, varsKnowledge, varsLocal, executed,
                 failed>>

\* The mask compared is the one this handler has computed.
AnalysisCompare ==
  /\ Move("Analysis", "compare",
          IF NeedsReplanning(AllOccluded(window), plannedMask)
          THEN "mark" ELSE "idle")
  /\ UNCHANGED <<varsWorld, scanQ, inbox, varsKnowledge, varsLocal, executed,
                 failed>>

AnalysisMark ==
  /\ Move("Analysis", "mark", "raise")
  /\ handling' = TRUE
  /\ UNCHANGED <<varsWorld, scanQ, inbox, laserScan, lidarMask, plannedMask,
                 directions, varsLocal, executed, failed>>

AnalysisRaise ==
  /\ Move("Analysis", "raise", "idle")
  /\ Publish({"Plan"})
  /\ UNCHANGED <<varsWorld, scanQ, varsKnowledge, varsLocal, executed, failed>>

-----------------------------------------------------------------------------
(* Plan: planner, on anomaly.                                              *)

\* A missing lidar_mask is an exception, which ends the handler.
PlanRead ==
  /\ Begin("Plan", IF lidarMask = NoMask THEN "idle" ELSE "record")
  /\ planMask' = lidarMask
  /\ UNCHANGED <<varsWorld, scanQ, varsKnowledge, window, toExecute, executed,
                 failed>>

\* The angles are computed right after planned_lidar_mask is written; a
\* failed assertion there ends the handler.
PlanRecord ==
  /\ Move("Plan", "record", IF Turns(planMask) = <<>> THEN "idle" ELSE "write")
  /\ plannedMask' = planMask
  /\ failed' = (failed \/ Turns(planMask) = <<>>)
  /\ UNCHANGED <<varsWorld, scanQ, inbox, laserScan, lidarMask, directions,
                 handling, varsLocal, executed>>

PlanWrite_Reread ==         \* fault: lidar_mask is read again for the angles
  /\ Move("Plan", "write", "publish")
  /\ directions' = [form |-> "list", turns |-> Turns(lidarMask)]
  /\ UNCHANGED <<varsWorld, scanQ, inbox, laserScan, lidarMask, plannedMask,
                 handling, varsLocal, executed, failed>>

PlanWrite ==
  /\ Move("Plan", "write", "publish")
  /\ directions' = [form |-> "list", turns |-> Turns(planMask)]
  /\ UNCHANGED <<varsWorld, scanQ, inbox, laserScan, lidarMask, plannedMask,
                 handling, varsLocal, executed, failed>>

PlanPublish ==
  /\ Move("Plan", "publish", "finish")
  /\ Publish({"Execute", "Legitimate"})
  /\ UNCHANGED <<varsWorld, scanQ, varsKnowledge, varsLocal, executed, failed>>

PlanFinish ==
  /\ Move("Plan", "finish", "idle")
  /\ directions' = [form |-> "commands", turns |-> Turns(planMask)]
  /\ UNCHANGED <<varsWorld, scanQ, inbox, laserScan, lidarMask, plannedMask,
                 handling, varsLocal, executed, failed>>

-----------------------------------------------------------------------------
(* Execute: executer, on new_plan.                                         *)

ExecuteRead_Releases ==     \* fault: the flag is reset once the plan is read
  /\ Begin("Execute", "publish")
  /\ toExecute' = directions
  /\ handling' = FALSE
  /\ UNCHANGED <<varsWorld, scanQ, laserScan, lidarMask, plannedMask, directions,
                 window, planMask, executed, failed>>

ExecuteRead ==
  /\ Begin("Execute", "publish")
  /\ toExecute' = directions
  /\ UNCHANGED <<varsWorld, scanQ, varsKnowledge, window, planMask, executed,
                 failed>>

ExecutePublish ==
  /\ Move("Execute", "publish", "reset")
  /\ executed' = toExecute
  /\ UNCHANGED <<varsWorld, scanQ, inbox, varsKnowledge, varsLocal, failed>>

ExecuteReset_Forgotten ==   \* fault: handling_anomaly is never reset
  /\ Move("Execute", "reset", "idle")
  /\ UNCHANGED <<varsWorld, scanQ, inbox, varsKnowledge, varsLocal, executed,
                 failed>>

ExecuteReset ==
  /\ Move("Execute", "reset", "idle")
  /\ handling' = FALSE
  /\ UNCHANGED <<varsWorld, scanQ, inbox, laserScan, lidarMask, plannedMask,
                 directions, varsLocal, executed, failed>>

-----------------------------------------------------------------------------
(* Legitimate: legitimate, on new_plan.  Nobody in the loop waits for the  *)
(* isLegit event it publishes.                                             *)

LegitimateBegin ==
  /\ Begin("Legitimate", "publish")
  /\ UNCHANGED <<varsWorld, scanQ, varsKnowledge, varsLocal, executed, failed>>

LegitimatePublish ==
  /\ Move("Legitimate", "publish", "idle")
  /\ UNCHANGED <<varsWorld, scanQ, inbox, varsKnowledge, varsLocal, executed,
                 failed>>

-----------------------------------------------------------------------------
(* A container is stopped and started again: the handler in progress, the  *)
(* events not yet handled and the node's own memory are lost.  The new     *)
(* Analysis starts by writing that no anomaly is being handled.            *)

Restart(n) ==
  /\ restarts < MaxRestarts
  /\ restarts' = restarts + 1
  /\ pc' = [pc EXCEPT ![n] = "idle"]
  /\ inbox' = [inbox EXCEPT ![n] = 0]
  /\ scanQ' = IF n = "Monitor" THEN <<>> ELSE scanQ
  /\ window' = IF n = "Analysis" THEN <<>> ELSE window
  /\ handling' = (handling /\ n # "Analysis")
  /\ UNCHANGED <<world, changes, laserScan, lidarMask, plannedMask, directions,
                 planMask, toExecute, executed, failed>>

-----------------------------------------------------------------------------
(* The specification.                                                      *)

MonitorStep == MonitorWrite \/ MonitorPublish

AnalysisStep ==
  \/ AnalysisRead \/ AnalysisWrite \/ AnalysisCheck \/ AnalysisCompare
  \/ AnalysisMark \/ AnalysisRaise

PlanStep == PlanRead \/ PlanRecord \/ PlanWrite \/ PlanPublish \/ PlanFinish

ExecuteStep == ExecuteRead \/ ExecutePublish \/ ExecuteReset

LegitimateStep == LegitimateBegin \/ LegitimatePublish

Next ==
  \/ WorldChanges
  \/ Scan
  \/ MonitorStep
  \/ AnalysisStep
  \/ PlanStep
  \/ ExecuteStep
  \/ LegitimateStep
  \/ \E n \in Restartable : Restart(n)

Spec == Init /\ [][Next]_vars

\* The lidar keeps scanning and every process is scheduled: the nodes are
\* separate processes whose handlers contain no wait but bounded sleeps.
Fairness ==
  /\ WF_vars(Scan)
  /\ WF_vars(MonitorStep)
  /\ WF_vars(AnalysisStep)
  /\ WF_vars(PlanStep)
  /\ WF_vars(ExecuteStep)
  /\ WF_vars(LegitimateStep)

FairSpec == Spec /\ Fairness

-----------------------------------------------------------------------------
(* Properties.                                                             *)

Angle == (-2 * HalfTurn)..(2 * HalfTurn)

Direction ==
  [form : {"none", "list", "commands"}, turns : Seq(Angle)]

KnownMask == {NoMask} \cup SUBSET Cells

Labels ==
  [Monitor |-> {"idle", "publish"},
   Analysis |-> {"idle", "write", "check", "compare", "mark", "raise"},
   Plan |-> {"idle", "record", "write", "publish", "finish"},
   Execute |-> {"idle", "publish", "reset"},
   Legitimate |-> {"idle", "publish"}]

\* Every variable has its type; in particular the window of Analysis never
\* outgrows SLIDING_WINDOW_SIZE although scans are appended for ever.
TypeOK ==
  /\ world \in Masks
  /\ changes \in 0..MaxChanges
  /\ restarts \in 0..MaxRestarts
  /\ scanQ \in Seq(Masks)
  /\ inbox \in [Nodes -> Nat]
  /\ pc \in [Nodes -> UNION {Labels[n] : n \in Nodes}]
  /\ \A n \in Nodes : pc[n] \in Labels[n]
  /\ laserScan \in KnownMask
  /\ lidarMask \in KnownMask
  /\ plannedMask \in KnownMask
  /\ planMask \in KnownMask
  /\ window \in Seq(SUBSET Cells)
  /\ Len(window) <= Window
  /\ handling \in BOOLEAN
  /\ failed \in BOOLEAN
  /\ directions \in Direction
  /\ toExecute \in Direction
  /\ executed \in Direction

\* The number of anomalies between the decision to publish one and the end
\* of its execution.
InFlight ==
  (IF pc["Analysis"] = "raise" THEN 1 ELSE 0)
  + inbox["Plan"]
  + (IF pc["Plan"] \in {"record", "write", "publish"} THEN 1 ELSE 0)
  + inbox["Execute"]
  + (IF pc["Execute"] \in {"publish", "reset"} THEN 1 ELSE 0)

\* "We should not try and handle two anomalies at once!": the flag in the
\* knowledge base, read and written in separate steps by two processes,
\* keeps a second anomaly out of the loop until the first plan was sent.
OneAnomalyAtATime == InFlight <= 1

\* The same, as long as the container of Analysis is not restarted: any
\* other node may be.
OneAnomaly == "Analysis" \notin Restartable => OneAnomalyAtATime

\* Analysis takes planned_lidar_mask for what the robot was told to do:
\* whenever no anomaly is being handled, the last commands on /spin_config
\* are those computed from that mask, and not those of an older or a newer
\* plan read in between.
RobotFollowsPlan ==
  "Analysis" \notin Restartable /\ ~handling /\ plannedMask # NoMask
    => executed.turns = Turns(plannedMask)

\* The flag is set, but no event and no handler carries its anomaly.
LostAnomaly == handling /\ InFlight = 0

\* Nothing but a restart, of Plan or Execute in the middle of an anomaly, and
\* the failed assertion of Plan lose an anomaly; and unless the container of
\* Analysis is restarted a lost one blocks the loop for good: the flag stays
\* set, nothing is planned and nothing is sent to the robot any more.
LostForGood ==
  [][ "Analysis" \notin Restartable =>
        /\ LostAnomaly => LostAnomaly' /\ UNCHANGED <<plannedMask, executed>>
        /\ ~LostAnomaly /\ LostAnomaly' =>
             restarts' # restarts \/ (pc["Plan"] = "record" /\ failed') ]_vars

\* Where the anomaly is: its carriers in the order in which it passes them.
Phase ==
  CASE ~handling -> "quiet"
    [] handling /\ (pc["Analysis"] = "raise" \/ inbox["Plan"] > 0 \/ pc["Plan"] = "record")
         -> "raised"
    [] handling /\ (pc["Plan"] \in {"write", "publish"} \/ inbox["Execute"] > 0
                      \/ pc["Execute"] = "publish") -> "settled"
    [] handling /\ pc["Execute"] = "reset" -> "told"
    [] OTHER -> "lost"

Loop == INSTANCE AnomalyLoop WITH
  Plans <- [mask \in SUBSET Cells |-> Turns(mask)],
  NoPlan <- <<>>,
  phase <- Phase,
  target <- plannedMask,
  robot <- executed.turns

\* Unless the container of Analysis is restarted the nodes together behave as
\* AnomalyLoop, whose phases no event, no read of the knowledge base and no
\* restart of another container can mix up: what Execute reads is the plan for
\* the mask Plan recorded, and a lost anomaly is the last one.
ImplementsLoop == Loop!Spec

\* The exception of the planner for a missing lidar_mask is never raised,
\* whichever containers are restarted.
PlanFindsMask == inbox["Plan"] > 0 => lidarMask # NoMask

\* The headings, relative to its own, a robot has after each turn of a plan.
Headings(turns) ==
  {CASE k = 1 -> turns[1]
     [] k = 2 -> turns[1] + turns[2]
     [] k = 3 -> turns[1] + turns[2] + turns[3] : k \in DOMAIN turns}

\* The turns take the robot to the outermost occlusion on each side and back,
\* or all the way round.
Sweeps(turns, mask) ==
  \/ Headings(turns) = {2 * HalfTurn}
  \/ Headings(turns) = {Leftmost(mask), Rightmost(mask), 0}

\* "Return the two rotations necessary for occlusions on either side": a plan
\* sent to Execute turns the robot to the outermost occlusion of each side of
\* the recorded mask, or all the way round, and back to the heading it had.
PlanSweepsOcclusions ==
  pc["Plan"] = "publish" => Sweeps(directions.turns, plannedMask)

\* "case _: assert False": the cases before it cover every mask.
PlanNeverFails == ~failed

\* Once the surroundings stop changing, the loop comes to rest with the
\* robot following the plan for them: no plan is lost between the nodes, no
\* anomaly is handled for ever and none is raised again and again.  A planner
\* that failed, or a container stopped with the flag set, is not recovered.
Converges ==
  [](restarts = 0 /\ ~failed) =>
    \E mask \in Masks :
      <>[](/\ world = mask
           /\ ~handling
           /\ OrEmpty(plannedMask) = mask
           /\ plannedMask # NoMask => executed.turns = Turns(mask))
=============================================================================
