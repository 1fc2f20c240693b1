---------------------------- MODULE MapleProofs ----------------------------
(***************************************************************************)
(* Proofs about MapleK and MapleTrust, for every resolution of the lidar,  *)
(* every set of masks, every window and sensitivity, every timing of the   *)
(* nodes, and any number of scans, changes of the surroundings, restarts   *)
(* and events on their way.  The first part is about the loop alone, the   *)
(* last about the Trustworthiness node and the monitor that watch it.      *)
(***************************************************************************)
EXTENDS MapleTrust, FiniteSetTheorems, SequenceTheorems, WellFoundedInduction, TLAPS

-----------------------------------------------------------------------------
(* The turns of a plan.                                                    *)

\* A non-empty set of naturals has a least element.
LEMMA LeastNatural ==
  ASSUME NEW T, T \subseteq Nat, T # {}
  PROVE  \E m \in T : \A k \in T : m <= k
<1>1. PICK m \in T : \A k \in T : ~(<<k, m>> \in OpToRel(<, Nat))
  BY WFMin, NatLessThanWellFounded, Zenon
<1>2. \A k \in T : ~(k < m)
  BY <1>1, Zenon DEF OpToRel
<1> QED
  BY <1>2

\* An occluded set has a leftmost and a rightmost angle; both are angles of
\* the mask or 0.
LEMMA LeftmostIsLeast ==
  ASSUME NEW mask \in SUBSET Cells
  PROVE  Leftmost(mask) \in Angles(mask) /\ \A z \in Angles(mask) : Leftmost(mask) <= z
<1> DEFINE T == {z + HalfTurn : z \in Angles(mask)}
<1>1. HalfTurn \in Nat \ {0} /\ Angles(mask) \subseteq Cells /\ Angles(mask) # {}
  BY MapleKAssumption DEF Angles, Cells
<1>2. T \subseteq Nat /\ T # {}
  BY <1>1 DEF Cells
<1> HIDE DEF T
<1>3. PICK m \in T : \A k \in T : m <= k
  BY <1>2, LeastNatural
<1>4. \E x \in Angles(mask) : \A z \in Angles(mask) : x <= z
  <2>1. PICK x \in Angles(mask) : m = x + HalfTurn
    BY <1>3 DEF T
  <2>2. \A z \in Angles(mask) : x + HalfTurn <= z + HalfTurn
    BY <1>3, <2>1 DEF T
  <2> QED
    BY <2>2, <1>1 DEF Cells
<1> QED
  BY <1>4 DEF Leftmost

LEMMA RightmostIsGreatest ==
  ASSUME NEW mask \in SUBSET Cells
  PROVE  Rightmost(mask) \in Angles(mask) /\ \A z \in Angles(mask) : z <= Rightmost(mask)
<1> DEFINE T == {HalfTurn - z : z \in Angles(mask)}
<1>1. HalfTurn \in Nat \ {0} /\ Angles(mask) \subseteq Cells /\ Angles(mask) # {}
  BY MapleKAssumption DEF Angles, Cells
<1>2. T \subseteq Nat /\ T # {}
  BY <1>1 DEF Cells
<1> HIDE DEF T
<1>3. PICK m \in T : \A k \in T : m <= k
  BY <1>2, LeastNatural
<1>4. \E x \in Angles(mask) : \A z \in Angles(mask) : z <= x
  <2>1. PICK x \in Angles(mask) : m = HalfTurn - x
    BY <1>3 DEF T
  <2>2. \A z \in Angles(mask) : HalfTurn - x <= HalfTurn - z
    BY <1>3, <2>1 DEF T
  <2> QED
    BY <2>2, <1>1 DEF Cells
<1> QED
  BY <1>4 DEF Rightmost

\* The extremes enclose 0 and lie within half a turn.
LEMMA Extremes ==
  ASSUME NEW mask \in SUBSET Cells
  PROVE  /\ Leftmost(mask) \in Int /\ Rightmost(mask) \in Int
         /\ -HalfTurn <= Leftmost(mask) /\ Leftmost(mask) <= 0
         /\ 0 <= Rightmost(mask) /\ Rightmost(mask) < HalfTurn
<1>1. HalfTurn \in Nat \ {0}
  BY MapleKAssumption
<1>2. 0 \in Angles(mask) /\ Angles(mask) \subseteq Cells
  BY <1>1 DEF Angles, Cells
<1>3. Leftmost(mask) \in Cells /\ Leftmost(mask) <= 0
  BY <1>2, LeftmostIsLeast
<1>4. Rightmost(mask) \in Cells /\ 0 <= Rightmost(mask)
  BY <1>2, RightmostIsGreatest
<1> QED
  BY <1>1, <1>3, <1>4 DEF Cells

\* A plan is one, two or three turns of at most a full one.
LEMMA TurnsType ==
  ASSUME NEW mask \in SUBSET Cells
  PROVE  Turns(mask) \in Seq(Angle)
<1> DEFINE x == Leftmost(mask)
           y == Rightmost(mask)
<1>1. /\ x \in Int /\ y \in Int /\ -HalfTurn <= x /\ x <= 0 /\ 0 <= y /\ y < HalfTurn
      /\ HalfTurn \in Nat \ {0}
  BY Extremes, MapleKAssumption
<1>2. /\ x \in Angle /\ y \in Angle /\ -x \in Angle /\ -y \in Angle
      /\ 2 * HalfTurn \in Angle /\ y - x \in Angle /\ x - y \in Angle
  BY <1>1 DEF Angle
<1>3. \A z \in {x, y} : Magnitude(z) \in Nat
  BY <1>1 DEF Magnitude
<1> HIDE DEF x, y
<1>4. /\ \A a \in Angle : <<a>> \in Seq(Angle)
      /\ \A a, b \in Angle : <<a, b>> \in Seq(Angle)
      /\ \A a, b, c \in Angle : <<a, b, c>> \in Seq(Angle)
      /\ <<>> \in Seq(Angle)
  OBVIOUS
<1> QED
  BY <1>1, <1>2, <1>3, <1>4 DEF Turns, x, y

\* The planner fails exactly on the masks whose outermost occlusions on the
\* two sides are at the same angle, at most a quarter turn from ahead.
THEOREM PlanFailsOnSymmetry ==
  ASSUME NEW mask \in SUBSET Cells
  PROVE  Turns(mask) = <<>> <=> /\ Rightmost(mask) > 0
                                /\ Leftmost(mask) = -Rightmost(mask)
                                /\ 2 * Rightmost(mask) <= HalfTurn
<1> DEFINE x == Leftmost(mask)
           y == Rightmost(mask)
<1>1. /\ x \in Int /\ y \in Int /\ -HalfTurn <= x /\ x <= 0 /\ 0 <= y /\ y < HalfTurn
      /\ HalfTurn \in Nat \ {0}
  BY Extremes, MapleKAssumption
<1>2. Magnitude(x) = -x /\ Magnitude(y) = y
  BY <1>1 DEF Magnitude
<1> HIDE DEF x, y
<1>3. \A a, b, c : <<a>> # <<>> /\ <<a, b>> # <<>> /\ <<a, b, c>> # <<>>
  OBVIOUS
<1>4. CASE y > 0 /\ x = -y /\ 2 * y <= HalfTurn
  BY <1>1, <1>2, <1>4 DEF Turns, x, y
<1>5. CASE ~(y > 0 /\ x = -y /\ 2 * y <= HalfTurn)
  BY <1>1, <1>2, <1>3, <1>5 DEF Turns, x, y
<1> QED
  BY <1>4, <1>5 DEF x, y

-----------------------------------------------------------------------------
(* Types, with what the knowledge base is known to hold: a scan before the *)
(* first new_data, a lidar_mask before the first anomaly.                  *)

KnowledgeInv ==
  /\ pc["Monitor"] = "publish" => laserScan # NoMask
  /\ inbox["Analysis"] > 0 => laserScan # NoMask
  /\ pc["Analysis"] \in {"check", "compare", "mark", "raise"} => lidarMask # NoMask
  /\ inbox["Plan"] > 0 => lidarMask # NoMask
  /\ pc["Plan"] # "idle" => planMask # NoMask

TypeInv == TypeOK /\ KnowledgeInv

LEMMA InitTypeInv == Init => TypeInv
<1> SUFFICES ASSUME Init PROVE TypeInv
  OBVIOUS
<1>1. \A S : <<>> \in Seq(S) /\ Len(<<>>) = 0
  BY EmptySeq
<1>2. NoDirections \in Direction
  BY <1>1 DEF NoDirections, Direction
<1>3. \A n \in Nodes : "idle" \in Labels[n]
  BY DEF Nodes, Labels
<1>4. pc \in [Nodes -> UNION {Labels[n] : n \in Nodes}] /\ \A n \in Nodes : pc[n] \in Labels[n]
  BY <1>3 DEF Init
<1>5. TypeOK
  <2>1. <<>> \in Seq(Masks) /\ <<>> \in Seq(SUBSET Cells) /\ Len(<<>>) <= Window
    BY <1>1, MapleKAssumption
  <2>2. 0 \in 0..MaxChanges /\ 0 \in 0..MaxRestarts
    BY MapleKAssumption
  <2>3. inbox \in [Nodes -> Nat]
    BY DEF Init
  <2> QED
    BY <1>2, <1>4, <2>1, <2>2, <2>3 DEF Init, TypeOK, KnownMask
<1>6. KnowledgeInv
  BY DEF Init, KnowledgeInv, Nodes
<1> QED
  BY <1>5, <1>6 DEF TypeInv

\* The steps of the surroundings and of Monitor.
LEMMA WorldTypeInv ==
  ASSUME TypeInv, WorldChanges \/ Scan
  PROVE  TypeInv'
<1> USE DEF varsWorld, varsKnowledge, varsLocal
<1>1. CASE WorldChanges
  <2>1. TypeOK'
    BY <1>1, MapleKAssumption DEF WorldChanges, TypeInv, TypeOK
  <2>2. KnowledgeInv'
    BY <1>1 DEF WorldChanges, TypeInv, KnowledgeInv
  <2> QED
    BY <2>1, <2>2 DEF TypeInv
<1>2. CASE Scan
  <2>1. TypeOK'
    BY <1>2, AppendProperties DEF Scan, TypeInv, TypeOK
  <2>2. KnowledgeInv'
    BY <1>2 DEF Scan, TypeInv, KnowledgeInv
  <2> QED
    BY <2>1, <2>2 DEF TypeInv
<1> QED
  BY <1>1, <1>2

LEMMA MonitorTypeInv ==
  ASSUME TypeInv, MonitorStep
  PROVE  TypeInv'
<1> USE DEF varsWorld, varsKnowledge, varsLocal
<1>1. CASE MonitorWrite
  <2>1. Head(scanQ) \in KnownMask /\ Head(scanQ) # NoMask /\ Tail(scanQ) \in Seq(Masks)
    BY <1>1, HeadTailProperties, MapleKAssumption
      DEF MonitorWrite, TypeInv, TypeOK, KnownMask
  <2>2. TypeOK'
    BY <1>1, <2>1 DEF MonitorWrite, Move, TypeInv, TypeOK, Nodes, Labels
  <2>3. KnowledgeInv'
    BY <1>1, <2>1 DEF MonitorWrite, Move, TypeInv, TypeOK, KnowledgeInv, Nodes
  <2> QED
    BY <2>2, <2>3 DEF TypeInv
<1>2. CASE MonitorPublish
  <2>1. TypeOK'
    BY <1>2 DEF MonitorPublish, Move, Publish, TypeInv, TypeOK, Nodes, Labels
  <2>2. KnowledgeInv'
    BY <1>2 DEF MonitorPublish, Move, Publish, TypeInv, TypeOK, KnowledgeInv, Nodes
  <2> QED
    BY <2>1, <2>2 DEF TypeInv
<1> QED
  BY <1>1, <1>2 DEF MonitorStep

\* Analysis: the window keeps its size, the mask is a mask.
LEMMA SlideType ==
  ASSUME NEW w \in Seq(SUBSET Cells), Len(w) <= Window, NEW scan \in SUBSET Cells
  PROVE  Slide(w, scan) \in Seq(SUBSET Cells) /\ Len(Slide(w, scan)) <= Window
<1>1. Append(w, scan) \in Seq(SUBSET Cells) /\ Len(Append(w, scan)) = Len(w) + 1
  BY AppendProperties
<1>2. Append(w, scan) # <<>> /\ Len(w) \in Nat
  BY <1>1, LenProperties, EmptySeq
<1>3. /\ Tail(Append(w, scan)) \in Seq(SUBSET Cells)
      /\ Len(Tail(Append(w, scan))) = Len(w)
  BY <1>1, <1>2, HeadTailProperties
<1> QED
  BY <1>1, <1>2, <1>3, MapleKAssumption DEF Slide

LEMMA AnalysisTypeInv ==
  ASSUME TypeInv, AnalysisStep
  PROVE  TypeInv'
<1> USE DEF varsWorld, varsKnowledge, varsLocal
<1>1. CASE AnalysisRead
  <2>1. laserScan \in SUBSET Cells
    BY <1>1 DEF AnalysisRead, Begin, TypeInv, TypeOK, KnowledgeInv, KnownMask
  <2>2. window' \in Seq(SUBSET Cells) /\ Len(window') <= Window
    BY <1>1, <2>1, SlideType DEF AnalysisRead, TypeInv, TypeOK
  <2>3. TypeOK'
    BY <1>1, <2>2 DEF AnalysisRead, Begin, TypeInv, TypeOK, Nodes, Labels
  <2>4. KnowledgeInv'
    BY <1>1, <2>2 DEF AnalysisRead, Begin, TypeInv, TypeOK, KnowledgeInv, Nodes
  <2> QED
    BY <2>3, <2>4 DEF TypeInv
<1>2. CASE AnalysisWrite
  <2>1. lidarMask' \in KnownMask /\ lidarMask' # NoMask
    <3>1. AllOccluded(window) \in SUBSET Cells
      BY DEF AllOccluded
    <3> QED
      BY <1>2, <3>1, MapleKAssumption DEF AnalysisWrite, KnownMask
  <2>2. TypeOK'
    BY <1>2, <2>1 DEF AnalysisWrite, Move, TypeInv, TypeOK, Nodes, Labels
  <2>3. KnowledgeInv'
    BY <1>2, <2>1 DEF AnalysisWrite, Move, TypeInv, TypeOK, KnowledgeInv, Nodes
  <2> QED
    BY <2>2, <2>3 DEF TypeInv
<1>3. CASE AnalysisCheck
  <2>1. TypeOK'
    BY <1>3 DEF AnalysisCheck, Move, TypeInv, TypeOK, Nodes, Labels
  <2>2. KnowledgeInv'
    BY <1>3 DEF AnalysisCheck, Move, TypeInv, TypeOK, KnowledgeInv, Nodes
  <2> QED
    BY <2>1, <2>2 DEF TypeInv
<1>4. CASE AnalysisCompare
  <2>1. TypeOK'
    BY <1>4 DEF AnalysisCompare, Move, TypeInv, TypeOK, Nodes, Labels
  <2>2. KnowledgeInv'
    BY <1>4 DEF AnalysisCompare, Move, TypeInv, TypeOK, KnowledgeInv, Nodes
  <2> QED
    BY <2>1, <2>2 DEF TypeInv
<1>5. CASE AnalysisMark
  <2>1. TypeOK'
    BY <1>5 DEF AnalysisMark, Move, TypeInv, TypeOK, Nodes, Labels
  <2>2. KnowledgeInv'
    BY <1>5 DEF AnalysisMark, Move, TypeInv, TypeOK, KnowledgeInv, Nodes
  <2> QED
    BY <2>1, <2>2 DEF TypeInv
<1>6. CASE AnalysisRaise
  <2>1. TypeOK'
    BY <1>6 DEF AnalysisRaise, Move, Publish, TypeInv, TypeOK, Nodes, Labels
  <2>2. KnowledgeInv'
    BY <1>6 DEF AnalysisRaise, Move, Publish, TypeInv, TypeOK, KnowledgeInv, Nodes
  <2> QED
    BY <2>1, <2>2 DEF TypeInv
<1> QED
  BY <1>1, <1>2, <1>3, <1>4, <1>5, <1>6 DEF AnalysisStep

\* Plan: what it writes are turns.
LEMMA PlanTypeInv ==
  ASSUME TypeInv, PlanStep
  PROVE  TypeInv'
<1> USE DEF varsWorld, varsKnowledge, varsLocal
<1>0. pc["Plan"] # "idle" => Turns(planMask) \in Seq(Angle)
  BY TurnsType DEF TypeInv, TypeOK, KnowledgeInv, KnownMask
<1>1. CASE PlanRead
  <2>1. TypeOK'
    BY <1>1 DEF PlanRead, Begin, TypeInv, TypeOK, Nodes, Labels
  <2>2. KnowledgeInv'
    BY <1>1 DEF PlanRead, Begin, TypeInv, TypeOK, KnowledgeInv, Nodes
  <2> QED
    BY <2>1, <2>2 DEF TypeInv
<1>2. CASE PlanRecord
  <2>1. TypeOK'
    BY <1>2 DEF PlanRecord, Move, TypeInv, TypeOK, Nodes, Labels
  <2>2. KnowledgeInv'
    BY <1>2 DEF PlanRecord, Move, TypeInv, TypeOK, KnowledgeInv, Nodes
  <2> QED
    BY <2>1, <2>2 DEF TypeInv
<1>3. CASE PlanWrite
  <2>1. directions' \in Direction
    BY <1>0, <1>3 DEF PlanWrite, Move, Direction
  <2>2. TypeOK'
    BY <1>3, <2>1 DEF PlanWrite, Move, TypeInv, TypeOK, Nodes, Labels
  <2>3. KnowledgeInv'
    BY <1>3 DEF PlanWrite, Move, TypeInv, TypeOK, KnowledgeInv, Nodes
  <2> QED
    BY <2>2, <2>3 DEF TypeInv
<1>4. CASE PlanPublish
  <2>1. TypeOK'
    BY <1>4 DEF PlanPublish, Move, Publish, TypeInv, TypeOK, Nodes, Labels
  <2>2. KnowledgeInv'
    BY <1>4 DEF PlanPublish, Move, Publish, TypeInv, TypeOK, KnowledgeInv, Nodes
  <2> QED
    BY <2>1, <2>2 DEF TypeInv
<1>5. CASE PlanFinish
  <2>1. directions' \in Direction
    BY <1>0, <1>5 DEF PlanFinish, Move, Direction
  <2>2. TypeOK'
    BY <1>5, <2>1 DEF PlanFinish, Move, TypeInv, TypeOK, Nodes, Labels
  <2>3. KnowledgeInv'
    BY <1>5 DEF PlanFinish, Move, TypeInv, TypeOK, KnowledgeInv, Nodes
  <2> QED
    BY <2>2, <2>3 DEF TypeInv
<1> QED
  BY <1>1, <1>2, <1>3, <1>4, <1>5 DEF PlanStep

LEMMA ExecuteTypeInv ==
  ASSUME TypeInv, ExecuteStep
  PROVE  TypeInv'
<1> USE DEF varsWorld, varsKnowledge, varsLocal
<1>1. CASE ExecuteRead
  <2>1. TypeOK'
    BY <1>1 DEF ExecuteRead, Begin, TypeInv, TypeOK, Nodes, Labels
  <2>2. KnowledgeInv'
    BY <1>1 DEF ExecuteRead, Begin, TypeInv, TypeOK, KnowledgeInv, Nodes
  <2> QED
    BY <2>1, <2>2 DEF TypeInv
<1>2. CASE ExecutePublish
  <2>1. TypeOK'
    BY <1>2 DEF ExecutePublish, Move, TypeInv, TypeOK, Nodes, Labels
  <2>2. KnowledgeInv'
    BY <1>2 DEF ExecutePublish, Move, TypeInv, TypeOK, KnowledgeInv, Nodes
  <2> QED
    BY <2>1, <2>2 DEF TypeInv
<1>3. CASE ExecuteReset
  <2>1. /\ pc' \in [Nodes -> UNION {Labels[n] : n \in Nodes}]
        /\ \A n \in Nodes : pc'[n] \in Labels[n]
    BY <1>3 DEF ExecuteReset, Move, TypeInv, TypeOK, Nodes, Labels
  <2>2. TypeOK'
    BY <1>3, <2>1 DEF ExecuteReset, TypeInv, TypeOK
  <2>3. KnowledgeInv'
    BY <1>3 DEF ExecuteReset, Move, TypeInv, TypeOK, KnowledgeInv, Nodes
  <2> QED
    BY <2>2, <2>3 DEF TypeInv
<1> QED
  BY <1>1, <1>2, <1>3 DEF ExecuteStep

LEMMA LegitimateTypeInv ==
  ASSUME TypeInv, LegitimateStep
  PROVE  TypeInv'
<1> USE DEF varsWorld, varsKnowledge, varsLocal
<1>1. CASE LegitimateBegin
  <2>1. TypeOK'
    BY <1>1 DEF LegitimateBegin, Begin, TypeInv, TypeOK, Nodes, Labels
  <2>2. KnowledgeInv'
    BY <1>1 DEF LegitimateBegin, Begin, TypeInv, TypeOK, KnowledgeInv, Nodes
  <2> QED
    BY <2>1, <2>2 DEF TypeInv
<1>2. CASE LegitimatePublish
  <2>1. TypeOK'
    BY <1>2 DEF LegitimatePublish, Move, TypeInv, TypeOK, Nodes, Labels
  <2>2. KnowledgeInv'
    BY <1>2 DEF LegitimatePublish, Move, TypeInv, TypeOK, KnowledgeInv, Nodes
  <2> QED
    BY <2>1, <2>2 DEF TypeInv
<1> QED
  BY <1>1, <1>2 DEF LegitimateStep

LEMMA RestartTypeInv ==
  ASSUME TypeInv, NEW n \in Restartable, Restart(n)
  PROVE  TypeInv'
<1>1. n \in Nodes
  BY MapleKAssumption
<1>2. window' \in Seq(SUBSET Cells) /\ Len(window') <= Window /\ scanQ' \in Seq(Masks)
  BY EmptySeq, MapleKAssumption DEF Restart, TypeInv, TypeOK
<1>3. restarts' \in 0..MaxRestarts
  BY MapleKAssumption DEF Restart, TypeInv, TypeOK
<1>4. inbox' \in [Nodes -> Nat]
  BY DEF Restart, TypeInv, TypeOK
<1>5. /\ pc' \in [Nodes -> UNION {Labels[m] : m \in Nodes}]
      /\ \A m \in Nodes : pc'[m] \in Labels[m]
  <2>1. \A m \in Nodes : "idle" \in Labels[m]
    BY DEF Nodes, Labels
  <2> QED
    BY <1>1, <2>1 DEF Restart, TypeInv, TypeOK
<1>6. TypeOK'
  BY <1>2, <1>3, <1>4, <1>5 DEF Restart, TypeInv, TypeOK
<1>7. KnowledgeInv'
  BY <1>1 DEF Restart, TypeInv, TypeOK, KnowledgeInv, Nodes
<1> QED
  BY <1>6, <1>7 DEF TypeInv

\* Every step preserves the types.
LEMMA NextTypeInv == TypeInv /\ [Next]_vars => TypeInv'
<1> SUFFICES ASSUME TypeInv, [Next]_vars PROVE TypeInv'
  OBVIOUS
<1>1. CASE WorldChanges \/ Scan
  BY <1>1, WorldTypeInv
<1>2. CASE MonitorStep
  BY <1>2, MonitorTypeInv
<1>3. CASE AnalysisStep
  BY <1>3, AnalysisTypeInv
<1>4. CASE PlanStep
  BY <1>4, PlanTypeInv
<1>5. CASE ExecuteStep
  BY <1>5, ExecuteTypeInv
<1>6. CASE LegitimateStep
  BY <1>6, LegitimateTypeInv
<1>7. CASE \E n \in Restartable : Restart(n)
  BY <1>7, RestartTypeInv
<1>8. CASE UNCHANGED vars
  BY <1>8 DEF vars, varsWorld, varsKnowledge, varsLocal, TypeInv, TypeOK, KnowledgeInv
<1> QED
  BY <1>1, <1>2, <1>3, <1>4, <1>5, <1>6, <1>7, <1>8 DEF Next

\* Every variable keeps its type, whatever the sizes and whichever containers
\* are restarted: the window of Analysis never holds more than Window scans
\* and every message to the robot consists of turns of at most a full one.
THEOREM TypeCorrect == Spec => []TypeOK
<1>1. Spec => []TypeInv
  BY InitTypeInv, NextTypeInv, PTL DEF Spec
<1>2. TypeInv => TypeOK
  BY DEF TypeInv
<1> QED
  BY <1>1, <1>2, PTL

\* The planner never finds the knowledge base without a lidar_mask.
THEOREM PlanHasMask == Spec => []PlanFindsMask
<1>1. Spec => []TypeInv
  BY InitTypeInv, NextTypeInv, PTL DEF Spec
<1>2. TypeInv => PlanFindsMask
  BY DEF TypeInv, KnowledgeInv, PlanFindsMask
<1> QED
  BY <1>1, <1>2, PTL

-----------------------------------------------------------------------------
(* One anomaly at a time.  The flag handling is a lock taken in two steps   *)
(* (check, mark) by one process and released by another; what makes it     *)
(* safe is that only Analysis takes it and that it is released after the   *)
(* last step of the round, so the flag is false only when the loop is      *)
(* empty.  A new Analysis breaks it, as it releases a lock it does not own.*)

LoopInv ==
  "Analysis" \notin Restartable =>
    /\ InFlight <= 1
    /\ ~handling => InFlight = 0
    /\ pc["Analysis"] \in {"compare", "mark"} => ~handling

\* What the type invariant says of the terms InFlight consists of.
LEMMA Counters ==
  ASSUME TypeOK
  PROVE  inbox["Plan"] \in Nat /\ inbox["Execute"] \in Nat /\ handling \in BOOLEAN
BY DEF TypeOK, Nodes

LEMMA InitLoopInv == Init => LoopInv
BY DEF Init, LoopInv, InFlight, Nodes

LEMMA NextLoopInv ==
  ASSUME TypeInv, LoopInv, [Next]_vars
  PROVE  LoopInv'
<1> USE DEF varsWorld, varsKnowledge, varsLocal
<1> SUFFICES ASSUME "Analysis" \notin Restartable
             PROVE  /\ InFlight' <= 1
                    /\ ~handling' => InFlight' = 0
                    /\ pc'["Analysis"] \in {"compare", "mark"} => ~handling'
  BY DEF LoopInv
<1>0. /\ inbox["Plan"] \in Nat /\ inbox["Execute"] \in Nat /\ handling \in BOOLEAN
      /\ inbox \in [Nodes -> Nat] /\ DOMAIN pc = Nodes
      /\ "Plan" \in Nodes /\ "Execute" \in Nodes /\ "Analysis" \in Nodes
  BY Counters DEF TypeInv, TypeOK, Nodes
<1>h. /\ InFlight <= 1
      /\ ~handling => InFlight = 0
      /\ pc["Analysis"] \in {"compare", "mark"} => ~handling
  BY DEF LoopInv
<1>1. CASE WorldChanges \/ Scan
  BY <1>0, <1>h, <1>1 DEF WorldChanges, Scan, InFlight
<1>2. CASE MonitorStep
  BY <1>0, <1>h, <1>2 DEF MonitorStep, MonitorWrite, MonitorPublish, Move, Publish, InFlight
<1>3. CASE AnalysisRead
  BY <1>0, <1>h, <1>3 DEF AnalysisRead, Begin, InFlight
<1>4. CASE AnalysisWrite
  BY <1>0, <1>h, <1>4 DEF AnalysisWrite, Move, InFlight
<1>5. CASE AnalysisCheck
  BY <1>0, <1>h, <1>5 DEF AnalysisCheck, Move, InFlight
<1>6. CASE AnalysisCompare
  BY <1>0, <1>h, <1>6 DEF AnalysisCompare, Move, InFlight
<1>7. CASE AnalysisMark
  BY <1>0, <1>h, <1>7 DEF AnalysisMark, Move, InFlight
<1>8. CASE AnalysisRaise
  BY <1>0, <1>h, <1>8 DEF AnalysisRaise, Move, Publish, InFlight
<1>9. CASE PlanRead
  BY <1>0, <1>h, <1>9 DEF PlanRead, Begin, InFlight
<1>10. CASE PlanRecord
  BY <1>0, <1>h, <1>10 DEF PlanRecord, Move, InFlight
<1>11. CASE PlanWrite
  BY <1>0, <1>h, <1>11 DEF PlanWrite, Move, InFlight
<1>12. CASE PlanPublish
  BY <1>0, <1>h, <1>12 DEF PlanPublish, Move, Publish, InFlight
<1>13. CASE PlanFinish
  BY <1>0, <1>h, <1>13 DEF PlanFinish, Move, InFlight
<1>14. CASE ExecuteRead
  BY <1>0, <1>h, <1>14 DEF ExecuteRead, Begin, InFlight
<1>15. CASE ExecutePublish
  BY <1>0, <1>h, <1>15 DEF ExecutePublish, Move, InFlight
<1>16. CASE ExecuteReset
  BY <1>0, <1>h, <1>16 DEF ExecuteReset, Move, InFlight
<1>17. CASE LegitimateStep
  BY <1>0, <1>h, <1>17 DEF LegitimateStep, LegitimateBegin, LegitimatePublish, Begin, Move, InFlight
<1>18. CASE \E n \in Restartable : Restart(n)
  <2>1. PICK n \in Restartable : Restart(n)
    BY <1>18
  <2>2. n \in Nodes /\ n # "Analysis"
    BY MapleKAssumption
  <2> QED
    BY <1>0, <1>h, <2>1, <2>2 DEF Restart, InFlight
<1>19. CASE UNCHANGED vars
  BY <1>0, <1>h, <1>19 DEF vars, InFlight
<1> QED
  BY <1>1, <1>2, <1>3, <1>4, <1>5, <1>6, <1>7, <1>8, <1>9, <1>10, <1>11, <1>12, <1>13, <1>14, <1>15, <1>16, <1>17, <1>18, <1>19
    DEF Next, AnalysisStep, PlanStep, ExecuteStep

\* Unless the container of Analysis is restarted, the loop handles at most
\* one anomaly at a time, whatever the timing of the nodes, the masks and the
\* restarts of the other containers.
THEOREM OneAnomalyHolds == Spec => []OneAnomaly
<1>1. Spec => [](TypeInv /\ LoopInv)
  <2>1. Init => TypeInv /\ LoopInv
    BY InitTypeInv, InitLoopInv
  <2>2. TypeInv /\ LoopInv /\ [Next]_vars => (TypeInv /\ LoopInv)'
    BY NextTypeInv, NextLoopInv
  <2> QED
    BY <2>1, <2>2, PTL DEF Spec
<1>2. LoopInv => OneAnomaly
  BY DEF LoopInv, OneAnomaly, OneAnomalyAtATime
<1> QED
  BY <1>1, <1>2, PTL

\* The steps of those that have no part in an anomaly leave its carriers, the
\* flag, the recorded mask and the robot alone.
LEMMA Bystanders ==
  ASSUME TypeInv,
         \/ WorldChanges \/ Scan \/ MonitorStep \/ AnalysisRead \/ AnalysisWrite \/ AnalysisCheck
         \/ AnalysisCompare \/ LegitimateStep
  PROVE  /\ UNCHANGED <<handling, plannedMask, executed>>
         /\ pc'["Plan"] = pc["Plan"] /\ pc'["Execute"] = pc["Execute"]
         /\ pc'["Analysis"] = "raise" <=> pc["Analysis"] = "raise"
         /\ inbox'["Plan"] = inbox["Plan"] /\ inbox'["Execute"] = inbox["Execute"]
<1> USE DEF varsWorld, varsKnowledge, varsLocal
<1>0. /\ inbox["Plan"] \in Nat /\ inbox["Execute"] \in Nat /\ handling \in BOOLEAN
      /\ inbox \in [Nodes -> Nat] /\ DOMAIN pc = Nodes
      /\ "Plan" \in Nodes /\ "Execute" \in Nodes /\ "Analysis" \in Nodes
  BY Counters DEF TypeInv, TypeOK, Nodes
<1>1. CASE WorldChanges \/ Scan
  BY <1>0, <1>1 DEF WorldChanges, Scan
<1>2. CASE MonitorStep
  BY <1>0, <1>2 DEF MonitorStep, MonitorWrite, MonitorPublish, Move, Publish
<1>3. CASE AnalysisRead
  BY <1>0, <1>3 DEF AnalysisRead, Begin
<1>4. CASE AnalysisWrite \/ AnalysisCheck \/ AnalysisCompare
  BY <1>0, <1>4 DEF AnalysisWrite, AnalysisCheck, AnalysisCompare, Move
<1>5. CASE LegitimateStep
  BY <1>0, <1>5 DEF LegitimateStep, LegitimateBegin, LegitimatePublish, Begin, Move
<1> QED
  BY <1>1, <1>2, <1>3, <1>4, <1>5

\* Which steps lose an anomaly, and that none finds it again.
LEMMA LossOfAnomalies ==
  ASSUME TypeInv, LoopInv, [Next]_vars, "Analysis" \notin Restartable
  PROVE  /\ LostAnomaly => LostAnomaly' /\ UNCHANGED <<plannedMask, executed>>
         /\ ~LostAnomaly /\ LostAnomaly' =>
              restarts' # restarts \/ (pc["Plan"] = "record" /\ failed')
<1> USE DEF varsWorld, varsKnowledge, varsLocal
<1>0. /\ inbox["Plan"] \in Nat /\ inbox["Execute"] \in Nat /\ handling \in BOOLEAN
      /\ inbox \in [Nodes -> Nat] /\ DOMAIN pc = Nodes
      /\ "Plan" \in Nodes /\ "Execute" \in Nodes /\ "Analysis" \in Nodes
  BY Counters DEF TypeInv, TypeOK, Nodes
<1>h. /\ ~handling => InFlight = 0
      /\ pc["Analysis"] \in {"compare", "mark"} => ~handling
      /\ inbox["Plan"] > 0 => lidarMask # NoMask
  BY DEF LoopInv, TypeInv, KnowledgeInv
<1>1. CASE \/ WorldChanges \/ Scan \/ MonitorStep \/ AnalysisRead \/ AnalysisWrite \/ AnalysisCheck
           \/ AnalysisCompare \/ LegitimateStep
  <2>1. /\ UNCHANGED <<handling, plannedMask, executed>>
        /\ pc'["Plan"] = pc["Plan"] /\ pc'["Execute"] = pc["Execute"]
        /\ pc'["Analysis"] = "raise" <=> pc["Analysis"] = "raise"
        /\ inbox'["Plan"] = inbox["Plan"] /\ inbox'["Execute"] = inbox["Execute"]
    BY <1>1, Bystanders
  <2>2. InFlight' = InFlight
    BY <2>1 DEF InFlight
  <2> QED
    BY <2>1, <2>2 DEF LostAnomaly
<1>2. CASE AnalysisMark
  BY <1>0, <1>h, <1>2 DEF AnalysisMark, Move, InFlight, LostAnomaly
<1>3. CASE AnalysisRaise
  BY <1>0, <1>3 DEF AnalysisRaise, Move, Publish, InFlight, LostAnomaly
<1>4. CASE PlanRead
  BY <1>0, <1>h, <1>4 DEF PlanRead, Begin, InFlight, LostAnomaly
<1>5. CASE PlanRecord
  BY <1>0, <1>5 DEF PlanRecord, Move, InFlight, LostAnomaly
<1>6. CASE PlanWrite
  BY <1>0, <1>6 DEF PlanWrite, Move, InFlight, LostAnomaly
<1>7. CASE PlanPublish
  BY <1>0, <1>7 DEF PlanPublish, Move, Publish, InFlight, LostAnomaly
<1>8. CASE PlanFinish
  BY <1>0, <1>8 DEF PlanFinish, Move, InFlight, LostAnomaly
<1>9. CASE ExecuteRead
  BY <1>0, <1>9 DEF ExecuteRead, Begin, InFlight, LostAnomaly
<1>10. CASE ExecutePublish
  BY <1>0, <1>10 DEF ExecutePublish, Move, InFlight, LostAnomaly
<1>11. CASE ExecuteReset
  BY <1>0, <1>11 DEF ExecuteReset, Move, InFlight, LostAnomaly
<1>12. CASE \E n \in Restartable : Restart(n)
  <2>1. PICK n \in Restartable : Restart(n)
    BY <1>12
  <2>2. n \in Nodes /\ n # "Analysis"
    BY MapleKAssumption
  <2>3. restarts' # restarts
    BY <2>1 DEF Restart, TypeInv, TypeOK
  <2> QED
    BY <1>0, <2>1, <2>2, <2>3 DEF Restart, InFlight, LostAnomaly
<1>13. CASE UNCHANGED vars
  BY <1>13 DEF vars, InFlight, LostAnomaly
<1> QED
  BY <1>1, <1>2, <1>3, <1>4, <1>5, <1>6, <1>7, <1>8, <1>9, <1>10, <1>11, <1>12, <1>13
    DEF Next, AnalysisStep, PlanStep, ExecuteStep

\* An anomaly is lost only by a restart or a failed assertion, and a lost one
\* is never given up: the flag that Execute alone resets keeps the loop shut.
THEOREM LostAnomalyStaysLost == Spec => LostForGood
<1>1. Spec => [](TypeInv /\ LoopInv)
  <2>1. Init => TypeInv /\ LoopInv
    BY InitTypeInv, InitLoopInv
  <2>2. TypeInv /\ LoopInv /\ [Next]_vars => (TypeInv /\ LoopInv)'
    BY NextTypeInv, NextLoopInv
  <2> QED
    BY <2>1, <2>2, PTL DEF Spec
<1>2. TypeInv /\ LoopInv /\ [Next]_vars =>
        [ "Analysis" \notin Restartable =>
            /\ LostAnomaly => LostAnomaly' /\ UNCHANGED <<plannedMask, executed>>
            /\ ~LostAnomaly /\ LostAnomaly' =>
                 restarts' # restarts \/ (pc["Plan"] = "record" /\ failed') ]_vars
  BY LossOfAnomalies
<1> QED
  BY <1>1, <1>2, PTL DEF Spec, LostForGood

-----------------------------------------------------------------------------
(* The robot follows the recorded plan.  From the write of the directions  *)
(* to their publication the plan passes from Plan to the knowledge base,   *)
(* to Execute and to the robot; at each station it is the plan of          *)
(* planned_lidar_mask, because with one anomaly at a time that mask cannot *)
(* change under it.                                                        *)

PlanIs(d) == d.turns = Turns(plannedMask)

RobotInv ==
  "Analysis" \notin Restartable =>
    /\ pc["Plan"] \in {"write", "publish", "finish"} => planMask = plannedMask
    /\ pc["Plan"] \in {"publish", "finish"} => PlanIs(directions)
    /\ inbox["Execute"] > 0 => PlanIs(directions)
    /\ pc["Execute"] = "publish" => PlanIs(toExecute)
    /\ pc["Execute"] = "reset" => PlanIs(executed)
    /\ ~handling /\ plannedMask # NoMask => PlanIs(executed)

LEMMA InitRobotInv == Init => RobotInv
BY DEF Init, RobotInv, Nodes

LEMMA NextRobotInv ==
  ASSUME TypeInv, LoopInv, RobotInv, [Next]_vars
  PROVE  RobotInv'
<1> USE DEF varsWorld, varsKnowledge, varsLocal
<1> SUFFICES ASSUME "Analysis" \notin Restartable
             PROVE  RobotInv'
  BY DEF RobotInv
<1>0. /\ inbox["Plan"] \in Nat /\ inbox["Execute"] \in Nat /\ handling \in BOOLEAN
      /\ inbox \in [Nodes -> Nat] /\ DOMAIN pc = Nodes
      /\ "Plan" \in Nodes /\ "Execute" \in Nodes /\ "Analysis" \in Nodes
  BY Counters DEF TypeInv, TypeOK, Nodes
<1>h. /\ InFlight <= 1
      /\ ~handling => InFlight = 0
      /\ pc["Analysis"] \in {"compare", "mark"} => ~handling
  BY DEF LoopInv
<1>1. CASE WorldChanges \/ Scan
  BY <1>0, <1>h, <1>1 DEF WorldChanges, Scan, RobotInv, PlanIs
<1>2. CASE MonitorStep
  BY <1>0, <1>h, <1>2 DEF MonitorStep, MonitorWrite, MonitorPublish, Move, Publish, RobotInv, PlanIs
<1>3. CASE AnalysisRead
  BY <1>0, <1>h, <1>3 DEF AnalysisRead, Begin, RobotInv, PlanIs
<1>4. CASE AnalysisWrite
  BY <1>0, <1>h, <1>4 DEF AnalysisWrite, Move, RobotInv, PlanIs
<1>5. CASE AnalysisCheck
  BY <1>0, <1>h, <1>5 DEF AnalysisCheck, Move, RobotInv, PlanIs
<1>6. CASE AnalysisCompare
  BY <1>0, <1>h, <1>6 DEF AnalysisCompare, Move, RobotInv, PlanIs
<1>7. CASE AnalysisMark
  BY <1>0, <1>h, <1>7 DEF AnalysisMark, Move, RobotInv, PlanIs
<1>8. CASE AnalysisRaise
  BY <1>0, <1>h, <1>8 DEF AnalysisRaise, Move, Publish, RobotInv, PlanIs
<1>9. CASE PlanRead
  BY <1>0, <1>h, <1>9 DEF PlanRead, Begin, RobotInv, PlanIs
<1>10. CASE PlanRecord
  BY <1>0, <1>h, <1>10 DEF PlanRecord, Move, RobotInv, PlanIs, InFlight
<1>11. CASE PlanWrite
  BY <1>0, <1>h, <1>11 DEF PlanWrite, Move, RobotInv, PlanIs, InFlight
<1>12. CASE PlanPublish
  BY <1>0, <1>h, <1>12 DEF PlanPublish, Move, Publish, RobotInv, PlanIs
<1>13. CASE PlanFinish
  BY <1>0, <1>h, <1>13 DEF PlanFinish, Move, RobotInv, PlanIs, InFlight
<1>14. CASE ExecuteRead
  BY <1>0, <1>h, <1>14 DEF ExecuteRead, Begin, RobotInv, PlanIs, InFlight
<1>15. CASE ExecutePublish
  BY <1>0, <1>h, <1>15 DEF ExecutePublish, Move, RobotInv, PlanIs, InFlight
<1>16. CASE ExecuteReset
  BY <1>0, <1>h, <1>16 DEF ExecuteReset, Move, RobotInv, PlanIs
<1>17. CASE LegitimateStep
  BY <1>0, <1>h, <1>17 DEF LegitimateStep, LegitimateBegin, LegitimatePublish, Begin, Move, RobotInv, PlanIs
<1>18. CASE \E n \in Restartable : Restart(n)
  <2>1. PICK n \in Restartable : Restart(n)
    BY <1>18
  <2>2. n \in Nodes /\ n # "Analysis"
    BY MapleKAssumption
  <2> QED
    BY <1>0, <2>1, <2>2 DEF Restart, RobotInv, PlanIs
<1>19. CASE UNCHANGED vars
  BY <1>19 DEF vars, RobotInv, PlanIs
<1> QED
  BY <1>1, <1>2, <1>3, <1>4, <1>5, <1>6, <1>7, <1>8, <1>9, <1>10, <1>11, <1>12, <1>13, <1>14, <1>15, <1>16, <1>17, <1>18, <1>19
    DEF Next, AnalysisStep, PlanStep, ExecuteStep

\* Unless the container of Analysis is restarted, whenever no anomaly is being
\* handled the last commands sent to the robot are those computed from
\* planned_lidar_mask, the mask Analysis compares the next scans with.
THEOREM RobotFollowsPlanHolds == Spec => []RobotFollowsPlan
<1>1. Spec => [](TypeInv /\ LoopInv /\ RobotInv)
  <2>1. Init => TypeInv /\ LoopInv /\ RobotInv
    BY InitTypeInv, InitLoopInv, InitRobotInv
  <2>2. TypeInv /\ LoopInv /\ RobotInv /\ [Next]_vars => (TypeInv /\ LoopInv /\ RobotInv)'
    BY NextTypeInv, NextLoopInv, NextRobotInv
  <2> QED
    BY <2>1, <2>2, PTL DEF Spec
<1>2. RobotInv => RobotFollowsPlan
  BY DEF RobotInv, RobotFollowsPlan, PlanIs
<1> QED
  BY <1>1, <1>2, PTL

-----------------------------------------------------------------------------
(* The loop implements AnomalyLoop.  The carriers of an anomaly exclude     *)
(* each other by LoopInv, what they carry is the plan for the recorded      *)
(* mask by RobotInv, and once there is a plan a mask is recorded.           *)

Recorded ==
  (pc["Plan"] \in {"write", "publish"} \/ inbox["Execute"] > 0 \/ pc["Execute"] = "publish")
    => plannedMask \in SUBSET Cells

LEMMA InitRecorded == Init => Recorded
BY DEF Init, Recorded, Nodes

LEMMA NextRecorded ==
  ASSUME TypeInv, Recorded, [Next]_vars
  PROVE  Recorded'
<1> USE DEF varsWorld, varsKnowledge, varsLocal
<1>0. /\ inbox["Plan"] \in Nat /\ inbox["Execute"] \in Nat
      /\ inbox \in [Nodes -> Nat] /\ DOMAIN pc = Nodes
      /\ "Plan" \in Nodes /\ "Execute" \in Nodes /\ "Analysis" \in Nodes
  BY Counters DEF TypeInv, TypeOK, Nodes
<1>1. CASE \/ WorldChanges \/ Scan \/ MonitorStep \/ AnalysisRead \/ AnalysisWrite \/ AnalysisCheck
           \/ AnalysisCompare \/ LegitimateStep
  BY <1>1, Bystanders DEF Recorded
<1>2. CASE AnalysisMark \/ AnalysisRaise
  BY <1>0, <1>2 DEF AnalysisMark, AnalysisRaise, Move, Publish, Recorded
<1>3. CASE PlanRead
  BY <1>0, <1>3 DEF PlanRead, Begin, Recorded
<1>4. CASE PlanRecord
  <2>1. planMask \in SUBSET Cells
    BY <1>4 DEF PlanRecord, Move, TypeInv, TypeOK, KnowledgeInv, KnownMask
  <2> QED
    BY <1>0, <1>4, <2>1 DEF PlanRecord, Recorded
<1>5. CASE PlanWrite \/ PlanPublish \/ PlanFinish
  BY <1>0, <1>5 DEF PlanWrite, PlanPublish, PlanFinish, Move, Publish, Recorded
<1>6. CASE ExecuteStep
  BY <1>0, <1>6 DEF ExecuteStep, ExecuteRead, ExecutePublish, ExecuteReset, Begin, Move, Recorded
<1>7. CASE \E n \in Restartable : Restart(n)
  <2>1. PICK n \in Nodes : Restart(n)
    BY <1>7, MapleKAssumption
  <2> QED
    BY <1>0, <2>1 DEF Restart, Recorded
<1>8. CASE UNCHANGED vars
  BY <1>8 DEF vars, Recorded
<1> QED
  BY <1>1, <1>2, <1>3, <1>4, <1>5, <1>6, <1>7, <1>8 DEF Next, AnalysisStep, PlanStep

LEMMA InitLoop == Init => Loop!Init
BY DEF Init, Loop!Init, Phase, NoDirections

\* Every step of the nodes is one of AnomalyLoop or changes nothing of it.
LEMMA NextLoop ==
  ASSUME TypeInv, LoopInv, RobotInv, Recorded, [Next]_vars, "Analysis" \notin Restartable
  PROVE  [Loop!Next]_Loop!vars
<1> USE DEF varsWorld, varsKnowledge, varsLocal
<1>0. /\ inbox["Plan"] \in Nat /\ inbox["Execute"] \in Nat /\ handling \in BOOLEAN
      /\ inbox \in [Nodes -> Nat] /\ DOMAIN pc = Nodes
      /\ "Plan" \in Nodes /\ "Execute" \in Nodes /\ "Analysis" \in Nodes
  BY Counters DEF TypeInv, TypeOK, Nodes
<1>h. /\ InFlight <= 1
      /\ ~handling => InFlight = 0
      /\ pc["Analysis"] \in {"compare", "mark"} => ~handling
      /\ inbox["Plan"] > 0 => lidarMask # NoMask
  BY DEF LoopInv, TypeInv, KnowledgeInv
<1>s. UNCHANGED <<Phase, plannedMask, executed>> => [Loop!Next]_Loop!vars
  BY DEF Loop!vars
<1>1. CASE \/ WorldChanges \/ Scan \/ MonitorStep \/ AnalysisRead \/ AnalysisWrite \/ AnalysisCheck
           \/ AnalysisCompare \/ LegitimateStep
  BY <1>1, <1>s, Bystanders DEF Phase
<1>2. CASE AnalysisMark
  <2>1. Phase = "quiet" /\ Phase' = "raised" /\ UNCHANGED <<plannedMask, executed>>
    BY <1>0, <1>h, <1>2 DEF AnalysisMark, Move, Phase, InFlight
  <2> QED
    BY <2>1 DEF Loop!Next, Loop!Raise
<1>3. CASE AnalysisRaise
  BY <1>0, <1>h, <1>3, <1>s DEF AnalysisRaise, Move, Publish, Phase, InFlight
<1>4. CASE PlanRead
  BY <1>0, <1>h, <1>4, <1>s DEF PlanRead, Begin, Phase, InFlight
<1>5. CASE PlanRecord
  <2>1. planMask \in SUBSET Cells /\ planMask # NoMask
    BY <1>5, MapleKAssumption DEF PlanRecord, Move, TypeInv, TypeOK, KnowledgeInv, KnownMask
  <2>2. /\ Phase = "raised"
        /\ Phase' = IF Turns(planMask) = <<>> THEN "lost" ELSE "settled"
        /\ plannedMask' = planMask /\ UNCHANGED executed
    BY <1>0, <1>h, <1>5 DEF PlanRecord, Move, Phase, InFlight
  <2> QED
    BY <2>1, <2>2 DEF Loop!Next, Loop!Settle
<1>6. CASE PlanWrite
  BY <1>0, <1>h, <1>6, <1>s DEF PlanWrite, Move, Phase, InFlight
<1>7. CASE PlanPublish
  BY <1>0, <1>h, <1>7, <1>s DEF PlanPublish, Move, Publish, Phase, InFlight
<1>8. CASE PlanFinish
  BY <1>0, <1>h, <1>8, <1>s DEF PlanFinish, Move, Phase, InFlight
<1>9. CASE ExecuteRead
  BY <1>0, <1>h, <1>9, <1>s DEF ExecuteRead, Begin, Phase, InFlight
<1>10. CASE ExecutePublish
  <2>1. plannedMask \in SUBSET Cells /\ toExecute.turns = Turns(plannedMask)
    BY <1>10 DEF ExecutePublish, Move, Recorded, RobotInv, PlanIs
  <2>2. Phase = "settled" /\ Phase' = "told" /\ executed' = toExecute /\ UNCHANGED plannedMask
    BY <1>0, <1>h, <1>10 DEF ExecutePublish, Move, Phase, InFlight
  <2> QED
    BY <2>1, <2>2 DEF Loop!Next, Loop!Tell
<1>11. CASE ExecuteReset
  <2>1. Phase = "told" /\ Phase' = "quiet" /\ UNCHANGED <<plannedMask, executed>>
    BY <1>0, <1>h, <1>11 DEF ExecuteReset, Move, Phase, InFlight
  <2> QED
    BY <2>1 DEF Loop!Next, Loop!Finish
<1>12. CASE \E n \in Restartable : Restart(n)
  <2>1. PICK n \in Restartable : Restart(n)
    BY <1>12
  <2>2. n \in Nodes /\ n # "Analysis"
    BY MapleKAssumption
  <2>3. /\ Phase' = Phase \/ (Phase \in {"raised", "settled", "told"} /\ Phase' = "lost")
        /\ UNCHANGED <<plannedMask, executed>>
    BY <1>0, <1>h, <2>1, <2>2 DEF Restart, Phase, InFlight
  <2> QED
    BY <2>3, <1>s DEF Loop!Next, Loop!Lose
<1>13. CASE UNCHANGED vars
  BY <1>13, <1>s DEF vars, Phase
<1> QED
  BY <1>1, <1>2, <1>3, <1>4, <1>5, <1>6, <1>7, <1>8, <1>9, <1>10, <1>11, <1>12, <1>13
    DEF Next, AnalysisStep, PlanStep, ExecuteStep

\* The five nodes together are one loop that handles anomalies one after
\* another: for each it settles on a mask, sends the robot the turns for that
\* mask, and is then ready for the next; a lost anomaly is the last.
THEOREM NodesImplementLoop ==
  ASSUME "Analysis" \notin Restartable
  PROVE  Spec => ImplementsLoop
<1>1. Spec => [](TypeInv /\ LoopInv /\ RobotInv /\ Recorded)
  <2>1. Init => TypeInv /\ LoopInv /\ RobotInv /\ Recorded
    BY InitTypeInv, InitLoopInv, InitRobotInv, InitRecorded
  <2>2. TypeInv /\ LoopInv /\ RobotInv /\ Recorded /\ [Next]_vars
          => (TypeInv /\ LoopInv /\ RobotInv /\ Recorded)'
    BY NextTypeInv, NextLoopInv, NextRobotInv, NextRecorded
  <2> QED
    BY <2>1, <2>2, PTL DEF Spec
<1>2. TypeInv /\ LoopInv /\ RobotInv /\ Recorded /\ [Next]_vars => [Loop!Next]_Loop!vars
  BY NextLoop
<1> QED
  BY <1>1, <1>2, InitLoop, PTL DEF Spec, ImplementsLoop, Loop!Spec

-----------------------------------------------------------------------------
(* The plans sent to Execute.                                              *)

\* The headings of the plans of one, two and three turns.
LEMMA HeadingsOfPlans ==
  /\ \A a \in Int : Headings(<<a>>) = {a}
  /\ \A a, b \in Int : Headings(<<a, b>>) = {a, a + b}
  /\ \A a, b, c \in Int : Headings(<<a, b, c>>) = {a, a + b, a + b + c}
<1> DEFINE heading(t, k) == CASE k = 1 -> t[1]
                              [] k = 2 -> t[1] + t[2]
                              [] k = 3 -> t[1] + t[2] + t[3]
<1>1. \A a, b, c :
        /\ DOMAIN <<a>> = {1} /\ <<a>>[1] = a
        /\ DOMAIN <<a, b>> = {1, 2} /\ <<a, b>>[1] = a /\ <<a, b>>[2] = b
        /\ DOMAIN <<a, b, c>> = {1, 2, 3}
        /\ <<a, b, c>>[1] = a /\ <<a, b, c>>[2] = b /\ <<a, b, c>>[3] = c
  OBVIOUS
<1>2. \A t : /\ heading(t, 1) = t[1]
             /\ heading(t, 2) = t[1] + t[2]
             /\ heading(t, 3) = t[1] + t[2] + t[3]
  OBVIOUS
<1>3. \A t : Headings(t) = {heading(t, k) : k \in DOMAIN t}
  BY DEF Headings
<1> HIDE DEF heading
<1>4. \A a \in Int : Headings(<<a>>) = {a}
  BY <1>1, <1>2, <1>3
<1>5. \A a, b \in Int : Headings(<<a, b>>) = {a, a + b}
  BY <1>1, <1>2, <1>3
<1>6. \A a, b, c \in Int : Headings(<<a, b, c>>) = {a, a + b, a + b + c}
  BY <1>1, <1>2, <1>3
<1> QED
  BY <1>4, <1>5, <1>6

LEMMA TurnsSweep ==
  ASSUME NEW mask \in SUBSET Cells, Turns(mask) # <<>>
  PROVE  Sweeps(Turns(mask), mask)
<1> DEFINE x == Leftmost(mask)
           y == Rightmost(mask)
<1>1. /\ x \in Int /\ y \in Int /\ -HalfTurn <= x /\ x <= 0 /\ 0 <= y /\ y < HalfTurn
      /\ HalfTurn \in Nat \ {0}
  BY Extremes, MapleKAssumption
<1>2. Magnitude(x) = -x /\ Magnitude(y) = y
  BY <1>1 DEF Magnitude
<1> HIDE DEF x, y
<1>3. CASE x = 0
  <2>1. Turns(mask) = <<y, -y>>
    BY <1>1, <1>3 DEF Turns, x, y
  <2>2. Headings(<<y, -y>>) = {y, y + (-y)} /\ y + (-y) = 0
    BY <1>1, HeadingsOfPlans
  <2> QED
    BY <1>3, <2>1, <2>2 DEF Sweeps, x, y
<1>4. CASE x < 0 /\ y = 0
  <2>1. Turns(mask) = <<x, -x>>
    BY <1>1, <1>4 DEF Turns, x, y
  <2>2. Headings(<<x, -x>>) = {x, x + (-x)} /\ x + (-x) = 0
    BY <1>1, HeadingsOfPlans
  <2> QED
    BY <1>4, <2>1, <2>2 DEF Sweeps, x, y
<1>5. CASE x < 0 /\ 0 < y /\ y - x > HalfTurn
  <2>1. Turns(mask) = <<2 * HalfTurn>>
    BY <1>1, <1>5 DEF Turns, x, y
  <2> QED
    BY <1>1, <2>1, HeadingsOfPlans DEF Sweeps
<1>6. CASE x < 0 /\ 0 < y /\ y - x <= HalfTurn /\ -x > y
  <2>1. Turns(mask) = <<x, y - x, -y>>
    BY <1>1, <1>2, <1>6 DEF Turns, x, y
  <2>2. Headings(<<x, y - x, -y>>) = {x, x + (y - x), x + (y - x) + (-y)}
    BY <1>1, HeadingsOfPlans
  <2>3. x + (y - x) = y /\ x + (y - x) + (-y) = 0
    BY <1>1
  <2> QED
    BY <2>1, <2>2, <2>3 DEF Sweeps, x, y
<1>7. CASE x < 0 /\ 0 < y /\ y - x <= HalfTurn /\ y > -x
  <2>1. Turns(mask) = <<y, x - y, -x>>
    BY <1>1, <1>2, <1>7 DEF Turns, x, y
  <2>2. Headings(<<y, x - y, -x>>) = {y, y + (x - y), y + (x - y) + (-x)}
    BY <1>1, HeadingsOfPlans
  <2>3. y + (x - y) = x /\ y + (x - y) + (-x) = 0
    BY <1>1
  <2> QED
    BY <2>1, <2>2, <2>3 DEF Sweeps, x, y
<1>8. CASE x < 0 /\ 0 < y /\ y - x <= HalfTurn /\ y = -x
  BY <1>1, <1>2, <1>8 DEF Turns, x, y
<1> QED
  BY <1>1, <1>3, <1>4, <1>5, <1>6, <1>7, <1>8

SweepInv ==
  /\ pc["Plan"] \in {"write", "publish", "finish"}
       => planMask = plannedMask /\ Turns(planMask) # <<>>
  /\ pc["Plan"] = "publish" => directions.turns = Turns(planMask)

LEMMA NextSweepInv ==
  ASSUME TypeInv, SweepInv, [Next]_vars
  PROVE  SweepInv'
<1> USE DEF varsWorld, varsKnowledge, varsLocal
<1>0. DOMAIN pc = Nodes /\ "Plan" \in Nodes
  BY DEF TypeInv, TypeOK, Nodes
<1>1. CASE PlanStep
  BY <1>0, <1>1 DEF PlanStep, PlanRead, PlanRecord, PlanWrite, PlanPublish,
                    PlanFinish, Begin, Move, SweepInv
<1>2. CASE AnalysisStep
  BY <1>0, <1>2 DEF AnalysisStep, AnalysisRead, AnalysisWrite, AnalysisCheck,
                    AnalysisCompare, AnalysisMark, AnalysisRaise, Begin, Move,
                    SweepInv
<1>3. CASE ExecuteStep
  BY <1>0, <1>3 DEF ExecuteStep, ExecuteRead, ExecutePublish, ExecuteReset,
                    Begin, Move, SweepInv
<1>4. CASE MonitorStep \/ LegitimateStep
  BY <1>0, <1>4 DEF MonitorStep, MonitorWrite, MonitorPublish, LegitimateStep,
                    LegitimateBegin, LegitimatePublish, Begin, Move, SweepInv
<1>5. CASE WorldChanges \/ Scan \/ UNCHANGED vars
  BY <1>5 DEF WorldChanges, Scan, vars, SweepInv
<1>6. CASE \E n \in Restartable : Restart(n)
  BY <1>0, <1>6 DEF Restart, SweepInv
<1> QED
  BY <1>1, <1>2, <1>3, <1>4, <1>5, <1>6 DEF Next

\* For every mask the planner plans for, the turns published take the robot to
\* the outermost occlusion of either side and back to its heading, or once
\* all the way round.
THEOREM PlanSweepsHolds == Spec => []PlanSweepsOcclusions
<1>1. Init => TypeInv /\ SweepInv
  BY InitTypeInv DEF Init, SweepInv, Nodes
<1>2. TypeInv /\ SweepInv /\ [Next]_vars => (TypeInv /\ SweepInv)'
  BY NextTypeInv, NextSweepInv
<1>3. TypeInv /\ SweepInv => PlanSweepsOcclusions
  <2> SUFFICES ASSUME TypeInv, SweepInv, pc["Plan"] = "publish"
               PROVE  Sweeps(directions.turns, plannedMask)
    BY DEF PlanSweepsOcclusions
  <2>1. planMask \in SUBSET Cells
    BY DEF TypeInv, TypeOK, KnowledgeInv, KnownMask
  <2> QED
    BY <2>1, TurnsSweep DEF SweepInv
<1> QED
  BY <1>1, <1>2, <1>3, PTL DEF Spec

-----------------------------------------------------------------------------
(* The verdict of the runtime monitor and the order of the stages.         *)

\* The stream maple says whether one of the stages is true.
VerdictInv ==
  /\ verdict \in [Stage \union {"maple"} -> BOOLEAN]
  /\ verdict["maple"] <=> \E s \in Stage : verdict[s]

\* A stage is published or the verdict stays.
LEMMA VerdictSteps ==
  ASSUME [TrustNext]_varsAll
  PROVE  UNCHANGED verdict \/ \E s \in Stage : PublishStage(s)
<1>1. CASE LoopStep
  BY <1>1 DEF LoopStep, Published, varsWatch
<1>2. CASE BeginA \/ EndA
  BY <1>2 DEF BeginA, EndA, Stage
<1>3. CASE ReportP \/ ReportL \/ ReportE
  BY <1>3 DEF ReportP, ReportL, ReportE, Report, Stage
<1>4. CASE UNCHANGED varsAll
  BY <1>4 DEF varsAll, varsWatch
<1> QED
  BY <1>1, <1>2, <1>3, <1>4 DEF TrustNext

\* The new value of each stream.
LEMMA NewVerdict ==
  ASSUME NEW s \in Stage, PublishStage(s)
  PROVE  /\ verdict' \in [Stage \union {"maple"} -> BOOLEAN]
         /\ \A y \in Stage : verdict'[y] <=> (y = s /\ verdict[Before[y]])
         /\ verdict'["maple"] <=> \E y \in Stage : verdict'[y]
<1>1. verdict' = [x \in Stage \union {"maple"} |->
                    IF x = "maple" THEN \E y \in Stage : Streams(s)[y] ELSE Streams(s)[x]]
  BY DEF PublishStage
<1>2. Streams(s) \in [Stage -> BOOLEAN] /\ \A y \in Stage : Streams(s)[y] <=> (y = s /\ verdict[Before[y]])
  BY DEF Streams
<1>3. \A y \in Stage : y # "maple" /\ verdict'[y] = Streams(s)[y]
  BY <1>1 DEF Stage
<1>4. verdict'["maple"] = (\E y \in Stage : Streams(s)[y])
  BY <1>1
<1>5. verdict' \in [Stage \union {"maple"} -> BOOLEAN]
  BY <1>1, <1>2
<1> QED
  BY <1>2, <1>3, <1>4, <1>5

LEMMA NextVerdict == VerdictInv /\ [TrustNext]_varsAll => VerdictInv'
<1> SUFFICES ASSUME VerdictInv, [TrustNext]_varsAll PROVE VerdictInv'
  OBVIOUS
<1>1. CASE UNCHANGED verdict
  BY <1>1 DEF VerdictInv
<1>2. ASSUME NEW s \in Stage, PublishStage(s) PROVE VerdictInv'
  BY <1>2, NewVerdict DEF VerdictInv
<1> QED
  BY <1>1, <1>2, VerdictSteps

\* One stage out of order is never forgiven: maple stays false for ever.
THEOREM DistrustStaysFinal == TrustSpec => DistrustIsFinal
<1>1. TrustInit => VerdictInv
  <2> SUFFICES ASSUME TrustInit PROVE VerdictInv
    OBVIOUS
  <2>1. verdict = [s \in Stage \union {"maple"} |-> s \in {"e", "maple"}]
    BY DEF TrustInit
  <2>2. verdict["e"] = TRUE /\ verdict["maple"] = TRUE /\ "e" \in Stage
    BY <2>1 DEF Stage
  <2>3. verdict \in [Stage \union {"maple"} -> BOOLEAN]
    BY <2>1
  <2> QED
    BY <2>2, <2>3 DEF VerdictInv
<1>2. VerdictInv /\ [TrustNext]_varsAll => [~verdict["maple"] => ~verdict'["maple"]]_varsAll
  <2> SUFFICES ASSUME VerdictInv, [TrustNext]_varsAll, ~verdict["maple"] PROVE ~verdict'["maple"]
    OBVIOUS
  <2>1. \A y \in Stage : ~verdict[y]
    BY DEF VerdictInv
  <2>2. ASSUME NEW s \in Stage, PublishStage(s) PROVE ~verdict'["maple"]
    <3>1. \A y \in Stage : Before[y] \in Stage
      BY DEF Before, Stage
    <3> QED
      BY <2>1, <2>2, <3>1, NewVerdict
  <2> QED
    BY <2>2, VerdictSteps
<1> QED
  BY <1>1, <1>2, NextVerdict, PTL DEF TrustSpec, DistrustIsFinal

-----------------------------------------------------------------------------
(* The order of the stages.  The events of a round are on their way to the *)
(* Trustworthiness node, any number of rounds of them, when the loop goes  *)
(* on.  due[i] is the event that has to come next, of those that count,    *)
(* when the first i - 1 of them are handled: due[1] follows from the stage *)
(* published last, the last one is what the loop can publish next.         *)

\* The observed module takes the steps of the loop.
LEMMA StepOfLoop ==
  ASSUME [TrustNext]_varsAll
  PROVE  [Next]_vars
<1>1. CASE LoopStep
  BY <1>1 DEF LoopStep, Published, Unobserved, Next, AnalysisStep, PlanStep,
              ExecuteStep, LegitimateStep
<1>2. CASE BeginA \/ EndA \/ ReportP \/ ReportL \/ ReportE
  BY <1>2 DEF BeginA, EndA, ReportP, ReportL, ReportE, Report
<1>3. CASE UNCHANGED varsAll
  BY <1>3 DEF varsAll
<1> QED
  BY <1>1, <1>2, <1>3 DEF TrustNext

Round == {"anomaly", "new_plan", "/spin_config"}
Event == Round \union {"isLegit"}

Follow == [e \in Round |-> CASE e = "anomaly" -> "new_plan"
                             [] e = "new_plan" -> "/spin_config"
                             [] OTHER -> "anomaly"]

\* The next event of the round according to the stage published last.
WatcherDue(e) ==
  \/ watcher = "idle" /\ last = "e" /\ e = "anomaly"
  \/ watcher = "a" /\ last = "m" /\ e = "new_plan"
  \/ watcher = "idle" /\ last = "a" /\ e = "new_plan"
  \/ watcher = "idle" /\ last = "p" /\ e = "/spin_config"

\* The next event of the round according to where the loop is.
LoopDue(e) ==
  /\ ~handling \/ pc["Analysis"] = "raise" => e = "anomaly"
  /\ inbox["Plan"] > 0 \/ pc["Plan"] \in {"record", "write", "publish"}
       => e = "new_plan"
  /\ inbox["Execute"] > 0 \/ pc["Execute"] = "publish" => e = "/spin_config"
  /\ pc["Execute"] = "reset" => e = "anomaly"

Lined(events, due) ==
  \A i \in 1..Len(events) :
    \/ events[i] = "isLegit" /\ due[i + 1] = due[i]
    \/ events[i] = due[i] /\ due[i + 1] = Follow[due[i]]

Dues == [1..(Len(seen) + 1) -> Round]

OrderInv ==
  /\ seen \in Seq(Event)
  /\ "Analysis" \notin Restartable =>
       \E due \in Dues :
         WatcherDue(due[1]) /\ Lined(seen, due) /\ LoopDue(due[Len(seen) + 1])

LEMMA FollowType == \A e \in Round : Follow[e] \in Round
BY DEF Follow, Round

\* A round whose next event is published is a round with one more event due.
LEMMA DueAfterAppend ==
  ASSUME seen \in Seq(Event), NEW due \in Dues, Lined(seen, due),
         NEW event \in Event, seen' = Append(seen, event),
         event \in {"isLegit", due[Len(seen) + 1]}
  PROVE  \E next \in Dues' :
           /\ next[1] = due[1]
           /\ Lined(seen', next)
           /\ next[Len(seen') + 1] = IF event = "isLegit" THEN due[Len(seen) + 1]
                                     ELSE Follow[due[Len(seen) + 1]]
<1> DEFINE n == Len(seen)
           final == IF event = "isLegit" THEN due[n + 1] ELSE Follow[due[n + 1]]
           next == [i \in 1..(n + 2) |-> IF i = n + 2 THEN final ELSE due[i]]
<1>1. n \in Nat /\ due \in [1..(n + 1) -> Round]
  BY LenProperties DEF Dues
<1>2. final \in Round
  BY <1>1, FollowType
<1>3. /\ Len(seen') = n + 1
      /\ \A i \in 1..n : seen'[i] = seen[i]
      /\ seen'[n + 1] = event
  BY AppendProperties
<1> HIDE DEF n, final
<1>4. next \in Dues'
  <2>1. \A i \in 1..(n + 2) : i # n + 2 => i \in 1..(n + 1)
    BY <1>1
  <2>2. next \in [1..(n + 2) -> Round]
    BY <1>1, <1>2, <2>1
  <2>3. Len(seen') + 1 = n + 2
    BY <1>1, <1>3
  <2> QED
    BY <2>2, <2>3 DEF Dues
<1>5. next[1] = due[1] /\ next[n + 2] = final
  BY <1>1
<1>6. Lined(seen', next)
  <2> SUFFICES ASSUME NEW i \in 1..(n + 1)
               PROVE  \/ seen'[i] = "isLegit" /\ next[i + 1] = next[i]
                      \/ seen'[i] = next[i] /\ next[i + 1] = Follow[next[i]]
    BY <1>3 DEF Lined
  <2>1. CASE i = n + 1
    <3>1. next[i] = due[n + 1] /\ next[i + 1] = final /\ seen'[i] = event
      BY <1>1, <1>3, <2>1
    <3> QED
      BY <3>1 DEF final, n
  <2>2. CASE i # n + 1
    <3>1. i \in 1..n /\ next[i] = due[i] /\ next[i + 1] = due[i + 1] /\ seen'[i] = seen[i]
      BY <1>1, <1>3, <2>2
    <3> QED
      BY <3>1 DEF Lined, n
  <2> QED
    BY <2>1, <2>2
<1>7. Len(seen') + 1 = n + 2
  BY <1>1, <1>3
<1> HIDE DEF next
<1> QED
  BY <1>4, <1>5, <1>6, <1>7 DEF final, n

\* The rest of the round when its first event has been handled.
LEMMA DueAfterTail ==
  ASSUME seen \in Seq(Event), NEW due \in Dues, Lined(seen, due),
         seen # <<>>, seen' = Tail(seen)
  PROVE  /\ Head(seen) \in Event
         /\ Head(seen) \in {"isLegit", due[1]}
         /\ \E next \in Dues' :
              /\ next[1] = IF Head(seen) = "isLegit" THEN due[1] ELSE Follow[due[1]]
              /\ Lined(seen', next)
              /\ next[Len(seen') + 1] = due[Len(seen) + 1]
<1> DEFINE n == Len(seen)
           next == [i \in 1..n |-> due[i + 1]]
<1>1. n \in Nat /\ n > 0 /\ due \in [1..(n + 1) -> Round]
  BY LenProperties, EmptySeq DEF Dues
<1>2. /\ seen' \in Seq(Event) /\ Len(seen') = n - 1
      /\ \A i \in 1..(n - 1) : seen'[i] = seen[i + 1]
      /\ Head(seen) = seen[1] /\ Head(seen) \in Event
  BY HeadTailProperties
<1> HIDE DEF n
<1>3. next \in Dues'
  <2>1. \A i \in 1..n : i + 1 \in 1..(n + 1)
    BY <1>1
  <2>2. next \in [1..n -> Round] /\ Len(seen') + 1 = n
    BY <1>1, <1>2, <2>1
  <2> QED
    BY <2>2 DEF Dues
<1>4. /\ Head(seen) \in {"isLegit", due[1]}
      /\ due[2] = IF Head(seen) = "isLegit" THEN due[1] ELSE Follow[due[1]]
  <2>1. 1 \in 1..n /\ due[1] # "isLegit"
    BY <1>1 DEF Round
  <2>2. \/ seen[1] = "isLegit" /\ due[1 + 1] = due[1]
        \/ seen[1] = due[1] /\ due[1 + 1] = Follow[due[1]]
    BY <2>1 DEF Lined, n
  <2> QED
    BY <1>2, <2>1, <2>2
<1>5. next[1] = due[2] /\ next[n] = due[n + 1]
  BY <1>1
<1>6. Lined(seen', next)
  <2> SUFFICES ASSUME NEW i \in 1..(n - 1)
               PROVE  \/ seen'[i] = "isLegit" /\ next[i + 1] = next[i]
                      \/ seen'[i] = next[i] /\ next[i + 1] = Follow[next[i]]
    BY <1>2 DEF Lined
  <2>1. /\ next[i] = due[i + 1] /\ next[i + 1] = due[i + 1 + 1]
        /\ seen'[i] = seen[i + 1] /\ i + 1 \in 1..n
    BY <1>1, <1>2
  <2> QED
    BY <2>1 DEF Lined, n
<1>7. Len(seen') + 1 = n
  BY <1>1, <1>2
<1> HIDE DEF next
<1> QED
  BY <1>2, <1>3, <1>4, <1>5, <1>6, <1>7 DEF n

\* The steps of the loop that publish nothing for Trustworthiness leave the
\* event due next the same.
LEMMA UnobservedDue ==
  ASSUME TypeInv, LoopInv, "Analysis" \notin Restartable, Unobserved,
         NEW e, LoopDue(e)
  PROVE  LoopDue(e)'
<1> USE DEF varsWorld, varsKnowledge, varsLocal
<1>0. /\ inbox["Plan"] \in Nat /\ inbox["Execute"] \in Nat /\ handling \in BOOLEAN
      /\ inbox \in [Nodes -> Nat] /\ DOMAIN pc = Nodes
      /\ "Plan" \in Nodes /\ "Execute" \in Nodes /\ "Analysis" \in Nodes
  BY Counters DEF TypeInv, TypeOK, Nodes
<1>h. pc["Analysis"] \in {"compare", "mark"} => ~handling
  BY DEF LoopInv
<1>1. CASE WorldChanges \/ Scan
  BY <1>1 DEF WorldChanges, Scan, LoopDue
<1>2. CASE MonitorStep
  BY <1>0, <1>2 DEF MonitorStep, MonitorWrite, MonitorPublish, Move, Publish, LoopDue
<1>3. CASE AnalysisRead \/ AnalysisWrite \/ AnalysisCheck \/ AnalysisCompare
  BY <1>0, <1>3 DEF AnalysisRead, AnalysisWrite, AnalysisCheck, AnalysisCompare,
                    Begin, Move, LoopDue
<1>4. CASE AnalysisMark
  BY <1>0, <1>h, <1>4 DEF AnalysisMark, Move, LoopDue
<1>5. CASE PlanRead
  BY <1>0, <1>5 DEF PlanRead, Begin, LoopDue
<1>6. CASE PlanRecord \/ PlanWrite \/ PlanFinish
  BY <1>0, <1>6 DEF PlanRecord, PlanWrite, PlanFinish, Move, LoopDue
<1>7. CASE ExecuteRead
  BY <1>0, <1>7 DEF ExecuteRead, Begin, LoopDue
<1>8. CASE ExecuteReset
  BY <1>0, <1>8 DEF ExecuteReset, Move, LoopDue
<1>9. CASE LegitimateBegin
  BY <1>0, <1>9 DEF LegitimateBegin, Begin, LoopDue
<1>10. CASE \E n \in Restartable : Restart(n)
  <2>1. PICK n \in Restartable : Restart(n)
    BY <1>10
  <2>2. n \in Nodes /\ n # "Analysis"
    BY MapleKAssumption
  <2> QED
    BY <1>0, <2>1, <2>2 DEF Restart, LoopDue
<1> QED
  BY <1>1, <1>2, <1>3, <1>4, <1>5, <1>6, <1>7, <1>8, <1>9, <1>10 DEF Unobserved

\* A step that publishes an event of the round publishes the one due next, and
\* makes its successor due, since it is the only anomaly in the loop.
LEMMA PublishedDue ==
  ASSUME TypeInv, LoopInv, "Analysis" \notin Restartable,
         NEW e \in Round, LoopDue(e)
  PROVE  /\ AnalysisRaise => e = "anomaly" /\ LoopDue("new_plan")'
         /\ PlanPublish => e = "new_plan" /\ LoopDue("/spin_config")'
         /\ ExecutePublish => e = "/spin_config" /\ LoopDue("anomaly")'
         /\ LegitimatePublish => LoopDue(e)'
<1> USE DEF varsWorld, varsKnowledge, varsLocal
<1>0. /\ inbox["Plan"] \in Nat /\ inbox["Execute"] \in Nat /\ handling \in BOOLEAN
      /\ inbox \in [Nodes -> Nat] /\ DOMAIN pc = Nodes
      /\ "Plan" \in Nodes /\ "Execute" \in Nodes /\ "Analysis" \in Nodes
  BY Counters DEF TypeInv, TypeOK, Nodes
<1>h. InFlight <= 1 /\ (~handling => InFlight = 0)
  BY DEF LoopInv
<1>1. ASSUME AnalysisRaise PROVE e = "anomaly" /\ LoopDue("new_plan")'
  BY <1>0, <1>h, <1>1 DEF AnalysisRaise, Move, Publish, LoopDue, InFlight
<1>2. ASSUME PlanPublish PROVE e = "new_plan" /\ LoopDue("/spin_config")'
  BY <1>0, <1>h, <1>2 DEF PlanPublish, Move, Publish, LoopDue, InFlight
<1>3. ASSUME ExecutePublish PROVE e = "/spin_config" /\ LoopDue("anomaly")'
  BY <1>0, <1>h, <1>3 DEF ExecutePublish, Move, LoopDue, InFlight
<1>4. ASSUME LegitimatePublish PROVE LoopDue(e)'
  BY <1>0, <1>4 DEF LegitimatePublish, Move, LoopDue
<1> QED
  BY <1>1, <1>2, <1>3, <1>4

\* The steps of the loop.
LEMMA LoopOrderInv ==
  ASSUME TypeInv, LoopInv, OrderInv, LoopStep
  PROVE  OrderInv'
<1>1. seen \in Seq(Event) /\ Len(seen) \in Nat
  BY LenProperties DEF OrderInv
<1>2. CASE Unobserved /\ UNCHANGED varsWatch
  <2>1. UNCHANGED <<seen, watcher, last>>
    BY <1>2 DEF varsWatch
  <2> SUFFICES ASSUME "Analysis" \notin Restartable
               PROVE  \E due \in Dues' : /\ WatcherDue(due[1])'
                                          /\ Lined(seen', due)
                                          /\ LoopDue(due[Len(seen) + 1])'
    BY <1>1, <2>1 DEF OrderInv
  <2>2. PICK due \in Dues : /\ WatcherDue(due[1]) /\ Lined(seen, due)
                            /\ LoopDue(due[Len(seen) + 1])
    BY DEF OrderInv
  <2>3. PICK e : e = due[Len(seen) + 1]
    OBVIOUS
  <2>4. LoopDue(e)'
    BY <1>2, <2>2, <2>3, UnobservedDue
  <2>5. WatcherDue(due[1])' /\ due \in Dues'
    BY <2>1, <2>2 DEF Dues, WatcherDue
  <2>6. e = (due[Len(seen) + 1])'
    BY <2>1, <2>3
  <2> QED
    BY <2>1, <2>2, <2>4, <2>5, <2>6
<1>3. ASSUME NEW event \in Event, seen' = Append(seen, event), UNCHANGED <<watcher, last>>,
             "Analysis" \notin Restartable =>
               \A e \in Round : LoopDue(e) =>
                 \/ event = "isLegit" /\ LoopDue(e)'
                 \/ event = e /\ LoopDue(Follow[e])'
      PROVE  OrderInv'
  <2>1. seen' \in Seq(Event)
    BY <1>1, <1>3, AppendProperties
  <2> SUFFICES ASSUME "Analysis" \notin Restartable
               PROVE  \E due \in Dues' : /\ WatcherDue(due[1])'
                                          /\ Lined(seen', due)
                                          /\ LoopDue(due[Len(seen) + 1])'
    BY <2>1 DEF OrderInv
  <2>2. PICK due \in Dues : /\ WatcherDue(due[1]) /\ Lined(seen, due)
                            /\ LoopDue(due[Len(seen) + 1])
    BY DEF OrderInv
  <2>3. PICK e \in Round : e = due[Len(seen) + 1]
    BY <1>1 DEF Dues
  <2>4. /\ event \in {"isLegit", e}
        /\ event = "isLegit" => LoopDue(e)'
        /\ event # "isLegit" => LoopDue(Follow[e])'
    BY <1>3, <2>2, <2>3 DEF Round
  <2>5. PICK next \in Dues' :
           /\ next[1] = due[1]
           /\ Lined(seen', next)
           /\ next[Len(seen') + 1] = IF event = "isLegit" THEN e ELSE Follow[e]
    BY <1>1, <1>3, <2>2, <2>3, <2>4, DueAfterAppend
  <2>6. WatcherDue(next[1])'
    BY <1>3, <2>2, <2>5 DEF WatcherDue
  <2>7. LoopDue(next[Len(seen) + 1])'
    BY <2>4, <2>5
  <2> QED
    BY <2>5, <2>6, <2>7
<1>4. /\ Follow["anomaly"] = "new_plan" /\ Follow["new_plan"] = "/spin_config"
      /\ Follow["/spin_config"] = "anomaly"
  BY DEF Follow, Round
<1>5. CASE Published(AnalysisRaise, "anomaly")
  BY <1>3, <1>4, <1>5, PublishedDue DEF Published, Event, Round
<1>6. CASE Published(PlanPublish, "new_plan")
  BY <1>3, <1>4, <1>6, PublishedDue DEF Published, Event, Round
<1>7. CASE Published(LegitimatePublish, "isLegit")
  BY <1>3, <1>4, <1>7, PublishedDue DEF Published, Event, Round
<1>8. CASE Published(ExecutePublish, "/spin_config")
  BY <1>3, <1>4, <1>8, PublishedDue DEF Published, Event, Round
<1> QED
  BY <1>2, <1>5, <1>6, <1>7, <1>8 DEF LoopStep

\* The steps of the Trustworthiness node.
LEMMA WatcherOrderInv ==
  ASSUME OrderInv, BeginA \/ EndA \/ ReportP \/ ReportL \/ ReportE
  PROVE  OrderInv'
<1>1. seen \in Seq(Event) /\ Len(seen) \in Nat
  BY LenProperties DEF OrderInv
<1>2. UNCHANGED <<handling, pc, inbox>>
  BY DEF BeginA, EndA, ReportP, ReportL, ReportE, Report, vars, varsKnowledge
<1>3. \A e : LoopDue(e) => LoopDue(e)'
  BY <1>2 DEF LoopDue
<1>4. CASE EndA
  <2>1. seen' = seen /\ watcher = "a" /\ watcher' = "idle" /\ last' = "a"
    BY <1>4 DEF EndA, PublishStage
  <2> SUFFICES ASSUME "Analysis" \notin Restartable
               PROVE  \E due \in Dues' : /\ WatcherDue(due[1])'
                                          /\ Lined(seen', due)
                                          /\ LoopDue(due[Len(seen) + 1])'
    BY <1>1, <2>1 DEF OrderInv
  <2>2. PICK due \in Dues : /\ WatcherDue(due[1]) /\ Lined(seen, due)
                            /\ LoopDue(due[Len(seen) + 1])
    BY DEF OrderInv
  <2>3. PICK e : e = due[Len(seen) + 1]
    OBVIOUS
  <2>4. LoopDue(e)' /\ e = (due[Len(seen) + 1])'
    BY <1>3, <2>1, <2>2, <2>3
  <2>5. WatcherDue(due[1])' /\ due \in Dues'
    BY <2>1, <2>2 DEF Dues, WatcherDue
  <2> QED
    BY <2>1, <2>2, <2>4, <2>5
<1>5. ASSUME seen # <<>>, seen' = Tail(seen),
             \A d \in Round : WatcherDue(d) =>
               /\ Head(seen) = "isLegit" => WatcherDue(d)'
               /\ Head(seen) = d => WatcherDue(Follow[d])'
      PROVE  OrderInv'
  <2>1. seen' \in Seq(Event)
    BY <1>1, <1>5, HeadTailProperties
  <2> SUFFICES ASSUME "Analysis" \notin Restartable
               PROVE  \E due \in Dues' : /\ WatcherDue(due[1])'
                                          /\ Lined(seen', due)
                                          /\ LoopDue(due[Len(seen) + 1])'
    BY <2>1 DEF OrderInv
  <2>2. PICK due \in Dues : /\ WatcherDue(due[1]) /\ Lined(seen, due)
                            /\ LoopDue(due[Len(seen) + 1])
    BY DEF OrderInv
  <2>3. PICK e : e = due[Len(seen) + 1]
    OBVIOUS
  <2>4. PICK h : h = Head(seen)
    OBVIOUS
  <2>5. /\ h \in {"isLegit", due[1]}
        /\ \E next \in Dues' :
              /\ next[1] = IF h = "isLegit" THEN due[1] ELSE Follow[due[1]]
              /\ Lined(seen', next)
              /\ next[Len(seen') + 1] = e
    BY <1>1, <1>5, <2>2, <2>3, <2>4, DueAfterTail
  <2>6. PICK next \in Dues' :
              /\ next[1] = IF h = "isLegit" THEN due[1] ELSE Follow[due[1]]
              /\ Lined(seen', next)
              /\ next[Len(seen') + 1] = e
    BY <2>5
  <2>7. due[1] \in Round
    BY <1>1, <2>2 DEF Dues
  <2>8. WatcherDue(next[1])'
    <3>1. CASE h = "isLegit"
      BY <1>5, <2>2, <2>4, <2>6, <2>7, <3>1
    <3>2. CASE h # "isLegit"
      BY <1>5, <2>2, <2>4, <2>5, <2>6, <2>7, <3>2
    <3> QED
      BY <3>1, <3>2
  <2>9. LoopDue(e)'
    BY <1>3, <2>2, <2>3
  <2> QED
    BY <2>6, <2>8, <2>9
<1>6. /\ Follow["anomaly"] = "new_plan" /\ Follow["new_plan"] = "/spin_config"
      /\ Follow["/spin_config"] = "anomaly"
  BY DEF Follow, Round
<1>7. CASE BeginA
  BY <1>5, <1>6, <1>7 DEF BeginA, PublishStage, WatcherDue, Round
<1>8. CASE ReportP
  BY <1>5, <1>6, <1>8 DEF ReportP, Report, PublishStage, WatcherDue, Round
<1>9. CASE ReportE
  BY <1>5, <1>6, <1>9 DEF ReportE, Report, PublishStage, WatcherDue, Round
<1>10. CASE ReportL
  BY <1>5, <1>10 DEF ReportL, Report, PublishStage, WatcherDue
<1> QED
  BY <1>4, <1>7, <1>8, <1>9, <1>10

LEMMA InitOrderInv == TrustInit => OrderInv
<1> SUFFICES ASSUME TrustInit PROVE OrderInv
  OBVIOUS
<1>1. seen \in Seq(Event) /\ Len(seen) = 0
  BY EmptySeq DEF TrustInit
<1> DEFINE due == [i \in 1..1 |-> "anomaly"]
<1>2. due \in Dues /\ due[1] = "anomaly"
  BY <1>1 DEF Dues, Round
<1>3. WatcherDue("anomaly")
  BY DEF TrustInit, WatcherDue
<1>4. Lined(seen, due)
  BY <1>1 DEF Lined
<1>5. LoopDue("anomaly")
  BY DEF TrustInit, Init, LoopDue, Nodes
<1> HIDE DEF due
<1> QED
  BY <1>1, <1>2, <1>3, <1>4, <1>5 DEF OrderInv

TrustInv == TypeInv /\ LoopInv /\ OrderInv

LEMMA NextTrustInv == TrustInv /\ [TrustNext]_varsAll => TrustInv'
<1> SUFFICES ASSUME TrustInv, [TrustNext]_varsAll PROVE TrustInv'
  OBVIOUS
<1>1. TypeInv' /\ LoopInv'
  BY StepOfLoop, NextTypeInv, NextLoopInv DEF TrustInv
<1>2. CASE LoopStep
  BY <1>1, <1>2, LoopOrderInv DEF TrustInv
<1>3. CASE BeginA \/ EndA \/ ReportP \/ ReportL \/ ReportE
  BY <1>1, <1>3, WatcherOrderInv DEF TrustInv
<1>4. CASE UNCHANGED varsAll
  <2>1. OrderInv'
    BY <1>4 DEF TrustInv, OrderInv, Dues, WatcherDue, LoopDue, varsAll, varsWatch,
                vars, varsKnowledge
  <2> QED
    BY <1>1, <2>1 DEF TrustInv
<1> QED
  BY <1>2, <1>3, <1>4 DEF TrustNext

\* The stages of a round follow each other and the rounds do not mix, whatever
\* the timing of the nodes, the number of events on their way, and the
\* restarts of all nodes but Analysis.
THEOREM StagesStayInOrder == TrustSpec => StagesInOrder
<1>1. TrustInit => TrustInv
  BY InitTypeInv, InitLoopInv, InitOrderInv DEF TrustInit, TrustInv
<1>2. TrustInv /\ [TrustNext]_varsAll =>
        [ "Analysis" \notin Restartable =>
            /\ BeginA => last = "e"
            /\ EndA => last = "m"
            /\ ReportP => last = "a"
            /\ ReportE => last = "p" ]_varsAll
  <2> SUFFICES ASSUME TrustInv, "Analysis" \notin Restartable
               PROVE  /\ BeginA => last = "e"
                      /\ EndA => last = "m"
                      /\ ReportP => last = "a"
                      /\ ReportE => last = "p"
    OBVIOUS
  <2>1. PICK due \in Dues : WatcherDue(due[1]) /\ Lined(seen, due)
    BY DEF TrustInv, OrderInv
  <2>2. seen # <<>> /\ Head(seen) # "isLegit" => Head(seen) = due[1]
    <3> SUFFICES ASSUME seen # <<>>, Head(seen) # "isLegit" PROVE Head(seen) = due[1]
      OBVIOUS
    <3>1. seen \in Seq(Event) /\ Head(seen) = seen[1] /\ 1 \in 1..Len(seen)
      BY HeadTailProperties, LenProperties, EmptySeq DEF TrustInv, OrderInv
    <3> QED
      BY <2>1, <3>1 DEF Lined
  <2> QED
    BY <2>1, <2>2 DEF WatcherDue, BeginA, EndA, ReportP, ReportE, Report
<1> QED
  BY <1>1, <1>2, NextTrustInv, PTL DEF TrustSpec, StagesInOrder
=============================================================================
