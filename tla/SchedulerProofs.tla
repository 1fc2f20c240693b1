-------------------------- MODULE SchedulerProofs --------------------------
(***************************************************************************)
(* What holds of distributed monitoring for every set of robots, every     *)
(* mode and all constraints: positions are paired, the nodes' work fits    *)
(* the plan in force, and verdicts are about the last plan and positive.   *)
(***************************************************************************)
EXTENDS Scheduler, FiniteSetTheorems, WellFoundedInduction, TLAPS

\* The nodes of every graph made of positions, and the work a centralised plan
\* gives them.
NodesOfPositions ==
  IF Central \in ToSet(locations) THEN locations ELSE Append(locations, Central)
CentralWork(names) == [i \in DOMAIN names |-> IF names[i] = "central" THEN Vars ELSE <<>>]

-----------------------------------------------------------------------------
(* The provider: positions are taken off the channels once.                 *)
Positions == UNION {Messages[locations[r]] : r \in Robots}

PairInv ==
  /\ link \in Seq(Robots \X Positions)
  /\ received \in [Robots -> Nat] /\ rows \in Nat
  /\ queue \in [Robots -> Seq(Positions)]
  /\ taken \in [Robots -> SUBSET Positions]
  /\ \A r \in Robots : taken[r] = {} \/ \E p \in Positions : taken[r] = {p}
  /\ PositionsPaired

LEMMA Sizes == Cardinality({}) = 0 /\ \A p : Cardinality({p}) = 1
BY FS_EmptySet, FS_Singleton

LEMMA SizeOfOne == ASSUME NEW S, S = {} \/ \E p : S = {p} PROVE Cardinality(S) \in Nat
<1>1. CASE S = {}
  BY <1>1, Sizes
<1>2. CASE \E p : S = {p}
  <2>1. PICK p : S = {p}
    BY <1>2
  <2>2. Cardinality({p}) = 1
    BY Sizes
  <2>3. Cardinality(S) = 1
    BY <2>1, <2>2, Zenon
  <2> QED
    BY <2>3
<1> QED
  BY <1>1, <1>2

LEMMA NextPair == PairInv /\ [Next]_vars => PairInv'
<1> SUFFICES ASSUME PairInv, [Next]_vars PROVE PairInv'
  OBVIOUS
<1>0. UNCHANGED locations /\ Robots' = Robots /\ Positions' = Positions
  BY DEF Next, vars, given, Publish, Receive, Take, LoseConnection, Join, GraphsEnd, StaticGraph,
         Iterate, Monitored, Judge, SolverPanics, VerdictsEnd, Execute, TrialExecutes, Send, Tick,
         MonitorEnds, Subscribe, Crash, Robots, Positions
<1>1. ASSUME NEW r \in Robots, Publish(r) PROVE PairInv'
  <2>1. PICK m \in Messages[locations[r]] : link' = Append(link, <<r, m>>)
    BY <1>1 DEF Publish
  <2>2. <<r, m>> \in Robots \X Positions
    BY DEF Positions
  <2>3. link' \in Seq(Robots \X Positions)
    BY <2>1, <2>2 DEF PairInv
  <2>4. UNCHANGED <<received, queue, taken, rows>>
    BY <1>1 DEF Publish
  <2> QED
    BY <1>0, <2>3, <2>4 DEF PairInv, PositionsPaired
<1>2. CASE Receive
  <2> DEFINE q == Head(link)[1]  position == Head(link)[2]
  <2>1. /\ link # <<>> /\ link' = Tail(link)
        /\ UNCHANGED <<taken, rows>>
    BY <1>2 DEF Receive
  <2>2. Head(link) \in Robots \X Positions /\ link' \in Seq(Robots \X Positions)
    BY <2>1 DEF PairInv
  <2>3. q \in Robots /\ position \in Positions
    BY <2>2
  <2>4. CASE UNCHANGED <<queue, received>>
    BY <1>0, <2>1, <2>2, <2>4 DEF PairInv, PositionsPaired
  <2>5. CASE /\ queue' = [queue EXCEPT ![q] = Append(@, position)]
             /\ received' = [received EXCEPT ![q] = @ + 1]
    <3>1. /\ queue' \in [Robots -> Seq(Positions)]
          /\ received' \in [Robots -> Nat]
      BY <2>3, <2>5 DEF PairInv
    <3>2. \A r \in Robots : received'[r] = rows + Len(queue'[r]) + Cardinality(taken[r])
      <4> SUFFICES ASSUME NEW r \in Robots
                   PROVE  received'[r] = rows + Len(queue'[r]) + Cardinality(taken[r])
        OBVIOUS
      <4>1. Cardinality(taken[r]) \in Nat
        <5>1. taken[r] = {} \/ \E p : taken[r] = {p}
          BY DEF PairInv
        <5> QED
          BY <5>1, SizeOfOne
      <4>2. received[r] = rows + Len(queue[r]) + Cardinality(taken[r])
        BY DEF PairInv, PositionsPaired
      <4>3. CASE r = q
        <5>1. Len(queue'[r]) = Len(queue[r]) + 1 /\ received'[r] = received[r] + 1
          BY <2>3, <2>5, <4>3 DEF PairInv
        <5> QED
          BY <5>1, <4>1, <4>2 DEF PairInv
      <4>4. CASE r # q
        BY <2>5, <4>2, <4>4 DEF PairInv
      <4> QED
        BY <4>3, <4>4
    <3> QED
      BY <1>0, <2>1, <2>2, <3>1, <3>2 DEF PairInv, PositionsPaired
  <2> QED
    BY <1>2, <2>4, <2>5 DEF Receive
<1>3. ASSUME NEW q \in Robots, Take(q) PROVE PairInv'
  <2>1. /\ taken[q] = {} /\ queue[q] # <<>>
        /\ taken' = [taken EXCEPT ![q] = {Head(queue[q])}]
        /\ queue' = [queue EXCEPT ![q] = Tail(@)]
        /\ UNCHANGED <<link, received, rows>>
    BY <1>3 DEF Take
  <2>2. queue[q] \in Seq(Positions) /\ Head(queue[q]) \in Positions /\ Tail(queue[q]) \in Seq(Positions)
        /\ Len(queue[q]) = Len(Tail(queue[q])) + 1
    BY <1>3, <2>1 DEF PairInv
  <2>3. /\ queue' \in [Robots -> Seq(Positions)]
        /\ taken' \in [Robots -> SUBSET Positions]
        /\ \A r \in Robots : taken'[r] = {} \/ \E p \in Positions : taken'[r] = {p}
    BY <2>1, <2>2 DEF PairInv
  <2>4. \A r \in Robots : received[r] = rows + Len(queue'[r]) + Cardinality(taken'[r])
    <3> SUFFICES ASSUME NEW r \in Robots
                 PROVE  received[r] = rows + Len(queue'[r]) + Cardinality(taken'[r])
      OBVIOUS
    <3>1. received[r] = rows + Len(queue[r]) + Cardinality(taken[r])
      BY DEF PairInv, PositionsPaired
    <3>2. CASE r = q
      <4>1. Cardinality(taken[r]) = 0 /\ Cardinality(taken'[r]) = 1
        BY <2>1, <3>2, Sizes DEF PairInv
      <4>2. Len(queue[r]) = Len(queue'[r]) + 1 /\ Len(queue'[r]) \in Nat
        BY <2>1, <2>2, <3>2 DEF PairInv
      <4> QED
        BY <3>1, <4>1, <4>2 DEF PairInv
    <3>3. CASE r # q
      BY <2>1, <3>1, <3>3 DEF PairInv
    <3> QED
      BY <3>2, <3>3
  <2> QED
    BY <1>0, <2>1, <2>3, <2>4 DEF PairInv, PositionsPaired
<1>4. CASE Join
  <2>1. /\ \A r \in Robots : taken[r] # {}
        /\ taken' = [r \in Robots |-> {}] /\ rows' = rows + 1
        /\ UNCHANGED <<link, received, queue>>
    BY <1>4 DEF Join
  <2>2. \A r \in Robots : received[r] = rows' + Len(queue[r]) + Cardinality(taken'[r])
    <3> SUFFICES ASSUME NEW r \in Robots
                 PROVE  received[r] = rows' + Len(queue[r]) + Cardinality(taken'[r])
      OBVIOUS
    <3>1. received[r] = rows + Len(queue[r]) + Cardinality(taken[r]) /\ Len(queue[r]) \in Nat
      BY DEF PairInv, PositionsPaired
    <3>2. Cardinality(taken[r]) = 1 /\ Cardinality(taken'[r]) = 0
      BY <2>1, Sizes DEF PairInv
    <3> QED
      BY <2>1, <3>1, <3>2 DEF PairInv
  <2>3. rows' \in Nat /\ taken' \in [Robots -> SUBSET Positions] /\ \A r \in Robots : taken'[r] = {}
    BY <2>1 DEF PairInv
  <2> QED
    BY <1>0, <2>1, <2>2, <2>3 DEF PairInv, PositionsPaired
<1>5. CASE UNCHANGED provider
  BY <1>0, <1>5 DEF provider, PairInv, PositionsPaired
<1>6. CASE LoseConnection
  BY <1>0, <1>6 DEF LoseConnection, PairInv, PositionsPaired
<1>7. CASE \/ GraphsEnd \/ StaticGraph \/ Iterate \/ Judge \/ SolverPanics \/ VerdictsEnd \/ Execute
           \/ TrialExecutes \/ Send \/ Tick \/ MonitorEnds \/ \E n \in Workers : Subscribe(n) \/ Crash(n)
  <2>1. UNCHANGED provider
    BY <1>7 DEF provider, GraphsEnd, StaticGraph, Iterate, Monitored, Judge, SolverPanics, VerdictsEnd,
                Execute, TrialExecutes, Send, Tick, MonitorEnds, Subscribe, Crash
  <2> QED
    BY <2>1, <1>5
<1>8. CASE UNCHANGED vars
  BY <1>5, <1>8 DEF vars
<1> QED
  BY <1>1, <1>2, <1>3, <1>4, <1>6, <1>7, <1>8 DEF Next

\* Every position received is in a graph or waits for the slowest robot.
THEOREM PositionsArePaired == Spec => []PositionsPaired
<1>1. Init => PairInv
  BY Sizes DEF Init, PairInv, PositionsPaired
<1>2. PairInv => PositionsPaired
  BY DEF PairInv
<1> QED
  BY <1>1, <1>2, NextPair, PTL DEF Spec

-----------------------------------------------------------------------------
(* Plans: what the planners answer with, and what of a plan stays.          *)
LEMMA PlansOf ==
  ASSUME NEW g
  PROVE  /\ mode = "static" => Plan(g) = {FixedPlan}
         /\ mode = "centralised" => Plan(g) = {CentralisedPlan(g, Vars, "central")}
         /\ mode = "random" => Plan(g) = RandomPlans(g, Vars)
         /\ mode \in Optimized => Plan(g) = chosen
BY DEF Plan, Optimized

\* A centralised plan is for the graph it is made of, and its work depends on
\* nothing but the names.
LEMMA CentralisedPlans ==
  ASSUME NEW g
  PROVE  /\ CentralisedPlan(g, Vars, "central").graph = g
         /\ CentralisedPlan(g, Vars, "central").labels = CentralWork(g.nodes)
BY DEF CentralisedPlan, LabelledGraph, CentralWork, Indices

LEMMA RandomPlansKeepGraphs == \A g : \A p \in RandomPlans(g, Vars) : p.graph = g
BY DEF RandomPlans, LabelledGraph

\* The labellings the solver tries are of its graph.
LEMMA CandidatesKeepGraphs ==
  ASSUME NEW g, NEW k \in DOMAIN Candidates(g)
  PROVE  Candidates(g)[k].graph = g
BY DEF Candidates, PossibleLabelled, LabelledGraph

\* A graph of positions has the nodes of its robots.
LEMMA GraphsOfPositions ==
  ASSUME NEW positions
  PROVE  FromPositions(Central, locations, positions).nodes = NodesOfPositions
BY DEF FromPositions, NodesOfPositions, DistributionGraph

LEMMA NodesAreSome ==
  ASSUME locations \in LocationSets
  PROVE  NodesOfPositions \in Seq(ToSet(locations) \union {Central}) /\ Len(NodesOfPositions) \in Nat \ {0}
<1>1. locations \in Seq(ToSet(locations))
  BY PlanAssumption
<1>2. CASE Central \in ToSet(locations)
  <2>1. locations \in Seq(ToSet(locations) \union {Central})
    BY <1>1
  <2>2. locations # <<>>
    BY <1>2 DEF ToSet
  <2> QED
    BY <1>1, <1>2, <2>1, <2>2 DEF NodesOfPositions
<1>3. CASE Central \notin ToSet(locations)
  BY <1>1, <1>3 DEF NodesOfPositions
<1> QED
  BY <1>2, <1>3

-----------------------------------------------------------------------------
\* What is known of the plan in force, by the mode.
PlanFits ==
  /\ mode = "static" => plan[2] = FixedPlan
  /\ mode # "static" => plan[2].graph.nodes = NodesOfPositions
  /\ mode = "centralised" => plan[2].labels = CentralWork(NodesOfPositions)
  /\ mode \in Optimized => chosen = {plan[2]}

\* While the solver searches it has no plan yet, and its graph has the
\* labelling in hand.
SolverInv ==
  /\ \A g, h \in graph : g = h
  /\ pc = "solve" => Searches /\ \A g \in graph : trying \in DOMAIN Candidates(g)

PlanInv ==
  /\ mode \in {"static", "centralised", "random", "static_optimized", "dynamic_optimized"}
  /\ locations \in LocationSets
  /\ \A g \in graph : IF mode = "static" THEN g = FixedPlan.graph ELSE g.nodes = NodesOfPositions
  /\ plan \in {<<"unplanned">>, <<"none">>} \/ plan = <<"plan", plan[2]>>
  /\ plan[1] = "plan" => PlanFits
  /\ plan[1] # "plan" => chosen = {}
  /\ mode \notin Optimized => chosen = {}
  /\ \A p \in chosen : Holds(p) /\ p.graph.nodes = NodesOfPositions
  /\ pc \in {"execute", "send"} => plan[1] = "plan"
  /\ pc = "execute" => next \in 1 .. Len(plan[2].graph.nodes)
  /\ SolverInv

\* A step of the loop with a graph, or of the solver on it.
Deciding == Judge \/ \E h : Monitored(h)

\* How such a step can end: with the plan there was, with none, with one of a
\* planner that answers at once, or with a labelling that holds.
Outcome ==
  \/ UNCHANGED <<plan, chosen>>
  \/ Searches /\ plan' = <<"none">> /\ UNCHANGED chosen
  \/ ~Searches /\ UNCHANGED chosen /\ \E g \in graph : \E p \in Plan(g) : plan' = <<"plan", p>>
  \/ /\ Searches
     /\ \E g \in graph : \E p : p.graph = g /\ Holds(p) /\ plan' = <<"plan", p>> /\ chosen' = {p}

\* Either the solver has another labelling to try, or the loop goes on.
Onward ==
  \/ /\ pc' = "solve" /\ Searches /\ UNCHANGED <<graph, plan, chosen, next>>
     /\ \E g \in graph : trying' \in DOMAIN Candidates(g) /\ trials' = trials \union {Candidates(g)[trying']}
  \/ Proceed /\ UNCHANGED trials

LEMMA Searching ==
  ASSUME NEW STATE k, Search(k), Searches
  PROVE  Outcome /\ Onward
BY DEF Search, Outcome, Onward

LEMMA Iterations ==
  ASSUME NEW h, Monitored(h)
  PROVE  /\ Outcome /\ Onward /\ UNCHANGED <<mode, constraints, locations>>
         /\ ReplanningCondition(mode) = "Never" /\ plan # <<"unplanned">> => UNCHANGED <<plan, chosen>>
<1>1. Outcome /\ Onward
  <2>1. CASE Searches /\ Search(1)
    BY <2>1, Searching
  <2>2. CASE UNCHANGED <<plan, chosen, trials>> /\ Proceed
    BY <2>2 DEF Outcome, Onward
  <2>3. CASE /\ ~Searches /\ Proceed /\ UNCHANGED <<chosen, trials>>
             /\ \E g \in graph : \E p \in Plan(g) : plan' = <<"plan", p>>
    BY <2>3 DEF Outcome, Onward
  <2> QED
    BY <2>1, <2>2, <2>3 DEF Monitored
<1>2. ReplanningCondition(mode) = "Never" /\ plan # <<"unplanned">> => UNCHANGED <<plan, chosen>>
  BY DEF Monitored, ShouldPlan
<1>3. UNCHANGED <<mode, constraints, locations>>
  BY DEF Monitored, given
<1> QED
  BY <1>1, <1>2, <1>3

LEMMA Verdicts ==
  ASSUME PlanInv, Judge
  PROVE  Outcome /\ Onward /\ UNCHANGED <<mode, constraints, locations>>
<1>0. UNCHANGED <<mode, constraints, locations>>
  BY DEF Judge, given
<1>1. Searches /\ \A g \in graph : trying \in DOMAIN Candidates(g)
  BY DEF Judge, PlanInv, SolverInv
<1>a. PICK g \in graph : \E p \in {Candidates(g)[trying]} :
        \/ /\ Holds(p) /\ plan' = <<"plan", p>> /\ chosen' = {p}
           /\ Proceed /\ UNCHANGED <<trials, trying>>
        \/ ~Holds(p) /\ Search(trying + 1)
  BY DEF Judge
<1>2. PICK p \in {Candidates(g)[trying]} :
        \/ /\ Holds(p) /\ plan' = <<"plan", p>> /\ chosen' = {p}
           /\ Proceed /\ UNCHANGED <<trials, trying>>
        \/ ~Holds(p) /\ Search(trying + 1)
  BY <1>a
<1>3. CASE Holds(p) /\ plan' = <<"plan", p>> /\ chosen' = {p} /\ Proceed /\ UNCHANGED trials
  <2>1. p.graph = g
    BY <1>1, CandidatesKeepGraphs
  <2> QED
    BY <1>0, <1>1, <1>3, <2>1 DEF Outcome, Onward
<1>4. CASE Search(trying + 1)
  BY <1>0, <1>1, <1>4, Searching
<1> QED
  BY <1>2, <1>3, <1>4

LEMMA Decisions ==
  ASSUME PlanInv, Deciding
  PROVE  Outcome /\ Onward /\ UNCHANGED <<mode, constraints, locations>>
BY Iterations, Verdicts DEF Deciding

\* The plan such a step ends with: kept, or the first, or one that fits.
LEMMA OutcomesFit ==
  ASSUME PlanInv, Outcome, UNCHANGED <<mode, constraints, locations>>
  PROVE  /\ plan' \in {<<"unplanned">>, <<"none">>} \/ plan' = <<"plan", plan'[2]>>
         /\ plan'[1] = "plan" => PlanFits'
         /\ plan'[1] # "plan" => chosen' = {}
         /\ mode \notin Optimized => chosen' = {}
         /\ \A p \in chosen' : Holds(p) /\ p.graph.nodes = NodesOfPositions
         /\ plan[1] = "plan" => plan'[1] = "plan"
<1>1. CASE UNCHANGED <<plan, chosen>>
  BY <1>1 DEF PlanInv, PlanFits, NodesOfPositions
<1>2. CASE Searches /\ plan' = <<"none">> /\ UNCHANGED chosen
  <2>1. chosen = {} /\ mode \in Optimized
    BY <1>2 DEF Searches
  <2>2. plan[1] # "plan"
    BY <2>1 DEF PlanInv, PlanFits
  <2> QED
    BY <1>2, <2>1, <2>2
<1>3. CASE ~Searches /\ UNCHANGED chosen /\ \E g \in graph : \E p \in Plan(g) : plan' = <<"plan", p>>
  <2>1. PICK g \in graph : \E p \in Plan(g) : plan' = <<"plan", p>>
    BY <1>3
  <2>2. PICK p \in Plan(g) : plan' = <<"plan", p>>
    BY <2>1
  <2>3. mode = "static" => p = FixedPlan
    BY PlansOf
  <2>4. mode = "centralised" => p.graph.nodes = NodesOfPositions /\ p.labels = CentralWork(NodesOfPositions)
    BY PlansOf, CentralisedPlans DEF PlanInv
  <2>5. mode = "random" => p.graph.nodes = NodesOfPositions
    BY PlansOf, RandomPlansKeepGraphs DEF PlanInv
  <2>6. ASSUME mode \in Optimized PROVE p.graph.nodes = NodesOfPositions /\ chosen = {p}
    <3>1. p \in chosen
      BY <2>6, PlansOf
    <3>2. plan[1] = "plan" /\ chosen = {plan[2]}
      BY <2>6, <3>1 DEF PlanInv, PlanFits
    <3> QED
      BY <3>1, <3>2 DEF PlanInv
  <2>7. PlanFits'
    BY <1>3, <2>2, <2>3, <2>4, <2>5, <2>6 DEF PlanFits, PlanInv, Optimized, NodesOfPositions
  <2> QED
    BY <1>3, <2>2, <2>7 DEF PlanInv
<1>4. CASE /\ Searches
           /\ \E g \in graph : \E p : p.graph = g /\ Holds(p) /\ plan' = <<"plan", p>> /\ chosen' = {p}
  <2>1. PICK g \in graph : \E p : p.graph = g /\ Holds(p) /\ plan' = <<"plan", p>> /\ chosen' = {p}
    BY <1>4
  <2>2. PICK p : p.graph = g /\ Holds(p) /\ plan' = <<"plan", p>> /\ chosen' = {p}
    BY <2>1
  <2>3. mode \in Optimized /\ mode # "static" /\ mode # "centralised"
    BY <1>4 DEF Searches, Optimized
  <2>4. p.graph.nodes = NodesOfPositions
    BY <2>2, <2>3 DEF PlanInv
  <2>5. PlanFits'
    BY <2>2, <2>3, <2>4 DEF PlanFits, NodesOfPositions
  <2> QED
    BY <2>2, <2>3, <2>4, <2>5
<1> QED
  BY <1>1, <1>2, <1>3, <1>4 DEF Outcome

PlanState == <<mode, constraints, locations, graph, pc, plan, chosen, next, trials, trying>>

\* Which actions touch what PlanInv is about.
LEMMA PlanSteps ==
  ASSUME [Next]_vars
  PROVE  \/ UNCHANGED PlanState
         \/ Join \/ GraphsEnd \/ StaticGraph \/ SolverPanics \/ VerdictsEnd \/ Execute \/ Send
         \/ Deciding
<1>1. CASE \E r \in Robots : Publish(r) \/ Take(r)
  BY <1>1 DEF Publish, Take, given, scheduler, PlanState
<1>2. CASE Receive \/ LoseConnection \/ TrialExecutes
  BY <1>2 DEF Receive, LoseConnection, TrialExecutes, given, scheduler, PlanState
<1>3. CASE Tick \/ MonitorEnds \/ \E n \in Workers : Subscribe(n) \/ Crash(n)
  BY <1>3 DEF Tick, MonitorEnds, Subscribe, Crash, given, scheduler, PlanState
<1>4. CASE Iterate \/ Judge
  BY <1>4 DEF Iterate, Deciding
<1>5. CASE UNCHANGED vars
  BY <1>5 DEF vars, given, scheduler, PlanState
<1> QED
  BY <1>1, <1>2, <1>3, <1>4, <1>5 DEF Next

\* Nothing changes what was chosen at the start.
LEMMA GivenStays ==
  ASSUME PlanInv, [Next]_vars
  PROVE  UNCHANGED <<mode, constraints, locations>> /\ \A p : Holds(p)' = Holds(p)
<1>1. UNCHANGED <<mode, constraints, locations>>
  BY PlanSteps, Decisions DEF PlanState, given, Join, GraphsEnd, StaticGraph, SolverPanics, VerdictsEnd,
     Execute, Send
<1> QED
  BY <1>1 DEF Holds, Satisfied, Name

\* A plan in force is for one node at least.
LEMMA PlanNodes ==
  ASSUME PlanInv, plan[1] = "plan"
  PROVE  Len(plan[2].graph.nodes) \in Nat \ {0}
BY NodesAreSome, PlanAssumption DEF PlanInv, PlanFits

LEMMA NextPlan == PlanInv /\ [Next]_vars => PlanInv'
<1> SUFFICES ASSUME PlanInv, [Next]_vars PROVE PlanInv'
  OBVIOUS
<1>0. UNCHANGED <<mode, constraints, locations>> /\ \A p : Holds(p)' = Holds(p)
  BY GivenStays
<1>a. NodesOfPositions' = NodesOfPositions
  BY <1>0 DEF NodesOfPositions
<1>b. UNCHANGED <<plan, chosen>> => (PlanFits' = PlanFits)
  BY <1>0, <1>a DEF PlanFits
<1>c. UNCHANGED chosen => (Searches' = Searches)
  BY <1>0 DEF Searches
<1>1. CASE UNCHANGED PlanState
  BY <1>0, <1>a, <1>b, <1>c, <1>1 DEF PlanState, PlanInv, SolverInv
<1>2. CASE Join
  <2>1. /\ graph' = {FromPositions(Central, locations, [r \in Robots |-> CHOOSE p \in taken[r] : TRUE])}
        /\ mode # "static" /\ pc = "monitor" /\ UNCHANGED <<pc, plan, chosen, next>>
    BY <1>2 DEF Join, Polled
  <2>2. \A g \in graph' : g.nodes = NodesOfPositions
    BY <2>1, GraphsOfPositions
  <2>3. SolverInv'
    BY <2>1 DEF SolverInv
  <2> QED
    BY <1>0, <1>a, <1>b, <2>1, <2>2, <2>3 DEF PlanInv
<1>3. CASE StaticGraph
  <2>1. graph' = {FixedPlan.graph} /\ mode = "static" /\ pc = "monitor" /\ UNCHANGED <<pc, plan, chosen, next>>
    BY <1>3 DEF StaticGraph, Polled
  <2>2. SolverInv'
    BY <2>1 DEF SolverInv
  <2> QED
    BY <1>0, <1>a, <1>b, <2>1, <2>2 DEF PlanInv
<1>4. CASE GraphsEnd \/ SolverPanics \/ VerdictsEnd
  <2>1. UNCHANGED <<graph, plan, chosen, next>> /\ pc' \notin {"execute", "send", "solve"}
    BY <1>4 DEF GraphsEnd, SolverPanics, VerdictsEnd
  <2> QED
    BY <1>0, <1>a, <1>b, <2>1 DEF PlanInv, SolverInv
<1>5. CASE Execute
  <2>1. /\ pc = "execute" /\ next' = next + 1
        /\ pc' = IF next = Len(plan[2].graph.nodes) THEN "send" ELSE "execute"
        /\ UNCHANGED <<graph, plan, chosen>>
    BY <1>5 DEF Execute
  <2>2. next \in 1 .. Len(plan[2].graph.nodes) /\ plan[1] = "plan"
    BY <2>1 DEF PlanInv
  <2>3. Len(plan[2].graph.nodes) \in Nat
    BY <2>2, PlanNodes
  <2>4. pc' = "execute" => next' \in 1 .. Len(plan[2].graph.nodes)
    BY <2>1, <2>2, <2>3
  <2>5. SolverInv'
    BY <2>1 DEF PlanInv, SolverInv
  <2> QED
    BY <1>0, <1>a, <1>b, <2>1, <2>2, <2>4, <2>5 DEF PlanInv
<1>6. CASE Send
  <2>1. pc' = "monitor" /\ UNCHANGED <<graph, plan, chosen, next>>
    BY <1>6 DEF Send
  <2> QED
    BY <1>0, <1>a, <1>b, <2>1 DEF PlanInv, SolverInv
<1>7. CASE Deciding
  <2>1. Outcome /\ Onward
    BY <1>7, Decisions
  <2>2. /\ plan' \in {<<"unplanned">>, <<"none">>} \/ plan' = <<"plan", plan'[2]>>
        /\ plan'[1] = "plan" => PlanFits'
        /\ plan'[1] # "plan" => chosen' = {}
        /\ mode \notin Optimized => chosen' = {}
        /\ \A p \in chosen' : Holds(p) /\ p.graph.nodes = NodesOfPositions
    BY <1>0, <2>1, OutcomesFit
  <2>3. CASE Proceed
    <3>1. /\ pc' = (IF plan'[1] = "plan" THEN "execute" ELSE "monitor")
          /\ graph' = {} /\ next' = 1
      BY <2>3 DEF Proceed
    <3>2. plan'[1] = "plan" => Len(plan'[2].graph.nodes) \in Nat \ {0}
      BY <1>0, <1>a, <2>2, NodesAreSome, PlanAssumption DEF PlanInv, PlanFits
    <3>3. pc' = "execute" => next' \in 1 .. Len(plan'[2].graph.nodes)
      BY <3>1, <3>2
    <3>4. pc' \in {"execute", "send"} => plan'[1] = "plan"
      BY <3>1
    <3>5. SolverInv'
      BY <3>1 DEF SolverInv
    <3> QED
      BY <1>0, <1>a, <2>2, <3>1, <3>3, <3>4, <3>5 DEF PlanInv
  <2>4. CASE /\ pc' = "solve" /\ Searches /\ UNCHANGED <<graph, plan, chosen, next>>
             /\ \E g \in graph : trying' \in DOMAIN Candidates(g)
    <3>1. SolverInv'
      BY <1>c, <2>4 DEF SolverInv, PlanInv
    <3> QED
      BY <1>0, <1>a, <2>2, <2>4, <3>1 DEF PlanInv
  <2> QED
    BY <2>1, <2>3, <2>4 DEF Onward
<1> QED
  BY <1>1, <1>2, <1>3, <1>4, <1>5, <1>6, <1>7, PlanSteps

LEMMA InitPlan ==
  ASSUME Init
  PROVE  PlanInv
<1>1. mode \in {"static", "centralised", "random", "static_optimized", "dynamic_optimized"}
  BY PlanAssumption DEF Init
<1>2. locations \in LocationSets /\ graph = {} /\ chosen = {} /\ pc = "monitor"
  BY DEF Init
<1>3. plan = <<"unplanned">> /\ plan[1] = "unplanned"
  BY DEF Init
<1> QED
  BY <1>1, <1>2, <1>3 DEF PlanInv, SolverInv

-----------------------------------------------------------------------------
\* Apart from the random mode, a plan in force keeps its work, and in the
\* modes that plan once it is kept altogether.
LEMMA PlanStays ==
  ASSUME PlanInv, [Next]_vars, mode # "random", plan[1] = "plan"
  PROVE  /\ plan'[1] = "plan" /\ plan'[2].labels = plan[2].labels
         /\ plan'[2].graph.nodes = plan[2].graph.nodes
         /\ mode # "centralised" => plan' = plan
<1>1. CASE UNCHANGED plan
  BY <1>1
<1>0. UNCHANGED <<mode, constraints, locations>>
  BY GivenStays
<1>2. ASSUME Outcome PROVE plan'[1] = "plan" /\ (mode # "centralised" => plan' = plan)
  <2>1. plan'[1] = "plan" /\ plan' = <<"plan", plan'[2]>> /\ PlanFits'
    BY <1>0, <1>2, OutcomesFit
  <2>2. plan = <<"plan", plan[2]>> /\ PlanFits
    BY DEF PlanInv
  <2>3. CASE mode = "static"
    BY <1>0, <2>1, <2>2, <2>3 DEF PlanFits
  <2>4. CASE mode \in Optimized
    <3>1. chosen = {plan[2]} /\ ~Searches
      BY <2>2, <2>4 DEF PlanFits, Searches
    <3>2. \A g : Plan(g) = {plan[2]}
      BY <3>1, <2>4, PlansOf
    <3>3. UNCHANGED plan \/ \E g \in graph : \E p \in Plan(g) : plan' = <<"plan", p>>
      BY <1>2, <3>1 DEF Outcome
    <3> QED
      BY <2>1, <2>2, <3>2, <3>3
  <2> QED
    BY <2>1, <2>3, <2>4 DEF PlanInv, Optimized
<1>3. Outcome \/ UNCHANGED plan
  BY PlanSteps, Decisions DEF PlanState, Join, GraphsEnd, StaticGraph, SolverPanics, VerdictsEnd, Execute, Send
<1>4. plan'[1] = "plan" /\ (mode # "centralised" => plan' = plan)
  BY <1>1, <1>2, <1>3
<1>5. ASSUME mode = "centralised"
      PROVE  plan'[2].labels = plan[2].labels /\ plan'[2].graph.nodes = plan[2].graph.nodes
  <2>1. PlanInv' /\ UNCHANGED <<mode, locations>>
    BY <1>0, NextPlan
  <2>2. PlanFits /\ PlanFits'
    BY <1>4, <2>1 DEF PlanInv
  <2> QED
    BY <1>5, <2>1, <2>2 DEF PlanFits, NodesOfPositions
<1> QED
  BY <1>4, <1>5

\* Apart from the random mode no variable ever moves to another node.
THEOREM PlansAreKept == Spec => PlanKept
<1>1. PlanInv /\ [Next]_vars =>
        [mode # "random" /\ plan[1] = "plan" =>
           /\ plan'[1] = "plan" /\ plan'[2].labels = plan[2].labels
           /\ mode # "centralised" => plan' = plan]_vars
  BY PlanStays
<1> QED
  BY <1>1, InitPlan, NextPlan, PTL DEF Spec, PlanKept

\* Of the labellings the solver has tried only the one in hand, and then the
\* one it chose, may meet the constraints.
TrialInv ==
  /\ mode \notin Optimized => trials = {}
  /\ pc = "solve" => \A p \in trials : ~Holds(p) \/ \E g \in graph : p = Candidates(g)[trying]
  /\ pc \notin {"solve", "panicked"} => \A p \in trials : ~Holds(p) \/ p \in chosen

LEMMA NextTrials == PlanInv /\ TrialInv /\ [Next]_vars => TrialInv'
<1> SUFFICES ASSUME PlanInv, TrialInv, [Next]_vars PROVE TrialInv'
  OBVIOUS
<1>0. UNCHANGED <<mode, constraints, locations>> /\ \A p : Holds(p)' = Holds(p)
  BY GivenStays
<1>a. \A g : Candidates(g)' = Candidates(g)
  OBVIOUS
<1>1. CASE UNCHANGED PlanState
  BY <1>0, <1>a, <1>1 DEF PlanState, TrialInv
<1>2. CASE Join \/ GraphsEnd \/ StaticGraph \/ VerdictsEnd \/ Execute \/ Send
  <2>1. pc \notin {"solve", "panicked"} /\ pc' \notin {"solve", "panicked"} /\ UNCHANGED <<chosen, trials>>
    BY <1>2 DEF Join, GraphsEnd, StaticGraph, VerdictsEnd, Execute, Send, Polled
  <2> QED
    BY <1>0, <2>1 DEF TrialInv
<1>3. CASE SolverPanics
  <2>1. pc' = "panicked" /\ UNCHANGED trials
    BY <1>3 DEF SolverPanics
  <2> QED
    BY <1>0, <2>1 DEF TrialInv
<1>4. ASSUME NEW h, Monitored(h) PROVE TrialInv'
  <2>1. pc = "monitor" /\ \A p \in trials : ~Holds(p) \/ p \in chosen
    BY <1>4 DEF Monitored, TrialInv
  <2>2. Outcome /\ Onward
    BY <1>4, Iterations
  <2>3. CASE Proceed /\ UNCHANGED trials
    <3>1. pc' \notin {"solve", "panicked"}
      BY <2>3 DEF Proceed
    <3>2. chosen \subseteq chosen'
      BY <2>2 DEF Outcome, Searches
    <3> QED
      BY <1>0, <2>1, <2>3, <3>1, <3>2 DEF TrialInv
  <2>4. CASE /\ pc' = "solve" /\ Searches /\ UNCHANGED <<graph, plan, chosen, next>>
             /\ \E g \in graph : trying' \in DOMAIN Candidates(g) /\ trials' = trials \union {Candidates(g)[trying']}
    <3>1. \A p \in trials : ~Holds(p)
      BY <2>1, <2>4 DEF Searches
    <3> QED
      BY <1>0, <1>a, <2>4, <3>1 DEF TrialInv, Searches
  <2> QED
    BY <2>2, <2>3, <2>4 DEF Onward
<1>5. CASE Judge
  <2>1. Searches /\ pc = "solve" /\ \A g, h \in graph : g = h
    BY <1>5 DEF Judge, PlanInv, SolverInv
  <2>a. PICK g \in graph : \E p \in {Candidates(g)[trying]} :
          \/ /\ Holds(p) /\ plan' = <<"plan", p>> /\ chosen' = {p}
             /\ Proceed /\ UNCHANGED <<trials, trying>>
          \/ ~Holds(p) /\ Search(trying + 1)
    BY <1>5 DEF Judge
  <2>2. PICK p \in {Candidates(g)[trying]} :
          \/ /\ Holds(p) /\ plan' = <<"plan", p>> /\ chosen' = {p}
             /\ Proceed /\ UNCHANGED <<trials, trying>>
          \/ ~Holds(p) /\ Search(trying + 1)
    BY <2>a
  <2>3. \A q \in trials : ~Holds(q) \/ q = p
    BY <2>1, <2>2 DEF TrialInv
  <2>4. CASE chosen' = {p} /\ Proceed /\ UNCHANGED trials
    <3>1. pc' \notin {"solve", "panicked"}
      BY <2>4 DEF Proceed
    <3> QED
      BY <1>0, <2>1, <2>3, <2>4, <3>1 DEF TrialInv, Searches
  <2>5. CASE ~Holds(p) /\ Search(trying + 1)
    <3>1. \A q \in trials : ~Holds(q)
      BY <2>3, <2>5
    <3>2. Onward
      BY <2>1, <2>5, Searching
    <3>3. CASE Proceed /\ UNCHANGED trials
      <4>1. pc' \notin {"solve", "panicked"}
        BY <3>3 DEF Proceed
      <4> QED
        BY <1>0, <2>1, <3>1, <3>3, <4>1 DEF TrialInv, Searches
    <3>4. CASE /\ pc' = "solve" /\ Searches /\ UNCHANGED <<graph, plan, chosen, next>>
               /\ \E x \in graph : trying' \in DOMAIN Candidates(x) /\ trials' = trials \union {Candidates(x)[trying']}
      BY <1>0, <1>a, <3>1, <3>4 DEF TrialInv, Searches
    <3> QED
      BY <3>2, <3>3, <3>4 DEF Onward
  <2> QED
    BY <2>2, <2>4, <2>5
<1> QED
  BY <1>1, <1>2, <1>3, <1>4, <1>5, PlanSteps DEF Deciding

\* The work a node has is its share of the plan in force, or of a labelling
\* that was tried.
Fits(n) ==
  \/ plan[1] = "plan" /\ node[n][2] \in Share(plan[2], n)
  \/ /\ mode \in Optimized
     /\ \E p \in trials :
          node[n][2] \in Share(p, n) /\ (pc \in {"solve", "panicked"} \/ ~Holds(p))

WorkInv == DOMAIN node = Workers /\ WorkFitsPlan

LEMMA TrialsGrow ==
  ASSUME PlanInv, [Next]_vars
  PROVE  trials \subseteq trials' /\ (pc = "panicked" => pc' = "panicked")
<1>1. CASE UNCHANGED PlanState
  BY <1>1 DEF PlanState
<1>2. CASE Join \/ GraphsEnd \/ StaticGraph \/ SolverPanics \/ VerdictsEnd \/ Execute \/ Send
  BY <1>2 DEF Join, GraphsEnd, StaticGraph, SolverPanics, VerdictsEnd, Execute, Send, Polled
<1>3. CASE Deciding
  <2>1. pc # "panicked"
    BY <1>3 DEF Deciding, Monitored, Judge
  <2> QED
    BY <1>3, <2>1, Decisions DEF Onward
<1> QED
  BY <1>1, <1>2, <1>3, PlanSteps

\* Work that fits goes on fitting while the node keeps it.
LEMMA FittingStays ==
  ASSUME PlanInv, TrialInv, [Next]_vars, mode # "random", NEW n, node'[n] = node[n], Fits(n)
  PROVE  Fits(n)'
<1>0. UNCHANGED <<mode, constraints, locations>> /\ \A p : Holds(p)' = Holds(p)
  BY GivenStays
<1>1. CASE plan[1] = "plan" /\ node[n][2] \in Share(plan[2], n)
  <2>1. /\ plan'[1] = "plan" /\ plan'[2].labels = plan[2].labels
        /\ plan'[2].graph.nodes = plan[2].graph.nodes
    BY <1>1, PlanStays
  <2>2. Share(plan'[2], n) = Share(plan[2], n)
    BY <2>1 DEF Share, Indices
  <2> QED
    BY <1>1, <2>1, <2>2 DEF Fits, Share, Indices
<1>2. CASE /\ mode \in Optimized
           /\ \E p \in trials :
                node[n][2] \in Share(p, n) /\ (pc \in {"solve", "panicked"} \/ ~Holds(p))
  <2>1. PICK p \in trials :
          node[n][2] \in Share(p, n) /\ (pc \in {"solve", "panicked"} \/ ~Holds(p))
    BY <1>2
  <2>2. p \in trials' /\ node'[n][2] \in Share(p, n)'
    BY <2>1, TrialsGrow DEF Share, Indices
  <2>3. CASE pc' \in {"solve", "panicked"} \/ ~Holds(p)
    BY <1>0, <1>2, <2>2, <2>3 DEF Fits
  <2>4. CASE pc' \notin {"solve", "panicked"} /\ Holds(p)
    <3>1. p \in chosen'
      BY <1>0, <2>2, <2>4, NextTrials DEF TrialInv
    <3>2. plan'[1] = "plan" /\ chosen' = {plan'[2]}
      BY <1>0, <1>2, <3>1, NextPlan DEF PlanInv, PlanFits
    <3> QED
      BY <2>2, <3>1, <3>2 DEF Fits, Share, Indices
  <2> QED
    BY <2>3, <2>4
<1> QED
  BY <1>1, <1>2 DEF Fits

LEMMA NextWork == PlanInv /\ TrialInv /\ WorkInv /\ [Next]_vars => WorkInv'
<1> SUFFICES ASSUME PlanInv, TrialInv, WorkInv, [Next]_vars PROVE WorkInv'
  OBVIOUS
<1>a. DOMAIN node' = Workers
  BY DEF WorkInv, Next, vars, nodes, Publish, Take, Receive, LoseConnection, Join, GraphsEnd, StaticGraph,
         Iterate, Monitored, Judge, SolverPanics, VerdictsEnd, Send, Tick, MonitorEnds, Execute,
         TrialExecutes, Tell, Subscribe, Crash
<1> SUFFICES ASSUME mode' # "random", NEW n \in Workers, node'[n][1] = "working"
             PROVE  Fits(n)'
  BY <1>a DEF WorkInv, WorkFitsPlan, Fits
<1>0. UNCHANGED mode /\ mode # "random"
  BY GivenStays
<1>1. CASE node'[n] = node[n]
  <2>1. Fits(n)
    BY <1>0, <1>1 DEF WorkInv, WorkFitsPlan, Fits
  <2> QED
    BY <1>0, <1>1, <2>1, FittingStays
<1>2. ASSUME node'[n] # node[n], NEW p, NEW i \in Indices(p.graph), Tell(p, i)
      PROVE  node'[n][2] \in Share(p, n) /\ node'[n][2] \in Share(p, n)'
  <2>1. n = p.graph.nodes[i] /\ node'[n] = <<"working", p.labels[i]>>
    BY <1>2 DEF Tell, WorkInv
  <2> QED
    BY <2>1 DEF Share, Indices
<1>3. CASE node'[n] # node[n] /\ Execute
  <2>1. pc = "execute" /\ UNCHANGED plan /\ Tell(plan[2], next)
    BY <1>3 DEF Execute
  <2>2. next \in 1 .. Len(plan[2].graph.nodes) /\ plan[1] = "plan"
    BY <2>1 DEF PlanInv
  <2>3. next \in Indices(plan[2].graph)
    BY <2>2, PlanNodes, NodesAreSome, PlanAssumption DEF PlanInv, PlanFits, Indices
  <2> QED
    BY <1>2, <1>3, <2>1, <2>2, <2>3 DEF Fits, Share, Indices
<1>4. CASE node'[n] # node[n] /\ TrialExecutes
  <2>1. /\ pc # "panicked" /\ UNCHANGED <<pc, plan, chosen, trials, constraints, locations>>
        /\ \E p \in trials : \E i \in Indices(p.graph) : Tell(p, i)
    BY <1>4 DEF TrialExecutes, scheduler, given
  <2>2. PICK p \in trials : \E i \in Indices(p.graph) : Tell(p, i)
    BY <2>1
  <2>3. node'[n][2] \in Share(p, n)'
    BY <1>2, <1>4, <2>2
  <2>4. mode \in Optimized
    BY <2>2 DEF TrialInv
  <2>5. CASE pc = "solve" \/ ~Holds(p)
    <3>1. Holds(p)' = Holds(p)
      BY GivenStays
    <3> QED
      BY <1>0, <2>1, <2>2, <2>3, <2>4, <2>5, <3>1 DEF Fits
  <2>6. CASE pc # "solve" /\ Holds(p)
    <3>1. p \in chosen
      BY <2>1, <2>2, <2>6 DEF TrialInv
    <3>2. plan[1] = "plan" /\ p = plan[2]
      BY <2>4, <3>1 DEF PlanInv, PlanFits
    <3> QED
      BY <2>1, <2>3, <3>2 DEF Fits, Share, Indices
  <2> QED
    BY <2>5, <2>6
<1>5. CASE node'[n] # node[n] /\ \E w \in Workers : Subscribe(w) \/ Crash(w)
  <2>1. PICK w \in Workers : \/ node' = [node EXCEPT ![w] = <<"waiting">>]
                            \/ node' = [node EXCEPT ![w] = <<"down">>]
    BY <1>5 DEF Subscribe, Crash
  <2>2. node'[n] = <<"waiting">> \/ node'[n] = <<"down">>
    BY <1>5, <2>1 DEF WorkInv
  <2>3. node'[n][1] # "working"
    BY <2>2
  <2> QED
    BY <2>3
<1>6. node' = node \/ Execute \/ TrialExecutes \/ \E w \in Workers : Subscribe(w) \/ Crash(w)
  BY DEF Next, vars, nodes, Publish, Take, Receive, LoseConnection, Join, GraphsEnd, StaticGraph,
         Iterate, Monitored, Judge, SolverPanics, VerdictsEnd, Send, Tick, MonitorEnds
<1> QED
  BY <1>1, <1>3, <1>4, <1>5, <1>6

\* Whatever is lost or restarted, a node monitors what the plan in force gives
\* it, or in the optimized modes what a rejected labelling gave it.
THEOREM WorkFitsThePlan == Spec => []WorkFitsPlan
<1>1. Init => WorkInv /\ TrialInv
  BY DEF Init, WorkInv, WorkFitsPlan, TrialInv
<1>2. WorkInv => WorkFitsPlan
  BY DEF WorkInv
<1> QED
  BY <1>1, <1>2, InitPlan, NextPlan, NextTrials, NextWork, PTL DEF Spec

-----------------------------------------------------------------------------
(* Plans and verdicts: at most one of them is between the loop and the      *)
(* monitor, about the plan sent last, and positive.                         *)
Pipeline ==
  /\ iteration \in Nat
  /\ ~Constrained => verdicts = <<>>
  /\ Constrained /\ iteration = 0 =>
       graphs = <<>> /\ verdicts = <<>> /\ plan = <<"unplanned">> /\ pc \notin {"solve", "execute", "send"}
  /\ Constrained /\ pc \in {"solve", "execute", "send"} =>
       graphs = <<>> /\ verdicts = <<>> /\ (iteration > 1 => judged = iteration - 1)
  /\ Constrained /\ iteration > 0 /\ pc \notin {"solve", "execute", "send"} =>
       \/ graphs = <<>> /\ verdicts = <<>> /\ (monitoring => plan = <<"none">>)
       \/ /\ plan[1] = "plan" /\ graphs = <<<<iteration, plan[2]>>>> /\ verdicts = <<>>
       \/ /\ plan[1] = "plan" /\ graphs = <<>> /\ verdicts = <<<<iteration, TRUE>>>>

LEMMA OneElement ==
  ASSUME NEW x
  PROVE  <<x>> # <<>> /\ Head(<<x>>) = x /\ Tail(<<x>>) = <<>> /\ Append(<<>>, x) = <<x>>
OBVIOUS

LEMMA ConstrainedModes == Constrained <=> mode \in Optimized /\ ConstraintVars # <<>>
BY DEF Constrained, DistConstraints

\* The first iteration of an optimized mode plans.
LEMMA FirstPlans ==
  ASSUME mode \in Optimized, plan = <<"unplanned">>, Monitored(FALSE)
  PROVE  pc' = "solve" \/ plan' # <<"unplanned">>
<1>1. ShouldPlan(FALSE)
  BY DEF ShouldPlan, ReplanningCondition, Optimized
<1>2. Search(1) \/ \E p : plan' = <<"plan", p>>
  BY <1>1 DEF Monitored
<1>3. Search(1) => pc' = "solve" \/ plan' = <<"none">>
  BY DEF Search
<1> QED
  BY <1>2, <1>3

LEMMA NextPipeline == PlanInv /\ Pipeline /\ [Next]_vars => Pipeline'
<1> SUFFICES ASSUME PlanInv, Pipeline, [Next]_vars PROVE Pipeline'
  OBVIOUS
<1>0. UNCHANGED <<mode, constraints, locations>> /\ Constrained' = Constrained
  BY GivenStays DEF Constrained
<1> DEFINE view == <<pc, iteration, plan, judged, graphs, verdicts, monitoring>>
<1>1. CASE UNCHANGED view
  BY <1>0, <1>1 DEF Pipeline
<1>2. CASE \/ \E r \in Robots : Publish(r) \/ Take(r)
           \/ Receive \/ LoseConnection \/ Join \/ StaticGraph \/ TrialExecutes
           \/ \E n \in Workers : Subscribe(n) \/ Crash(n)
  <2>1. UNCHANGED view
    BY <1>2 DEF scheduler, monitor, Publish, Take, Receive, LoseConnection, Join, StaticGraph,
                TrialExecutes, Subscribe, Crash
  <2> QED
    BY <1>1, <2>1
<1>3. CASE GraphsEnd \/ VerdictsEnd
  <2>1. pc = "monitor" /\ pc' = "ended"
        /\ UNCHANGED <<iteration, plan, judged, graphs, verdicts, monitoring>>
    BY <1>3 DEF GraphsEnd, VerdictsEnd, Polled, monitor
  <2> QED
    BY <1>0, <2>1 DEF Pipeline
<1>4. CASE SolverPanics
  <2>1. /\ pc = "solve" /\ pc' = "panicked" /\ graphs' = <<>> /\ monitoring' = FALSE
        /\ UNCHANGED <<iteration, plan, verdicts>>
    BY <1>4 DEF SolverPanics
  <2> QED
    BY <1>0, <2>1 DEF Pipeline
<1>5. CASE Execute
  <2>1. pc = "execute" /\ pc' \in {"execute", "send"}
        /\ UNCHANGED <<iteration, plan, judged, graphs, verdicts, monitoring>>
    BY <1>5 DEF Execute, monitor
  <2> QED
    BY <1>0, <2>1 DEF Pipeline
<1>6. CASE Send
  <2>1. /\ pc = "send" /\ pc' = "monitor" /\ plan[1] = "plan"
        /\ graphs' = IF monitoring THEN Append(graphs, <<iteration, plan[2]>>) ELSE graphs
        /\ UNCHANGED <<iteration, plan, judged, verdicts, monitoring>>
    BY <1>6 DEF Send, PlanInv
  <2>2. Constrained => iteration > 0 /\ graphs = <<>> /\ verdicts = <<>>
    BY <2>1 DEF Pipeline
  <2>3. Constrained => graphs' = IF monitoring THEN <<<<iteration, plan[2]>>>> ELSE <<>>
    BY <2>1, <2>2
  <2> QED
    BY <1>0, <2>1, <2>2, <2>3 DEF Pipeline
<1>7. CASE Tick
  <2>1. /\ graphs # <<>> /\ graphs' = Tail(graphs)
        /\ Constrained => verdicts' = Append(verdicts, <<Head(graphs)[1], Holds(Head(graphs)[2])>>)
        /\ ~Constrained => UNCHANGED verdicts
        /\ UNCHANGED <<pc, iteration, plan, judged, monitoring>>
    BY <1>7 DEF Tick, scheduler
  <2>2. ASSUME Constrained
        PROVE  /\ iteration > 0 /\ pc \notin {"solve", "execute", "send"} /\ plan[1] = "plan"
               /\ graphs = <<<<iteration, plan[2]>>>> /\ verdicts = <<>>
    <3>1. iteration \in Nat /\ iteration # 0 /\ pc \notin {"solve", "execute", "send"}
      BY <2>1, <2>2 DEF Pipeline
    <3>2. iteration > 0
      BY <3>1
    <3> QED
      BY <2>1, <2>2, <3>1, <3>2 DEF Pipeline
  <2>3. ASSUME Constrained PROVE Holds(plan[2]) = TRUE
    <3>1. chosen = {plan[2]}
      BY <2>2, <2>3, ConstrainedModes DEF PlanInv, PlanFits
    <3>2. Holds(plan[2])
      BY <3>1 DEF PlanInv
    <3> QED
      BY <3>2 DEF Holds
  <2>4. ASSUME Constrained PROVE graphs' = <<>> /\ verdicts' = <<<<iteration, TRUE>>>>
    <3>1. Head(graphs) = <<iteration, plan[2]>> /\ Tail(graphs) = <<>>
      BY <2>2, <2>4, OneElement
    <3>a. Head(graphs)[1] = iteration /\ Head(graphs)[2] = plan[2]
      BY <3>1
    <3>b. verdicts' = Append(verdicts, <<Head(graphs)[1], Holds(Head(graphs)[2])>>)
      BY <2>1, <2>4
    <3>2. verdicts' = Append(verdicts, <<iteration, TRUE>>)
      BY <2>3, <2>4, <3>a, <3>b, Zenon
    <3> QED
      BY <2>1, <2>2, <2>4, <3>1, <3>2, OneElement
  <2> QED
    BY <1>0, <2>1, <2>2, <2>4 DEF Pipeline
<1>8. CASE MonitorEnds
  <2>1. graphs' = <<>> /\ monitoring' = FALSE /\ UNCHANGED <<pc, iteration, plan, judged, verdicts>>
    BY <1>8 DEF MonitorEnds, scheduler
  <2> QED
    BY <1>0, <2>1 DEF Pipeline
<1>9. CASE Iterate
  <2>1. PICK h : Monitored(h)
    BY <1>9 DEF Iterate
  <2>2. pc = "monitor" /\ iteration' = iteration + 1 /\ UNCHANGED <<graphs, monitoring>>
    BY <2>1 DEF Monitored
  <2>a. /\ Outcome
        /\ \/ pc' = "solve" /\ Searches
           \/ pc' = (IF plan'[1] = "plan" THEN "execute" ELSE "monitor")
    BY <2>1, Iterations DEF Onward, Proceed
  <2>b. plan' \in {<<"unplanned">>, <<"none">>} \/ plan' = <<"plan", plan'[2]>>
    BY <1>0, <2>a, OutcomesFit
  <2>3. iteration = 0 => UNCHANGED <<verdicts, judged>>
    BY <1>9 DEF Iterate, FirstVerdict
  <2>4. ~Constrained => UNCHANGED verdicts
    BY <1>9 DEF Iterate
  <2>5. iteration # 0 /\ Constrained =>
          verdicts # <<>> /\ judged' = Head(verdicts)[1] /\ verdicts' = Tail(verdicts)
    BY <1>9 DEF Iterate, FirstVerdict
  <2>6. CASE Constrained /\ iteration = 0
    <3>1. plan = <<"unplanned">> /\ mode \in Optimized
      BY <2>6, ConstrainedModes DEF Pipeline
    <3>2. Monitored(FALSE)
      BY <1>9, <2>6 DEF Iterate, FirstVerdict
    <3>3. pc' \notin {"solve", "execute", "send"} => plan' = <<"none">>
      <4>1. plan' # <<"unplanned">> \/ pc' = "solve"
        BY <3>1, <3>2, FirstPlans
      <4>2. plan' = <<"plan", plan'[2]>> => plan'[1] = "plan"
        OBVIOUS
      <4> QED
        BY <2>a, <2>b, <4>1, <4>2
    <3>4. iteration' = 1 /\ graphs' = <<>> /\ verdicts' = <<>>
      BY <2>2, <2>3, <2>6 DEF Pipeline
    <3> QED
      BY <1>0, <2>6, <3>3, <3>4 DEF Pipeline
  <2>7. CASE Constrained /\ iteration # 0
    <3>0. iteration \in Nat /\ iteration > 0 /\ verdicts # <<>> /\ pc \notin {"solve", "execute", "send"}
      BY <2>2, <2>5, <2>7 DEF Pipeline
    <3>1. verdicts = <<<<iteration, TRUE>>>> /\ graphs = <<>> /\ plan[1] = "plan"
      BY <2>7, <3>0 DEF Pipeline
    <3>2. verdicts' = <<>> /\ judged' = iteration
      BY <2>5, <2>7, <3>1, OneElement
    <3>3. plan'[1] = "plan"
      BY <1>0, <2>a, <3>1, OutcomesFit
    <3>4. pc' \in {"solve", "execute"}
      BY <2>a, <3>3
    <3> QED
      BY <1>0, <2>2, <2>7, <3>0, <3>1, <3>2, <3>4 DEF Pipeline
  <2>8. CASE ~Constrained
    <3>1. iteration' \in Nat /\ verdicts' = <<>>
      BY <2>2, <2>4, <2>8 DEF Pipeline
    <3>2. ~Constrained'
      BY <1>0, <2>8
    <3> QED
      BY <3>1, <3>2 DEF Pipeline
  <2> QED
    BY <2>6, <2>7, <2>8
<1>11. CASE Judge
  <2>1. /\ pc = "solve" /\ UNCHANGED <<iteration, judged, graphs, verdicts, monitoring>>
    BY <1>11 DEF Judge, monitor
  <2>2. PICK g \in graph : \E p \in {Candidates(g)[trying]} :
          \/ plan' = <<"plan", p>> /\ Proceed
          \/ Search(trying + 1)
    BY <1>11 DEF Judge
  <2>3. pc' = "solve" \/ pc' = "execute" \/ (pc' = "monitor" /\ plan' = <<"none">>)
    <3>1. PICK p : (plan' = <<"plan", p>> /\ Proceed) \/ Search(trying + 1)
      BY <2>2
    <3>2. CASE plan' = <<"plan", p>> /\ Proceed
      BY <3>2 DEF Proceed
    <3>3. CASE Search(trying + 1)
      BY <3>3 DEF Search, Proceed
    <3> QED
      BY <3>1, <3>2, <3>3
  <2> QED
    BY <1>0, <2>1, <2>3 DEF Pipeline
<1>10. CASE UNCHANGED vars
  BY <1>1, <1>10 DEF vars, scheduler, monitor
<1> QED
  BY <1>2, <1>3, <1>4, <1>5, <1>6, <1>7, <1>8, <1>9, <1>10, <1>11 DEF Next

LEMMA PipelineInvariant == Spec => [](PlanInv /\ Pipeline)
<1>1. Init => Pipeline
  BY DEF Init, Pipeline
<1> QED
  BY <1>1, InitPlan, NextPlan, NextPipeline, PTL DEF Spec

\* Once there is a plan, the constraints hold for good.
THEOREM VerdictsAlwaysHold == Spec => []VerdictsHold
<1>1. Pipeline => VerdictsHold
  <2> SUFFICES ASSUME Pipeline, NEW i \in DOMAIN verdicts PROVE verdicts[i][2]
    BY DEF VerdictsHold
  <2>0. verdicts # <<>>
    OBVIOUS
  <2>1. Constrained /\ iteration \in Nat /\ iteration # 0 /\ pc \notin {"solve", "execute", "send"}
    BY <2>0 DEF Pipeline
  <2>2. verdicts = <<<<iteration, TRUE>>>>
    <3>1. iteration > 0
      BY <2>1
    <3> QED
      BY <2>0, <2>1, <3>1 DEF Pipeline
  <2>3. i = 1
    BY <2>2
  <2> QED
    BY <2>2, <2>3
<1> QED
  BY <1>1, PipelineInvariant, PTL

\* The loop waits in vain for a verdict only when it never found a plan.
THEOREM StarvesOnlyWithoutPlan == Spec => []StarvedOnlyWithoutPlan
<1>1. Pipeline => StarvedOnlyWithoutPlan
  BY DEF Pipeline, StarvedOnlyWithoutPlan, Starved, FirstVerdict
<1> QED
  BY <1>1, PipelineInvariant, PTL

\* The verdict of an iteration is about the plan the one before it sent.
THEOREM VerdictsJudgeLastPlan == Spec => []JudgesLastPlan
<1>1. Pipeline => JudgesLastPlan
  BY DEF Pipeline, JudgesLastPlan
<1> QED
  BY <1>1, PipelineInvariant, PTL

-----------------------------------------------------------------------------
(* Distances: the paths of a graph are a recursive function of their       *)
(* length, which exists since every beginning of it does.                  *)

Stays(G) == {<<i, i, 0>> : i \in Indices(G)}

Longer(paths, edges) ==
  {<<q[2][2], q[1][2] + q[2][3]>> : q \in {r \in paths \X edges : r[1][1] = r[2][1]}}

PathsFrom(G, n, ends, k) ==
  IF k = 0 THEN {<<n, 0>>} ELSE Longer(ends[k - 1], G.edges \union Stays(G))

\* A function as long as m that is defined from its own earlier values.
Builds(G, n, m, f) == f = [k \in 0 .. m |-> PathsFrom(G, n, f, k)]

LEMMA PathsBuilt ==
  ASSUME NEW G, NEW n, NEW f, Builds(G, n, Len(G.nodes), f)
  PROVE  \E e : Builds(G, n, Len(G.nodes), e) /\ Paths(G, n) = e[Len(G.nodes)]
<1> DEFINE e == CHOOSE e : Builds(G, n, Len(G.nodes), e)
<1>1. Builds(G, n, Len(G.nodes), e)
  OBVIOUS
<1>2. Paths(G, n) = e[Len(G.nodes)]
  BY DEF Paths, Builds, PathsFrom, Longer, Stays
<1> QED
  BY <1>1, <1>2

LEMMA LeastNatural ==
  ASSUME NEW T, T \subseteq Nat, T # {}
  PROVE  \E m \in T : \A k \in T : m <= k
<1>1. PICK m \in T : \A k \in T : ~(<<k, m>> \in OpToRel(<, Nat))
  BY WFMin, NatLessThanWellFounded, Zenon
<1>2. \A k \in T : ~(k < m)
  BY <1>1, Zenon DEF OpToRel
<1> QED
  BY <1>2

LEMMA BuildsExist ==
  ASSUME NEW G, NEW n
  PROVE  \A m \in Nat : \E f : Builds(G, n, m, f)
<1> DEFINE T == {m \in Nat : ~\E f : Builds(G, n, m, f)}
<1>1. ASSUME T # {} PROVE FALSE
  <2>1. PICK m \in T : \A k \in T : m <= k
    BY <1>1, LeastNatural
  <2>2. CASE m = 0
    <3> DEFINE f == [k \in 0 .. 0 |-> {<<n, 0>>}]
    <3>1. f = [k \in 0 .. 0 |-> PathsFrom(G, n, f, k)]
      <4>1. \A k \in 0 .. 0 : k = 0
        OBVIOUS
      <4>2. \A k \in 0 .. 0 : PathsFrom(G, n, f, k) = {<<n, 0>>}
        BY <4>1 DEF PathsFrom
      <4> QED
        BY <4>2
    <3> QED
      BY <2>1, <2>2, <3>1 DEF Builds
  <2>3. CASE m # 0
    <3>1. m - 1 \in Nat /\ m - 1 \notin T
      BY <2>1, <2>3
    <3>2. PICK g : Builds(G, n, m - 1, g)
      BY <3>1
    <3> DEFINE last == PathsFrom(G, n, g, m)
               f == [k \in 0 .. m |-> IF k < m THEN g[k] ELSE last]
    <3>3. \A k \in 0 .. m : f[k] = PathsFrom(G, n, f, k)
      <4> SUFFICES ASSUME NEW k \in 0 .. m PROVE f[k] = PathsFrom(G, n, f, k)
        OBVIOUS
      <4>1. PathsFrom(G, n, f, k) = PathsFrom(G, n, g, k)
        <5>1. CASE k = 0
          BY <5>1 DEF PathsFrom
        <5>2. CASE k # 0
          <6>1. f[k - 1] = g[k - 1]
            BY <2>1, <5>2
          <6> HIDE DEF f
          <6> QED
            BY <5>2, <6>1 DEF PathsFrom
        <5> QED
          BY <5>1, <5>2
      <4>2. CASE k < m
        <5>1. g[k] = PathsFrom(G, n, g, k)
          <6>1. k \in 0 .. m - 1
            BY <2>1, <4>2
          <6> QED
            BY <3>2, <6>1 DEF Builds
        <5>2. f[k] = g[k]
          BY <4>2
        <5> QED
          BY <4>1, <5>1, <5>2
      <4>3. CASE ~(k < m)
        <5>1. k = m
          BY <2>1, <4>3
        <5>2. f[k] = last
          BY <4>3
        <5> QED
          BY <4>1, <5>1, <5>2
      <4> QED
        BY <4>2, <4>3
    <3>4. f = [k \in 0 .. m |-> f[k]]
      OBVIOUS
    <3> HIDE DEF f
    <3>5. Builds(G, n, m, f)
      BY <3>3, <3>4 DEF Builds
    <3> QED
      BY <2>1, <3>5
  <2> QED
    BY <2>2, <2>3
<1> QED
  BY <1>1

\* The paths of at most k edges are those of at most k - 1 and one more.
LEMMA PathsByLength ==
  ASSUME NEW G, NEW n, Len(G.nodes) \in Nat
  PROVE  \E e : /\ Paths(G, n) = e[Len(G.nodes)]
                /\ e[0] = {<<n, 0>>}
                /\ \A k \in 1 .. Len(G.nodes) :
                     e[k] = Longer(e[k - 1], G.edges \union Stays(G))
<1>1. PICK e : Builds(G, n, Len(G.nodes), e) /\ Paths(G, n) = e[Len(G.nodes)]
  BY BuildsExist, PathsBuilt
<1>2. \A k \in 0 .. Len(G.nodes) : e[k] = PathsFrom(G, n, e, k)
  BY <1>1 DEF Builds
<1>3. e[0] = {<<n, 0>>}
  <2>1. 0 \in 0 .. Len(G.nodes)
    OBVIOUS
  <2> QED
    BY <1>2, <2>1 DEF PathsFrom
<1>4. \A k \in 1 .. Len(G.nodes) : k \in 0 .. Len(G.nodes) /\ k # 0
  OBVIOUS
<1>5. \A k \in 1 .. Len(G.nodes) :
         e[k] = Longer(e[k - 1], G.edges \union Stays(G))
  BY <1>2, <1>4 DEF PathsFrom
<1> QED
  BY <1>1, <1>3, <1>5

LEMMA LongerHas ==
  ASSUME NEW paths, NEW edges, NEW x, NEW y, NEW c, NEW w,
         <<x, c>> \in paths, <<x, y, w>> \in edges
  PROVE  <<y, c + w>> \in Longer(paths, edges)
<1> DEFINE q == <<<<x, c>>, <<x, y, w>>>>
<1>1. q \in {r \in paths \X edges : r[1][1] = r[2][1]}
  OBVIOUS
<1>2. q[2][2] = y /\ q[1][2] = c /\ q[2][3] = w
  OBVIOUS
<1> QED
  BY <1>1, <1>2 DEF Longer

LEMMA LongerCosts ==
  ASSUME NEW paths, NEW edges, \A p \in paths : p[2] \in Nat, \A e \in edges : e[3] \in Nat
  PROVE  \A p \in Longer(paths, edges) : p[2] \in Nat
<1> SUFFICES ASSUME NEW p \in Longer(paths, edges) PROVE p[2] \in Nat
  OBVIOUS
<1>1. PICK q \in {r \in paths \X edges : r[1][1] = r[2][1]} : p = <<q[2][2], q[1][2] + q[2][3]>>
  BY DEF Longer
<1>2. q[1] \in paths /\ q[2] \in edges
  OBVIOUS
<1>3. q[1][2] \in Nat /\ q[2][3] \in Nat
  BY <1>2
<1>4. p[2] = q[1][2] + q[2][3]
  BY <1>1
<1> QED
  BY <1>3, <1>4

\* Numbers that are bounded have a greatest one.
LEMMA GreatestNatural ==
  ASSUME NEW S, S \subseteq Nat, S # {}, NEW b \in Nat, \A d \in S : d <= b
  PROVE  Max(S) \in S
<1> DEFINE T == {c \in Nat : \A d \in S : d <= c}
<1>1. PICK m \in T : \A c \in T : m <= c
  <2>1. T \subseteq Nat /\ b \in T
    OBVIOUS
  <2> HIDE DEF T
  <2> QED
    BY <2>1, LeastNatural
<1>2. m \in S
  <2> SUFFICES ASSUME m \notin S PROVE FALSE
    OBVIOUS
  <2>1. \A d \in S : d \in Nat /\ d <= m /\ d # m
    BY <1>1
  <2>2. \A d \in S : d <= m - 1
    BY <1>1, <2>1
  <2>3. m - 1 \in Nat
    <3>1. PICK d \in S : d \in Nat /\ d <= m - 1
      BY <2>1, <2>2
    <3>2. m \in Nat
      BY <1>1
    <3> QED
      BY <3>1, <3>2
  <2>4. m - 1 \in T
    BY <2>2, <2>3
  <2> QED
    BY <1>1, <2>4
<1>3. \A d \in S : m >= d
  BY <1>1
<1> QED
  BY <1>2, <1>3 DEF Max

LEMMA DistanceIsNatural ==
  ASSUME NEW p \in Pos, NEW q \in Pos
  PROVE  PositionDistance(p, q) \in Nat
<1> DEFINE Sq(i) == (p[i] - q[i]) * (p[i] - q[i])
           square == Sq(1) + Sq(2) + Sq(3)
           S == {d \in 0 .. square : d * d <= square}
<1>1. \A x \in Int : x * x \in Nat
  <2> SUFFICES ASSUME NEW x \in Int PROVE x * x >= 0
    OBVIOUS
  <2>1. CASE x >= 0
    BY <2>1
  <2>2. CASE x < 0
    BY <2>2
  <2> QED
    BY <2>1, <2>2
<1>2. p[1] - q[1] \in Int /\ p[2] - q[2] \in Int /\ p[3] - q[3] \in Int
  BY DEF Pos
<1>3. Sq(1) \in Nat /\ Sq(2) \in Nat /\ Sq(3) \in Nat
  BY <1>1, <1>2
<1> HIDE DEF Sq
<1>4. square \in Nat
  BY <1>3
<1> HIDE DEF square
<1>5. S \subseteq Nat /\ 0 \in S /\ \A d \in S : d <= square
  BY <1>4
<1> HIDE DEF S
<1>6. Max(S) \in Nat
  BY <1>4, <1>5, GreatestNatural
<1> QED
  BY <1>6 DEF PositionDistance, S, square, Sq

-----------------------------------------------------------------------------
\* The graph of positions with a central monitor that has none of its own.
LEMMA GraphAroundCentre ==
  ASSUME NEW names, names \in Seq(ToSet(names)), NEW c, c \notin ToSet(names),
         NEW positions \in [DOMAIN names -> Pos],
         NEW g, g = FromPositions(c, names, positions)
  PROVE  /\ Len(names) \in Nat /\ Len(g.nodes) = Len(names) + 1
         /\ Indices(g) = 1 .. Len(names) + 1
         /\ \A i \in 1 .. Len(names) :
              <<i, Len(names) + 1, 0>> \in g.edges /\ <<Len(names) + 1, i, 0>> \in g.edges
         /\ \A e \in g.edges : e[3] \in Nat
<1> DEFINE N == Len(names)
           pairs == {q \in (1 .. N) \X (1 .. N) : q[1] # q[2]}
           between == {<<p[1], p[2], PositionDistance(positions[p[1]], positions[p[2]])>> : p \in pairs}
           spokes == {<<i, N + 1, 0>> : i \in 1 .. N} \union {<<N + 1, i, 0>> : i \in 1 .. N}
<1>1. g = DistributionGraph(Append(names, c), N + 1, between \union spokes)
  BY DEF FromPositions
<1>2. g.nodes = Append(names, c) /\ g.edges = between \union spokes
  BY <1>1 DEF DistributionGraph
<1>3. N \in Nat /\ DOMAIN names = 1 .. N
  OBVIOUS
<1>4. Len(g.nodes) = N + 1 /\ DOMAIN g.nodes = 1 .. N + 1
  <2>1. Append(names, c) \in Seq(ToSet(names) \union {c}) /\ Len(Append(names, c)) = N + 1
    OBVIOUS
  <2> QED
    BY <1>2, <2>1
<1>5. \A e \in between : e[3] \in Nat
  <2> SUFFICES ASSUME NEW e \in between PROVE e[3] \in Nat
    OBVIOUS
  <2>1. PICK p \in pairs : e = <<p[1], p[2], PositionDistance(positions[p[1]], positions[p[2]])>>
    OBVIOUS
  <2>2. positions[p[1]] \in Pos /\ positions[p[2]] \in Pos
    BY <1>3
  <2> QED
    BY <2>1, <2>2, DistanceIsNatural
<1>6. \A e \in spokes : e[3] \in Nat
  OBVIOUS
<1>7. \A i \in 1 .. N : <<i, N + 1, 0>> \in spokes /\ <<N + 1, i, 0>> \in spokes
  OBVIOUS
<1> HIDE DEF between, spokes
<1> QED
  BY <1>2, <1>3, <1>4, <1>5, <1>6, <1>7 DEF Indices

\* From everywhere to everywhere it is two steps through the centre.
LEMMA CentreIsNear ==
  ASSUME NEW N \in Nat, NEW g, Len(g.nodes) = N + 1, Indices(g) = 1 .. N + 1,
         \A i \in 1 .. N : <<i, N + 1, 0>> \in g.edges /\ <<N + 1, i, 0>> \in g.edges,
         \A e \in g.edges : e[3] \in Nat,
         NEW i \in Indices(g), NEW j \in Indices(g)
  PROVE  <<j, 0>> \in Paths(g, i) /\ \A p \in Paths(g, i) : p[2] \in Nat
<1> DEFINE edges == g.edges \union Stays(g)
<1>1. PICK e : /\ Paths(g, i) = e[N + 1]
               /\ e[0] = {<<i, 0>>}
               /\ \A k \in 1 .. N + 1 : e[k] = Longer(e[k - 1], edges)
  <2>1. Len(g.nodes) \in Nat
    OBVIOUS
  <2>2. PICK e : /\ Paths(g, i) = e[Len(g.nodes)]
                 /\ e[0] = {<<i, 0>>}
                 /\ \A k \in 1 .. Len(g.nodes) : e[k] = Longer(e[k - 1], g.edges \union Stays(g))
    BY <2>1, PathsByLength
  <2> QED
    BY <2>2
<1>2. /\ \A x \in 1 .. N + 1 : <<x, x, 0>> \in edges
      /\ \A x \in 1 .. N + 1 : <<x, N + 1, 0>> \in edges /\ <<N + 1, x, 0>> \in edges
      /\ \A x \in edges : x[3] \in Nat
  <2>1. \A x \in 1 .. N + 1 : <<x, x, 0>> \in edges
    BY DEF Stays
  <2>2. \A x \in 1 .. N + 1 : x \in 1 .. N \/ x = N + 1
    OBVIOUS
  <2>3. \A x \in Stays(g) : x[3] \in Nat
    BY DEF Stays
  <2> QED
    BY <2>1, <2>2, <2>3
<1> HIDE DEF edges
<1> DEFINE Good(k) ==
             /\ <<i, 0>> \in e[k] /\ \A p \in e[k] : p[2] \in Nat
             /\ k >= 1 => <<N + 1, 0>> \in e[k]
             /\ k >= 2 => <<j, 0>> \in e[k]
           Bad == {k \in 0 .. N + 1 : ~Good(k)}
<1>3. ASSUME NEW k \in 1 .. N + 1, Good(k - 1) PROVE Good(k)
  <2>1. e[k] = Longer(e[k - 1], edges)
    BY <1>1
  <2>2. \A p \in e[k] : p[2] \in Nat
    BY <1>2, <1>3, <2>1, LongerCosts
  <2>3. <<i, 0>> \in e[k - 1] /\ <<i, i, 0>> \in edges /\ <<i, N + 1, 0>> \in edges
    BY <1>2, <1>3
  <2>4. <<i, 0 + 0>> \in e[k] /\ <<N + 1, 0 + 0>> \in e[k]
    BY <2>1, <2>3, LongerHas
  <2>5. CASE k >= 2
    <3>1. <<N + 1, 0>> \in e[k - 1] /\ <<N + 1, j, 0>> \in edges
      <4>1. k - 1 >= 1
        BY <2>5
      <4>2. <<N + 1, 0>> \in e[k - 1]
        BY <1>3, <4>1
      <4> QED
        BY <1>2, <4>2
    <3>2. <<j, 0 + 0>> \in e[k]
      BY <2>1, <3>1, LongerHas
    <3> QED
      BY <2>2, <2>4, <3>2
  <2>6. CASE ~(k >= 2)
    BY <2>2, <2>4, <2>6
  <2> QED
    BY <2>5, <2>6
<1>4. Good(0)
  BY <1>1
<1> HIDE DEF Good
<1>5. Bad = {}
  <2> SUFFICES ASSUME Bad # {} PROVE FALSE
    OBVIOUS
  <2>1. Bad \subseteq Nat
    OBVIOUS
  <2>2. PICK m \in Bad : \A k \in Bad : m <= k
    <3> HIDE DEF Bad
    <3> QED
      BY <2>1, LeastNatural
  <2>3. m \in 1 .. N + 1 /\ m - 1 \in 0 .. N + 1
    BY <1>4, <2>2
  <2>4. m - 1 \notin Bad
    BY <2>2, <2>3
  <2>5. Good(m - 1)
    BY <2>3, <2>4
  <2> QED
    BY <1>3, <2>2, <2>3, <2>5
<1>6. Good(N + 1)
  BY <1>5
<1>7. CASE N = 0
  <2>1. i = N + 1 /\ j = N + 1
    BY <1>7
  <2> QED
    BY <1>1, <1>6, <2>1 DEF Good
<1>8. CASE N # 0
  BY <1>1, <1>6, <1>8 DEF Good
<1> QED
  BY <1>7, <1>8

\* The least of some costs is 0 when 0 is one of them.
LEMMA NearestIsZero ==
  ASSUME NEW g, NEW i, NEW j, <<j, 0>> \in Paths(g, i), \A p \in Paths(g, i) : p[2] \in Nat
  PROVE  Nearest(g, i, {j}) = {0}
<1> DEFINE costs == CostsToAny(g, i, {j})
<1>1. 0 \in costs /\ \A x \in costs : x \in Nat
  <2>1. <<j, 0>> \in {q \in Paths(g, i) : q[1] \in {j}} /\ <<j, 0>>[2] = 0
    OBVIOUS
  <2> QED
    BY <2>1 DEF CostsToAny
<1> HIDE DEF costs
<1>2. Min(costs) = 0
  <2>1. 0 \in costs /\ \A y \in costs : 0 <= y
    BY <1>1
  <2>2. \A x \in costs : (\A y \in costs : x <= y) => x = 0
    BY <1>1
  <2> QED
    BY <2>1, <2>2 DEF Min
<1>3. {costs} \ {{}} = {costs}
  BY <1>1
<1>4. LeastOf(costs) = {0}
  BY <1>2, <1>3 DEF LeastOf
<1> QED
  BY <1>4 DEF Nearest, costs

-----------------------------------------------------------------------------
(* The graph the scheduler has is one of positions.                        *)
PointInv ==
  /\ link \in Seq(Robots \X ({<<>>} \union Pos))
  /\ queue \in [Robots -> Seq(Pos)]
  /\ taken \in [Robots -> SUBSET Pos]
  /\ mode # "static" => \A g \in graph : \E positions \in [Robots -> Pos] :
       g = FromPositions(Central, locations, positions)

LEMMA NextPoints == PlanInv /\ PointInv /\ [Next]_vars => PointInv'
<1> SUFFICES ASSUME PlanInv, PointInv, [Next]_vars PROVE PointInv'
  OBVIOUS
<1>0. UNCHANGED <<mode, locations>> /\ Robots' = Robots
  <2>1. UNCHANGED <<mode, locations>>
    BY GivenStays
  <2> QED
    BY <2>1 DEF Robots
<1>1. ASSUME NEW r \in Robots, Publish(r) PROVE PointInv'
  <2>1. PICK m \in Messages[locations[r]] : link' = Append(link, <<r, m>>)
    BY <1>1 DEF Publish
  <2>2. m = <<>> \/ m \in Pos
    BY PositionAssumption DEF PlanInv, Robots
  <2>3. link' \in Seq(Robots \X ({<<>>} \union Pos))
    BY <2>1, <2>2 DEF PointInv
  <2>4. UNCHANGED <<queue, taken, graph>>
    BY <1>1 DEF Publish, scheduler
  <2> QED
    BY <1>0, <2>3, <2>4 DEF PointInv
<1>2. CASE Receive
  <2> DEFINE q == Head(link)[1]  position == Head(link)[2]
  <2>1. link # <<>> /\ link' = Tail(link) /\ UNCHANGED <<taken, graph>>
    BY <1>2 DEF Receive, scheduler
  <2>2. q \in Robots /\ position \in {<<>>} \union Pos /\ link' \in Seq(Robots \X ({<<>>} \union Pos))
    BY <2>1 DEF PointInv
  <2>3. queue' \in [Robots -> Seq(Pos)]
    <3>1. CASE position = <<>>
      BY <1>2, <3>1 DEF Receive, PointInv
    <3>2. CASE position # <<>>
      <4>1. queue' = [queue EXCEPT ![q] = Append(@, position)] /\ position \in Pos
        BY <1>2, <2>2, <3>2 DEF Receive
      <4> QED
        BY <2>2, <4>1 DEF PointInv
    <3> QED
      BY <3>1, <3>2
  <2> QED
    BY <1>0, <2>1, <2>2, <2>3 DEF PointInv
<1>3. ASSUME NEW q \in Robots, Take(q) PROVE PointInv'
  <2>1. /\ queue[q] # <<>> /\ taken' = [taken EXCEPT ![q] = {Head(queue[q])}]
        /\ queue' = [queue EXCEPT ![q] = Tail(@)]
        /\ UNCHANGED <<link, graph>>
    BY <1>3 DEF Take, scheduler
  <2>2. queue[q] \in Seq(Pos) /\ Head(queue[q]) \in Pos /\ Tail(queue[q]) \in Seq(Pos)
    BY <2>1 DEF PointInv
  <2>3. queue' \in [Robots -> Seq(Pos)] /\ taken' \in [Robots -> SUBSET Pos]
    BY <2>1, <2>2 DEF PointInv
  <2> QED
    BY <1>0, <2>1, <2>3 DEF PointInv
<1>4. CASE Join
  <2> DEFINE row == [r \in Robots |-> CHOOSE p \in taken[r] : TRUE]
  <2>1. /\ \A r \in Robots : taken[r] # {}
        /\ graph' = {FromPositions(Central, locations, row)}
        /\ taken' = [r \in Robots |-> {}]
        /\ UNCHANGED <<link, queue>>
    BY <1>4 DEF Join
  <2>2. row \in [Robots -> Pos]
    BY <2>1 DEF PointInv
  <2>3. taken' \in [Robots -> SUBSET Pos]
    BY <2>1
  <2> HIDE DEF row
  <2> QED
    BY <1>0, <2>1, <2>2, <2>3 DEF PointInv
<1>5. CASE StaticGraph
  BY <1>0, <1>5 DEF StaticGraph, provider, PointInv
<1>6. CASE graph' \subseteq graph /\ UNCHANGED <<link, queue, taken>>
  BY <1>0, <1>6 DEF PointInv
<1>7. CASE Deciding
  <2>1. UNCHANGED <<link, queue, taken>>
    BY <1>7 DEF Deciding, Monitored, Judge, provider
  <2>2. graph' \subseteq graph
    BY <1>7, Decisions DEF Onward, Proceed
  <2> QED
    BY <1>6, <2>1, <2>2
<1>8. CASE \/ LoseConnection \/ GraphsEnd \/ SolverPanics \/ VerdictsEnd \/ Execute \/ Send
           \/ TrialExecutes \/ Tick \/ MonitorEnds \/ (\E n \in Workers : Subscribe(n) \/ Crash(n)) \/ UNCHANGED vars
  <2>1. UNCHANGED <<graph, link, queue, taken>>
    BY <1>8 DEF LoseConnection, GraphsEnd, SolverPanics, VerdictsEnd, Execute, Send, TrialExecutes,
                Tick, MonitorEnds, Subscribe, Crash, vars, provider, scheduler
  <2> QED
    BY <1>6, <2>1
<1> QED
  BY <1>1, <1>2, <1>3, <1>4, <1>5, <1>7, <1>8 DEF Next, Iterate, Deciding

\* A central monitor without a position is at distance 0 from every node, so
\* that every two nodes of a graph of positions are at distance 0:
\* dist_graph_from_positions makes all distances vanish.
THEOREM DistancesDoVanish == Spec => []DistancesVanish
<1>1. Init => PointInv
  BY DEF Init, PointInv
<1>2. PlanInv /\ PointInv => DistancesVanish
  <2> SUFFICES ASSUME PlanInv, PointInv, mode # "static", Central \notin ToSet(locations),
                      NEW g \in graph, NEW i \in Indices(g), NEW j \in Indices(g)
               PROVE  Nearest(g, i, {j}) = {0}
    BY DEF DistancesVanish
  <2>1. PICK positions \in [DOMAIN locations -> Pos] : g = FromPositions(Central, locations, positions)
    BY DEF PointInv, Robots
  <2>2. locations \in Seq(ToSet(locations))
    BY PlanAssumption DEF PlanInv
  <2> DEFINE N == Len(locations)
  <2>3. /\ N \in Nat /\ Len(g.nodes) = N + 1 /\ Indices(g) = 1 .. N + 1
        /\ \A x \in 1 .. N : <<x, N + 1, 0>> \in g.edges /\ <<N + 1, x, 0>> \in g.edges
        /\ \A e \in g.edges : e[3] \in Nat
    BY <2>1, <2>2, GraphAroundCentre
  <2> HIDE DEF N
  <2>4. <<j, 0>> \in Paths(g, i) /\ \A p \in Paths(g, i) : p[2] \in Nat
    BY <2>3, CentreIsNear
  <2> QED
    BY <2>4, NearestIsZero
<1> QED
  BY <1>1, <1>2, InitPlan, NextPlan, NextPoints, PTL DEF Spec
=============================================================================
