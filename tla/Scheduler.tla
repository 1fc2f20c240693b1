------------------------------ MODULE Scheduler ------------------------------
(***************************************************************************)
(* Distributed monitoring (runtime/distributed.rs): the provider that      *)
(* makes distribution graphs of the positions the robots publish, the      *)
(* scheduler's MAPE-K loop with its planners and replanning conditions,    *)
(* the executor that sends every node its work, the monitor whose outputs  *)
(* tell the scheduler whether the distribution constraints hold, and the   *)
(* nodes that wait for work.                                               *)
(*                                                                         *)
(* The tasks share one executor and meet in channels: a bounded one per    *)
(* robot, the broadcast of plans, and the streams of the constraints.      *)
(* The runtimes in which the solver tries its labellings are such tasks    *)
(* too; each has a scheduler of its own, which nothing ever ends.          *)
(***************************************************************************)
EXTENDS DistGraph

CONSTANTS
  LocationSets,    \* the robots' names, in the order of the code's map
  Central,         \* the name of the central monitor; it may be a robot's
  Vars,            \* the output variables
  ConstraintVars,  \* those of them that are distribution constraints
  Messages,        \* what each robot may publish: positions, and <<>> for
                   \* what is not a position
  Workers,         \* the nodes started with --distributed-work
  Modes,           \* distribution modes considered
  ConstraintSets,  \* what the constraint variables may say
  FixedPlan,       \* the labelled graph of the static mode
  QueueCap,        \* capacity of a robot's channel, 100 in the code
  GraphCap,        \* capacity of the broadcast of plans, 10 in the code
  VerdictCap,      \* verdicts the monitor may be ahead by
  MaxMessages,     \* bound on the messages published
  MaxIterations,   \* bound on the iterations of the scheduler
  MaxRestarts      \* bound on the crashes of nodes

ASSUME CapAssumption ==
  QueueCap \in Nat \ {0} /\ GraphCap \in Nat \ {0} /\ VerdictCap \in Nat \ {0}

\* A static plan is for at least one node, and the robots' names are in order.
ASSUME PlanAssumption ==
  /\ Modes \subseteq {"static", "centralised", "random", "static_optimized", "dynamic_optimized"}
  /\ FixedPlan.graph.nodes \in Seq(ToSet(FixedPlan.graph.nodes)) \ {<<>>}
  /\ \A names \in LocationSets : names \in Seq(ToSet(names))

ASSUME PositionAssumption ==
  \A names \in LocationSets : \A i \in DOMAIN names :
    \A m \in Messages[names[i]] : m = <<>> \/ m \in Pos

Optimized == {"static_optimized", "dynamic_optimized"}

VARIABLES
  mode, constraints, locations,               \* chosen at the start
  link, up, published, received, queue, taken, rows, \* the provider of graphs
  graph, pc, iteration, plan, chosen, next,   \* the scheduler
  trials, trying,                             \* the labellings its solver has tried
  judged,                                     \* the plan its last verdict was about
  graphs, verdicts, monitoring,               \* the monitor
  node, restarts                              \* the nodes waiting for work
provider == <<link, up, published, received, queue, taken, rows>>
scheduler == <<graph, pc, iteration, plan, chosen, next, trials, trying, judged>>
monitor == <<graphs, verdicts, monitoring>>
nodes == <<node, restarts>>
given == <<mode, constraints, locations>>
vars == <<given, provider, scheduler, monitor, nodes>>

Robots == DOMAIN locations

\* How build sets up each mode: who plans, when again, and which constraints
\* the scheduler listens to.
DistConstraints(m) == IF m \in Optimized THEN ConstraintVars ELSE <<>>
ReplanningCondition(m) ==
  CASE m \in {"static", "static_optimized"} -> "Never"
    [] m \in {"centralised", "random"} -> "Always"
    [] m = "dynamic_optimized" -> "ConstraintsFail"

\* The constraints as outputs of the monitor: monitored_at(v, n), its negation,
\* and dist(x, y) compared with a number.
Name(x) == CHOOSE y \in Disambiguate(ToSet(locations), ToSet(Vars), x) : TRUE
Satisfied(p, c) ==
  CASE c[1] = "monitored_at" -> MonitoredAt(p, c[2], c[3])
    [] c[1] = "elsewhere" -> ~MonitoredAt(p, c[2], c[3])
    [] c[1] = "near" -> Dist(p, Name(c[2]), Name(c[3])) <= c[4]
    [] c[1] = "apart" -> Dist(p, Name(c[2]), Name(c[3])) >= c[4]
Holds(p) == \A c \in constraints : Satisfied(p, c)

\* The solver evaluates the constraints in a specification cut down to them:
\* of the variables dist may name only those, or the monitor panics.
Evaluable(g) ==
  \A c \in constraints : c[1] \in {"near", "apart"} =>
    {c[2], c[3]} \subseteq ToSet(g.nodes) \union ToSet(ConstraintVars)

\* The labellings the brute-force solver tries, in its order.
Candidates(g) ==
  PossibleLabelled(g, ConstraintVars, SelectSeq(Vars, LAMBDA v : ~Contains(ConstraintVars, v)))

\* The labelling it is after, if there is one: the first on which the
\* constraints hold.
SolverPlan(g) ==
  LET possible == Candidates(g)
      good == {k \in DOMAIN possible : Holds(possible[k])}
  IN {possible[k] : k \in {i \in good : \A j \in good : i <= j}}

\* The plans a planner may answer with at once; the optimizing one keeps its
\* first, and looks for that with the solver.
Searches == mode \in Optimized /\ chosen = {}
Plan(g) ==
  CASE mode = "static" -> {FixedPlan}
    [] mode = "centralised" -> {CentralisedPlan(g, Vars, "central")}
    [] mode = "random" -> RandomPlans(g, Vars)
    [] mode \in Optimized -> chosen

Init ==
  /\ mode \in Modes /\ locations \in LocationSets
  /\ constraints \in (IF DistConstraints(mode) = <<>> THEN {{}} ELSE ConstraintSets)
  /\ link = <<>> /\ up = TRUE /\ published = 0 /\ rows = 0
  /\ received = [r \in Robots |-> 0]
  /\ queue = [r \in Robots |-> <<>>] /\ taken = [r \in Robots |-> {}]
  /\ graph = {} /\ pc = "monitor" /\ iteration = 0
  /\ plan = <<"unplanned">> /\ chosen = {} /\ next = 1 /\ judged = 0
  /\ trials = {} /\ trying = 0
  /\ graphs = <<>> /\ verdicts = <<>> /\ monitoring = TRUE
  /\ node = [n \in Workers |-> <<"down">>] /\ restarts = 0

-----------------------------------------------------------------------------
\* The MQTT provider.  A robot publishes; what its client's stream loses (see
\* Mqtt) is not on the link.  The receive loop sorts a message
\* into the channel of its robot and waits while that is full, whatever comes
\* behind; what is not a position is skipped.
Publish(r) ==
  /\ up /\ mode # "static" /\ published < MaxMessages
  /\ \E m \in Messages[locations[r]] : link' = Append(link, <<r, m>>)
  /\ published' = published + 1
  /\ UNCHANGED <<given, up, received, queue, taken, rows, scheduler, monitor, nodes>>

Receive ==
  /\ link # <<>> /\ link' = Tail(link)
  /\ LET r == Head(link)[1]  position == Head(link)[2]
     IN IF position = <<>> THEN UNCHANGED <<queue, received>>
        ELSE /\ Len(queue[r]) < QueueCap
             /\ queue' = [queue EXCEPT ![r] = Append(@, position)]
             /\ received' = [received EXCEPT ![r] = @ + 1]
  /\ UNCHANGED <<given, up, published, taken, rows, scheduler, monitor, nodes>>

\* The client could not reconnect and its stream ends; what it had received
\* stays.
LoseConnection ==
  /\ up /\ mode # "static" /\ up' = FALSE
  /\ UNCHANGED <<given, link, published, received, queue, taken, rows, scheduler, monitor, nodes>>

Closed == ~up /\ link = <<>>
Polled == pc = "monitor" /\ graph = {}

\* position_stream joins one position of every robot into a graph; it ends
\* with the first row to which a robot has nothing left to give.
Take(r) ==
  /\ Polled /\ taken[r] = {} /\ queue[r] # <<>>
  /\ taken' = [taken EXCEPT ![r] = {Head(queue[r])}]
  /\ queue' = [queue EXCEPT ![r] = Tail(@)]
  /\ UNCHANGED <<given, link, up, published, received, rows, scheduler, monitor, nodes>>

\* Wrong: a robot that has nothing to give is at the origin.
JoinEarly ==
  /\ Polled /\ mode # "static" /\ \E r \in Robots : taken[r] # {}
  /\ graph' = {FromPositions(Central, locations,
                 [r \in Robots |-> IF taken[r] = {} THEN <<0, 0, 0>>
                                   ELSE CHOOSE p \in taken[r] : TRUE])}
  /\ taken' = [r \in Robots |-> {}] /\ rows' = rows + 1
  /\ UNCHANGED <<given, link, up, published, received, queue, pc, iteration, plan, chosen,
                 next, trials, trying, judged, monitor, nodes>>

Join ==
  /\ Polled /\ mode # "static" /\ \A r \in Robots : taken[r] # {}
  /\ graph' = {FromPositions(Central, locations,
                             [r \in Robots |-> CHOOSE p \in taken[r] : TRUE])}
  /\ taken' = [r \in Robots |-> {}] /\ rows' = rows + 1
  /\ UNCHANGED <<given, link, up, published, received, queue, pc, iteration, plan, chosen,
                 next, trials, trying, judged, monitor, nodes>>

Exhausted(r) == taken[r] = {} /\ queue[r] = <<>> /\ Closed

\* Wrong: a row without one of the robots is skipped, and the stream goes on.
NeverExhausted == FALSE /\ UNCHANGED vars

GraphsEnd ==
  /\ Polled /\ \E r \in Robots : Exhausted(r)
  /\ \A r \in Robots : taken[r] # {} \/ Exhausted(r)
  /\ pc' = "ended"
  /\ UNCHANGED <<given, provider, graph, iteration, plan, chosen, next, trials, trying, judged,
                 monitor, nodes>>

\* StaticDistGraphProvider
StaticGraph ==
  /\ Polled /\ mode = "static" /\ graph' = {FixedPlan.graph}
  /\ UNCHANGED <<given, provider, pc, iteration, plan, chosen, next, trials, trying, judged,
                 monitor, nodes>>

-----------------------------------------------------------------------------
\* The MAPE-K loop.  A graph is paired with a verdict: FALSE for the first,
\* TRUE when there are no constraints, and otherwise what the monitor says of
\* the plans it was sent, in order.
Constrained == DistConstraints(mode) # <<>>
FirstVerdict == iteration = 0

\* The loop goes on with the plan it has, if it has one.
Proceed ==
  /\ graph' = {} /\ next' = 1
  /\ pc' = IF plan'[1] = "plan" THEN "execute" ELSE "monitor"

\* The solver starts a whole distributed runtime for its k-th labelling of the
\* graph and waits for the first verdict of that; without a k-th one there is
\* no plan.
Search(k) ==
  /\ trying' = k
  /\ \E g \in graph :
       IF k \in DOMAIN Candidates(g)
       THEN /\ pc' = "solve" /\ trials' = trials \union {Candidates(g)[k]}
            /\ UNCHANGED <<graph, plan, chosen, next>>
       ELSE plan' = <<"none">> /\ Proceed /\ UNCHANGED <<chosen, trials>>

ShouldPlan(holds) ==
  CASE ReplanningCondition(mode) = "ConstraintsFail" -> ~holds
    [] ReplanningCondition(mode) = "Always" -> TRUE
    [] ReplanningCondition(mode) = "Never" -> plan = <<"unplanned">>

\* Wrong: a plan in force is put on the latest graph.
Refreshed(holds) ==
  /\ pc = "monitor" /\ graph # {} /\ iteration < MaxIterations
  /\ iteration' = iteration + 1
  /\ \/ /\ ~ShouldPlan(holds)
        /\ plan' = IF plan[1] # "plan" THEN plan
                   ELSE <<"plan", LabelledGraph(CHOOSE g \in graph : TRUE, Vars, plan[2].labels)>>
        /\ Proceed /\ UNCHANGED <<chosen, trials, trying>>
     \/ ShouldPlan(holds) /\ Searches /\ Search(1)
     \/ /\ ShouldPlan(holds) /\ ~Searches
        /\ \E g \in graph : \E p \in Plan(g) : plan' = <<"plan", p>>
        /\ Proceed /\ UNCHANGED <<chosen, trials, trying>>
  /\ UNCHANGED <<given, provider, graphs, monitoring, nodes>>

Monitored(holds) ==
  /\ pc = "monitor" /\ graph # {} /\ iteration < MaxIterations
  /\ iteration' = iteration + 1
  /\ \/ ~ShouldPlan(holds) /\ UNCHANGED <<plan, chosen, trials, trying>> /\ Proceed
     \/ ShouldPlan(holds) /\ Searches /\ Search(1)
     \/ /\ ShouldPlan(holds) /\ ~Searches
        /\ \E g \in graph : \E p \in Plan(g) : plan' = <<"plan", p>>
        /\ Proceed /\ UNCHANGED <<chosen, trials, trying>>
  /\ UNCHANGED <<given, provider, graphs, monitoring, nodes>>

Iterate ==
  \/ /\ FirstVerdict /\ Monitored(FALSE) /\ UNCHANGED <<verdicts, judged>>
  \/ /\ ~FirstVerdict /\ ~Constrained /\ Monitored(TRUE) /\ UNCHANGED <<verdicts, judged>>
  \/ /\ ~FirstVerdict /\ Constrained /\ verdicts # <<>>
     /\ Monitored(Head(verdicts)[2])
     /\ judged' = Head(verdicts)[1] /\ verdicts' = Tail(verdicts)

\* The verdict on the labelling in hand: it becomes the plan, or the solver
\* goes on to the next one.
Judge ==
  /\ pc = "solve" /\ \A g \in graph : Evaluable(g)
  /\ \E g \in graph : \E p \in {Candidates(g)[trying]} :
       \/ /\ Holds(p) /\ plan' = <<"plan", p>> /\ chosen' = {p}
          /\ Proceed /\ UNCHANGED <<trials, trying>>
       \/ ~Holds(p) /\ Search(trying + 1)
  /\ UNCHANGED <<given, provider, iteration, judged, monitor, nodes>>

\* A panic in the solver takes the process with it.
SolverPanics ==
  /\ pc = "solve" /\ \E g \in graph : ~Evaluable(g)
  /\ pc' = "panicked" /\ graphs' = <<>> /\ monitoring' = FALSE
  /\ UNCHANGED <<given, provider, graph, iteration, plan, chosen, next, trials, trying, judged,
                 verdicts, nodes>>

\* The monitor has ended and with it the streams of the constraints.
VerdictsEnd ==
  /\ pc = "monitor" /\ graph # {} /\ ~FirstVerdict /\ Constrained
  /\ verdicts = <<>> /\ ~monitoring /\ pc' = "ended"
  /\ UNCHANGED <<given, provider, graph, iteration, plan, chosen, next, trials, trying, judged,
                 monitor, nodes>>

\* Wrong: the nodes and their labels are not numbered alike.
TellShifted(p, i) ==
  LET n == p.graph.nodes[i]
  IN /\ n \in Workers /\ node[n] = <<"waiting">>
     /\ node' = [node EXCEPT ![n] = <<"working", p.labels[(i % Len(p.graph.nodes)) + 1]>>]

\* What a plan tells the i-th of its nodes: a node that waits takes it.
Tell(p, i) ==
  LET n == p.graph.nodes[i]
  IN /\ n \in Workers /\ node[n] = <<"waiting">>
     /\ node' = [node EXCEPT ![n] = <<"working", p.labels[i]>>]

\* The executor sends each node its work, one after the other.  A message that
\* cannot be published is given up; one for a node that does not wait is lost.
Execute ==
  /\ pc = "execute"
  /\ Tell(plan[2], next) \/ UNCHANGED node
  /\ next' = next + 1
  /\ pc' = IF next = Len(plan[2].graph.nodes) THEN "send" ELSE "execute"
  /\ UNCHANGED <<given, provider, graph, iteration, plan, chosen, trials, trying, judged,
                 monitor, restarts>>

\* The runtime of a labelling the solver has tried, with its graph that never
\* ends and its one plan, goes on executing it while the process lives,
\* whatever the verdict was.
TrialExecutes ==
  /\ pc # "panicked" /\ (pc = "ended" => monitoring)
  /\ \E p \in trials : \E i \in Indices(p.graph) : Tell(p, i)
  /\ UNCHANGED <<given, provider, scheduler, monitor, restarts>>

\* Wrong: the monitor hears of a plan only when it is new.
SendOnce ==
  /\ pc = "send" /\ Len(graphs) < GraphCap
  /\ graphs' = IF monitoring /\ iteration = 1 THEN Append(graphs, <<iteration, plan[2]>>) ELSE graphs
  /\ pc' = "monitor"
  /\ UNCHANGED <<given, provider, graph, iteration, plan, chosen, next, trials, trying, judged,
                 verdicts, monitoring, nodes>>

\* Then the monitor gets the plan; a full broadcast makes the loop wait, and a
\* monitor that has ended is no obstacle.
Send ==
  /\ pc = "send" /\ Len(graphs) < GraphCap
  /\ graphs' = IF monitoring THEN Append(graphs, <<iteration, plan[2]>>) ELSE graphs
  /\ pc' = "monitor"
  /\ UNCHANGED <<given, provider, graph, iteration, plan, chosen, next, trials, trying, judged,
                 verdicts, monitoring, nodes>>

-----------------------------------------------------------------------------

\* The monitor takes a plan and gives the constraints' values on it.
Tick ==
  /\ monitoring /\ graphs # <<>> /\ graphs' = Tail(graphs)
  /\ IF Constrained
     THEN /\ Len(verdicts) < VerdictCap
          /\ verdicts' = Append(verdicts, <<Head(graphs)[1], Holds(Head(graphs)[2])>>)
     ELSE UNCHANGED verdicts
  /\ UNCHANGED <<given, provider, scheduler, monitoring, nodes>>

\* The monitor's inputs or outputs end, which cancels its streams.
MonitorEnds ==
  /\ monitoring /\ monitoring' = FALSE /\ graphs' = <<>>
  /\ UNCHANGED <<given, provider, scheduler, verdicts, nodes>>

\* A node started with --distributed-work subscribes and takes the first work
\* its stream receives, whichever runtime sent it; when it crashes it waits for
\* work anew.
Subscribe(n) ==
  /\ node[n] = <<"down">> /\ node' = [node EXCEPT ![n] = <<"waiting">>]
  /\ UNCHANGED <<given, provider, scheduler, monitor, restarts>>

Crash(n) ==
  /\ node[n] # <<"down">> /\ restarts < MaxRestarts
  /\ node' = [node EXCEPT ![n] = <<"down">>] /\ restarts' = restarts + 1
  /\ UNCHANGED <<given, provider, scheduler, monitor>>

Next ==
  \/ \E r \in Robots : Publish(r) \/ Take(r)
  \/ Receive \/ LoseConnection \/ Join \/ GraphsEnd \/ StaticGraph
  \/ Iterate \/ Judge \/ SolverPanics \/ VerdictsEnd \/ Execute \/ TrialExecutes \/ Send
  \/ Tick \/ MonitorEnds
  \/ \E n \in Workers : Subscribe(n) \/ Crash(n)

Spec == Init /\ [][Next]_vars

\* The tasks are polled until they end; robots, nodes and faults owe nothing.
FairSpec ==
  /\ Spec
  /\ WF_vars(Receive) /\ WF_vars(\E r \in Robots : Take(r))
  /\ WF_vars(Join \/ GraphsEnd \/ StaticGraph)
  /\ WF_vars(Iterate \/ Judge \/ SolverPanics \/ VerdictsEnd \/ Execute \/ Send)
  /\ WF_vars(Tick)
-----------------------------------------------------------------------------
\* Whatever messages are lost, nodes restarted and plans made again, a node
\* has the share that the plan in force gives its name.  There are two
\* exceptions: the random planner may leave nodes with shares of different
\* plans, and in the optimized modes a node may have taken, for good, its share
\* of a labelling the solver only tried; once the solver has decided, that is
\* one that does not meet the constraints.
Share(p, n) == {p.labels[i] : i \in {j \in Indices(p.graph) : p.graph.nodes[j] = n}}
WorkFitsPlan ==
  mode # "random" =>
    \A n \in Workers : node[n][1] = "working" =>
      \/ plan[1] = "plan" /\ node[n][2] \in Share(plan[2], n)
      \/ /\ mode \in Optimized
         /\ \E p \in trials :
              node[n][2] \in Share(p, n) /\ (pc \in {"solve", "panicked"} \/ ~Holds(p))

\* Apart from the random mode nothing the robots publish ever moves a variable
\* to another node, and the optimized plans, the dynamic one too, also keep
\* the graph they were made for.
PlanKept ==
  [][mode # "random" /\ plan[1] = "plan" =>
       /\ plan'[1] = "plan" /\ plan'[2].labels = plan[2].labels
       /\ mode # "centralised" => plan' = plan]_vars

\* The verdict an iteration works with is about the plan that the iteration
\* before it sent, however far the monitor is behind.
JudgesLastPlan ==
  (Constrained /\ pc \in {"execute", "send"} /\ iteration > 1) => judged = iteration - 1

\* Once there is a plan the constraints hold for good: the plan keeps the graph
\* it was chosen for, so that the monitor never learns that a robot moved, and
\* no verdict ever calls for a new plan in the dynamic mode.
VerdictsHold == \A i \in DOMAIN verdicts : verdicts[i][2]

\* The loop waits for a verdict nobody will give only when its first attempt
\* found no plan; it then waits for ever.
Starved ==
  /\ pc = "monitor" /\ graph # {} /\ Constrained /\ ~FirstVerdict
  /\ monitoring /\ verdicts = <<>> /\ graphs = <<>>
StarvedOnlyWithoutPlan == Starved => plan = <<"none">>

\* A graph pairs the positions of the robots by their number: every position
\* that was received is in a graph already, or waits for the slowest robot.
PositionsPaired ==
  \A r \in Robots : received[r] = rows + Len(queue[r]) + Cardinality(taken[r])

\* With a central monitor that has no position, positions do not count: any
\* two nodes are at distance 0 through it.
DistancesVanish ==
  (mode # "static" /\ Central \notin ToSet(locations)) =>
    \A g \in graph : \A i, j \in Indices(g) : Nearest(g, i, {j}) = {0}

\* The receive loop is stuck: the next message is for a full channel, and a
\* graph waits for a robot whose messages are behind it.
Wedged ==
  /\ link # <<>> /\ Head(link)[2] # <<>> /\ Len(queue[Head(link)[1]]) = QueueCap
  /\ \E q \in Robots : taken[q] = {} /\ queue[q] = <<>>

\* When the connection is lost the scheduler ends, unless it is starved of
\* verdicts or the receive loop was stuck and never learns of the loss.
EndsAfterLoss == ~up ~> (pc \in {"ended", "panicked"} \/ Starved \/ Wedged \/ iteration = MaxIterations)

\* "Even if replanning is disabled, we need to plan at least once so we have an
\* initial plan": once a graph on which the constraints can be met is there,
\* a plan is made.
CanPlan == \E g \in graph : mode \in Optimized /\ SolverPlan(g) # {}
InitialPlan == (CanPlan /\ monitoring) ~> (plan[1] = "plan" \/ ~monitoring)
=============================================================================
