# A verification development for the RoboSAPIENS adaptive platform

This directory holds TLA+ models of the programs of this repository, the
configurations that check small instances of them with TLC, and proofs checked
by TLAPS that hold for instances of every size.

The repository contains two programs. The **adaptive platform**
(`Realization/Nodes`, `Simulator`, `Dashboard`, `Orchestrator`, in Python) is a
MAPE-K loop around a simulated robot: independent processes that exchange events
through Redis or MQTT and share a knowledge base in Redis. The **trustworthiness
checker** (`Realization/TrustworthinessChecker`, in Rust) is a runtime monitor:
it evaluates a stream specification over streams of input values, on a
single-threaded executor of cooperating tasks, and can be distributed over
several monitors by a scheduler. The platform uses the checker to decide whether
its own loop goes through its stages in order.

## 1. Inventory

Paths of the checker are relative to `Realization/TrustworthinessChecker/src`.

| Component | State it keeps | Operations | Interacts by |
|---|---|---|---|
| Variable manager (`runtime/asynchronous.rs`) | stage, permit, requests, subscribers, input stream, clock | `subscribe`, `tick`, `run` | channels to consumers, cancellation token |
| Context and asynchronous monitor (`runtime/asynchronous.rs`) | one manager per variable, nested contexts, history, clock | `var`, `subcontext`, `restricted_subcontext`, `tick`, `run`, `run_boxed` | calls managers; runs input provider and output handler in a `select!` |
| Input providers (`io/redis`, `io/mqtt`, `io/file`) | one bounded channel per variable | `input_stream`, `run`, `ready` | broker or file to channels |
| Output handlers (`io/*`) | output streams | `provide_streams`, `run` | consume the output streams |
| MQTT client (`io/mqtt/client.rs`) | reconnect attempts | message stream with reconnection | broker |
| Languages (`lang/`) | none | parse, print, type-check, restrict dynamics | text to syntax tree |
| Stream combinators (`semantics`) | per operator: last value, history, nested context | `sindex`, `defer`, `update`, `dynamic`, `default`, lifted operators | pull their argument streams |
| Dependency manager (`dep_manage`) | dependency graph | `add_dependency`, `remove_dependency`, `longest_time_dependency`, `is_productive` | called by the constraint runtime |
| Constraint runtime (`runtime/constraints`) | resolved and unresolved equations, time index | `receive_inputs`, `resolve_possible`, `cleanup` | dependency manager, output channels |
| Distributed runtime (`runtime/distributed.rs`, `distributed/`, `semantics/distributed`) | distribution graphs and their broadcast | `monitored_at`, `dist`, localisation, providers of graphs | joins scheduler and monitor |
| Scheduler (`distributed/scheduling`, `distributed/solvers`) | current plan, verdicts of the constraints | one MAPE-K iteration per graph | planner, executor, monitor, nodes |
| Command line and builders (`cli/`, `main.rs`, `runtime/builder.rs`, `io/builders`) | partly built monitor | one start-up | brokers, files, scheduler's work |
| MAPE-K nodes (`Realization/Nodes`) | knowledge base; window of Analysis | one handler per event | events, knowledge base |
| Trustworthiness node and `.lola` models | none; verdict streams of the checker | `t_a`, `t_p`, `t_l`, `t_e` | events in, `stage` events out |
| Simulator | pose, navigation flags, trust status | scans, navigation threads, message handlers | `/Scan`, `/spin_config`, `maple` |
| Orchestrator | status and heartbeat keys in Redis | commands, heartbeat | Redis, Docker |
| Dashboard | loading state of buttons | callbacks, refresh | Redis |
| ROS adapter | none of interest | conversions | ROS middleware |

What is hard here, and what makes each part correct:

* **Variable manager**: subscriptions and ticks interleave at every await.
  Every subscriber must see the values of the input from some point on, without
  gaps or repetitions; a tick must not distribute while a subscription is being
  served; a stream that ends must have been complete; nothing may deadlock on a
  full channel or a lost permit.
* **Monitor and providers**: bounded channels fed by one task, partial failure of
  one side of the `select!`, streams nobody reads.
* **MQTT**: redelivery after a lost connection, answers that are lost, sessions
  the broker forgets, streams of the client that are full or replaced; what is lost
  and what is not must be clear, and nothing may overtake.
* **Languages and combinators**: printing and parsing must agree, the type
  checker must be right about the values, the two semantics about each other, a
  dynamic property must not wait for the variable it defines, and outputs only
  grow.
* **Constraint runtime**: a second implementation of the same semantics, which
  forgets old values by what the dependency graph says.
* **Scheduler and distributed runtime**: plans, verdicts, graphs and work are all
  in transit at once, and may each be older than the others; the solver runs whole
  distributed runtimes that send work of their own.
* **Start-up**: a dozen fallible steps, some of which touch the broker; what one
  step checks must still hold when a later one relies on it.
* **MAPE-K nodes**: a flag in a shared store is used as a lock by one process and
  released by another; nodes read values that others may have overwritten since
  the event; containers are restarted. At most one anomaly is to be handled at
  a time, the robot must follow the plan that Analysis believes it follows, and
  the loop must come to rest.
* **Trustworthiness**: the order of observed stages depends on the timing of
  other processes.

`PROJECT.json` lists the hazards line by line with the properties that cover
them.

## 2. How the development is organised

| Part | Modules | Proofs | Run configuration |
|---|---|---|---|
| Variable manager | `BroadcastStream` (abstract), `VarManager` | `VarManagerProofs` | `MCVarManager` |
| Monitor, Redis | `AsyncMonitor` | `AsyncMonitorProofs` | `MCAsyncMonitor` |
| MQTT | `InOrder` (abstract), `Mqtt` | `MqttProofs` | `MCMqtt` |
| Specifications and their streams | `LolaOperators` <- `LolaExpr` <- `LolaTypes`, `LolaParser` <- `LolaStreams`; `EdgeGraph` <- `DepGraph`; `Lola` composes them | | `MCLola` |
| Static specifications | `LolaOperators` <- `LolaStatic` | `LolaProofs` | with `Lola` |
| Dependencies | `EdgeGraph` | `EdgeGraphProofs` | with `Lola` |
| Constraint runtime | `ConstraintSolver`, and `ConstraintRuntime`, which composes it with `Lola` | | `MCLola` |
| Distribution | `DistGraph` <- `Scheduler` | `SchedulerProofs` | `MCScheduler` |
| Start-up | `DistGraph` <- `Startup` | `StartupProofs` | `MCStartup` |
| MAPE-K loop | `AnomalyLoop` (abstract), `MapleK` | `MapleProofs` | `MCMapleK` |
| Trustworthiness | `MapleTrust` (extends `MapleK`) | `MapleProofs` | `MCMapleTrust` |

What would come next: the navigation threads of the simulator composed with
`MapleK`, the status keys of the Orchestrator and the dashboard's view of them,
and the runtime that builds its monitor again for every message.

Operators marked "Wrong:" in the modules are deviations a careless change could
introduce. No specification uses them; `PROJECT.json` names, under `mutants`, the
property that tells each from the definition it stands beside.

## 3. The modules

### VarManager (`runtime/asynchronous.rs`, 43-434)

One action is the code a task executes between two awaits, since the executor
is single-threaded and cooperative.

| Model | Code |
|---|---|
| `stage`, `permits`, `outstanding`, `subscribers`, `input`, `clock`, `cancelled` | fields of `VarManager` |
| `waiting`, `captured` | background tasks of `subscribe()` and the stage they captured |
| `pc`, `todo`, `failed` | where each future of `tick()` stands, the subscribers its loop has left, those to delete |
| `chan`, `stream`, `recv` | a subscriber's channel, the stream its consumer holds, what it received |
| `Subscribe`, `ServeDirect`, `ServeChannel`, `ServeFails`, `CompleteRequest` | `subscribe`, 141-237 |
| `TickCall`, `TickStart`, `TickAcquire`, `TickReadValue`, `TickReadEnd`, `TickSend`, `TickCancelled` | `tick`, 242-343 |
| `Run`, `Return`, `RunCancelled` | `run`, 347-382 |
| `RecvChannel`, `RecvDirect`, `RecvEnd`, `DropStream` | consumers, `stream_utils.rs` |

`remove_permits(1)` takes a permit only if one is available; a removed
subscriber keeps its place until the end of the loop; borrows of the `RefCell`s
held across an await make a second borrow panic (`panicked`). The values of the
input are 1, 2, ..., so that gaps and repetitions are visible. `Overlap = FALSE`
is the discipline of `Context`, which takes `&mut self` for `tick` and awaits the
managers; `Overlap = TRUE` allows whatever the signatures of `VarManager` do.

`BroadcastStream` says what a subscriber is promised: a window of the input
that starts where it subscribed and ends, if at all, at the end of the input or
at a cancellation.

`NoGapBeforeCancel` is about a single subscriber in any state; the refinement is
about all of them and every step, and needs the discipline of `Context`.

### AsyncMonitor (`runtime/asynchronous.rs` 920-1087, `io/redis`)

The whole monitor, with the managers reduced to what `VarManager` shows they do
once `run()` was called: read a value, send it to each subscriber in turn, stop
when the source ends, nobody is left, or the token is cancelled.

| Model | Code |
|---|---|
| `hand`, `feed`, `sent` | the task of `RedisInputProvider`, its result, the channels it fills |
| `taken`, `got`, `buf` | how many values left a source, reached a reader, wait in a subscription's channel |
| `managed`, `subscribers`, `todo` | running managers, the readers they serve, the rest of the loop in `tick` |
| `published`, `open`, `failed` | publishers of `RedisOutputHandler`, their streams, an error among their results |
| `cancelled`, `result` | cancellation token, result of `run_boxed()` |
| `MessageArrives`, `SendToVar`, `SendRefused`, `BadPayload`, `ConnectionCloses` | `input_monitor_with_result`, 111-137 |
| `ManagerReads`, `ManagerSends`, `ManagerEnds` | `tick` and `run`, 242-382 |
| `OperandArrives` | `lift1`, `lift2`, `lift3`: `map` and `zip` |
| `ValueArrives`, `Publish`, `PublishFails`, `StreamEnds` | `publish_stream`, `inner_handler`, `drop_guard_stream` |
| `OutputCompletes`, `InputCompletes` | the `select!` of `run_boxed`, 1071-1086 |

Outputs are pointwise expressions, each operand named once; since the k-th
value is then a function of the k-th operands, counts stand for values. `zip`
takes an operand in advance and holds it (`Holds`); it ends when an operand it
waits for has ended. Outputs are numbered with operands first, and the handler
is subscribed before all expressions, as the builder does. A variable with a single
reader has no manager of its own (`Direct`), so its stream lives and dies with
that reader; this makes `SourceAlive` and `ExprAlive` depend on who dropped what.
`Faults` are what the surroundings may do: a payload that does not parse, a
connection that closes, a publication that fails. The history `faults` also
notes a message for an input that nobody reads, whose manager stopped at once.
The model starts when subscriptions are served and connections made; errors of
connecting take the path of `BadPayload`. After a cancellation a manager may
read once more than the code would, which only adds behaviours.

### Lola: languages and stream semantics (`lang/`, `semantics/`, `dep_manage/`)

| Module | Code |
|---|---|
| `LolaExpr` | syntax trees, `Display`, the restriction of dynamics that may not read their own variable (`lang/dynamic_lola/ast.rs`) |
| `LolaParser` | `lang/dynamic_lola/parser.rs`, `lang/core/parser.rs` |
| `LolaTypes` | `lang/dynamic_lola/type_checker.rs` |
| `LolaOperators` | what one node of an expression does: its type, its value, what an index gives at the ends of a stream; what inputs deliver and variables hand on |
| `LolaStreams` | combinators of both semantics, `store_history`, subcontexts |
| `LolaStatic` | the streams and types of a static specification as solutions of equations, made of `LolaOperators` |
| `EdgeGraph`, `DepGraph` | `dep_manage/graph_based.rs`: graphs as such; the graphs of expressions and specifications |
| `Lola` | parse, check, then rows of input one by one: `source`, `stage`, `spec`, `deps`, `verdict`, `rows`, `closed`, `out` |

A text is a sequence of tokens, since the parser's decisions depend on words and
symbols only; each level of operators is a parser, and an alternative that fails
gives its input back, as `alt` does. An identifier that merely begins with a
keyword is therefore outside the model.

Element `t` of a stream is a function of the rows delivered so far: a value, `End`,
`Waiting` or a panic. It is computed by following the combinators: who polls whom,
which of two operands is asked first, what is taken and lost when one has ended,
how far a nested context has to be ticked before it yields. `ValueAt` carries the
set of variables being computed (`busy`), so that a stream that waits for itself
is `Waiting` and not an endless recursion. Numbers are whole also as floats, and
quotients of floats and trigonometric functions stay symbols. The order of strings
is a parameter, `TextLeq`; in the run it is that of their characters.

### ConstraintSolver and ConstraintRuntime (`runtime/constraints`)

The store, `to_absolute`, the two simplifiers and `is_solveable` are operators of
`ConstraintSolver`. `ConstraintRuntime` adds to each step of `Lola` the step of the
runtime on the same row: receive and simplify to a fixed point, resolve to a
fixed point, send in order, clean up by the dependency graph. Two stores run
beside each other, one with the graph and one with the `Empty` manager
(`dep_manage/empty.rs`), which never cleans.

### DistGraph and Scheduler (`distributed/`, `semantics/distributed`, `runtime/distributed.rs`)

`DistGraph` has graphs, distances, the labellings of the planners, `monitored_at` and
`dist`, and localisation.

| Model | Code |
|---|---|
| `link`, `queue`, `taken`, `rows` | MQTT provider of graphs: messages, a channel per robot, the row being joined |
| `graph`, `pc`, `plan`, `chosen`, `next` | the scheduler's loop; the answer the optimizing planner keeps |
| `trials`, `trying` | the labellings for which the solver has started a runtime; the one whose verdict it awaits |
| `graphs`, `verdicts`, `monitoring` | broadcast of plans to the monitor, and its outputs for the constraints |
| `node` | nodes started with `--distributed-work` |
| `Publish`, `Receive`, `Take`, `Join`, `GraphsEnd`, `LoseConnection` | `dist_graph_provider.rs` |
| `StaticGraph` | the provider of one graph |
| `Iterate`, `VerdictsEnd`, `Execute`, `Send` | `Scheduler::run`, the executor |
| `Search`, `Judge`, `SolverPanics`, `TrialExecutes` | `brute_solver.rs` and the runtimes it starts |
| `Tick`, `MonitorEnds` | `DistributedContext`, the monitor's end |
| `Subscribe`, `Crash` | `locality_receiver.rs` |

The brute-force solver goes through the labellings in the order of the code's
iterator (`Candidates`). For each it builds a complete distributed runtime, waits for
the first verdict of that, and takes the labelling if the constraints hold
(`brute_solver.rs:67`-`:90`). While it waits (`pc = "solve"`) everything else goes on.
The nested runtime is detached and inherits the scheduler's communication
(`distributed.rs:146`), so it has a scheduler that publishes `start_monitors_at_<node>`
for its own labelling; nothing ends it. `TrialExecutes` is that scheduler: any labelling
that was tried may give a node its share at any time, also after it was rejected
and while the solver is at a later one. The operator `SolverPlan` says what the search
comes to, the first labelling that holds, and what `InitialPlan` asks for. The history `judged`
says which plan the last verdict was about, `received` how many positions
arrived. The monitor of the constraints is reduced to one verdict per plan in
transit, which is what `AsyncMonitor` and `LolaStreams` say of a pointwise output.

### Startup (`cli/`, `main.rs`, `runtime/builder.rs`, `io/builders`)

One action per stage of the start-up, each with its panics and errors: the
argument parser's groups and requirements, the model file, the distribution
mode (which may wait for work from the scheduler), the choice of the runtime
with the type check, input provider, output handler, build and run. `connected`
is what the process has reached outside by then. A command line is a record
of the options given; a world is a record of which files and brokers are there.

### Mqtt (`io/mqtt`)

| Model | Code |
|---|---|
| `session`, `subscribed`, `since`, `forgot` | what the broker keeps for a client; history of the first subscription and of a lost one |
| `link`, `inbox`, `flight` | the input's connection; the stream it opened last, of `StreamCap` messages (10 in the code); what the broker was not told the arrival of |
| `missed`, `unheard` | histories: what was given to no reader, and whether a lost connection was not told to one |
| `pc`, `message`, `attempts`, `result` | `input_provider.rs`, `map_input_provider.rs`, `message_stream` |
| `channel` | channel of a variable; the monitor is a wire |
| `outLink`, `task`, `published` | `output_handler.rs` |
| `Connect`, `Subscribe`, `Answer`, `Resubscribe`, `Read`, `HandOn`, `Reconnect`, `Reopen` | the input task |
| `Take`, `Publish`, `PublishUnanswered`, `ReconnectOutput` | `publish_stream` |
| `LoseInput`, `LoseOutput`, `Stop`, `Restart` | the network and the broker |

The client library and the broker are not part of the repository. Of the broker the
model takes that sessions persist (`client.rs:103`), that delivery is at least once and
that an unacknowledged message is delivered again. Of the library it takes that what
arrives goes into the stream that `get_stream` opened last, that what has no room there is
dropped as if it had been read, and that the loss of the connection is put into the same
stream if that has room. What the repository does with it decides what is lost:

* `get_stream(10)` (`client.rs:22`) bounds the stream. While the task waits for room in
  a variable's channel (`input_provider.rs:188`) the stream may fill; what comes then is
  lost, and so is the sign of a lost connection (`Takes`, `Deliver`, `Disconnected`).
* `message_stream` is lazy: the first stream is opened when the provider polls it,
  after the answer to the subscription and after `started` (`input_provider.rs:161`-`:173`).
  What the broker sends before has no stream (`Open`, `Answer`).
* After a reconnection the loop opens another stream (`client.rs:68`, `:22`). The broker
  sends from the moment it takes the reconnection, into the old one, which is dropped with
  what has come, a loss of the new connection included (`Reconnect`, `Reopen`).

`InOrder` says what the process promises of each topic at its outlet: the messages sent
since the subscription, each after its predecessor unless that was missed, repetitions
allowed, until a broker forgets the subscription.

### MapleK (`Realization/Nodes`)

| Model | Code |
|---|---|
| `laserScan`, `lidarMask`, `plannedMask`, `directions`, `handling` | keys of the knowledge base |
| `scanQ`, `inbox` | events published and not yet handled |
| `pc`, `window`, `planMask`, `toExecute` | where each handler stands, and its local data |
| `MonitorWrite`, `MonitorPublish` | `Monitor.monitor_data` |
| `AnalysisRead`, ..., `AnalysisRaise` | `Analysis.analyse_scan_data` |
| `PlanRead`, ..., `PlanFinish` | `Plan.planner` |
| `ExecuteRead`, `ExecutePublish`, `ExecuteReset` | `Execute.executer` |
| `LegitimateBegin`, `LegitimatePublish` | `Legitimate.legitimate` |
| `Restart` | stop and start of a node's container; `Analysis.__init__` writes the flag |
| `WorldChanges`, `Scan` | the simulator's occlusion button and `publish_scan` |

The nodes are processes, so each access to the knowledge base and each
`publish_event` is an action. The library of the nodes (`rpio`) is not part of
the repository; the model takes from its use that a node runs one callback at
a time and gets events in the order of publication. A mask is the set of its
occluded cells, `HalfTurn` cells to half a turn: `dist` counts the cells in which
two masks differ, and `Turns` is the case analysis of the planner in these
units. The smoothing of masks (`weaken`, `strengthen`) and their rotation are not
modelled: `Masks` are the masks that result, the one for which the planner
fails among them. `executed` is what the simulator
was sent.

`AnomalyLoop` says what the nodes promise together: an anomaly is raised, a mask is settled
on, the robot is told the plan for that mask, and only then the next one is raised; an
anomaly that is lost is the last. `Phase` maps the control points, the pending events and
the flag to these five phases.

### MapleTrust

Each step that publishes an event the Trustworthiness node subscribed to also
appends it to `seen`; the node turns `seen` into stages; `verdict` holds the
streams of `maple_simple_single_topic.lola`, one index per stage. The verdict is
computed when a stage is published, since it depends only on their order.

## 4. What the runs check

| Run | Properties | Result |
|---|---|---|
| `var_manager_context` | a manager used as `Context` does: permit barrier, panics only after abandoned requests, refinement of `BroadcastStream`, every consumer comes to the end of its stream | hold |
| `var_manager_overlap` | callers overlap calls as the signatures allow: no gap before a cancellation | holds |
| `async_monitor` | with every fault: success means drained, only faults end a monitor, one output's failure leaves the other alone, no circular wait, head-of-line blocking is limited, no manager is left behind | hold |
| `mqtt` | with lost connections, lost answers, streams that are full or dropped, a topic that nobody reads and a broker that stops: nothing goes but what is noted as missed, nothing overtakes, refinement of `InOrder`, and everything else gets published unless the run ends or nobody can wake the input task | hold |
| `lola` | printing and parsing, type soundness, agreement of the semantics, no output waits for itself, dependencies, the constraint runtime against the streams, outputs only grow; before the first state, that the streams and types of static specifications solve the equations that `LolaProofs` is about | hold |
| `distributed` | work, plans and verdicts fit together in all five modes; positions are paired; distances; the scheduler's end | hold |
| `distributed_initial_plan` | "we need to plan at least once so we have an initial plan" | violated |
| `startup` | conversions never panic, outputs covered, a running monitor has what was asked for, start-up settles | hold |
| `startup_local_work` | "Localise the model to contain only the local variables" | violated |
| `maple_loop` | one anomaly at a time, robot follows the recorded plan, published plans sweep the occlusions in every case of the planner, a lost anomaly is lost for good, refinement of `AnomalyLoop`, the loop converges | hold |
| `maple_both_sides` | the planner's `assert False` is unreachable | violated |
| `maple_trust` | with a restart of Plan or Execute: stages in order m, a, p, e; a false verdict is final | hold |

The violated runs each check one statement of a comment, an assertion or a help
text of the repository; `PROJECT.json` quotes it under `findings`:

* `maple_both_sides`: an occlusion that reaches equally far to both sides has no
  case in `calculate_lidar_occlusion_rotation_angles`, so the handler dies at
  `Plan.py:76` and the flag of the anomaly stays set.
* `distributed_initial_plan`: if the first graph has no plan, `plan` is `Some(None)`
  (`scheduler.rs:125`), nothing is sent, no verdict returns, and no later graph
  is planned for.
* `startup_local_work`: `main.rs:76` looks at a field that the command line's
  distribution mode never reaches, so a local node monitors everything.

**Statements of properties that carry conditions.** Some hold only with a
condition, and what lies outside the condition is itself a result. TLC gave the
behaviours below when the condition was dropped:

* `PermitBarrier` needs callers that do not overlap calls. A subscription made
  while a tick holds the permit finds none to take (`asynchronous.rs:165`), and
  the next tick goes ahead while it is outstanding, against the comment at `:79`.
  `NoGapBeforeCancel` holds all the same.
* `OneAnomaly` needs that Analysis is not restarted: its `__init__` clears the flag
  (`Analysis.py:57`) of an anomaly still being handled (`:124`).
* `LostForGood`, `ImplementsLoop` and `StagesInOrder` need the same. The first says what a restart of
  another node costs: Plan or Execute stopped in the middle of an anomaly
  (`Execute.py:51`, and likewise `Plan.py:76`) leave the flag set, and then no later
  anomaly is planned for. The order of the stages survives such a restart.
* Analysis reduces the mask by a region directly behind the robot, of which
  `Analysis.py:106` says "We don't care", but compares the unreduced one
  (`Analysis.py:141`), so what is behind the robot raises an anomaly too. `MapleK`
  compares as the code does.
* Execute starts on `new_plan` and does not wait for `isLegit` (`Execute.py:56`), so
  the stage `l` of `maple_simple_single_topic.lola:12` may come at any time;
  `StagesInOrder` is about m, a, p and e.
* `RobotFollowsPlan` compares the turns. Plan writes them once as a bare list
  (`Plan.py:133`), publishes `new_plan` (`:148`), and then writes them again with a period
  (`:149`), so that Execute sends the one or the other by its timing; `executed.form` shows
  which, and no property is about it.
* `NothingMissed` is for a broker that remembers its sessions: subscriptions are not
  renewed after a reconnection (`mqtt/client.rs:46`), so one that forgets them
  sends nothing any more. And it counts what is `missed`: the three losses listed
  under Mqtt above happen although the broker forgets nothing, and the acknowledged
  message does not come again. What the property excludes is every other loss and any overtaking.
* `RoundTrip` is an equivalence: `Printable` says exactly which expressions survive
  printing and parsing. The others are `<`, `>=` and `>` (which are printed as
  `<=`), lists, strings, floats, indices applied to other
  expressions, and conditionals printed as left operands.
* `ConstraintsFollowStreams` is for `Solvable` specifications. Outside, the solver
  swaps the operands of an operator that does not commute (`solver.rs:285`), looks
  a kept variable up at the current time (`solver.rs:296`), or has a `todo!()`.
* `ConstraintsKeepUp` leaves out specifications that read later rows: an output
  that waits holds back its later elements, which `cleanup` may remove before
  they are sent (`constraints/runtime.rs:149`, against `:137`).
* `SemanticsAgree` is for indices under a `default`: an index yields `Unknown`
  at the start, and an `Unknown` read by another variable is a type error in the
  typed semantics (`semantics/untimed_typed_lola/helpers.rs:8`).
* `InstantCycle` is the condition `is_productive` is meant to decide. The code
  adds up the indices it has met and never takes one off
  (`graph_based.rs:119`, `:189`), which counts one operand's delay for its
  neighbour; nothing but tests calls it, so no run is about it.
* `WorkFitsPlan` leaves out the random planner, whose second plan reaches only
  the nodes that still wait for work. In the optimized modes it allows a second origin
  of work: a labelling that the solver tried. A node that waits when such a labelling is
  sent takes its share and keeps it, whatever the solver decides; once it has decided, the
  labelling is the plan in force or one that does not meet the constraints. So
  with constraints the nodes may work for a distribution that was rejected.
* `DistancesVanish` is a fact of the code more than a promise: without a position of
  its own the central monitor joins all robots at distance 0, so a constraint on
  distances between robots does not depend on where they are.
* `EndsAfterLoss` names the two states in which the scheduler does not end:
  `Starved` of verdicts, or `Wedged` behind a full channel.
* `Mqtt!Delivery` ends with the process: a reconnect attempt that fails ends the
  stream whatever the attempts left, and the provider then returns Ok
  (`mqtt/input_provider.rs:198`) although `core/interfaces.rs:37` says that a
  provider runs "forever, unless there is an error" and then halts with it. It also names what is `missed`,
  and the two states in which the input task waits for ever: to hand on a value of a topic
  nobody reads (`Clogged`), or at a stream that did not get the sign of the lost connection
  (`Deaf`), while the messages stay in the session of the broker.

**Bounds.** `VarManager`: three values, three subscriptions and a channel of
capacity one are the smallest instance in which a subscriber lags, another
leaves in the middle of a tick and a third arrives meanwhile; capacity one makes
the channel full after one value, where the code has 1000. One manual tick
future beside `run` gives every overlap of two ticks; `var_manager_overlap` has two
manual ones, with two values and subscriptions. `AsyncMonitor`: channels of one
value (10 and 1000 in the code) and two messages for an input let every channel
fill while a zip waits for another; the specification has a variable forwarded
directly, one read by two expressions, and one read by an expression and the
handler. `MapleK`: in `maple_loop` six cells all round, the least number with which every case of
the planner occurs, and four masks. Of the three that are not empty one gives the full turn and two
give three turns, with either side the farther one; what two of them have in common, which the
planner sees while the window slides, gives two turns to the left, two to the right, and
the case without a plan. The window is that of the code, three scans, so that one change
of the surroundings gives several lidar masks one after the other and the mask changes while an older
anomaly is planned and executed; one
undelivered event per queue besides the one being handled allows stale reads; one
restart. `maple_trust` has four cells, a window of one scan and two changes, so that the surroundings may
change back, and the restart is at any point of the two rounds that these cause.
`Lola`: every chain of two of the 13 operators fixes the precedence and
associativity of every pair; every constructor occurs, applied to inputs with and
without delay; 17 pairs of outputs read each other forwards, backwards and in
circles, with dynamic and deferred properties; every sequence of up to three of
three rows (which differ in two ways for the chains), closed or not, where the
longest delay is two; five elements of a
stream that never ends. `Scheduler`: capacity one of every channel (100 and 10 in
the code), four messages, two robots of which one may be the central node, one
crash of a node, three iterations: a plan, a verdict on it, and a second one.
`Startup`: every option of each group, alone and in conflict, and worlds in which
one thing is missing; two missing things would only fail at the first of them.
`Mqtt`: streams of two messages (10 in the code), so that one can hold a message and the
sign of the loss after it, and three messages overflow it; one topic with a variable and one without,
two messages on each but three in all, since two without a reader stop the input task; two faults, so that the
connection made after a loss is lost before the next stream is there; one reconnect
attempt, so that the limit is reached.

**Fairness.** The executor of the checker polls every ready task again, so each
task of `VarManager` is weakly fair; `Delivery` also assumes a provider that
delivers and consumers that read, stated in `Fairness`. In `AsyncMonitor` the
tasks are fair and publications return; the broker owes nothing, and
`AllPublished` speaks only of values that were sent. In `Scheduler` the receive loop,
the taking of positions, the joining of graphs, the scheduler's loop and the
monitor's tick are weakly fair, as tasks of the same executor; robots, nodes and
faults owe nothing. In `Mqtt` the input task, each publisher and the end of the run
are, and a broker that is up delivers on a connection that is up; it need never
come back. `Startup` is one sequential process. The nodes are separate processes
whose handlers contain bounded sleeps only, so each is weakly fair; `Converges`
assumes that scans keep coming, which the simulator does while the robot moves,
and excludes behaviours with a restart or a failed planner: an anomaly whose
handler is lost is never reset.

**Deadlock.** The runs whose programs end, or which may come to rest for good, say
`CHECK_DEADLOCK FALSE`; their liveness properties say where they may stop.

## 5. What is proved

All theorems are for every value of the constants, under the named assumptions
of each module (capacities are positive, names are in order, and so on) and,
where said, under the discipline of `Context` (`~Overlap`).

`VarManagerProofs`:

* `TypeCorrect`: types. Not inductive alone: `outstanding` is decremented without a
  check, so `TypeInv` adds that it counts the waiting tasks (`RequestCount`), that
  only made subscriptions wait, and that a tick sending has read a value.
* `BarrierHolds` (`~Overlap`): two ticks never distribute at once, and none does
  while a request is outstanding.

`GatherInv` describes the stage in which the manager gathers
requests: until all are served no tick reads, requests carry their stage, and
the input may be handed over whole to a single subscriber. On it rest

* `PanicsOnlyIfAbandoned` (`~Overlap`): the actor panics only when a consumer
  dropped its stream before its request was served;
* `NoGap`, for any callers: the view of a subscriber (what it received, what waits in its
  channel, what a tick is about to send it) is a contiguous window of the input
  up to the position reached, or up to where a cancellation stopped it. The
  lemmas `Follow...` say how windows grow.
* `ManagerImplementsBroadcast` (`~Overlap`): initial states map to initial states,
  each step to a step or a stutter of `BroadcastStream`. `RefInv` adds to the above
  that all views hold in every state (`AllViewed`: with one tick in flight the one
  a cancellation stops is the last), that a reader is removed alive only at the
  end of the input (`Removed`), and that an uncancelled run ends only when nobody
  is left (`RunEnded`).

`AsyncMonitorProofs`, for all specifications of pointwise outputs, capacities and
numbers of messages:

* `TypeCorrect`: types; a subscription's channel is never over its capacity.
* `SuccessIsDrained`: the inductive invariant `CountInv` has five parts. `Counts`
  relates the counters along each stream; `Listening` says that a manager has a
  sender for each reader that still listens, has lost nothing for it, and if it
  has stopped then at the end of its source; `GuardInv` and `FeedInv` say when
  the token is cancelled and what a result means; `Drained` says that an output
  whose stream is gone, without failure, was published to its end. The last needs
  `Exhausted`, which follows one operand from an output back to an input whose
  channel is empty and whose provider has ended; that it is stable
  (`ExhaustedStays`) is the longest argument. Numbering outputs with operands
  first is not needed.
* `FailureStaysContained`, `EndsOnlyByFault`: `Supplied` adds that the manager of a
  variable runs as long as one of its readers listens, the provider runs and
  the token is not cancelled; `Quiet` adds that without a fault nothing was
  dropped and no message is for an unread variable. The run has no unread input;
  the theorem covers that case too.

`MqttProofs`, for all topics, capacities and numbers of messages, faults and
reconnections:

* `TypeCorrect`: types. `TaskInv` adds what the task holds at each point.
* `NothingIsMissed`: until the broker has the subscription nothing is in its hands (`Untouched`), and
  until the provider is ready nothing has reached the task (`Idle`). From then on
  the numbers of each topic are spread over stations, from what is published
  and about to be, over the channel, the task's hand and the stream, to the
  session of the broker, and those in flight that it may send again. `Chained`
  says that together with the missed ones they are all the numbers since the subscription, that each
  station follows those before it (a number comes first right after its
  predecessor, or it came before, or the predecessor is missed) and that what is in flight was
  received or missed. `NothingMissed` does not speak of what is in flight, so it is not inductive: a
  redelivery puts those numbers before the session. One lemma says what each
  kind of step does to a chain (`ChainedSend`, `ChainedDeliver`, `ChainedMiss` for a message
  without a stream, `ChainedReopen` for a stream that is dropped, `ChainedLost`, ...),
  whatever the system; `NextNumbersInv` shows that each action is such a step
  for every topic.
* `TransportIsInOrder`: the system implements `InOrder`. What is published and about
  to be is the first station of the chain, so the value a publisher holds is due
  (`HeldIsDue`): its predecessor has been published or is missed, or there is none; and what
  is missed was sent since the subscription (`MissIsLose`). That each other message does come
  out is `Delivery`, which the run checks.

`SchedulerProofs`, for all robots, messages, modes and constraints:

* `PositionsArePaired`, from `PairInv`.
* `WorkFitsThePlan`, `PlansAreKept`: `PlanInv` says that a plan fits its mode, that the
  optimizing planner's answer is the one in force and satisfies the constraints,
  that all graphs have the same nodes (so that centralised plans repeat the
  same work), and that the solver is at a labelling of the graph the loop works on. `TrialInv` says
  of the labellings tried that they do not meet the constraints, but for the one in hand
  and then the one chosen: that is the first that does. `WorkInv` ties each node's work to its
  name. A step of the solver changes whether a tried labelling is decided, so the work
  of a node has to be followed through it (`FittingStays`).
* `VerdictsAlwaysHold`, `StarvesOnlyWithoutPlan`, `VerdictsJudgeLastPlan`: `Pipeline`
  counts the graphs and verdicts in transit against the iterations of the
  scheduler, so that each verdict it takes is about the plan it sent last.

* `DistancesDoVanish`: `PointInv` says that every graph is made of positions, given
  that messages are positions or the end (`PositionAssumption`). Distances are a
  recursive function over the number of edges, whose existence is proved by the
  least length at which it would fail (`BuildsExist`); then no path is shorter than 0
  (`DistanceIsNatural`), the paths over the central monitor cost 0
  (`CentreIsNear`), and the least of the costs is 0 (`NearestIsZero`).

`EdgeGraphProofs`, for all graphs. `EdgeGraph` has no recursive operator, so that what the
dependency manager does to graphs can be proved about, whatever the expressions:

* `OccurrencesWithout`, the lemma the others rest on, says how often each edge is left after
  `diff_graphs`. The search for one edge after the other is a recursive
  function, treated as in `DistancesDoVanish`.
* `RemovalUndoesAddition`: what the property `RemoveUndoesAdd` of the run `lola` says of the
  graphs it meets. `ReplacementIsExact`: the step of the solver that removes the old
  property of a `defer` and adds the new one ends with the graph of the specification
  with the new one.
* `TimeCoversReads`, `ReplacementKeepsTime`: so the clean-up keeps each variable for as
  long as something reads it, after replacements too.

`StartupProofs`, for all command lines, specifications and worlds: `StartupTypes`,
`ConversionsAreTotal`, `ModelIsFirst`, `OutputsAreCovered`, `MonitorRunsAsAsked`, from
`StartupInv`, in which each stage keeps what the stages before it checked.

`MapleProofs`, of the loop:

* `TypeCorrect`, `PlanHasMask`: types, with what the knowledge base is known to
  hold when an event is pending (`KnowledgeInv`).
* `OneAnomalyHolds`: `LoopInv` says that the flag is false only when the loop is
  empty and that Analysis, between its check and its mark, still finds it so.
  This needs that Analysis is not restarted; all other nodes may be.
* `LostAnomalyStaysLost`: from `LoopInv` too. The flag is set when an anomaly enters the loop and
  reset when it leaves, so only a restart or a failed planner can remove an anomaly
  and leave the flag; while it is set, Analysis goes no further than its check.
* `RobotFollowsPlanHolds`: `RobotInv` follows the plan from Plan through the
  knowledge base and Execute to the robot; it uses `LoopInv`, as a second anomaly
  would change `planned_lidar_mask` under a plan in transit.
* `NodesImplementLoop`: every step of the nodes is a step of `AnomalyLoop` or a stutter. By
  `LoopInv` the carriers of an anomaly exclude each other, so that the phases are distinct;
  by `RobotInv` what Execute sends is the plan for the mask; `Recorded` adds that there is
  a mask whenever a plan is on its way.
* `PlanSweepsHolds`: every published plan reaches the outermost occlusions of
  both sides and returns. `PlanFailsOnSymmetry` gives the exact masks for which
  there is no plan. Both rest on `Extremes`: a mask has a least and a greatest
  angle, which enclose 0.

and of the Trustworthiness node:

* `DistrustStaysFinal`: a stream of the monitored specification is
  true only if its predecessor was, so that once `maple` is false it stays so.
* `StagesStayInOrder`: the events not yet handled may hold several rounds. `OrderInv` says
  that they are a piece of the sequence anomaly, new_plan, spin_config, with
  isLegit anywhere between: its first event follows from the stage published last
  (`WatcherDue`), its last leads to what the loop can publish next (`LoopDue`). The
  steps of the loop need `LoopInv`: with two anomalies in the loop rounds would mix.

`LolaProofs`, for all *static* specifications, of any size and over any rows: those made
of values, variables, the thirteen binary operators, `not`, `if`, `default` and indices.
Left out are `dynamic`, `defer`, `update` and whatever the type checker rejects anyway.
`ValueAt` and `TypeCheckRaw` recurse over expressions, which the prover cannot
follow. `LolaStatic` therefore says of streams `V`, lengths `L` and types `T`
what each of their elements is in terms of others: `Computes` and `Accepted` are
the equations of the combinators and of the type checker, made of the very operators of
`LolaOperators` that `ValueAt` and `TypeCheckRaw` use. In place of the recursion there is
a measure `d` that every read of an element decreases (`Acyclic`); that the operators of the
run do satisfy the equations, TLC evaluates for each static specification of its pool
(`StaticSolutions` in `MCLola`; `StaticSpecsThere` says that there are some of every kind). One
lemma, `ElementInduction`, replaces induction over expressions: of the elements at
which a claim would fail there is one with the least measure, and there it
holds for everything that is read. On it rest

* `TypedElements`: every element of a typed stream is of the type the checker gave its
  expression, or `Unknown`, or an end of the stream (`TypeSound`, first half).
* `NoTypeErrors`: the panic on a value of another type (`semantics/untimed_typed_lola/helpers.rs:8`)
  occurs only where an `Unknown` reached a variable (second half of `TypeSound`). This
  needs annotations that are the types of the assignments, and inputs of their types.
* `LooksBackKeepsUp`: a specification that does not look ahead has its element `t` after
  `t` rows: no output waits (`NeverWaitsForItself`).
* `ElementsStay`: more rows, or their end, do not change an element already there
  (`OutputsGrow`). The longest case is an index: it gives what the length of another stream
  decides, so the lengths have to agree as well.
* `StaticSemanticsAgree`: with every index under its `default`, both semantics give the same
  streams (`SemanticsAgree`). The induction has to carry types and the absence of
  `Unknown` along with the equality, since the semantics differ on all others.
* `TableFollowsStreams`: the solver's table of binary operators (`runtime/constraints/solver.rs`) and
  that of the streams agree on operands the type checker accepts, but for `==` of truth values;
  so `ConstraintsFollowStreams` cannot fail at an operator.

Only model-checked: liveness (`Delivery` of both modules, `HeadOfLine`,
`AllPublished`, `CleansUp`, `Converges`, `EndsAfterLoss`, `Settles`), which is out of
the prover's reach; and of the properties of `lola` what goes beyond the above: `RoundTrip`, as
the parser recurses over texts; `dynamic`, `defer` and `update`, whose subcontexts recurse over
rows; specifications in which an element is read to compute itself; and the
constraint store, whose simplifiers recurse over expressions and which is compared
with the streams as a whole. The prover has no induction over such data, and none of
its arithmetic in a module with recursive operators. Every other property of a
run that holds is also proved.
Conversely the types of `VarManager`, `MapleK`, `AsyncMonitor`, `Startup` and `Mqtt` are proved and
need no run of their own, and `ModelFirst`, that no process reaches the broker before its
specification was read, has only its proof.

## 6. What is not modelled

* **Orchestrator** and **Dashboard**: they forward commands to Docker and show what
  it lists; what they decide is in Docker and in page layout.
* **Simulator**: its scans and the occlusion button are the environment of `MapleK`;
  pose, navigation threads and their unlocked flags are left out.
* **ROS adapter**: a thin layer over middleware that is not in the repository.
* The **reconfigurable runtime**, which builds and runs a whole monitor again for
  every message, beyond its place in the start-up.
* The **parser of distribution constraints** (`lang/distribution_constraints`): no
  runtime uses its result.
* The **LALR parser**, which the command line refuses.
* **Handlers** for standard output and tests, and the **file provider** beyond
  whether a variable has a stream.
* Of the **lidar masks**: rotation, `weaken` and `strengthen`, serialisation, plots.

Logging and the wording of messages are left out everywhere; spelling and white
space of specifications are, too.
