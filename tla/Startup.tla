------------------------------- MODULE Startup -------------------------------
(***************************************************************************)
(* How one process of the checker starts: the command line (cli/args.rs),  *)
(* its conversions (cli/adapters.rs), main.rs, the generic monitor builder *)
(* (runtime/builder.rs) and the builders of inputs and outputs             *)
(* (io/builders/).  The steps run one after the other; some wait for a     *)
(* broker or for work, and most may fail.                                  *)
(*                                                                         *)
(* A command line is a record.  Its input, output and distribution are the *)
(* sets of the options of each group that are given; inTopics and          *)
(* outTopics go with an option that takes topics, locals with              *)
(* --local-topics.  What is outside the process is a record too: the       *)
(* files, the brokers and the log level.                                   *)
(***************************************************************************)
EXTENDS DistGraph

CONSTANTS
  Commands,       \* the command lines considered
  Worlds,         \* the states of what is outside the process
  Model,          \* the specification in the model file
  Node,           \* the name given with --local-node
  Labelled,       \* the labelled graph in the file of --distribution-graph
  Work            \* what the scheduler may send this node

MQTTInputs == {"input_mqtt_topics", "input_map_mqtt_topics", "mqtt_input"}
RedisInputs == {"input_redis_topics", "redis_input"}
TopicInputs == {"input_mqtt_topics", "input_map_mqtt_topics", "input_redis_topics"}
MQTTOutputs == {"output_mqtt_topics", "mqtt_output"}
RedisOutputs == {"output_redis_topics", "redis_output"}
TopicOutputs == {"output_mqtt_topics", "output_redis_topics"}
Optimizing == {"mqtt_static_optimized", "mqtt_dynamic_optimized"}
Distributing == Optimizing \union {"mqtt_centralised_distributed", "mqtt_randomized_distributed"}

VARIABLES
  cli, world,   \* given
  stage,        \* how far the process is, and how it failed
  mode,         \* the distribution mode built
  monitored,    \* the specification to monitor
  inputs,       \* the variables the input provider has streams for
  topics,       \* the variables the output handler has topics for
  connected     \* what the process has connected to
vars == <<cli, world, stage, mode, monitored, inputs, topics, connected>>

Panic(why) == stage' = <<"panicked", why>>
Stop(why) == stage' = <<"stopped", why>>
Go(next) == stage' = <<next>>

-----------------------------------------------------------------------------
\* Wrong: the options that need another one do not say so.
AcceptedAlone(c) ==
  /\ Cardinality(c.input) = 1 /\ Cardinality(c.output) <= 1
  /\ Cardinality(c.distribution) <= 1

\* What the argument parser accepts: the groups and the options that require
\* another one.
Accepted(c) ==
  /\ Cardinality(c.input) = 1 /\ Cardinality(c.output) <= 1
  /\ Cardinality(c.distribution) <= 1
  /\ c.distribution \intersect {"distribution_graph", "distributed_work"} # {} => c.localNode
  /\ c.distribution \intersect Optimizing # {} => c.constraints # {}

\* The defaults of the generic builder, which an option overrides.
RuntimeOf(c) == IF c.runtime = "default" THEN "async" ELSE c.runtime
SemanticsOf(c) == IF c.semantics = "default" THEN "untimed" ELSE c.semantics
FieldMode == <<"central">>

Init ==
  /\ cli \in Commands /\ world \in Worlds
  /\ stage = <<"arguments">> /\ mode = FieldMode /\ monitored = Model
  /\ inputs = {} /\ topics = {} /\ connected = {}

\* Cli::parse.
ParseArguments ==
  /\ stage = <<"arguments">>
  /\ IF ~Accepted(cli) THEN Stop("usage")
     ELSE IF cli.parser = "lalr" THEN Stop("parser") ELSE Go("model")
  /\ UNCHANGED <<cli, world, mode, monitored, inputs, topics, connected>>

\* The file of the specification; parse_file unwraps its parser's result where
\* it logs it.  Then the input mode is converted, which has no case for none.
\* The mode that would localise the specification is the builder's field.
HasConversion(c) == c.input # {}
Localised(model, where) == IF where[1] = "local" THEN Localise(model, LocalVars(where[2])) ELSE model

ParseModel ==
  /\ stage = <<"model">>
  /\ IF world.model THEN IF HasConversion(cli) THEN Go("distribution") ELSE Panic("conversion")
     ELSE IF world.debug THEN Panic("logged parse") ELSE Stop("model file")
  /\ monitored' = Localised(Model, FieldMode)
  /\ UNCHANGED <<cli, world, mode, inputs, topics, connected>>

-----------------------------------------------------------------------------
\* DistributionModeBuilder::build.
BuildMode ==
  /\ stage = <<"distribution">>
  /\ \/ /\ cli.distribution = {} /\ mode' = <<"central">> /\ Go("runtime") /\ UNCHANGED connected
     \/ /\ "local_topics" \in cli.distribution /\ Go("runtime") /\ UNCHANGED connected
        /\ mode' = <<"local", <<"vars", cli.locals>>>>
     \/ /\ "distribution_graph" \in cli.distribution /\ UNCHANGED connected
        /\ IF ~cli.localNode THEN Panic("conversion") /\ UNCHANGED mode
           ELSE IF ~world.graph THEN Panic("graph file") /\ UNCHANGED mode
           ELSE Go("runtime") /\ mode' = <<"local", <<"graph", Node, Labelled>>>>
     \/ /\ "distributed_work" \in cli.distribution /\ UNCHANGED mode
        /\ IF ~cli.localNode THEN Panic("conversion") /\ UNCHANGED connected
           ELSE IF ~world.mqtt THEN Panic("no broker") /\ UNCHANGED connected
           ELSE Go("work") /\ connected' = connected \union {"work"}
     \/ \E d \in cli.distribution \intersect Distributing :
          /\ UNCHANGED connected
          /\ IF d \in Optimizing /\ cli.constraints = {} THEN Panic("conversion") /\ UNCHANGED mode
             ELSE Go("runtime") /\ mode' = <<"distributed", d>>
  /\ UNCHANGED <<cli, world, monitored, inputs, topics>>

\* MQTTLocalityReceiver::receive: the first message, or the end of the
\* connection.
TakeWork ==
  /\ stage = <<"work">>
  /\ \E w \in Work : mode' = <<"local", <<"vars", w>>>>
  /\ Go("runtime")
  /\ UNCHANGED <<cli, world, monitored, inputs, topics, connected>>

LoseWork ==
  /\ stage = <<"work">> /\ Panic("no work")
  /\ UNCHANGED <<cli, world, mode, monitored, inputs, topics, connected>>

-----------------------------------------------------------------------------
Supported ==
  {<<"async", "untimed">>, <<"async", "typed_untimed">>, <<"constraints", "untimed">>,
   <<"reconfigurable_async", "untimed">>, <<"distributed", "untimed">>}

\* TypeCheckingBuilder checks the model as it is given.
TypeChecked == SemanticsOf(cli) = "typed_untimed" => world.typed

\* The choice of the runtime; only the distributed one looks at the mode.
ChooseRuntime ==
  /\ stage = <<"runtime">>
  /\ LET r == RuntimeOf(cli)  s == SemanticsOf(cli)
     IN IF <<r, s>> \notin Supported THEN Panic("combination")
        ELSE IF r = "distributed" /\ mode[1] = "local" THEN Panic("todo")
        ELSE IF ~TypeChecked THEN Panic("types")
        ELSE Go("input")
  /\ UNCHANGED <<cli, world, mode, monitored, inputs, topics, connected>>

\* Wrong: the wait for the provider is not only for brokers.
BuildInputWaits ==
  /\ stage = <<"input">> /\ world.mqtt
  /\ inputs' = ToSet(monitored.inputs) /\ connected' = connected \union {"input"} /\ Go("output")
  /\ UNCHANGED <<cli, world, mode, monitored, topics>>

\* One runtime's builder panics when it is given a provider.
TakesProviders == RuntimeOf(cli) # "reconfigurable_async"

\* InputProviderBuilder::async_build.  A provider whose broker is not there is
\* never ready.
HasBroker(option) ==
  /\ option \in MQTTInputs \union MQTTOutputs => world.mqtt
  /\ option \in RedisInputs \union RedisOutputs => world.redis
InputVars ==
  IF cli.input \subseteq TopicInputs THEN cli.inTopics ELSE ToSet(monitored.inputs)
BuildInput ==
  /\ stage = <<"input">>
  /\ \E option \in cli.input :
       \/ option = "input_ros_topics" /\ Panic("ros") /\ UNCHANGED <<inputs, connected>>
       \/ /\ option = "input_file" /\ ~world.trace /\ Panic("input file")
          /\ UNCHANGED <<inputs, connected>>
       \/ /\ option # "input_ros_topics" /\ (option = "input_file" => world.trace)
          /\ HasBroker(option) /\ inputs' = InputVars
          /\ connected' = connected \union (IF option = "input_file" THEN {} ELSE {"input"})
          /\ IF TakesProviders THEN Go("output") ELSE Panic("provider")
  /\ UNCHANGED <<cli, world, mode, monitored, topics>>

\* Wrong: topics of other nodes' variables are kept.
AllOutputTopics ==
  IF cli.output # {} /\ cli.output \subseteq TopicOutputs THEN cli.outTopics ELSE ToSet(monitored.outputs)

\* OutputHandlerBuilder::async_build: topics of variables that are not
\* monitored here are left out.
OutputTopics ==
  IF cli.output # {} /\ cli.output \subseteq TopicOutputs
  THEN cli.outTopics \intersect ToSet(monitored.outputs) ELSE ToSet(monitored.outputs)

BuildOutput ==
  /\ stage = <<"output">>
  /\ topics' = OutputTopics
  /\ IF cli.output = {"output_ros_topics"} THEN Panic("ros") ELSE Go("build")
  /\ UNCHANGED <<cli, world, mode, monitored, inputs, connected>>

\* A trace has a stream for any variable, a broker one for each topic.
HasStream(v) == cli.input = {"input_file"} \/ v \in inputs

\* The constraints are looked up among the variables of the specification.
HasConstraints == cli.constraints \subseteq ToSet(monitored.inputs) \union ToSet(monitored.outputs)

\* Wrong: the distributed runtime does without a mode.
BuildAnyMode ==
  /\ stage = <<"build">>
  /\ IF \E v \in ToSet(monitored.inputs) : ~HasStream(v) THEN Panic("input stream")
     ELSE Go("run")
  /\ UNCHANGED <<cli, world, mode, monitored, inputs, topics, connected>>

\* The builder of the runtime chosen: the streams of all inputs, and in the
\* distributed one the mode and the streams of the constraints.
Build ==
  /\ stage = <<"build">>
  /\ IF RuntimeOf(cli) = "distributed" /\ mode[1] # "distributed" THEN Panic("no graph mode")
     ELSE IF \E v \in ToSet(monitored.inputs) : ~HasStream(v) THEN Panic("input stream")
     ELSE IF RuntimeOf(cli) = "distributed" /\ mode[2] \in Optimizing /\ ~HasConstraints
     THEN Panic("constraint stream")
     ELSE Go("run")
  /\ UNCHANGED <<cli, world, mode, monitored, inputs, topics, connected>>

\* run: every output has its stream and every topic one, then the output
\* handler connects.
Run ==
  /\ stage = <<"run">>
  /\ LET remote == cli.output \intersect (MQTTOutputs \union RedisOutputs)
     IN IF topics # ToSet(monitored.outputs) THEN Panic("output stream") /\ UNCHANGED connected
        ELSE IF \A option \in remote : HasBroker(option)
        THEN Go("running") /\ connected' = connected \union (IF remote = {} THEN {} ELSE {"output"})
        ELSE /\ UNCHANGED connected
             /\ IF remote \subseteq MQTTOutputs THEN Stop("no broker") ELSE Panic("no broker")
  /\ UNCHANGED <<cli, world, mode, monitored, inputs, topics>>

Step == ParseArguments \/ ParseModel \/ BuildMode \/ ChooseRuntime \/ BuildInput
        \/ BuildOutput \/ Build \/ Run
Next == Step \/ TakeWork \/ LoseWork

Spec == Init /\ [][Next]_vars
\* The process itself does not pause; work may never come.
FairSpec == Spec /\ WF_vars(Step)
-----------------------------------------------------------------------------
Reasons == {"usage", "parser", "conversion", "logged parse", "model file", "graph file",
            "no broker", "no work", "combination", "todo", "types", "ros", "input file",
            "provider", "no graph mode", "input stream", "constraint stream", "output stream"}
Stages == {<<s>> : s \in {"arguments", "model", "distribution", "work", "runtime", "input",
                          "output", "build", "run", "running"}}
          \union ({"panicked", "stopped"} \X Reasons)
StartupTypeOK ==
  /\ stage \in Stages
  /\ mode[1] \in {"central", "local", "distributed"}
  /\ inputs \subseteq ToSet(Model.inputs) \union cli.inTopics
  /\ topics \subseteq ToSet(Model.outputs)
  /\ connected \subseteq {"work", "input", "output"}

\* The conversions of the options unwrap and match less than their types allow:
\* no command line that the argument parser accepts makes one of them panic.
ConversionsTotal == stage # <<"panicked", "conversion">>

\* The broker sees nothing of a process whose specification cannot be read: in
\* particular such a process never takes the work the scheduler sends once.
ModelFirst == connected # {} => world.model

\* Topics of variables that are not monitored here do no harm: the output
\* handler only ever lacks the topic of a variable it has.
OutputsCovered ==
  stage = <<"panicked", "output stream">> => \E v \in ToSet(monitored.outputs) : v \notin cli.outTopics

\* What options and world ask for, and the builder does not check together, is
\* in place when the monitor runs: all input streams, types if asked for, and
\* for the distributed runtime a graph mode with constraints that exist.
RunsAsAsked ==
  stage = <<"running">> =>
    /\ \A v \in ToSet(monitored.inputs) : HasStream(v)
    /\ TypeChecked
    /\ RuntimeOf(cli) = "distributed" =>
         /\ mode[1] = "distributed"
         /\ mode[2] \in Optimizing => HasConstraints

\* Starting ends, with a monitor that runs or with an error, unless it waits for
\* work or for a broker of the inputs that is not there.
Unready == stage = <<"input">> /\ \E option \in cli.input : ~HasBroker(option)
Settles == <>(stage[1] \in {"panicked", "stopped", "running", "work"} \/ Unready)

\* main.rs: "Localise the model to contain only the local variables (if
\* needed)".
LocalWorkOnly ==
  (stage = <<"running">> /\ mode[1] = "local") =>
    ToSet(monitored.outputs) \subseteq ToSet(LocalVars(mode[2]))
=============================================================================
