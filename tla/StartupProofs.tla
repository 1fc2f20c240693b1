--------------------------- MODULE StartupProofs ---------------------------
(***************************************************************************)
(* What holds of a starting process for every set of command lines, every  *)
(* specification and every state of files and brokers.                     *)
(***************************************************************************)
EXTENDS Startup, FiniteSetTheorems, TLAPS

(* The stages by what a process that reached them has behind it.            *)
Parsed == {<<"distribution">>, <<"work">>, <<"runtime">>, <<"input">>, <<"output">>,
           <<"build">>, <<"run">>, <<"running">>}
Checked == {<<"input">>, <<"output">>, <<"build">>, <<"run">>, <<"running">>}
Built == {<<"run">>, <<"running">>}
Handled == {<<"build">>, <<"run">>, <<"running">>, <<"panicked", "output stream">>}

\* What Build looks at.
StreamsThere ==
  /\ \A v \in ToSet(monitored.inputs) : HasStream(v)
  /\ RuntimeOf(cli) = "distributed" =>
       mode[1] = "distributed" /\ (mode[2] \in Optimizing => HasConstraints)

\* The inductive invariant: each stage keeps what the ones before it checked.
StartupInv ==
  /\ stage # <<"panicked", "conversion">>
  /\ stage \in Parsed \union {<<"model">>} => Accepted(cli)
  /\ stage \in Parsed \/ connected # {} => world.model
  /\ monitored = Model
  /\ stage \in Checked => TypeChecked
  /\ stage \in Handled => topics = OutputTopics
  /\ stage = <<"panicked", "output stream">> => topics # ToSet(monitored.outputs)
  /\ stage \in Built => StreamsThere

-----------------------------------------------------------------------------
\* An accepted command line has an input option, and with each option the
\* one it requires.
LEMMA AcceptedConverts ==
  ASSUME NEW c, Accepted(c)
  PROVE  /\ HasConversion(c)
         /\ "distribution_graph" \in c.distribution => c.localNode
         /\ "distributed_work" \in c.distribution => c.localNode
         /\ \A d \in c.distribution \intersect Optimizing : c.constraints # {}
BY FS_EmptySet DEF Accepted, HasConversion

\* The specification is never localised where main does it.
LEMMA NotLocalised == \A m : Localised(m, FieldMode) = m
BY DEF Localised, FieldMode

\* A failed process is at no stage.
LEMMA FailuresAreNoStages ==
  \A why :
    /\ <<"panicked", why>> \notin Parsed /\ <<"stopped", why>> \notin Parsed
    /\ <<"panicked", why>> \notin Checked /\ <<"stopped", why>> \notin Checked
    /\ <<"panicked", why>> \notin Built /\ <<"stopped", why>> \notin Built
    /\ <<"panicked", why>> # <<"model">> /\ <<"stopped", why>> # <<"model">>
    /\ <<"stopped", why>> \notin Handled
    /\ \A w : <<"stopped", why>> # <<"panicked", w>>
    /\ why # "output stream" =>
         <<"panicked", why>> \notin Handled /\ <<"panicked", why>> # <<"panicked", "output stream">>
    /\ why # "conversion" => <<"panicked", why>> # <<"panicked", "conversion">>
BY DEF Parsed, Checked, Built, Handled

\* A stage is no failure, and has not behind it what comes after it.
LEMMA StagesAreNoFailures ==
  \A s, why : <<s>> # <<"panicked", why>> /\ <<s>> # <<"stopped", why>>
OBVIOUS

LEMMA StagesAreOrdered ==
  /\ \A s \in {"arguments", "model"} : <<s>> \notin Parsed
  /\ \A s \in {"model", "distribution", "work", "runtime"} : <<s>> \notin Checked
  /\ \A s \in {"model", "distribution", "work", "runtime", "input", "output", "build"} : <<s>> \notin Built
  /\ \A s \in {"model", "distribution", "work", "runtime", "input", "output"} : <<s>> \notin Handled
BY DEF Parsed, Checked, Built, Handled

LEMMA InitStartup == Init => StartupInv
BY DEF Init, StartupInv, Parsed, Checked, Built, Handled

LEMMA NextStartup == StartupInv /\ [Next]_vars => StartupInv'
<1> SUFFICES ASSUME StartupInv, [Next]_vars PROVE StartupInv'
  OBVIOUS
<1> USE DEF Go, Stop, Panic
<1>1. CASE ParseArguments
  <2>1. /\ stage' \in {<<"stopped", "usage">>, <<"stopped", "parser">>, <<"model">>}
        /\ stage' = <<"model">> => Accepted(cli)
    BY <1>1 DEF ParseArguments
  <2>2. stage' \notin Parsed /\ stage' \notin Checked /\ stage' \notin Built /\ stage' \notin Handled
    BY <2>1, FailuresAreNoStages, StagesAreNoFailures, StagesAreOrdered
  <2>3. UNCHANGED <<cli, world, mode, monitored, inputs, topics, connected>>
    BY <1>1 DEF ParseArguments
  <2>4. Accepted(cli)' = Accepted(cli)
    BY <2>3
  <2>5. stage \notin Parsed
    BY <1>1 DEF ParseArguments, Parsed
  <2> QED
    BY FailuresAreNoStages, StagesAreNoFailures, <2>1, <2>2, <2>3, <2>4, <2>5 DEF StartupInv
<1>2. CASE ParseModel
  <2>1. /\ HasConversion(cli)
        /\ Accepted(cli)
    BY <1>2, AcceptedConverts DEF ParseModel, StartupInv
  <2>2. /\ stage' \in {<<"stopped", "model file">>, <<"panicked", "logged parse">>, <<"distribution">>}
        /\ stage' = <<"distribution">> => world.model
    BY StagesAreNoFailures, <1>2, <2>1 DEF ParseModel
  <2>3. stage' \notin Checked /\ stage' \notin Built /\ stage' \notin Handled
    BY <2>2, FailuresAreNoStages, StagesAreNoFailures, StagesAreOrdered
  <2>4. stage' \in Parsed => stage' = <<"distribution">>
    BY FailuresAreNoStages, StagesAreNoFailures, <2>2
  <2>5. monitored' = Model /\ UNCHANGED <<cli, world, connected>>
    BY <1>2, NotLocalised DEF ParseModel
  <2>6. Accepted(cli)'
    BY <2>1, <2>5
  <2> QED
    BY FailuresAreNoStages, StagesAreNoFailures, <2>2, <2>3, <2>4, <2>5, <2>6 DEF StartupInv
<1>3. CASE BuildMode
  <2>1. /\ Accepted(cli) /\ world.model
        /\ UNCHANGED <<cli, world, monitored>>
    BY <1>3 DEF BuildMode, StartupInv, Parsed
  <2>2. stage' \in {<<"runtime">>, <<"work">>, <<"panicked", "graph file">>, <<"panicked", "no broker">>}
    BY <1>3, <2>1, AcceptedConverts DEF BuildMode
  <2>3. stage' \notin Checked /\ stage' \notin Built /\ stage' \notin Handled /\ stage' # <<"panicked", "conversion">>
        /\ stage' # <<"panicked", "output stream">>
    BY <2>2, FailuresAreNoStages, StagesAreNoFailures, StagesAreOrdered
  <2>4. Accepted(cli)'
    BY <2>1
  <2> QED
    BY <2>1, <2>3, <2>4 DEF StartupInv
<1>4. CASE TakeWork
  <2>1. /\ stage = <<"work">> /\ stage' = <<"runtime">>
        /\ UNCHANGED <<cli, world, monitored>>
    BY <1>4 DEF TakeWork
  <2>2. Accepted(cli)' /\ world.model
    BY <2>1 DEF StartupInv, Parsed
  <2>3. stage' \notin Checked /\ stage' \notin Built /\ stage' \notin Handled
    BY <2>1, FailuresAreNoStages, StagesAreNoFailures, StagesAreOrdered
  <2> QED
    BY <2>1, <2>2, <2>3 DEF StartupInv
<1>5. CASE LoseWork
  BY FailuresAreNoStages, StagesAreNoFailures, <1>5 DEF LoseWork, StartupInv, Parsed
<1>6. CASE ChooseRuntime
  <2>1. /\ stage = <<"runtime">>
        /\ UNCHANGED <<cli, world, mode, monitored, inputs, topics, connected>>
    BY <1>6 DEF ChooseRuntime
  <2>2. /\ stage' \in {<<"panicked", "combination">>, <<"panicked", "todo">>, <<"panicked", "types">>, <<"input">>}
        /\ stage' = <<"input">> => TypeChecked
    BY <1>6 DEF ChooseRuntime
  <2>3. Accepted(cli)' /\ world.model /\ TypeChecked' = TypeChecked
    BY <2>1 DEF StartupInv, Parsed, TypeChecked
  <2>4. stage' \notin Built /\ stage' \notin Handled /\ stage' # <<"panicked", "conversion">>
        /\ stage' # <<"panicked", "output stream">> /\ (stage' \in Checked => stage' = <<"input">>)
    BY <2>2, FailuresAreNoStages, StagesAreNoFailures, StagesAreOrdered
  <2> QED
    BY <2>1, <2>2, <2>3, <2>4 DEF StartupInv
<1>7. CASE BuildInput
  <2>1. /\ stage = <<"input">>
        /\ UNCHANGED <<cli, world, mode, monitored, topics>>
    BY <1>7 DEF BuildInput
  <2>2. stage' \in {<<"panicked", "ros">>, <<"panicked", "input file">>, <<"panicked", "provider">>, <<"output">>}
    BY <1>7 DEF BuildInput
  <2>3. Accepted(cli)' /\ world.model /\ TypeChecked'
    BY <2>1 DEF StartupInv, Parsed, Checked, TypeChecked
  <2>4. stage' \notin Built /\ stage' \notin Handled /\ stage' # <<"panicked", "conversion">>
        /\ stage' # <<"panicked", "output stream">>
    BY <2>2, FailuresAreNoStages, StagesAreNoFailures, StagesAreOrdered
  <2> QED
    BY <2>1, <2>3, <2>4 DEF StartupInv
<1>8. CASE BuildOutput
  <2>1. /\ stage = <<"output">> /\ topics' = OutputTopics
        /\ UNCHANGED <<cli, world, mode, monitored, inputs, connected>>
    BY <1>8 DEF BuildOutput
  <2>2. stage' \in {<<"panicked", "ros">>, <<"build">>}
    BY <1>8 DEF BuildOutput
  <2>3. /\ Accepted(cli)' /\ world.model /\ TypeChecked'
        /\ OutputTopics' = OutputTopics
    BY <2>1 DEF StartupInv, Parsed, Checked, TypeChecked, OutputTopics
  <2>4. stage' \notin Built /\ stage' # <<"panicked", "conversion">>
        /\ stage' # <<"panicked", "output stream">>
    BY <2>2, FailuresAreNoStages, StagesAreNoFailures, StagesAreOrdered
  <2> QED
    BY <2>1, <2>3, <2>4 DEF StartupInv
<1>9. CASE Build
  <2>1. /\ stage = <<"build">>
        /\ UNCHANGED <<cli, world, mode, monitored, inputs, topics, connected>>
    BY <1>9 DEF Build
  <2>2. /\ stage' \in {<<"panicked", "no graph mode">>, <<"panicked", "input stream">>,
                        <<"panicked", "constraint stream">>, <<"run">>}
        /\ stage' = <<"run">> => StreamsThere
    BY StagesAreNoFailures, <1>9 DEF Build, StreamsThere
  <2>3. /\ Accepted(cli)' /\ world.model /\ TypeChecked' /\ topics = OutputTopics
        /\ OutputTopics' = OutputTopics
    BY <2>1 DEF StartupInv, Parsed, Checked, Handled, TypeChecked, OutputTopics
  <2>4. stage' # <<"panicked", "conversion">> /\ stage' # <<"panicked", "output stream">>
        /\ (stage' \in Built => stage' = <<"run">>)
    BY <2>2, FailuresAreNoStages, StagesAreNoFailures, StagesAreOrdered
  <2>5. StreamsThere' = StreamsThere
    BY <2>1 DEF StreamsThere, HasStream, HasConstraints
  <2> QED
    BY <2>1, <2>2, <2>3, <2>4, <2>5 DEF StartupInv
<1>10. CASE Run
  <2>1. /\ stage = <<"run">>
        /\ UNCHANGED <<cli, world, mode, monitored, inputs, topics>>
    BY <1>10 DEF Run
  <2>2. /\ stage' \in {<<"panicked", "output stream">>, <<"running">>, <<"stopped", "no broker">>,
                        <<"panicked", "no broker">>}
        /\ stage' = <<"panicked", "output stream">> => topics # ToSet(monitored.outputs)
    BY FailuresAreNoStages, StagesAreNoFailures, <1>10 DEF Run
  <2>3. /\ Accepted(cli)' /\ world.model /\ TypeChecked' /\ topics = OutputTopics
        /\ OutputTopics' = OutputTopics
    BY <2>1 DEF StartupInv, Parsed, Checked, Handled, TypeChecked, OutputTopics
  <2>4. stage' # <<"panicked", "conversion">>
    BY FailuresAreNoStages, StagesAreNoFailures, <2>2
  <2>5. StreamsThere'
    BY <2>1 DEF StartupInv, Built, StreamsThere, HasStream, HasConstraints
  <2> QED
    BY <2>1, <2>2, <2>3, <2>4, <2>5 DEF StartupInv
<1>11. CASE UNCHANGED vars
  BY <1>11 DEF vars, StartupInv, TypeChecked, OutputTopics, StreamsThere, HasStream, HasConstraints
<1> QED
  BY <1>1, <1>2, <1>3, <1>4, <1>5, <1>6, <1>7, <1>8, <1>9, <1>10, <1>11 DEF Next, Step

LEMMA StartupInvariant == Spec => []StartupInv
BY InitStartup, NextStartup, PTL DEF Spec

-----------------------------------------------------------------------------
\* Every stage, and the names of the ways to fail, are the ones of the module.
LEMMA StageTypes ==
  /\ \A s \in {"model", "distribution", "work", "runtime", "input", "output", "build", "run", "running"} : <<s>> \in Stages
  /\ \A why \in Reasons :
       <<"panicked", why>> \in Stages /\ <<"stopped", why>> \in Stages
BY DEF Stages

LEMMA NextTypes == StartupInv /\ StartupTypeOK /\ [Next]_vars => StartupTypeOK'
<1> SUFFICES ASSUME StartupInv, StartupTypeOK, [Next]_vars PROVE StartupTypeOK'
  OBVIOUS
<1>0. monitored = Model
  BY DEF StartupInv
<1>1. stage' \in Stages
  <2>1. CASE Next
    <3> USE StageTypes DEF Go, Stop, Panic, Reasons
    <3>1. ASSUME Step PROVE stage' \in Stages
      <4>1. CASE ParseArguments
        BY <4>1 DEF ParseArguments
      <4>2. CASE ParseModel
        BY <4>2 DEF ParseModel
      <4>3. CASE BuildMode
        BY <4>3 DEF BuildMode
      <4>4. CASE ChooseRuntime
        BY <4>4 DEF ChooseRuntime
      <4>5. CASE BuildInput
        BY <4>5 DEF BuildInput
      <4>6. CASE BuildOutput
        BY <4>6 DEF BuildOutput
      <4>7. CASE Build
        BY <4>7 DEF Build
      <4>8. CASE Run
        BY <4>8 DEF Run
      <4> QED
        BY <3>1, <4>1, <4>2, <4>3, <4>4, <4>5, <4>6, <4>7, <4>8 DEF Step
    <3>2. ASSUME TakeWork \/ LoseWork PROVE stage' \in Stages
      BY <3>2 DEF TakeWork, LoseWork
    <3> QED
      BY <2>1, <3>1, <3>2 DEF Next
  <2>2. CASE UNCHANGED vars
    BY <2>2 DEF vars, StartupTypeOK, Stages
  <2> QED
    BY <2>1, <2>2
<1>2. (mode[1] \in {"central", "local", "distributed"})'
  <2>1. CASE BuildMode
    <3>1. \/ mode' = <<"central">>
          \/ \E x : mode' = <<"local", x>>
          \/ \E x : mode' = <<"distributed", x>>
          \/ mode' = mode
      BY <2>1 DEF BuildMode
    <3> QED
      BY <3>1 DEF StartupTypeOK
  <2>2. CASE TakeWork
    BY <2>2 DEF TakeWork
  <2>3. CASE UNCHANGED mode
    BY <2>3 DEF StartupTypeOK
  <2>4. BuildMode \/ TakeWork \/ UNCHANGED mode
    BY DEF Next, Step, vars, ParseArguments, ParseModel, LoseWork, ChooseRuntime, BuildInput,
           BuildOutput, Build, Run
  <2> QED
    BY <2>1, <2>2, <2>3, <2>4
<1>3. (inputs \subseteq ToSet(Model.inputs) \union cli.inTopics)'
  <2>1. CASE BuildInput
    BY <2>1, <1>0 DEF BuildInput, InputVars, StartupTypeOK
  <2>2. CASE UNCHANGED <<cli, inputs>>
    BY <2>2 DEF StartupTypeOK
  <2>3. BuildInput \/ UNCHANGED <<cli, inputs>>
    BY DEF Next, Step, vars, ParseArguments, ParseModel, BuildMode, TakeWork, LoseWork,
           ChooseRuntime, BuildOutput, Build, Run
  <2> QED
    BY <2>1, <2>2, <2>3
<1>4. (topics \subseteq ToSet(Model.outputs))'
  <2>1. CASE BuildOutput
    BY <2>1, <1>0 DEF BuildOutput, OutputTopics
  <2>2. CASE UNCHANGED topics
    BY <2>2 DEF StartupTypeOK
  <2>3. BuildOutput \/ UNCHANGED topics
    BY DEF Next, Step, vars, ParseArguments, ParseModel, BuildMode, TakeWork, LoseWork,
           ChooseRuntime, BuildInput, Build, Run
  <2> QED
    BY <2>1, <2>2, <2>3
<1>5. (connected \subseteq {"work", "input", "output"})'
  <2>1. CASE BuildMode
    BY <2>1 DEF BuildMode, StartupTypeOK
  <2>2. CASE BuildInput
    BY <2>2 DEF BuildInput, StartupTypeOK
  <2>3. CASE Run
    BY <2>3 DEF Run, StartupTypeOK
  <2>4. CASE UNCHANGED connected
    BY <2>4 DEF StartupTypeOK
  <2>5. BuildMode \/ BuildInput \/ Run \/ UNCHANGED connected
    BY DEF Next, Step, vars, ParseArguments, ParseModel, TakeWork, LoseWork, ChooseRuntime,
           BuildOutput, Build
  <2> QED
    BY <2>1, <2>2, <2>3, <2>4, <2>5
<1> QED
  BY <1>1, <1>2, <1>3, <1>4, <1>5 DEF StartupTypeOK

\* The type invariant of a starting process.
THEOREM StartupTypes == Spec => []StartupTypeOK
<1>1. Init => StartupTypeOK
  BY DEF Init, StartupTypeOK, Stages, FieldMode
<1> QED
  BY <1>1, NextTypes, StartupInvariant, PTL DEF Spec

-----------------------------------------------------------------------------
\* No accepted command line makes a conversion of cli/adapters.rs panic.
THEOREM ConversionsAreTotal == Spec => []ConversionsTotal
<1>1. StartupInv => ConversionsTotal
  BY DEF StartupInv, ConversionsTotal
<1> QED
  BY <1>1, StartupInvariant, PTL

\* A process whose specification cannot be read never reaches the broker, so
\* it takes no work.
THEOREM ModelIsFirst == Spec => []ModelFirst
<1>1. StartupInv => ModelFirst
  BY DEF StartupInv, ModelFirst
<1> QED
  BY <1>1, StartupInvariant, PTL

\* The output handler only ever lacks the topic of a variable monitored here.
THEOREM OutputsAreCovered == Spec => []OutputsCovered
<1>1. ASSUME StartupInv PROVE OutputsCovered
  <2> SUFFICES ASSUME stage = <<"panicked", "output stream">>
               PROVE  \E v \in ToSet(monitored.outputs) : v \notin cli.outTopics
    BY DEF OutputsCovered
  <2>1. OutputTopics # ToSet(monitored.outputs)
    BY <1>1 DEF StartupInv, Handled
  <2>2. OutputTopics = cli.outTopics \intersect ToSet(monitored.outputs)
    BY <2>1 DEF OutputTopics
  <2> QED
    BY <2>1, <2>2
<1> QED
  BY <1>1, StartupInvariant, PTL

\* A monitor that runs has all its input streams, its types if they were asked
\* for, and in the distributed runtime a graph mode with existing constraints.
THEOREM MonitorRunsAsAsked == Spec => []RunsAsAsked
<1>1. StartupInv => RunsAsAsked
  BY DEF StartupInv, RunsAsAsked, Checked, Built, StreamsThere
<1> QED
  BY <1>1, StartupInvariant, PTL
=============================================================================
