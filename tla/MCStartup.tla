------------------------------ MODULE MCStartup ------------------------------
(* Command lines that vary what is read and written, and command lines that *)
(* vary how the monitoring is distributed.                                  *)
EXTENDS Startup

MCModel == [inputs |-> <<"x", "y">>, outputs |-> <<"a", "b">>,
            reads |-> [v \in {"a", "b"} |-> IF v = "a" THEN {"x"} ELSE {"a", "y"}]]
MCLabelled ==
  LabelledGraph(DistributionGraph(<<"n", "m">>, 2, {<<1, 2, 1>>, <<2, 1, 1>>}),
                <<"a", "b">>, <<<<"b">>, <<"a">>>>)
MCWork == {<<"a">>, <<>>}

Default == [input |-> {"input_file"}, inTopics |-> {}, output |-> {}, outTopics |-> {},
            parser |-> "combinator", semantics |-> "default", runtime |-> "default",
            distribution |-> {}, localNode |-> FALSE, constraints |-> {}, locals |-> <<"a">>]

Inputs == {{}, {"input_file", "mqtt_input"}}
          \union {{i} : i \in MQTTInputs \union RedisInputs \union {"input_file", "input_ros_topics"}}
Outputs == {{}, {"output_stdout", "mqtt_output"}}
           \union {{o} : o \in MQTTOutputs \union RedisOutputs \union {"output_stdout", "output_ros_topics"}}
Distributions ==
  {{}, {"local_topics", "distributed_work"}}
  \union {{d} : d \in Distributing \union {"local_topics", "distribution_graph", "distributed_work"}}

Wired ==
  {[Default EXCEPT !.input = i, !.inTopics = it, !.output = o, !.outTopics = ot, !.parser = p] :
     i \in Inputs, it \in {{"x"}, {"x", "y", "z"}}, o \in Outputs, ot \in {{"a", "b", "z"}, {"a"}},
     p \in {"combinator", "lalr"}}
Distributed ==
  {[Default EXCEPT !.input = {i}, !.semantics = s, !.runtime = r, !.distribution = d,
                   !.localNode = n, !.constraints = c] :
     i \in {"input_file", "mqtt_input"}, s \in {"default", "typed_untimed"},
     r \in {"default", "constraints", "distributed", "reconfigurable_async"},
     d \in Distributions, n \in BOOLEAN, c \in {{}, {"b"}, {"c"}}}
MCCommands == Wired \union Distributed

Good == [model |-> TRUE, debug |-> FALSE, typed |-> TRUE, graph |-> TRUE, trace |-> TRUE,
         mqtt |-> TRUE, redis |-> TRUE]
MCWorlds ==
  {Good} \union {[Good EXCEPT ![f] = FALSE] : f \in {"model", "typed", "graph", "trace", "mqtt", "redis"}}
  \union {[Good EXCEPT !.model = FALSE, !.debug = TRUE]}
=============================================================================
