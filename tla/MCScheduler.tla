----------------------------- MODULE MCScheduler -----------------------------
(* At most two robots, one of which may have the name of the central       *)
(* monitor, an output variable and a constraint variable.                  *)
EXTENDS Scheduler, TLC

MCLocationSets == {<<"a">>, <<"a", "b">>, <<"a", "central">>}
MCVars == <<"x", "c">>
MCConstraintVars == <<"c">>
MCMessages == [a |-> {<<0, 0, 0>>}, b |-> {<<2, 2, 1>>, <<>>},
               central |-> {<<0, 0, 0>>, <<2, 2, 1>>}]
MCWorkers == {"a"}
MCModes == {"static", "centralised", "random", "static_optimized", "dynamic_optimized"}
MCConstraintSets == { {<<"monitored_at", "x", "central">>},
                      {<<"monitored_at", "x", "a">>, <<"apart", "a", "c", 2>>},
                      {<<"elsewhere", "x", "a">>},
                      {<<"near", "x", "a", 2>>} }
MCFixedPlan ==
  LabelledGraph(DistributionGraph(<<"a", "b", "central">>, 3, {<<1, 2, 1>>, <<2, 3, 1>>}),
                <<"x", "c">>, <<<<"x">>, <<>>, <<"c">>>>)

\* For SchedulerInitialPlan: no nodes that wait for work, one mode, and a
\* constraint that holds for some positions only.
MCStaticConstraintSets == { {<<"monitored_at", "x", "central">>},
                          {<<"monitored_at", "x", "a">>, <<"apart", "a", "c", 2>>} }
MCNoWorkers == {}

MCStaticModes == {"static_optimized"}
==============================================================================
