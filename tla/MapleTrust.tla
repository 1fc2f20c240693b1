----------------------------- MODULE MapleTrust -----------------------------
(***************************************************************************)
(* The MAPE-K loop of MapleK watched by the Trustworthiness node, which    *)
(* turns the events anomaly, new_plan, isLegit and /spin_config into the   *)
(* stages m, a, p, l, e, and by the runtime monitor that checks them       *)
(* against host_models/maple_simple_single_topic.lola.                     *)
(*                                                                         *)
(* A step of this module is a step of MapleK, with the event it publishes  *)
(* delivered to the Trustworthiness node, or a step of the two observers.  *)
(***************************************************************************)
EXTENDS MapleK

VARIABLES
  seen,      \* the events the Trustworthiness node has not handled
  watcher,   \* control point of its handlers
  verdict,   \* the streams m, a, p, l, e and maple at their last index
  last       \* history: the last stage published that is not l

varsWatch == <<seen, watcher, verdict, last>>
varsAll == <<vars, varsWatch>>

Stage == {"m", "a", "p", "l", "e"}

\* Before the first index e[-1, true] is true, the other defaults are false.
TrustInit ==
  /\ Init
  /\ seen = <<>>
  /\ watcher = "idle"
  /\ verdict = [s \in Stage \cup {"maple"} |-> s \in {"e", "maple"}]
  /\ last = "e"

-----------------------------------------------------------------------------
(* The steps of the loop.                                                  *)

\* The steps that publish an event Trustworthiness subscribed to.
Published(step, event) ==
  /\ step
  /\ seen' = Append(seen, event)
  /\ UNCHANGED <<watcher, verdict, last>>

Unobserved ==
  \/ WorldChanges \/ Scan \/ MonitorStep
  \/ AnalysisRead \/ AnalysisWrite \/ AnalysisCheck \/ AnalysisCompare
  \/ AnalysisMark
  \/ PlanRead \/ PlanRecord \/ PlanWrite \/ PlanFinish
  \/ ExecuteRead \/ ExecuteReset
  \/ LegitimateBegin
  \/ \E n \in Restartable : Restart(n)

LoopStep ==
  \/ Published(AnalysisRaise, "anomaly")
  \/ Published(PlanPublish, "new_plan")
  \/ Published(LegitimatePublish, "isLegit")
  \/ Published(ExecutePublish, "/spin_config")
  \/ Unobserved /\ UNCHANGED varsWatch

-----------------------------------------------------------------------------
(* The specification the runtime monitor checks, one index per stage.      *)

Before == [m |-> "e", a |-> "m", p |-> "a", l |-> "p", e |-> "l"]

Streams_Forgiving(s) ==     \* fault: m does not look at e[-1, true]
  [x \in Stage |-> x = s /\ (x = "m" \/ verdict[Before[x]])]

Streams(s) == [x \in Stage |-> x = s /\ verdict[Before[x]]]

\* The verdict does not depend on when the monitor reads a stage, only on
\* the order, so it is computed as the stage is published.
PublishStage(s) ==
  /\ verdict' = [x \in Stage \cup {"maple"} |->
                   IF x = "maple" THEN \E y \in Stage : Streams(s)[y]
                   ELSE Streams(s)[x]]
  /\ last' = IF s = "l" THEN last ELSE s

-----------------------------------------------------------------------------
(* Trustworthiness: t_a, t_p, t_l and t_e.                                 *)

\* t_a publishes m, sleeps, then publishes a.
BeginA ==
  /\ watcher = "idle"
  /\ seen # <<>> /\ Head(seen) = "anomaly"
  /\ seen' = Tail(seen)
  /\ PublishStage("m")
  /\ watcher' = "a"
  /\ UNCHANGED vars

EndA ==
  /\ watcher = "a"
  /\ PublishStage("a")
  /\ watcher' = "idle"
  /\ UNCHANGED <<vars, seen>>

Report(event, s) ==
  /\ watcher = "idle"
  /\ seen # <<>> /\ Head(seen) = event
  /\ seen' = Tail(seen)
  /\ PublishStage(s)
  /\ UNCHANGED <<vars, watcher>>

ReportP == Report("new_plan", "p")
ReportL == Report("isLegit", "l")
ReportE == Report("/spin_config", "e")

-----------------------------------------------------------------------------
(* The specification of the whole.                                         *)

TrustNext == LoopStep \/ BeginA \/ EndA \/ ReportP \/ ReportL \/ ReportE

TrustSpec == TrustInit /\ [][TrustNext]_varsAll

-----------------------------------------------------------------------------
(* Properties.                                                             *)

\* Whatever the timing of the five nodes and the restarts of all of them but
\* Analysis, the stages of one round follow each other and the rounds do not
\* mix: m after e, a after m, p after a, e after p.  The stage l is the only
\* one that may come at another time.
StagesInOrder ==
  [][ "Analysis" \notin Restartable =>
        /\ BeginA => last = "e"
        /\ EndA => last = "m"
        /\ ReportP => last = "a"
        /\ ReportE => last = "p" ]_varsAll

\* One stage out of order is never forgiven: the monitor's verdict maple
\* stays false for ever, even if all later rounds are in order.
DistrustIsFinal == [][~verdict["maple"] => ~verdict'["maple"]]_varsAll

=============================================================================
