---------------------------- MODULE AsyncMonitor ----------------------------
(***************************************************************************)
(* A monitor of the asynchronous runtime from end to end: the task of the   *)
(* Redis input provider, the variable managers, the expression streams of  *)
(* the output variables, the Redis output handler, and the select of       *)
(* run_boxed() that ends the monitor when the provider or the handler does.*)
(*                                                                         *)
(* The values themselves do not matter here: the k-th value of a pointwise *)
(* expression is computed from the k-th values of its operands, so every   *)
(* stream is described by how many values went through it.  The managers   *)
(* are those of module VarManager after run() was called and all           *)
(* subscriptions were served: a variable with one reader is forwarded      *)
(* directly, one with several readers has a channel for each of them.      *)
(***************************************************************************)
EXTENDS Integers, FiniteSets

CONSTANTS
  None,          \* the provider has no message in hand
  InputVars,     \* input_vars() of the model
  NumOutputs,    \* output_vars(), numbered so that operands come first
  Uses,          \* Uses[o]: the variables of the expression of output o
  Capacity,      \* channel of the provider for a variable, channel(10)
  SubCapacity,   \* channel of a subscription, channel(1000)
  MaxMessages,   \* bound: messages the broker delivers for a variable
  Faults         \* the faults of the surroundings that may happen

Outputs == 1..NumOutputs
Vars == InputVars \cup Outputs
Handler == 0                       \* the reader that publishes an output
Consumers == {Handler} \cup Outputs

ASSUME AsyncMonitorAssumption ==
  /\ NumOutputs \in Nat \ {0}
  /\ InputVars \cap Outputs = {}
  /\ None \notin Vars
  /\ Uses \in [Outputs -> SUBSET Vars]
  /\ \A o \in Outputs : Uses[o] # {} /\ \A p \in Uses[o] \cap Outputs : p < o
  /\ Capacity \in Nat \ {0}
  /\ SubCapacity \in Nat \ {0}
  /\ MaxMessages \in Nat
  /\ Faults \subseteq {"payload", "closed", "publish"}

VARIABLES
  hand,        \* variable whose value the provider is sending, or None
  feed,        \* result of the provider: "running" | "ok" | "err"
  sent,        \* values the provider has put into the channel of an input
  taken,       \* values that were read from the source of a variable
  managed,     \* variables whose manager task is running
  subscribers, \* readers a manager holds a sender for
  todo,        \* readers a manager has still to send the value it read to
  buf,         \* buf[v][c]: values in the channel from v to reader c
  got,         \* got[v][c]: values reader c has received from v
  published,   \* values of an output that were published
  open,        \* outputs whose stream the handler holds
  failed,      \* a publication failed
  cancelled,   \* the cancellation token
  result,      \* result of run_boxed(): "running" | "ok" | "err"
  faults       \* history: the faults that happened

varsProvider == <<hand, feed, sent>>
varsManager == <<managed, subscribers, todo>>
varsHandler == <<published, open, failed>>
vars == <<varsProvider, taken, varsManager, buf, got, varsHandler, cancelled,
          result, faults>>

-----------------------------------------------------------------------------
(* How the builder connects the streams: each operand of an expression is a *)
(* subscription, and so is each output, for the handler.                   *)

Readers(v) ==
  {o \in Outputs : v \in Uses[o]} \cup (IF v \in Outputs THEN {Handler} ELSE {})

\* VarManager::subscribe hands its input stream to a sole reader.
Direct(v) == \E c \in Consumers : Readers(v) = {c}
Managed == {v \in Vars : ~Direct(v)}

Init ==
  /\ hand = None
  /\ feed = "running"
  /\ sent = [v \in InputVars |-> 0]
  /\ taken = [v \in Vars |-> 0]
  /\ managed = Managed
  /\ subscribers = [v \in Vars |-> IF Direct(v) THEN {} ELSE Readers(v)]
  /\ todo = [v \in Vars |-> {}]
  /\ buf = [v \in Vars |-> [c \in Consumers |-> 0]]
  /\ got = [v \in Vars |-> [c \in Consumers |-> 0]]
  /\ published = [o \in Outputs |-> 0]
  /\ open = Outputs
  /\ failed = FALSE
  /\ cancelled = FALSE
  /\ result = "running"
  /\ faults = {}

\* The expression stream of output o exists: its owner is the manager of o,
\* or the handler if o is forwarded to it.
ExprAlive(o) == IF Direct(o) THEN o \in open ELSE o \in managed

\* Reader c of a variable v still holds the stream.
Attached(v, c) == IF c = Handler THEN v \in open ELSE ExprAlive(c)

\* Somebody can still receive from the provider's channel of input v.
SourceAlive(v) ==
  IF Direct(v) THEN \A c \in Readers(v) : Attached(v, c) ELSE v \in managed

\* The handler awaits the publication of a value of output o.
Publishing(o) == got[o][Handler] > published[o]

\* The expression of o has an operand in hand that waits for the others.
Holds(o, v) == got[v][o] = taken[o] + 1

\* The next value of a variable can be read from its source.
HasNext(v) ==
  IF v \in InputVars THEN taken[v] < sent[v]
                     ELSE \A u \in Uses[v] : Holds(v, u)

InputEnded_AtOnce(v) == feed # "running"   \* fault: buffered values are lost

\* The provider's task has ended, its senders are gone and all is read.
InputEnded(v) == feed # "running" /\ taken[v] = sent[v]

\* Reader c finds the end of its channel from v.
ChannelEnded(v, c) ==
  buf[v][c] = 0 /\ ~(v \in managed /\ c \in subscribers[v])

\* zip ends as soon as an operand it waits for has ended.
ExprEnded(o) ==
  \E v \in Uses[o] :
    /\ ~Holds(o, v)
    /\ IF Direct(v) THEN InputEnded(v) ELSE ChannelEnded(v, o)

SourceEnded(v) == IF v \in InputVars THEN InputEnded(v) ELSE ExprEnded(v)

\* The owner of the expression stream of o polls it.
Polled(o) ==
  IF Direct(o) THEN o \in open /\ ~Publishing(o)
               ELSE o \in managed /\ todo[o] = {} /\ subscribers[o] # {}

Increment(f, v, c) == [f EXCEPT ![v][c] = @ + 1]
Decrement(f, v, c) == [f EXCEPT ![v][c] = @ - 1]

-----------------------------------------------------------------------------
(* The provider's task: one loop over the messages of all topics.          *)

MessageArrives(v) ==
  /\ feed = "running"
  /\ hand = None
  /\ sent[v] < MaxMessages
  /\ hand' = v
  /\ faults' = IF Readers(v) = {} THEN faults \cup {"unread"} ELSE faults
  /\ UNCHANGED <<feed, sent, taken, varsManager, buf, got, varsHandler,
                 cancelled, result>>

HasRoom_OneShort(v) == sent[v] + 1 - taken[v] < Capacity  \* fault: off by one

HasRoom(v) == sent[v] - taken[v] < Capacity

\* sender.send(value).await: other messages wait meanwhile.
SendToVar ==
  /\ hand # None
  /\ SourceAlive(hand)
  /\ HasRoom(hand)
  /\ sent' = [sent EXCEPT ![hand] = @ + 1]
  /\ hand' = None
  /\ UNCHANGED <<feed, taken, varsManager, buf, got, varsHandler, cancelled,
                 result, faults>>

\* The receiver of the channel was dropped: `?' ends the task.
SendRefused ==
  /\ hand # None
  /\ ~SourceAlive(hand)
  /\ feed' = "err"
  /\ hand' = None
  /\ UNCHANGED <<sent, taken, varsManager, buf, got, varsHandler, cancelled,
                 result, faults>>

\* get_payload()? fails.
BadPayload ==
  /\ "payload" \in Faults
  /\ feed = "running"
  /\ hand = None
  /\ feed' = "err"
  /\ faults' = faults \cup {"payload"}
  /\ UNCHANGED <<hand, sent, taken, varsManager, buf, got, varsHandler,
                 cancelled, result>>

\* The stream of messages ends with the connection, which is no error.
ConnectionCloses ==
  /\ "closed" \in Faults
  /\ feed = "running"
  /\ hand = None
  /\ feed' = "ok"
  /\ faults' = faults \cup {"closed"}
  /\ UNCHANGED <<hand, sent, taken, varsManager, buf, got, varsHandler,
                 cancelled, result>>

-----------------------------------------------------------------------------
(* The managers of variables with no reader or several.                    *)

\* fault: the handler's own subscription is forgotten
Recipients_Expressions(v) == subscribers[v] \ {Handler}

Recipients(v) == subscribers[v]

ManagerReads(v) ==
  /\ v \in managed
  /\ todo[v] = {}
  /\ subscribers[v] # {}
  /\ HasNext(v)
  /\ taken' = [taken EXCEPT ![v] = @ + 1]
  /\ todo' = [todo EXCEPT ![v] = Recipients(v)]
  /\ UNCHANGED <<varsProvider, managed, subscribers, buf, got, varsHandler,
                 cancelled, result, faults>>

SubHasRoom(v, c) == buf[v][c] < SubCapacity

\* One send of the loop over the subscribers, in the order of subscription.
ManagerSends(v, c) ==
  /\ v \in managed
  /\ c \in todo[v] /\ \A d \in todo[v] : c <= d
  /\ \/ /\ Attached(v, c)
        /\ SubHasRoom(v, c)
        /\ buf' = Increment(buf, v, c)
        /\ UNCHANGED subscribers
     \/ /\ ~Attached(v, c)
        /\ subscribers' = [subscribers EXCEPT ![v] = @ \ {c}]
        /\ UNCHANGED buf
  /\ todo' = [todo EXCEPT ![v] = @ \ {c}]
  /\ UNCHANGED <<varsProvider, taken, managed, got, varsHandler, cancelled,
                 result, faults>>

\* fault: a source with no value ready is taken for one that ended
ManagerDone_NotReady(v) == subscribers[v] = {} \/ ~HasNext(v)

\* tick() returns false: nobody is left to distribute to, or the source ended.
ManagerDone(v) == subscribers[v] = {} \/ SourceEnded(v)

ManagerEnds(v) ==
  /\ v \in managed
  /\ \/ todo[v] = {} /\ ManagerDone(v)
     \/ cancelled
  /\ managed' = managed \ {v}
  /\ todo' = [todo EXCEPT ![v] = {}]
  /\ UNCHANGED <<varsProvider, taken, subscribers, buf, got, varsHandler,
                 cancelled, result, faults>>

-----------------------------------------------------------------------------
(* The expression streams: zip polls each operand it does not hold.        *)

Receive(v, c) ==
  /\ \/ /\ Direct(v)
        /\ HasNext(v)
        /\ taken' = [taken EXCEPT ![v] = @ + 1]
        /\ UNCHANGED buf
     \/ /\ ~Direct(v)
        /\ buf[v][c] > 0
        /\ buf' = Decrement(buf, v, c)
        /\ UNCHANGED taken
  /\ got' = Increment(got, v, c)

OperandArrives(o, v) ==
  /\ Polled(o)
  /\ v \in Uses[o]
  /\ ~Holds(o, v)
  /\ Receive(v, o)
  /\ UNCHANGED <<varsProvider, varsManager, varsHandler, cancelled, result,
                 faults>>

-----------------------------------------------------------------------------
(* The handler: one publish_stream per output, joined.  The drop guard that *)
(* the streams share cancels the token with the last of them.              *)

ValueArrives(o) ==
  /\ o \in open
  /\ ~Publishing(o)
  /\ Receive(o, Handler)
  /\ UNCHANGED <<varsProvider, varsManager, varsHandler, cancelled, result,
                 faults>>

Publish(o) ==
  /\ o \in open
  /\ Publishing(o)
  /\ published' = [published EXCEPT ![o] = @ + 1]
  /\ UNCHANGED <<varsProvider, taken, varsManager, buf, got, open, failed,
                 cancelled, result, faults>>

Drop_EachCancels(outs) ==          \* fault: a guard of its own per stream
  /\ open' = open \ outs
  /\ cancelled' = TRUE

Drop_NoGuard(outs) ==              \* fault: the streams are not guarded
  /\ open' = open \ outs
  /\ UNCHANGED cancelled

Drop(outs) ==
  /\ open' = open \ outs
  /\ cancelled' = (cancelled \/ open' = {})

PublishFails(o) ==
  /\ "publish" \in Faults
  /\ o \in open
  /\ Publishing(o)
  /\ Drop({o})
  /\ failed' = TRUE
  /\ faults' = faults \cup {"publish"}
  /\ UNCHANGED <<varsProvider, taken, varsManager, buf, got, published, result>>

StreamEnds(o) ==
  /\ o \in open
  /\ ~Publishing(o)
  /\ IF Direct(o) THEN ExprEnded(o) ELSE ChannelEnded(o, Handler)
  /\ Drop({o})
  /\ UNCHANGED <<varsProvider, taken, varsManager, buf, got, published, failed,
                 result, faults>>

-----------------------------------------------------------------------------
(* run_boxed(): the select ends with either future; the handler's future   *)
(* and the streams it still holds are dropped on return.                   *)

OutputCompletes ==
  /\ result = "running"
  /\ open = {}
  /\ result' = IF failed THEN "err" ELSE "ok"
  /\ UNCHANGED <<varsProvider, taken, varsManager, buf, got, varsHandler,
                 cancelled, faults>>

InputCompletes ==
  /\ result = "running"
  /\ feed # "running"
  /\ result' = feed
  /\ Drop(open)
  /\ UNCHANGED <<varsProvider, taken, varsManager, buf, got, published, failed,
                 faults>>

-----------------------------------------------------------------------------

Provider == SendToVar \/ SendRefused
Broker == (\E v \in InputVars : MessageArrives(v)) \/ BadPayload \/ ConnectionCloses
Manager(v) ==
  ManagerReads(v) \/ (\E c \in Consumers : ManagerSends(v, c)) \/ ManagerEnds(v)
Output(o) ==
  \/ \E v \in Vars : OperandArrives(o, v)
  \/ ValueArrives(o) \/ Publish(o) \/ PublishFails(o) \/ StreamEnds(o)

Next ==
  \/ Broker
  \/ Provider
  \/ \E v \in Vars : Manager(v)
  \/ \E o \in Outputs : Output(o)
  \/ OutputCompletes
  \/ InputCompletes

Spec == Init /\ [][Next]_vars

(* The executor polls every task that was woken; publish() returns.  The    *)
(* broker owes nothing: it may fall silent at any time.                     *)
Fairness ==
  /\ WF_vars(Provider)
  /\ \A v \in Vars : WF_vars(Manager(v))
  /\ \A o \in Outputs :
       /\ \A v \in Uses[o] : WF_vars(OperandArrives(o, v))
       /\ WF_vars(ValueArrives(o) \/ Publish(o) \/ StreamEnds(o))
  /\ WF_vars(OutputCompletes \/ InputCompletes)

FairSpec == Spec /\ Fairness

-----------------------------------------------------------------------------
(* Properties.                                                             *)

TypeOK ==
  /\ hand \in {None} \cup InputVars
  /\ feed \in {"running", "ok", "err"}
  /\ sent \in [InputVars -> Nat]
  /\ taken \in [Vars -> Nat]
  /\ managed \in SUBSET Managed
  /\ subscribers \in [Vars -> SUBSET Consumers]
  /\ todo \in [Vars -> SUBSET Consumers]
  /\ buf \in [Vars -> [Consumers -> 0..SubCapacity]]
  /\ got \in [Vars -> [Consumers -> Nat]]
  /\ published \in [Outputs -> Nat]
  /\ open \in SUBSET Outputs
  /\ failed \in BOOLEAN
  /\ cancelled \in BOOLEAN
  /\ result \in {"running", "ok", "err"}
  /\ faults \in SUBSET (Faults \cup {"unread"})

\* The number of values of a variable that the monitor was given or has
\* published.
Rows(v) == IF v \in InputVars THEN sent[v] ELSE published[v]

\* A monitor that reports success while the connection was up has published a
\* value of each output for every step for which it was sent all operands,
\* although success may mean that the provider failed and the select happened
\* to see the handler first: what was sent has drained through every manager,
\* channel and zip, and none of them stopped early.
OkMeansDrained ==
  result = "ok" /\ "closed" \notin faults =>
    \A o \in Outputs :
      /\ \A v \in Uses[o] : published[o] <= Rows(v)
      /\ \E v \in Uses[o] : published[o] = Rows(v)

\* Nothing but a fault ends a monitor: no send is refused, no stream ends, no
\* manager stops and the token is not cancelled as long as payloads parse,
\* publications succeed, the broker stays and all messages are for inputs that
\* some output reads.
OnlyFaultsEnd ==
  faults = {} =>
    /\ feed = "running"
    /\ result = "running"
    /\ ~cancelled
    /\ \A v \in Managed : Readers(v) # {} => v \in managed

\* A partial failure stays partial: while some output is still read, the
\* monitor is not cancelled, and the variables it needs keep a source.
FailureIsContained ==
  result = "running" =>
    \A o \in open :
      /\ ~cancelled
      /\ feed = "running" => ExprAlive(o) /\ \A v \in Uses[o] \cap InputVars : SourceAlive(v)

\* One task fills the channels of all inputs.  It never stays at a message if
\* the variable is not more than a channel and a zip ahead of the slowest
\* input; if it is, the monitor may wait for a message behind that one.
HeadOfLine ==
  \A v \in InputVars :
    /\ hand = v
    /\ \A u \in InputVars : sent[v] <= sent[u] + Capacity
    ~> hand # v \/ result # "running"

\* What was sent of all operands is published sooner or later, unless a fault
\* or the end of the monitor comes first: managers, channels and zips do not
\* wait for each other in a circle.
AllPublished ==
  \A o \in Outputs :
    \A k \in 1..MaxMessages :
      (\A v \in InputVars : sent[v] >= k)
        ~> published[o] >= k \/ faults # {} \/ result # "running"

\* When run_boxed() has returned no manager is left running in the background.
CleansUp == result # "running" ~> managed = {}

=============================================================================
