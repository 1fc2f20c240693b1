-------------------------------- MODULE Mqtt --------------------------------
(***************************************************************************)
(* The MQTT input provider and output handler of a process and the broker  *)
(* they talk to (io/mqtt/client.rs, input_provider.rs,                     *)
(* map_input_provider.rs, output_handler.rs).  Each has a connection of    *)
(* its own.  The monitor between them is one wire per variable here;       *)
(* AsyncMonitor is about what it does.                                     *)
(*                                                                         *)
(* The client library (paho-mqtt, not in the repository) puts what arrives *)
(* into the stream that get_stream opened last, if that has room; what has *)
(* no room or no stream is dropped all the same as if it had been read.    *)
(*                                                                         *)
(* The messages on a topic are numbered; a message is <<topic, number,     *)
(* good>>, where one that is not good cannot be parsed.                    *)
(***************************************************************************)
EXTENDS Integers, Sequences, SequencesExt, FiniteSetsExt

CONSTANTS
  Topics,       \* the topics, which are the names of the variables
  Unread,       \* those the specification has no variable for
  ChannelCap,   \* capacity of a variable's channel, 10 in the code
  StreamCap,    \* capacity of the client's stream, 10 in the code
  MaxAttempts,  \* max_reconnect_attempts
  Garbled,      \* the messages <<topic, number>> that may not be values
  MaxMessages,  \* bound on the messages on a topic
  MaxTotal,     \* bound on the messages on all topics
  MaxFaults     \* bound on the faults

ASSUME MqttAssumption ==
  /\ Unread \subseteq Topics /\ {ChannelCap, StreamCap} \subseteq Nat \ {0}
  /\ MaxAttempts \in Nat /\ {MaxMessages, MaxTotal, MaxFaults} \subseteq Nat

Monitored == Topics \ Unread
Lost == <<"lost">>            \* how a client's stream tells of a lost connection
Free == <<"free">>

VARIABLES
  up, sent, subscribed, since, forgot, session, \* the broker
  link, inbox, flight,                          \* the input's connection and stream
  missed, unheard,                              \* what was handed to no reader, a history
  pc, message, attempts, started, result,       \* the input task
  channel,                                      \* the wires
  outLink, task, published,                     \* the output handler
  process, faults
broker == <<up, sent, subscribed, since, forgot, session>>
connection == <<link, inbox, flight, missed, unheard>>
reader == <<pc, message, attempts, started, result>>
output == <<outLink, task, published>>
vars == <<broker, connection, reader, channel, output, process, faults>>

Alive == process \in {"starting", "running"}

Init ==
  /\ up \in BOOLEAN /\ sent = [v \in Topics |-> 0] /\ subscribed = FALSE
  /\ since = [v \in Topics |-> 0] /\ forgot = FALSE /\ session = <<>>
  /\ link = FALSE /\ inbox = <<>> /\ flight = <<>> /\ missed = [v \in Topics |-> {}]
  /\ unheard = FALSE
  /\ pc = "connect" /\ message = Free /\ attempts = 0 /\ started = FALSE /\ result = "none"
  /\ channel = [v \in Topics |-> <<>>]
  /\ outLink = FALSE /\ task = [v \in Monitored |-> Free] /\ published = [v \in Monitored |-> <<>>]
  /\ process = "starting" /\ faults = 0

-----------------------------------------------------------------------------
\* The broker: others publish; it keeps what a session has subscribed to until
\* it is delivered, also while the client is away.
Send(v) ==
  /\ up /\ sent[v] < MaxMessages /\ MapThenSumSet(LAMBDA w : sent[w], Topics) < MaxTotal
  /\ sent' = [sent EXCEPT ![v] = @ + 1]
  /\ IF subscribed THEN \E good \in {<<v, sent[v] + 1>> \notin Garbled, TRUE} :
                          session' = Append(session, <<v, sent[v] + 1, good>>)
     ELSE UNCHANGED session
  /\ UNCHANGED <<up, subscribed, since, forgot, connection, reader, channel, output, process, faults>>

\* The numbers of a topic in a sequence of messages, with 0 for anything else.
NumberOf(v, m) == IF m \notin {Lost, Free} /\ m[1] = v THEN m[2] ELSE 0
Numbers(v, messages) == [i \in DOMAIN messages |-> NumberOf(v, messages[i])]
Miss(messages) ==
  missed' = [v \in Topics |-> missed[v] \union (ToSet(Numbers(v, messages)) \ {0})]

\* The task has opened a stream, which the library fills while it has room.
Open == pc \in {"read", "send", "reconnect", "reopen"}
Takes == Open /\ Len(inbox) < StreamCap

Deliver ==
  /\ link /\ session # <<>> /\ Alive
  /\ session' = Tail(session) /\ flight' = Append(flight, Head(session))
  /\ IF Takes THEN inbox' = Append(inbox, Head(session)) /\ UNCHANGED missed
     ELSE Miss(<<Head(session)>>) /\ UNCHANGED inbox
  /\ UNCHANGED <<up, sent, subscribed, since, forgot, link, unheard, reader, channel, output, process, faults>>

\* When a connection is lost the broker redelivers what was not acknowledged.
\* The task learns of it from its stream, if that takes the sign.
Disconnected(kept) ==
  /\ link' = FALSE /\ flight' = <<>> /\ UNCHANGED missed
  /\ inbox' = IF link /\ Takes THEN Append(inbox, Lost) ELSE inbox
  /\ unheard' = (unheard \/ (link /\ ~Takes))
  /\ IF kept THEN \E i \in 1 .. Len(flight) + 1 : session' = SubSeq(flight, i, Len(flight)) \o session
     ELSE session' = <<>>

LoseInput ==
  /\ link /\ faults < MaxFaults /\ faults' = faults + 1 /\ Disconnected(TRUE)
  /\ UNCHANGED <<up, sent, subscribed, since, forgot, reader, channel, output, process>>

LoseOutput ==
  /\ outLink /\ faults < MaxFaults /\ faults' = faults + 1 /\ outLink' = FALSE
  /\ UNCHANGED <<broker, connection, reader, channel, task, published, process>>

\* The broker stops, and may forget its sessions.
Stop ==
  /\ up /\ faults < MaxFaults /\ faults' = faults + 1 /\ up' = FALSE /\ outLink' = FALSE
  /\ \E kept \in BOOLEAN :
       /\ Disconnected(kept)
       /\ subscribed' = (subscribed /\ kept) /\ forgot' = (forgot \/ (subscribed /\ ~kept))
  /\ UNCHANGED <<sent, since, reader, channel, task, published, process>>

Restart ==
  /\ ~up /\ up' = TRUE
  /\ UNCHANGED <<sent, subscribed, since, forgot, session, connection, reader, channel, output, process, faults>>

-----------------------------------------------------------------------------
\* input_monitor_with_result.  The provider whose topics are mapped panics
\* where the other one returns an error; either way the result is an error.
Connect ==
  /\ Alive /\ pc = "connect"
  /\ IF up THEN link' = TRUE /\ pc' = "subscribe" /\ UNCHANGED result
     ELSE pc' = "ended" /\ result' = "error" /\ UNCHANGED link
  /\ UNCHANGED <<broker, inbox, flight, missed, unheard, message, attempts, started, channel, output, process, faults>>

\* subscribe_many: the broker subscribes the session, and from then on sends.
\* What a session holds stays when it subscribes again.
Subscribe ==
  /\ Alive /\ pc = "subscribe" /\ link
  /\ subscribed' = TRUE /\ since' = IF subscribed \/ forgot THEN since ELSE sent
  /\ pc' = "subscribing"
  /\ UNCHANGED <<up, sent, forgot, session, connection, message, attempts, started, result, channel, output, process, faults>>

\* Its answer: the provider is ready, and message_stream, polled for the first
\* time, opens its stream.  If the connection was lost the answer may be too.
Answer ==
  /\ Alive /\ pc = "subscribing"
  /\ \/ pc' = "read" /\ started' = TRUE
     \/ ~link /\ pc' = "subscribe" /\ UNCHANGED started
  /\ UNCHANGED <<broker, connection, message, attempts, result, channel, output, process, faults>>

\* Subscribing is tried again after a reconnection of which the outcome is
\* ignored.
Resubscribe ==
  /\ Alive /\ pc = "subscribe" /\ ~link /\ up /\ link' = TRUE /\ unheard' = FALSE
  /\ UNCHANGED <<broker, inbox, flight, missed, reader, channel, output, process, faults>>

\* Wrong: a lost connection is not noticed.
ReadOn ==
  /\ Alive /\ pc = "read" /\ inbox # <<>> /\ inbox' = Tail(inbox)
  /\ IF Head(inbox) = Lost THEN UNCHANGED <<pc, message, result>>
     ELSE /\ message' = Head(inbox)
          /\ IF Head(inbox)[3] THEN pc' = "send" /\ UNCHANGED result
             ELSE pc' = "ended" /\ result' = "error"
  /\ UNCHANGED <<broker, link, flight, missed, unheard, attempts, started, channel, output, process, faults>>

\* The next message, or the loss of the connection.
Read ==
  /\ Alive /\ pc = "read" /\ inbox # <<>> /\ inbox' = Tail(inbox)
  /\ IF Head(inbox) = Lost THEN pc' = "reconnect" /\ UNCHANGED <<message, result>>
     ELSE /\ message' = Head(inbox)
          /\ IF Head(inbox)[3] THEN pc' = "send" /\ UNCHANGED result
             ELSE pc' = "ended" /\ result' = "error"
  /\ UNCHANGED <<broker, link, flight, missed, unheard, attempts, started, channel, output, process, faults>>

\* Wrong: when the channel of the variable is full its latest value is replaced.
HandOnLatest ==
  /\ Alive /\ pc = "send"
  /\ channel' = [channel EXCEPT ![message[1]] =
                   Append(IF Len(@) < ChannelCap THEN @ ELSE Front(@), message[2])]
  /\ message' = Free /\ pc' = "read" /\ attempts' = 0
  /\ UNCHANGED <<broker, connection, started, result, output, process, faults>>

\* The value goes into the channel of its variable when that has room.
HandOn ==
  /\ Alive /\ pc = "send" /\ Len(channel[message[1]]) < ChannelCap
  /\ channel' = [channel EXCEPT ![message[1]] = Append(@, message[2])]
  /\ message' = Free /\ pc' = "read" /\ attempts' = 0
  /\ UNCHANGED <<broker, connection, started, result, output, process, faults>>

\* message_stream tries to reconnect.  An attempt that fails, or takes longer
\* than its time, ends the stream, however many are left; the connection may
\* come back all the same.
Reconnect ==
  /\ Alive /\ pc = "reconnect" /\ attempts' = attempts + 1
  /\ \/ /\ attempts < MaxAttempts /\ up
        /\ link' = TRUE /\ pc' = "reopen" /\ UNCHANGED result
     \/ /\ attempts < MaxAttempts /\ link' \in {FALSE, up} /\ pc' = "ended" /\ result' = "ok"
     \/ /\ attempts >= MaxAttempts /\ pc' = "ended" /\ result' = "ok" /\ UNCHANGED link
  /\ UNCHANGED <<broker, inbox, flight, missed, unheard, message, started, channel, output, process, faults>>

\* The outer loop goes on with a new stream.  The old one is dropped with what
\* has come into it since the broker took the connection.
Reopen ==
  /\ Alive /\ pc = "reopen" /\ pc' = "read" /\ inbox' = <<>> /\ Miss(inbox)
  /\ unheard' = (unheard \/ Lost \in ToSet(inbox))
  /\ UNCHANGED <<broker, link, flight, message, attempts, started, result, channel, output, process, faults>>

-----------------------------------------------------------------------------
\* Once the provider is ready the process builds the rest and runs; the output
\* handler connects.
Start ==
  /\ process = "starting" /\ started
  /\ IF up THEN process' = "running" /\ outLink' = TRUE
     ELSE process' = "failed" /\ UNCHANGED outLink
  /\ UNCHANGED <<broker, connection, reader, channel, task, published, faults>>

\* publish_stream: one value after the other.
Take(v) ==
  /\ process = "running" /\ task[v] = Free /\ channel[v] # <<>>
  /\ task' = [task EXCEPT ![v] = <<"publish", Head(channel[v])>>]
  /\ channel' = [channel EXCEPT ![v] = Tail(@)]
  /\ UNCHANGED <<broker, connection, reader, outLink, published, process, faults>>

\* Wrong: a value that could not be published is given up.
PublishOnce(v) ==
  /\ process = "running" /\ task[v][1] = "publish"
  /\ published' = IF outLink THEN [published EXCEPT ![v] = Append(@, task[v][2])] ELSE published
  /\ task' = [task EXCEPT ![v] = Free]
  /\ UNCHANGED <<broker, connection, reader, channel, outLink, process, faults>>

Publish(v) ==
  /\ process = "running" /\ task[v][1] = "publish"
  /\ IF outLink
     THEN /\ published' = [published EXCEPT ![v] = Append(@, task[v][2])]
          /\ task' = [task EXCEPT ![v] = Free]
     ELSE /\ task' = [task EXCEPT ![v] = <<"reconnect", task[v][2]>>] /\ UNCHANGED published
  /\ UNCHANGED <<broker, connection, reader, channel, outLink, process, faults>>

\* The connection is lost when the broker has the value and before its answer.
PublishUnanswered(v) ==
  /\ process = "running" /\ task[v][1] = "publish" /\ outLink
  /\ faults < MaxFaults /\ faults' = faults + 1 /\ outLink' = FALSE
  /\ published' = [published EXCEPT ![v] = Append(@, task[v][2])]
  /\ task' = [task EXCEPT ![v] = <<"reconnect", task[v][2]>>]
  /\ UNCHANGED <<broker, connection, reader, channel, process>>

\* A reconnection that fails is unwrapped.
ReconnectOutput(v) ==
  /\ process = "running" /\ task[v][1] = "reconnect"
  /\ IF up THEN /\ outLink' = TRUE /\ task' = [task EXCEPT ![v] = <<"publish", task[v][2]>>]
                /\ UNCHANGED process
     ELSE process' = "panicked" /\ UNCHANGED <<outLink, task>>
  /\ UNCHANGED <<broker, connection, reader, channel, published, faults>>

\* The monitor ends with its input, and also when all wires have ended and are
\* published.
EndRun ==
  /\ process = "running" /\ pc = "ended"
  /\ \/ process' = IF result = "ok" THEN "done" ELSE "failed"
     \/ /\ \A v \in Monitored : task[v] = Free /\ channel[v] = <<>>
        /\ process' = "done"
  /\ UNCHANGED <<broker, connection, reader, channel, output, faults>>

Input == Connect \/ Subscribe \/ Answer \/ Resubscribe \/ Read \/ HandOn \/ Reconnect \/ Reopen
Output(v) == Take(v) \/ Publish(v) \/ ReconnectOutput(v)
Next ==
  \/ \E v \in Topics : Send(v)
  \/ Deliver \/ LoseInput \/ LoseOutput \/ Stop \/ Restart
  \/ Connect \/ Subscribe \/ Answer \/ Resubscribe \/ Read \/ HandOn \/ Reconnect \/ Reopen
  \/ Start \/ EndRun
  \/ \E v \in Monitored : Take(v) \/ Publish(v) \/ PublishUnanswered(v) \/ ReconnectOutput(v)

Spec == Init /\ [][Next]_vars

\* The tasks are polled, and a broker that is there delivers.  Nobody has to
\* send, and the broker need not come back.
FairSpec ==
  /\ Spec
  /\ WF_vars(Deliver) /\ WF_vars(Input) /\ WF_vars(Start) /\ WF_vars(EndRun)
  /\ \A v \in Monitored : WF_vars(Output(v))
-----------------------------------------------------------------------------
Message == Topics \X (1 .. MaxMessages) \X BOOLEAN

\* Every variable has its type: a channel or a stream never holds more than its
\* capacity and reconnecting is not tried more often than allowed.
TypeOK ==
  /\ {up, subscribed, forgot, link, unheard, started, outLink} \subseteq BOOLEAN
  /\ sent \in [Topics -> 0 .. MaxMessages] /\ since \in [Topics -> 0 .. MaxMessages]
  /\ session \in Seq(Message) /\ flight \in Seq(Message) /\ inbox \in Seq(Message \union {Lost})
  /\ Len(inbox) <= StreamCap /\ missed \in [Topics -> SUBSET (1 .. MaxMessages)]
  /\ message \in Message \union {Free} /\ attempts \in 0 .. MaxAttempts + 1
  /\ pc \in {"connect", "subscribe", "subscribing", "read", "send", "reconnect", "reopen", "ended"}
  /\ result \in {"none", "ok", "error"}
  /\ channel \in [Topics -> Seq(1 .. MaxMessages)]
  /\ \A v \in Topics : Len(channel[v]) <= ChannelCap
  /\ task \in [Monitored -> {Free} \union ({"publish", "reconnect"} \X (1 .. MaxMessages))]
  /\ published \in [Monitored -> Seq(1 .. MaxMessages)]
  /\ process \in {"starting", "running", "failed", "panicked", "done"}
  /\ faults \in 0 .. MaxFaults

\* Where the numbers of a topic are, from what is published back to what the
\* broker still holds.
Outgoing(v) ==
  IF v \in Unread THEN <<>>
  ELSE published[v] \o (IF task[v] = Free THEN <<>> ELSE <<task[v][2]>>)
Trail(v) ==
  Outgoing(v) \o channel[v] \o Numbers(v, <<message>>) \o Numbers(v, inbox) \o Numbers(v, session)

\* From when the provider is ready, whatever connections are lost, all that is
\* sent since the subscription is on its way or was handed to a stream without
\* room or reader, and nothing overtakes: a number may come again but none
\* comes before the one before it, unless that was missed.  Only a broker that
\* forgets its sessions, and so the subscription, breaks that.
NothingMissed ==
  (started /\ ~forgot) => \A v \in Topics :
    /\ (ToSet(Trail(v)) \ {0}) \union missed[v] = since[v] + 1 .. sent[v]
    /\ \A i \in DOMAIN Trail(v) :
         \/ Trail(v)[i] \in {0, since[v] + 1}
         \/ Trail(v)[i] - 1 \in missed[v]
         \/ \E j \in 1 .. i - 1 : Trail(v)[j] = Trail(v)[i] - 1

\* The input provider, the wires and the output handler together pass on the
\* messages of every monitored topic in order, except those that are missed.
Transport == INSTANCE InOrder WITH
  Outlets <- Monitored,
  Tags <- 1 .. MaxMessages,
  count <- sent,
  open <- subscribed \/ forgot,
  base <- since,
  out <- published,
  lost <- missed,
  forgotten <- forgot

\* Whatever connections are lost, answers stay out, streams are dropped and
\* values are published again, what the process publishes is what InOrder
\* allows.
ImplementsTransport == Transport!Spec

\* Every message gets published unless the process ends, the broker forgot the
\* subscription, the message was missed, or the input task is stuck for good:
\* with a value of a topic nobody reads, or waiting at a stream that did not
\* take the sign of the lost connection while the broker holds the message.
Clogged == pc = "send" /\ message[1] \in Unread /\ Len(channel[message[1]]) = ChannelCap
Deaf == unheard /\ pc = "read" /\ inbox = <<>>
Delivery ==
  \A v \in Monitored, k \in 1 .. MaxMessages :
    (started /\ since[v] < k /\ k <= sent[v])
      ~> \/ k \in ToSet(published[v]) \/ k \in missed[v]
         \/ ~Alive \/ forgot \/ Clogged
         \/ Deaf /\ k \in ToSet(Numbers(v, session))
=============================================================================
