----------------------------- MODULE MqttProofs -----------------------------
(***************************************************************************)
(* Proofs about Mqtt, for every number of topics, every capacity of the    *)
(* channels and every number of messages, faults and reconnections.        *)
(***************************************************************************)
EXTENDS Mqtt, SequenceTheorems, TLAPS

-----------------------------------------------------------------------------
(* Types.  What the task holds follows from where it is: it gives up after *)
(* the last attempt, and only sends a message it has read.                 *)

TaskInv ==
  /\ pc # "ended" => attempts \in 0 .. MaxAttempts
  /\ pc = "send" => message \in Message
  /\ pc \in {"connect", "subscribe", "subscribing", "read", "reconnect", "reopen"} => message = Free

TypeInv == TypeOK /\ TaskInv

\* A message is neither of the marks.
LEMMA MessageParts ==
  ASSUME NEW m \in Message
  PROVE  m # Lost /\ m # Free /\ m[1] \in Topics /\ m[2] \in 1 .. MaxMessages
BY DEF Message, Lost, Free

LEMMA TaskParts ==
  ASSUME NEW x \in {Free} \union ({"publish", "reconnect"} \X (1 .. MaxMessages)), x[1] \in {"publish", "reconnect"}
  PROVE  x # Free /\ x[2] \in 1 .. MaxMessages
BY DEF Free

LEMMA InitTypeInv == Init => TypeInv
<1> SUFFICES ASSUME Init PROVE TypeInv
  OBVIOUS
<1>1. \A S : <<>> \in Seq(S) /\ Len(<<>>) = 0
  BY EmptySeq
<1>2. 0 \in 0 .. MaxMessages /\ 0 \in 0 .. MaxFaults /\ 0 \in 0 .. MaxAttempts + 1
      /\ 0 \in 0 .. MaxAttempts /\ 0 <= ChannelCap /\ 0 <= StreamCap
  BY MqttAssumption
<1> QED
  BY <1>1, <1>2 DEF Init, TypeInv, TypeOK, TaskInv

\* The parts of TypeOK that only one component changes.
BrokerType ==
  /\ {up, subscribed, forgot} \subseteq BOOLEAN
  /\ sent \in [Topics -> 0 .. MaxMessages] /\ since \in [Topics -> 0 .. MaxMessages]
  /\ session \in Seq(Message)
ConnectionType ==
  /\ {link, unheard} \subseteq BOOLEAN /\ flight \in Seq(Message) /\ inbox \in Seq(Message \union {Lost})
  /\ Len(inbox) <= StreamCap /\ missed \in [Topics -> SUBSET (1 .. MaxMessages)]
ReaderType ==
  /\ message \in Message \union {Free} /\ attempts \in 0 .. MaxAttempts + 1
  /\ pc \in {"connect", "subscribe", "subscribing", "read", "send", "reconnect", "reopen", "ended"}
  /\ result \in {"none", "ok", "error"} /\ started \in BOOLEAN
  /\ TaskInv
ChannelType ==
  /\ channel \in [Topics -> Seq(1 .. MaxMessages)]
  /\ \A v \in Topics : Len(channel[v]) <= ChannelCap
OutputType ==
  /\ outLink \in BOOLEAN
  /\ task \in [Monitored -> {Free} \union ({"publish", "reconnect"} \X (1 .. MaxMessages))]
  /\ published \in [Monitored -> Seq(1 .. MaxMessages)]
ProcessType ==
  /\ process \in {"starting", "running", "failed", "panicked", "done"}
  /\ faults \in 0 .. MaxFaults

TypeByParts ==
  /\ BrokerType /\ ConnectionType /\ ReaderType
  /\ ChannelType /\ OutputType /\ ProcessType

LEMMA TypeParts == (TypeInv => TypeByParts) /\ (TypeByParts' => TypeInv')
BY DEF TypeInv, TypeOK, TypeByParts, BrokerType, ConnectionType, ReaderType, ChannelType,
       OutputType, ProcessType

\* What stays the same keeps its type.
LEMMA TypeStays ==
  /\ BrokerType /\ UNCHANGED broker => BrokerType'
  /\ ConnectionType /\ UNCHANGED connection => ConnectionType'
  /\ ReaderType /\ UNCHANGED reader => ReaderType'
  /\ ChannelType /\ UNCHANGED channel => ChannelType'
  /\ OutputType /\ UNCHANGED output => OutputType'
  /\ ProcessType /\ UNCHANGED <<process, faults>> => ProcessType'
BY DEF broker, connection, reader, output, BrokerType, ConnectionType, ReaderType, TaskInv,
       ChannelType, OutputType, ProcessType

\* The steps of the broker and the faults of the connections.
LEMMA SuffixType ==
  ASSUME NEW q \in Seq(Message), NEW i \in 1 .. Len(q) + 1
  PROVE  /\ SubSeq(q, i, Len(q)) \in Seq(Message)
         /\ \A j \in 1 .. Len(SubSeq(q, i, Len(q))) :
              \E k \in 1 .. Len(q) : SubSeq(q, i, Len(q))[j] = q[k]
<1>1. Len(q) \in Nat /\ \A k \in i .. Len(q) : k \in 1 .. Len(q) /\ q[k] \in Message
  BY LenProperties, ElementOfSeq
<1>2. /\ SubSeq(q, i, Len(q)) \in Seq(Message)
      /\ Len(SubSeq(q, i, Len(q))) = IF i <= Len(q) THEN Len(q) - i + 1 ELSE 0
      /\ \A j \in 1 .. Len(q) - i + 1 : SubSeq(q, i, Len(q))[j] = q[i + j - 1]
  BY <1>1, SubSeqProperties
<1>3. \A j \in 1 .. Len(SubSeq(q, i, Len(q))) :
        i + j - 1 \in 1 .. Len(q) /\ SubSeq(q, i, Len(q))[j] = q[i + j - 1]
  BY <1>1, <1>2
<1> QED
  BY <1>2, <1>3

\* What is missed are numbers of messages, those that were missed before and
\* those that nobody took.
LEMMA MissType ==
  ASSUME ConnectionType, NEW s \in Seq(Message \union {Lost}), Miss(s)
  PROVE  missed' \in [Topics -> SUBSET (1 .. MaxMessages)]
<1>1. DOMAIN s = 1 .. Len(s) /\ \A i \in 1 .. Len(s) : s[i] \in Message \union {Lost}
  BY LenProperties, ElementOfSeq
<1>2. \A v, m : m \in Message \union {Lost} => NumberOf(v, m) \in {0} \union (1 .. MaxMessages)
  BY MessageParts DEF NumberOf
<1>3. ASSUME NEW v \in Topics PROVE ToSet(Numbers(v, s)) \ {0} \subseteq 1 .. MaxMessages
  BY <1>1, <1>2 DEF ToSet, Numbers
<1> QED
  BY <1>3 DEF Miss, ConnectionType

\* A stream takes what it has room for.
LEMMA TakenType ==
  ASSUME ConnectionType, Takes, NEW m \in Message \union {Lost}
  PROVE  Append(inbox, m) \in Seq(Message \union {Lost}) /\ Len(Append(inbox, m)) <= StreamCap
<1>1. Len(inbox) < StreamCap /\ Len(inbox) \in Nat /\ StreamCap \in Nat
  BY LenProperties, MqttAssumption DEF Takes, ConnectionType
<1> QED
  BY <1>1, AppendProperties DEF ConnectionType

LEMMA DisconnectedType ==
  ASSUME BrokerType, ConnectionType, NEW kept \in BOOLEAN, Disconnected(kept)
  PROVE  ConnectionType' /\ session' \in Seq(Message)
<1>1. flight' = <<>> /\ link' = FALSE
  BY DEF Disconnected
<1>2. /\ inbox' \in Seq(Message \union {Lost}) /\ Len(inbox') <= StreamCap
      /\ UNCHANGED missed /\ unheard' \in BOOLEAN
  <2>1. CASE link /\ Takes
    BY <2>1, TakenType DEF Disconnected, ConnectionType
  <2>2. CASE ~(link /\ Takes)
    BY <2>2 DEF Disconnected, ConnectionType
  <2> QED
    BY <2>1, <2>2
<1>3. session' \in Seq(Message)
  <2>1. CASE ~kept
    BY <2>1, EmptySeq DEF Disconnected
  <2>2. CASE kept
    <3>1. PICK i \in 1 .. Len(flight) + 1 : session' = SubSeq(flight, i, Len(flight)) \o session
      BY <2>2 DEF Disconnected
    <3>2. SubSeq(flight, i, Len(flight)) \in Seq(Message)
      BY SuffixType DEF ConnectionType
    <3> QED
      BY <3>1, <3>2, ConcatProperties DEF BrokerType
  <2> QED
    BY <2>1, <2>2
<1> QED
  BY <1>1, <1>2, <1>3, EmptySeq DEF ConnectionType

LEMMA BrokerTypeInv ==
  ASSUME TypeInv,
         \/ \E v \in Topics : Send(v)
         \/ Deliver \/ LoseInput \/ LoseOutput \/ Stop \/ Restart
  PROVE  TypeInv'
<1>0. /\ BrokerType /\ ConnectionType /\ ReaderType
      /\ ChannelType /\ OutputType /\ ProcessType
  BY TypeParts DEF TypeByParts
<1>1. ASSUME NEW v \in Topics, Send(v) PROVE TypeInv'
  <2>1. sent[v] \in 0 .. MaxMessages /\ sent[v] < MaxMessages /\ MaxMessages \in Nat
    BY <1>0, <1>1, MqttAssumption DEF Send, BrokerType
  <2>2. sent' \in [Topics -> 0 .. MaxMessages]
    BY <1>0, <1>1, <2>1 DEF Send, BrokerType
  <2>3. session' \in Seq(Message)
    <3>1. \A good \in BOOLEAN : <<v, sent[v] + 1, good>> \in Message
      BY <2>1 DEF Message
    <3>2. session' = session \/ \E good \in BOOLEAN : session' = Append(session, <<v, sent[v] + 1, good>>)
      BY <1>1 DEF Send
    <3>3. session \in Seq(Message)
      BY <1>0 DEF BrokerType
    <3>4. \A good \in BOOLEAN : Append(session, <<v, sent[v] + 1, good>>) \in Seq(Message)
      BY <3>1, <3>3, AppendProperties
    <3> QED
      BY <3>2, <3>3, <3>4
  <2>4. BrokerType'
    BY <1>0, <1>1, <2>2, <2>3 DEF Send, BrokerType
  <2> QED
    BY <1>0, <1>1, <2>4, TypeStays, TypeParts DEF TypeByParts, Send
<1>2. CASE Deliver
  <2>1. Head(session) \in Message /\ Tail(session) \in Seq(Message)
    BY <1>0, <1>2, HeadTailProperties DEF Deliver, BrokerType
  <2>2. /\ session' \in Seq(Message) /\ flight' \in Seq(Message)
        /\ inbox' \in Seq(Message \union {Lost}) /\ Len(inbox') <= StreamCap
        /\ missed' \in [Topics -> SUBSET (1 .. MaxMessages)]
    <3>1. session' \in Seq(Message) /\ flight' \in Seq(Message)
      BY <1>0, <1>2, <2>1, AppendProperties DEF Deliver, ConnectionType
    <3>2. CASE Takes
      BY <1>0, <1>2, <2>1, <3>1, <3>2, TakenType DEF Deliver, ConnectionType
    <3>3. CASE ~Takes
      <4>1. <<Head(session)>> \in Seq(Message \union {Lost})
        BY <2>1
      <4> QED
        BY <1>0, <1>2, <3>1, <3>3, <4>1, MissType DEF Deliver, ConnectionType
    <3> QED
      BY <3>2, <3>3
  <2>3. BrokerType' /\ ConnectionType'
    BY <1>0, <1>2, <2>2 DEF Deliver, BrokerType, ConnectionType
  <2> QED
    BY <1>0, <1>2, <2>3, TypeStays, TypeParts DEF TypeByParts, Deliver
<1>3. CASE LoseInput
  <2>1. ConnectionType' /\ session' \in Seq(Message)
    BY <1>0, <1>3, DisconnectedType DEF LoseInput
  <2>2. BrokerType' /\ ProcessType'
    BY <1>0, <1>3, <2>1, MqttAssumption DEF LoseInput, BrokerType, ProcessType
  <2> QED
    BY <1>0, <1>3, <2>1, <2>2, TypeStays, TypeParts DEF TypeByParts, LoseInput
<1>4. CASE LoseOutput
  <2>1. OutputType'
    BY <1>0, <1>4 DEF LoseOutput, OutputType
  <2>2. ProcessType'
    BY <1>0, <1>4, MqttAssumption DEF LoseOutput, ProcessType
  <2> QED
    BY <1>0, <1>4, <2>1, <2>2, TypeStays, TypeParts DEF TypeByParts, LoseOutput
<1>5. CASE Stop
  <2>1. ConnectionType' /\ session' \in Seq(Message)
    BY <1>0, <1>5, DisconnectedType DEF Stop
  <2>2. BrokerType'
    BY <1>0, <1>5, <2>1 DEF Stop, BrokerType
  <2>3. OutputType'
    BY <1>0, <1>5 DEF Stop, OutputType
  <2>4. ProcessType'
    BY <1>0, <1>5, MqttAssumption DEF Stop, ProcessType
  <2> QED
    BY <1>0, <1>5, <2>1, <2>2, <2>3, <2>4, TypeStays, TypeParts DEF TypeByParts, Stop
<1>6. CASE Restart
  <2>1. BrokerType'
    BY <1>0, <1>6 DEF Restart, BrokerType
  <2> QED
    BY <1>0, <1>6, <2>1, TypeStays, TypeParts DEF TypeByParts, Restart
<1> QED
  BY <1>1, <1>2, <1>3, <1>4, <1>5, <1>6

\* The steps of the input task.
LEMMA InputTypeInv ==
  ASSUME TypeInv, Input
  PROVE  TypeInv'
<1>0. /\ BrokerType /\ ConnectionType /\ ReaderType
      /\ ChannelType /\ OutputType /\ ProcessType
  BY TypeParts DEF TypeByParts
<1>1. CASE Connect
  <2>1. ConnectionType' /\ ReaderType'
    BY <1>0, <1>1 DEF Connect, ConnectionType, ReaderType, TaskInv
  <2> QED
    BY <1>0, <1>1, <2>1, TypeStays, TypeParts DEF TypeByParts, Connect
<1>2. CASE Subscribe
  <2>1. BrokerType' /\ ReaderType'
    BY <1>0, <1>2 DEF Subscribe, BrokerType, ReaderType, TaskInv
  <2> QED
    BY <1>0, <1>2, <2>1, TypeStays, TypeParts DEF TypeByParts, Subscribe
<1>7. CASE Answer
  <2>1. ReaderType'
    BY <1>0, <1>7 DEF Answer, ReaderType, TaskInv
  <2> QED
    BY <1>0, <1>7, <2>1, TypeStays, TypeParts DEF TypeByParts, Answer
<1>3. CASE Resubscribe
  <2>1. ConnectionType'
    BY <1>0, <1>3 DEF Resubscribe, ConnectionType
  <2> QED
    BY <1>0, <1>3, <2>1, TypeStays, TypeParts DEF TypeByParts, Resubscribe
<1>4. CASE Read
  <2>1. Head(inbox) \in Message \union {Lost} /\ Tail(inbox) \in Seq(Message \union {Lost})
    BY <1>0, <1>4, HeadTailProperties DEF Read, ConnectionType
  <2>2. ConnectionType' /\ ReaderType'
    <3>1. Len(Tail(inbox)) <= StreamCap
      <4>1. Len(Tail(inbox)) = Len(inbox) - 1 /\ Len(inbox) \in Nat /\ Len(inbox) <= StreamCap
        BY <1>0, <1>4, HeadTailProperties, LenProperties DEF Read, ConnectionType
      <4> QED
        BY <4>1, MqttAssumption
    <3> QED
      BY <1>0, <1>4, <2>1, <3>1 DEF Read, ConnectionType, ReaderType, TaskInv
  <2> QED
    BY <1>0, <1>4, <2>2, TypeStays, TypeParts DEF TypeByParts, Read
<1>5. CASE HandOn
  <2>1. message \in Message /\ message[1] \in Topics /\ message[2] \in 1 .. MaxMessages
    BY <1>0, <1>5, MessageParts DEF HandOn, ReaderType, TaskInv
  <2>2. /\ Append(channel[message[1]], message[2]) \in Seq(1 .. MaxMessages)
        /\ Len(Append(channel[message[1]], message[2])) <= ChannelCap
    <3>1. channel[message[1]] \in Seq(1 .. MaxMessages)
      BY <1>0, <2>1 DEF ChannelType
    <3>2. Len(channel[message[1]]) < ChannelCap /\ Len(channel[message[1]]) \in Nat
      BY <1>5, <3>1, LenProperties DEF HandOn
    <3> QED
      BY <2>1, <3>1, <3>2, AppendProperties, MqttAssumption
  <2>3. ChannelType'
    BY <1>0, <1>5, <2>1, <2>2 DEF HandOn, ChannelType
  <2>4. ReaderType'
    BY <1>0, <1>5, MqttAssumption DEF HandOn, ReaderType, TaskInv
  <2> QED
    BY <1>0, <1>5, <2>3, <2>4, TypeStays, TypeParts DEF TypeByParts, HandOn
<1>6. CASE Reconnect
  <2>1. ConnectionType'
    BY <1>0, <1>6 DEF Reconnect, ConnectionType, BrokerType
  <2>2. attempts' = attempts + 1 /\ pc' \in {"reopen", "ended"} /\ (pc' = "reopen" => attempts < MaxAttempts)
    BY <1>6 DEF Reconnect
  <2>3. attempts' \in 0 .. MaxAttempts + 1 /\ (pc' = "reopen" => attempts' \in 0 .. MaxAttempts)
    BY <1>0, <1>6, <2>2, MqttAssumption DEF Reconnect, ReaderType, TaskInv
  <2>4. result' \in {"none", "ok", "error"} /\ UNCHANGED <<message, started>> /\ message = Free
    BY <1>0, <1>6 DEF Reconnect, ReaderType, TaskInv
  <2>5. ReaderType'
    BY <1>0, <2>2, <2>3, <2>4 DEF ReaderType, TaskInv
  <2> QED
    BY <1>0, <1>6, <2>1, <2>5, TypeStays, TypeParts DEF TypeByParts, Reconnect
<1>8. CASE Reopen
  <2>1. missed' \in [Topics -> SUBSET (1 .. MaxMessages)]
    BY <1>0, <1>8, MissType DEF Reopen, ConnectionType
  <2>2. <<>> \in Seq(Message \union {Lost}) /\ Len(<<>>) <= StreamCap
    BY EmptySeq, MqttAssumption
  <2>3. ConnectionType' /\ ReaderType'
    BY <1>0, <1>8, <2>1, <2>2 DEF Reopen, ConnectionType, ReaderType, TaskInv
  <2> QED
    BY <1>0, <1>8, <2>3, TypeStays, TypeParts DEF TypeByParts, Reopen
<1> QED
  BY <1>1, <1>2, <1>3, <1>4, <1>5, <1>6, <1>7, <1>8 DEF Input

\* The steps of the output handler and of the process.
LEMMA OutputTypeInv ==
  ASSUME TypeInv,
         \/ Start \/ EndRun
         \/ \E v \in Monitored : Take(v) \/ Publish(v) \/ PublishUnanswered(v) \/ ReconnectOutput(v)
  PROVE  TypeInv'
<1>0. /\ BrokerType /\ ConnectionType /\ ReaderType
      /\ ChannelType /\ OutputType /\ ProcessType
  BY TypeParts DEF TypeByParts
<1>1. CASE Start
  <2>1. OutputType' /\ ProcessType'
    BY <1>0, <1>1 DEF Start, OutputType, ProcessType
  <2> QED
    BY <1>0, <1>1, <2>1, TypeStays, TypeParts DEF TypeByParts, Start
<1>2. CASE EndRun
  <2>1. ProcessType'
    BY <1>0, <1>2 DEF EndRun, ProcessType
  <2> QED
    BY <1>0, <1>2, <2>1, TypeStays, TypeParts DEF TypeByParts, EndRun
<1>3. ASSUME NEW v \in Monitored, Take(v) PROVE TypeInv'
  <2>1. v \in Topics /\ channel[v] \in Seq(1 .. MaxMessages) /\ Len(channel[v]) <= ChannelCap
    BY <1>0 DEF ChannelType, Monitored
  <2>2. /\ Head(channel[v]) \in 1 .. MaxMessages /\ Tail(channel[v]) \in Seq(1 .. MaxMessages)
        /\ Len(Tail(channel[v])) <= ChannelCap
    <3>1. Len(channel[v]) \in Nat
      BY <2>1, LenProperties
    <3>2. channel[v] # <<>>
      BY <1>3 DEF Take
    <3>3. /\ Head(channel[v]) \in 1 .. MaxMessages /\ Tail(channel[v]) \in Seq(1 .. MaxMessages)
          /\ Len(Tail(channel[v])) = Len(channel[v]) - 1
      BY <2>1, <3>2, HeadTailProperties
    <3> QED
      BY <2>1, <3>1, <3>3, MqttAssumption
  <2>3. ChannelType'
    BY <1>0, <1>3, <2>1, <2>2 DEF Take, ChannelType
  <2>4. OutputType'
    BY <1>0, <1>3, <2>2 DEF Take, OutputType
  <2> QED
    BY <1>0, <1>3, <2>3, <2>4, TypeStays, TypeParts DEF TypeByParts, Take
<1>4. ASSUME NEW v \in Monitored, Publish(v) \/ PublishUnanswered(v) \/ ReconnectOutput(v)
      PROVE TypeInv'
  <2>1. task[v][1] \in {"publish", "reconnect"}
    BY <1>4 DEF Publish, PublishUnanswered, ReconnectOutput
  <2>2. task[v][2] \in 1 .. MaxMessages
    BY <1>0, <2>1, TaskParts DEF OutputType
  <2>3. Append(published[v], task[v][2]) \in Seq(1 .. MaxMessages)
    BY <1>0, <2>2, AppendProperties DEF OutputType
  <2>4. /\ published' \in [Monitored -> Seq(1 .. MaxMessages)]
        /\ task' \in [Monitored -> {Free} \union ({"publish", "reconnect"} \X (1 .. MaxMessages))]
        /\ outLink' \in BOOLEAN
    <3>1. \A mark \in {"publish", "reconnect"} :
            <<mark, task[v][2]>> \in {"publish", "reconnect"} \X (1 .. MaxMessages)
      BY <2>2
    <3>2. CASE Publish(v)
      BY <1>0, <2>3, <3>1, <3>2 DEF Publish, OutputType
    <3>3. CASE PublishUnanswered(v)
      BY <1>0, <2>3, <3>1, <3>3 DEF PublishUnanswered, OutputType
    <3>4. CASE ReconnectOutput(v)
      BY <1>0, <3>1, <3>4 DEF ReconnectOutput, OutputType
    <3> QED
      BY <1>4, <3>2, <3>3, <3>4
  <2>5. ProcessType'
    BY <1>0, <1>4, MqttAssumption DEF Publish, PublishUnanswered, ReconnectOutput, ProcessType
  <2> QED
    BY <1>0, <1>4, <2>4, <2>5, TypeStays, TypeParts
      DEF TypeByParts, OutputType, Publish, PublishUnanswered, ReconnectOutput
<1> QED
  BY <1>1, <1>2, <1>3, <1>4

LEMMA NextTypeInv == TypeInv /\ [Next]_vars => TypeInv'
<1> SUFFICES ASSUME TypeInv, [Next]_vars PROVE TypeInv'
  OBVIOUS
<1>1. CASE UNCHANGED vars
  BY <1>1, TypeStays, TypeParts DEF TypeByParts, vars
<1> QED
  BY <1>1, BrokerTypeInv, InputTypeInv, OutputTypeInv DEF Next, Input

\* Every variable keeps its type: no channel exceeds its capacity, no task
\* reconnects more often than allowed, and the numbers stay those sent.
THEOREM TypeCorrect == Spec => []TypeOK
<1>1. TypeInv => TypeOK
  BY DEF TypeInv
<1> QED
  BY <1>1, InitTypeInv, NextTypeInv, PTL DEF Spec

-----------------------------------------------------------------------------
(* Sequences of numbers, with 0 for what does not count.  A sequence        *)
(* follows what went before it when each of its numbers comes after its    *)
(* predecessor, which is base or stands before it.                         *)

Values(s) == {s[i] : i \in 1 .. Len(s)} \ {0}

Follows(base, before, s) ==
  \A i \in 1 .. Len(s) : s[i] # 0 =>
    \/ s[i] - 1 \in {base} \union before
    \/ \E j \in 1 .. i - 1 : s[j] # 0 /\ s[j] = s[i] - 1

LEMMA FollowsMore ==
  ASSUME NEW base, NEW X, NEW Y, NEW s, X \subseteq Y, Follows(base, X, s)
  PROVE  Follows(base, Y, s)
BY DEF Follows

LEMMA FollowsNothing ==
  ASSUME NEW base, NEW X
  PROVE  Follows(base, X, <<>>) /\ Values(<<>>) = {}
<1>1. Len(<<>>) = 0
  BY EmptySeq
<1> QED
  BY <1>1 DEF Follows, Values

LEMMA FollowsOne ==
  ASSUME NEW base, NEW X, NEW k \in Nat
  PROVE  /\ Values(<<k>>) = {k} \ {0}
         /\ Follows(base, X, <<k>>) <=> (k = 0 \/ k - 1 \in {base} \union X)
<1>1. Len(<<k>>) = 1 /\ <<k>>[1] = k
  OBVIOUS
<1>2. \A i \in 1 .. Len(<<k>>) : i = 1
  BY <1>1
<1>3. 1 \in 1 .. Len(<<k>>)
  BY <1>1
<1>4. Values(<<k>>) = {k} \ {0}
  BY <1>1, <1>2, <1>3 DEF Values
<1> QED
  BY <1>1, <1>2, <1>3, <1>4 DEF Follows

LEMMA FollowsAppend ==
  ASSUME NEW base, NEW X, NEW s \in Seq(Nat), NEW k \in Nat, Follows(base, X, s),
         k = 0 \/ k - 1 \in {base} \union X \union Values(s)
  PROVE  Follows(base, X, Append(s, k))
<1>1. /\ Len(Append(s, k)) = Len(s) + 1 /\ Len(s) \in Nat
      /\ \A i \in 1 .. Len(s) : Append(s, k)[i] = s[i]
      /\ Append(s, k)[Len(s) + 1] = k
  BY AppendProperties, LenProperties
<1> SUFFICES ASSUME NEW i \in 1 .. Len(Append(s, k)), Append(s, k)[i] # 0
             PROVE  \/ Append(s, k)[i] - 1 \in {base} \union X
                    \/ \E j \in 1 .. i - 1 : /\ Append(s, k)[j] # 0
                                            /\ Append(s, k)[j] = Append(s, k)[i] - 1
  BY DEF Follows
<1>2. CASE i = Len(s) + 1
  <2>1. k - 1 \in {base} \union X \union Values(s)
    BY <1>1, <1>2
  <2>2. CASE k - 1 \in Values(s)
    <3>1. PICK j \in 1 .. Len(s) : s[j] = k - 1 /\ s[j] # 0
      BY <2>2 DEF Values
    <3> QED
      BY <1>1, <1>2, <3>1
  <2> QED
    BY <1>1, <1>2, <2>1, <2>2
<1>3. CASE i # Len(s) + 1
  <2>1. i \in 1 .. Len(s) /\ \A j \in 1 .. i - 1 : j \in 1 .. Len(s)
    BY <1>1, <1>3
  <2> QED
    BY <1>1, <2>1 DEF Follows
<1> QED
  BY <1>2, <1>3

LEMMA ValuesAppend ==
  ASSUME NEW s \in Seq(Nat), NEW k \in Nat
  PROVE  Values(Append(s, k)) = Values(s) \union ({k} \ {0})
<1>1. /\ Len(Append(s, k)) = Len(s) + 1 /\ Len(s) \in Nat
      /\ \A i \in 1 .. Len(s) : Append(s, k)[i] = s[i]
      /\ Append(s, k)[Len(s) + 1] = k
  BY AppendProperties, LenProperties
<1>2. \A i \in 1 .. Len(s) + 1 : i \in 1 .. Len(s) \/ i = Len(s) + 1
  BY <1>1
<1>3. \A i \in 1 .. Len(s) : i \in 1 .. Len(s) + 1
  BY <1>1
<1>4. Len(s) + 1 \in 1 .. Len(s) + 1
  BY <1>1
<1> QED
  BY <1>1, <1>2, <1>3, <1>4 DEF Values

LEMMA FollowsTail ==
  ASSUME NEW base, NEW X, NEW s \in Seq(Nat), s # <<>>, Follows(base, X, s)
  PROVE  /\ Head(s) \in Nat /\ Tail(s) \in Seq(Nat)
         /\ Head(s) = 0 \/ Head(s) - 1 \in {base} \union X
         /\ Follows(base, X \union ({Head(s)} \ {0}), Tail(s))
<1>1. /\ Head(s) \in Nat /\ Tail(s) \in Seq(Nat) /\ Head(s) = s[1]
      /\ Len(Tail(s)) = Len(s) - 1 /\ Len(s) \in Nat /\ 1 \in 1 .. Len(s)
      /\ \A i \in 1 .. Len(Tail(s)) : Tail(s)[i] = s[i + 1]
  BY HeadTailProperties, LenProperties, EmptySeq
<1>2. Head(s) = 0 \/ Head(s) - 1 \in {base} \union X
  BY <1>1 DEF Follows
<1>3. ASSUME NEW i \in 1 .. Len(Tail(s)), Tail(s)[i] # 0
      PROVE  \/ Tail(s)[i] - 1 \in {base} \union (X \union ({Head(s)} \ {0}))
             \/ \E j \in 1 .. i - 1 : Tail(s)[j] # 0 /\ Tail(s)[j] = Tail(s)[i] - 1
  <2>1. i + 1 \in 1 .. Len(s) /\ Tail(s)[i] = s[i + 1]
    BY <1>1
  <2>2. \/ s[i + 1] - 1 \in {base} \union X
        \/ \E j \in 1 .. (i + 1) - 1 : s[j] # 0 /\ s[j] = s[i + 1] - 1
    BY <1>3, <2>1 DEF Follows
  <2>3. ASSUME NEW j \in 1 .. (i + 1) - 1, s[j] # 0, s[j] = s[i + 1] - 1
        PROVE  \/ Tail(s)[i] - 1 \in {Head(s)} \ {0}
               \/ \E m \in 1 .. i - 1 : Tail(s)[m] # 0 /\ Tail(s)[m] = Tail(s)[i] - 1
    <3>1. CASE j = 1
      BY <1>1, <2>1, <2>3, <3>1
    <3>2. CASE j # 1
      <4>1. j - 1 \in 1 .. i - 1 /\ j - 1 \in 1 .. Len(Tail(s)) /\ Tail(s)[j - 1] = s[(j - 1) + 1]
        BY <1>1, <2>1, <3>2
      <4>2. (j - 1) + 1 = j
        OBVIOUS
      <4> QED
        BY <2>1, <2>3, <4>1, <4>2
    <3> QED
      BY <3>1, <3>2
  <2> QED
    BY <2>1, <2>2, <2>3
<1> QED
  BY <1>1, <1>2, <1>3 DEF Follows

LEMMA ValuesTail ==
  ASSUME NEW s \in Seq(Nat), s # <<>>
  PROVE  Values(s) = ({Head(s)} \ {0}) \union Values(Tail(s))
<1>1. /\ Head(s) = s[1] /\ Len(Tail(s)) = Len(s) - 1 /\ Len(s) \in Nat /\ 1 \in 1 .. Len(s)
      /\ \A i \in 1 .. Len(Tail(s)) : Tail(s)[i] = s[i + 1]
  BY HeadTailProperties, LenProperties, EmptySeq
<1>2. ASSUME NEW i \in 1 .. Len(s) PROVE s[i] = Head(s) \/ \E j \in 1 .. Len(Tail(s)) : s[i] = Tail(s)[j]
  <2>1. CASE i = 1
    BY <1>1, <2>1
  <2>2. CASE i # 1
    <3>1. i - 1 \in 1 .. Len(Tail(s)) /\ (i - 1) + 1 = i
      BY <1>1, <2>2
    <3> QED
      BY <1>1, <3>1
  <2> QED
    BY <2>1, <2>2
<1>3. \A j \in 1 .. Len(Tail(s)) : j + 1 \in 1 .. Len(s)
  BY <1>1
<1> QED
  BY <1>1, <1>2, <1>3 DEF Values

LEMMA FollowsConcat ==
  ASSUME NEW base, NEW X, NEW s \in Seq(Nat), NEW t \in Seq(Nat),
         Follows(base, X, s), Follows(base, X \union Values(s), t)
  PROVE  Follows(base, X, s \o t)
<1>1. /\ Len(s \o t) = Len(s) + Len(t) /\ Len(s) \in Nat /\ Len(t) \in Nat
      /\ \A i \in 1 .. Len(s) + Len(t) :
           (s \o t)[i] = IF i <= Len(s) THEN s[i] ELSE t[i - Len(s)]
  BY ConcatProperties, LenProperties
<1> SUFFICES ASSUME NEW i \in 1 .. Len(s) + Len(t), (s \o t)[i] # 0
             PROVE  \/ (s \o t)[i] - 1 \in {base} \union X
                    \/ \E j \in 1 .. i - 1 : (s \o t)[j] # 0 /\ (s \o t)[j] = (s \o t)[i] - 1
  BY <1>1 DEF Follows
<1>2. CASE i <= Len(s)
  <2>1. i \in 1 .. Len(s) /\ (s \o t)[i] = s[i] /\ \A j \in 1 .. i - 1 : (s \o t)[j] = s[j]
    BY <1>1, <1>2
  <2> QED
    BY <2>1 DEF Follows
<1>3. CASE ~(i <= Len(s))
  <2> DEFINE k == i - Len(s)
  <2>1. k \in 1 .. Len(t) /\ (s \o t)[i] = t[k]
    BY <1>1, <1>3
  <2>2. \/ t[k] - 1 \in {base} \union (X \union Values(s))
        \/ \E j \in 1 .. k - 1 : t[j] # 0 /\ t[j] = t[k] - 1
    BY <2>1 DEF Follows
  <2>3. CASE t[k] - 1 \in Values(s)
    <3>1. PICK j \in 1 .. Len(s) : s[j] = t[k] - 1 /\ s[j] # 0
      BY <2>3 DEF Values
    <3>2. j \in 1 .. i - 1 /\ (s \o t)[j] = s[j]
      BY <1>1, <1>3
    <3> QED
      BY <2>1, <3>1, <3>2
  <2>4. ASSUME NEW j \in 1 .. k - 1, t[j] # 0, t[j] = t[k] - 1
        PROVE  \E m \in 1 .. i - 1 : (s \o t)[m] # 0 /\ (s \o t)[m] = (s \o t)[i] - 1
    <3>0. Len(s) \in Nat /\ Len(t) \in Nat /\ i \in Nat /\ k \in 1 .. Len(t) /\ i = Len(s) + k
      BY <1>1, <2>1
    <3> HIDE DEF k
    <3>1. /\ Len(s) + j \in 1 .. i - 1 /\ Len(s) + j \in 1 .. Len(s) + Len(t)
          /\ ~(Len(s) + j <= Len(s)) /\ (Len(s) + j) - Len(s) = j
      BY <3>0
    <3>2. (s \o t)[Len(s) + j] = t[j]
      BY <1>1, <3>1
    <3> QED
      BY <2>1, <2>4, <3>1, <3>2
  <2> QED
    BY <2>1, <2>2, <2>3, <2>4
<1> QED
  BY <1>2, <1>3

LEMMA ValuesConcat ==
  ASSUME NEW s \in Seq(Nat), NEW t \in Seq(Nat)
  PROVE  s \o t \in Seq(Nat) /\ Values(s \o t) = Values(s) \union Values(t)
<1>1. /\ s \o t \in Seq(Nat)
      /\ Len(s \o t) = Len(s) + Len(t) /\ Len(s) \in Nat /\ Len(t) \in Nat
      /\ \A i \in 1 .. Len(s) + Len(t) :
           (s \o t)[i] = IF i <= Len(s) THEN s[i] ELSE t[i - Len(s)]
  BY ConcatProperties, LenProperties
<1>2. ASSUME NEW i \in 1 .. Len(s \o t)
      PROVE  \/ \E j \in 1 .. Len(s) : (s \o t)[i] = s[j]
             \/ \E j \in 1 .. Len(t) : (s \o t)[i] = t[j]
  <2>1. CASE i <= Len(s)
    BY <1>1, <2>1
  <2>2. CASE ~(i <= Len(s))
    <3>1. i - Len(s) \in 1 .. Len(t)
      BY <1>1, <2>2
    <3> QED
      BY <1>1, <2>2, <3>1
  <2> QED
    BY <2>1, <2>2
<1>3. \A j \in 1 .. Len(s) : j \in 1 .. Len(s \o t) /\ (s \o t)[j] = s[j]
  BY <1>1
<1>4. ASSUME NEW j \in 1 .. Len(t)
      PROVE  Len(s) + j \in 1 .. Len(s \o t) /\ (s \o t)[Len(s) + j] = t[j]
  <2>1. /\ Len(s) + j \in 1 .. Len(s) + Len(t)
        /\ ~(Len(s) + j <= Len(s)) /\ (Len(s) + j) - Len(s) = j
    BY <1>1
  <2> QED
    BY <1>1, <2>1
<1>5. Values(s \o t) \subseteq Values(s) \union Values(t)
  BY <1>2 DEF Values
<1>6. Values(s) \subseteq Values(s \o t) /\ Values(t) \subseteq Values(s \o t)
  BY <1>3, <1>4 DEF Values
<1> QED
  BY <1>1, <1>5, <1>6

-----------------------------------------------------------------------------
(* The numbers of one topic that are missed, X, and those at its stations: *)
(* the output O, the channel C, the message M in the task's hand, the      *)
(* stream I, the session S, and those in flight F, which were handed over  *)
(* and the broker may send again.  They are from base + 1 to top, and each *)
(* station follows those before it and what is missed.                     *)

Chained(base, top, X, O, C, M, I, S, F) ==
  LET B1 == X \union Values(O)
      B2 == B1 \union Values(C)
      B3 == B2 \union Values(M)
      B4 == B3 \union Values(I)
  IN /\ Follows(base, X, O) /\ Follows(base, B1, C) /\ Follows(base, B2, M)
     /\ Follows(base, B3, I) /\ Follows(base, B4, S)
     /\ \A k \in X : k - 1 \in {base} \union B4
     /\ B4 \union Values(S) = base + 1 .. top
     /\ Values(F) \subseteq B4

Stations == Seq(Nat)

LEMMA ChainedEmpty ==
  ASSUME NEW n \in Nat
  PROVE  Chained(n, n, {}, <<>>, <<>>, << 0 >>, <<>>, <<>>, <<>>)
<1>1. \A X : Follows(n, X, <<>>) /\ Values(<<>>) = {}
  BY FollowsNothing
<1>2. \A X : Follows(n, X, << 0 >>) /\ Values(<< 0 >>) = {}
  BY FollowsOne
<1>3. n + 1 .. n = {}
  OBVIOUS
<1> QED
  BY <1>1, <1>2, <1>3 DEF Chained

\* A new message for the session, of this topic or of another.
LEMMA ChainedSend ==
  ASSUME NEW base \in Nat, NEW top \in Nat, NEW X, base <= top,
         NEW O \in Stations, NEW C \in Stations, NEW M \in Stations,
         NEW I \in Stations, NEW S \in Stations, NEW F \in Stations,
         Chained(base, top, X, O, C, M, I, S, F)
  PROVE  /\ Chained(base, top + 1, X, O, C, M, I, Append(S, top + 1), F)
         /\ Chained(base, top, X, O, C, M, I, Append(S, 0), F)
<1> DEFINE B4 == X \union Values(O) \union Values(C) \union Values(M) \union Values(I)
<1>1. Follows(base, B4, S) /\ B4 \union Values(S) = base + 1 .. top
  BY DEF Chained
<1>2. (top + 1) - 1 \in {base} \union B4 \union Values(S)
  BY <1>1
<1>3. /\ Follows(base, B4, Append(S, top + 1)) /\ Follows(base, B4, Append(S, 0))
      /\ Values(Append(S, top + 1)) = Values(S) \union {top + 1}
      /\ Values(Append(S, 0)) = Values(S)
  <2>1. {top + 1} \ {0} = {top + 1} /\ {0} \ {0} = {}
    OBVIOUS
  <2>2. 0 \in Nat /\ top + 1 \in Nat
    OBVIOUS
  <2> HIDE DEF B4
  <2>3. S \in Seq(Nat)
    BY DEF Stations
  <2>4. Follows(base, B4, Append(S, top + 1))
    BY <1>1, <1>2, <2>2, <2>3, FollowsAppend
  <2>5. Follows(base, B4, Append(S, 0))
    BY <1>1, <2>2, <2>3, FollowsAppend
  <2>6. /\ Values(Append(S, top + 1)) = Values(S) \union ({top + 1} \ {0})
        /\ Values(Append(S, 0)) = Values(S) \union ({0} \ {0})
    BY <2>2, <2>3, ValuesAppend
  <2> QED
    BY <2>1, <2>4, <2>5, <2>6
<1>4. base + 1 .. top + 1 = (base + 1 .. top) \union {top + 1}
  OBVIOUS
<1> QED
  BY <1>1, <1>3, <1>4 DEF Chained

\* The first of one station goes to the end of the station before it.
LEMMA FollowsMove ==
  ASSUME NEW base, NEW X, NEW s \in Stations, NEW t \in Stations, t # <<>>,
         Follows(base, X, s), Follows(base, X \union Values(s), t)
  PROVE  /\ Append(s, Head(t)) \in Stations /\ Tail(t) \in Stations
         /\ Follows(base, X, Append(s, Head(t)))
         /\ Follows(base, X \union Values(Append(s, Head(t))), Tail(t))
         /\ Values(Append(s, Head(t))) \union Values(Tail(t)) = Values(s) \union Values(t)
         /\ Values(s) \subseteq Values(Append(s, Head(t)))
         /\ Head(t) \in Nat
         /\ Values(Append(s, Head(t))) = Values(s) \union ({Head(t)} \ {0})
<1>1. /\ Head(t) \in Nat /\ Tail(t) \in Seq(Nat)
      /\ Head(t) = 0 \/ Head(t) - 1 \in {base} \union (X \union Values(s))
      /\ Follows(base, (X \union Values(s)) \union ({Head(t)} \ {0}), Tail(t))
  BY FollowsTail DEF Stations
<1>2. /\ Append(s, Head(t)) \in Stations
      /\ Values(Append(s, Head(t))) = Values(s) \union ({Head(t)} \ {0})
  BY <1>1, ValuesAppend, AppendProperties DEF Stations
<1>3. Values(t) = ({Head(t)} \ {0}) \union Values(Tail(t))
  BY ValuesTail DEF Stations
<1>4. Follows(base, X, Append(s, Head(t)))
  <2>1. Head(t) = 0 \/ Head(t) - 1 \in {base} \union X \union Values(s)
    BY <1>1
  <2> QED
    BY <1>1, <2>1, FollowsAppend DEF Stations
<1>5. (X \union Values(s)) \union ({Head(t)} \ {0}) = X \union Values(Append(s, Head(t)))
  BY <1>2
<1> QED
  BY <1>1, <1>2, <1>3, <1>4, <1>5 DEF Stations

LEMMA ChainedDeliver ==
  ASSUME NEW base, NEW top, NEW X,
         NEW O \in Stations, NEW C \in Stations, NEW M \in Stations,
         NEW I \in Stations, NEW S \in Stations, NEW F \in Stations, S # <<>>,
         Chained(base, top, X, O, C, M, I, S, F)
  PROVE  Chained(base, top, X, O, C, M, Append(I, Head(S)), Tail(S), Append(F, Head(S)))
<1> DEFINE B3 == X \union Values(O) \union Values(C) \union Values(M)
<1>1. /\ Follows(base, X, O) /\ Follows(base, X \union Values(O), C)
      /\ Follows(base, X \union Values(O) \union Values(C), M)
      /\ Follows(base, B3, I) /\ Follows(base, B3 \union Values(I), S)
      /\ \A k \in X : k - 1 \in {base} \union (B3 \union Values(I))
      /\ B3 \union Values(I) \union Values(S) = base + 1 .. top
      /\ Values(F) \subseteq B3 \union Values(I)
  BY DEF Chained
<1> HIDE DEF B3
<1>2. /\ Follows(base, B3, Append(I, Head(S)))
      /\ Follows(base, B3 \union Values(Append(I, Head(S))), Tail(S))
      /\ Values(Append(I, Head(S))) \union Values(Tail(S)) = Values(I) \union Values(S)
      /\ Head(S) \in Nat
      /\ Values(Append(I, Head(S))) = Values(I) \union ({Head(S)} \ {0})
  BY <1>1, FollowsMove
<1>3. Values(Append(F, Head(S))) = Values(F) \union ({Head(S)} \ {0})
  BY <1>2, ValuesAppend DEF Stations
<1>4. /\ \A k \in X : k - 1 \in {base} \union (B3 \union Values(Append(I, Head(S))))
      /\ B3 \union Values(Append(I, Head(S))) \union Values(Tail(S)) = base + 1 .. top
      /\ Values(Append(F, Head(S))) \subseteq B3 \union Values(Append(I, Head(S)))
  BY <1>1, <1>2, <1>3
<1> QED
  BY <1>1, <1>2, <1>4 DEF Chained, B3

\* The first of the session is handed over and nobody takes it.
LEMMA ChainedMiss ==
  ASSUME NEW base, NEW top, NEW X,
         NEW O \in Stations, NEW C \in Stations, NEW M \in Stations,
         NEW I \in Stations, NEW S \in Stations, NEW F \in Stations, S # <<>>,
         Chained(base, top, X, O, C, M, I, S, F)
  PROVE  Chained(base, top, X \union ({Head(S)} \ {0}), O, C, M, I, Tail(S), Append(F, Head(S)))
<1> DEFINE h == {Head(S)} \ {0}
           B1 == X \union Values(O)
           B2 == B1 \union Values(C)
           B3 == B2 \union Values(M)
           B4 == B3 \union Values(I)
<1>1. /\ Follows(base, X, O) /\ Follows(base, B1, C) /\ Follows(base, B2, M)
      /\ Follows(base, B3, I) /\ Follows(base, B4, S)
      /\ \A k \in X : k - 1 \in {base} \union B4
      /\ B4 \union Values(S) = base + 1 .. top
      /\ Values(F) \subseteq B4
  BY DEF Chained
<1> HIDE DEF B1, B2, B3, B4
<1>2. /\ Head(S) \in Nat /\ (Head(S) = 0 \/ Head(S) - 1 \in {base} \union B4)
      /\ Follows(base, B4 \union h, Tail(S))
  BY <1>1, FollowsTail DEF Stations
<1>3. Values(S) = h \union Values(Tail(S))
  BY ValuesTail DEF Stations
<1>4. Values(Append(F, Head(S))) = Values(F) \union h
  BY <1>2, ValuesAppend DEF Stations
<1> HIDE DEF h
<1>5. /\ Follows(base, X \union h, O) /\ Follows(base, B1 \union h, C)
      /\ Follows(base, B2 \union h, M) /\ Follows(base, B3 \union h, I)
  BY <1>1, FollowsMore
<1>6. /\ \A k \in X \union h : k - 1 \in {base} \union (B4 \union h)
      /\ (B4 \union h) \union Values(Tail(S)) = base + 1 .. top
      /\ Values(Append(F, Head(S))) \subseteq B4 \union h
  BY <1>1, <1>2, <1>3, <1>4 DEF h
<1>7. /\ (X \union h) \union Values(O) = B1 \union h
      /\ (B1 \union h) \union Values(C) = B2 \union h
      /\ (B2 \union h) \union Values(M) = B3 \union h
      /\ (B3 \union h) \union Values(I) = B4 \union h
  BY DEF B1, B2, B3, B4
<1>8. Chained(base, top, X \union h, O, C, M, I, Tail(S), Append(F, Head(S)))
  BY <1>2, <1>5, <1>6, <1>7 DEF Chained
<1> QED
  BY <1>8 DEF h

\* In a station, and in what it follows, every number has its predecessor.
LEMMA FollowsClosed ==
  ASSUME NEW base, NEW X, NEW T \in Stations, Follows(base, X, T), NEW k \in Values(T)
  PROVE  k - 1 \in {base} \union (X \union Values(T))
<1>1. PICK i \in 1 .. Len(T) : T[i] = k /\ k # 0
  BY DEF Values
<1>2. \A j \in 1 .. i - 1 : j \in 1 .. Len(T)
  BY <1>1, LenProperties DEF Stations
<1> QED
  BY <1>1, <1>2 DEF Follows, Values

\* A stream is dropped with what it holds.
LEMMA ChainedReopen ==
  ASSUME NEW base, NEW top, NEW X,
         NEW O \in Stations, NEW C \in Stations, NEW M \in Stations,
         NEW I \in Stations, NEW S \in Stations, NEW F \in Stations,
         Chained(base, top, X, O, C, M, I, S, F)
  PROVE  Chained(base, top, X \union Values(I), O, C, M, <<>>, S, F)
<1> DEFINE h == Values(I)
           B1 == X \union Values(O)
           B2 == B1 \union Values(C)
           B3 == B2 \union Values(M)
<1>1. /\ Follows(base, X, O) /\ Follows(base, B1, C) /\ Follows(base, B2, M)
      /\ Follows(base, B3, I) /\ Follows(base, B3 \union h, S)
      /\ \A k \in X : k - 1 \in {base} \union (B3 \union h)
      /\ (B3 \union h) \union Values(S) = base + 1 .. top
      /\ Values(F) \subseteq B3 \union h
  BY DEF Chained
<1> HIDE DEF B1, B2, B3
<1>2. \A k \in h : k - 1 \in {base} \union (B3 \union h)
  BY <1>1, FollowsClosed
<1> HIDE DEF h
<1>3. /\ Follows(base, X \union h, O) /\ Follows(base, B1 \union h, C)
      /\ Follows(base, B2 \union h, M)
  BY <1>1, FollowsMore
<1>4. Values(<<>>) = {} /\ Follows(base, B3 \union h, <<>>)
  BY FollowsNothing
<1>5. /\ (X \union h) \union Values(O) = B1 \union h
      /\ (B1 \union h) \union Values(C) = B2 \union h
      /\ (B2 \union h) \union Values(M) = B3 \union h
      /\ (B3 \union h) \union Values(<<>>) = B3 \union h
  BY <1>4 DEF B1, B2, B3
<1>6. Chained(base, top, X \union h, O, C, M, <<>>, S, F)
  BY <1>1, <1>2, <1>3, <1>4, <1>5 DEF Chained
<1> QED
  BY <1>6 DEF h

LEMMA ChainedTake ==
  ASSUME NEW base, NEW top, NEW X,
         NEW O \in Stations, NEW C \in Stations, NEW M \in Stations,
         NEW I \in Stations, NEW S \in Stations, NEW F \in Stations, C # <<>>,
         Chained(base, top, X, O, C, M, I, S, F)
  PROVE  Chained(base, top, X, Append(O, Head(C)), Tail(C), M, I, S, F)
<1>1. /\ Follows(base, X, O) /\ Follows(base, X \union Values(O), C)
  BY DEF Chained
<1>2. /\ Follows(base, X, Append(O, Head(C)))
      /\ Follows(base, X \union Values(Append(O, Head(C))), Tail(C))
      /\ Values(Append(O, Head(C))) \union Values(Tail(C)) = Values(O) \union Values(C)
  BY <1>1, FollowsMove
<1> QED
  BY <1>2 DEF Chained

\* A number of another topic, or the sign of a lost connection, counts for
\* nothing.
LEMMA ChainedRead ==
  ASSUME NEW base, NEW top, NEW X,
         NEW O \in Stations, NEW C \in Stations,
         NEW I \in Stations, NEW S \in Stations, NEW F \in Stations, I # <<>>,
         Chained(base, top, X, O, C, << 0 >>, I, S, F)
  PROVE  Chained(base, top, X, O, C, <<Head(I)>>, Tail(I), S, F)
<1> DEFINE B2 == X \union Values(O) \union Values(C)
<1>1. /\ Follows(base, X, O) /\ Follows(base, X \union Values(O), C)
      /\ Follows(base, B2 \union Values(<< 0 >>), I)
      /\ Follows(base, B2 \union Values(<< 0 >>) \union Values(I), S)
      /\ \A k \in X : k - 1 \in {base} \union (B2 \union Values(<< 0 >>) \union Values(I))
      /\ B2 \union Values(<< 0 >>) \union Values(I) \union Values(S) = base + 1 .. top
      /\ Values(F) \subseteq B2 \union Values(<< 0 >>) \union Values(I)
  BY DEF Chained
<1> HIDE DEF B2
<1>2. Values(<< 0 >>) = {}
  BY FollowsOne
<1>3. /\ Head(I) \in Nat /\ Tail(I) \in Seq(Nat)
      /\ Head(I) = 0 \/ Head(I) - 1 \in {base} \union B2
      /\ Follows(base, B2 \union ({Head(I)} \ {0}), Tail(I))
  <2>1. Follows(base, B2, I)
    <3>1. B2 \union Values(<< 0 >>) = B2
      BY <1>2
    <3> QED
      BY <1>1, <3>1
  <2> QED
    BY <2>1, FollowsTail DEF Stations
<1>4. Follows(base, B2, <<Head(I)>>) /\ Values(<<Head(I)>>) = {Head(I)} \ {0}
  BY <1>3, FollowsOne
<1>5. Values(I) = ({Head(I)} \ {0}) \union Values(Tail(I))
  BY ValuesTail DEF Stations
<1>6. /\ Follows(base, B2 \union Values(<<Head(I)>>), Tail(I))
      /\ B2 \union Values(<<Head(I)>>) \union Values(Tail(I)) = B2 \union Values(<< 0 >>) \union Values(I)
  BY <1>2, <1>3, <1>4, <1>5
<1> QED
  BY <1>1, <1>4, <1>6 DEF Chained, B2

LEMMA ChainedHandOn ==
  ASSUME NEW base, NEW top, NEW X, NEW k \in Nat,
         NEW O \in Stations, NEW C \in Stations,
         NEW I \in Stations, NEW S \in Stations, NEW F \in Stations,
         Chained(base, top, X, O, C, <<k>>, I, S, F)
  PROVE  Chained(base, top, X, O, Append(C, k), << 0 >>, I, S, F)
<1>1. /\ Follows(base, X \union Values(O), C)
      /\ Follows(base, X \union Values(O) \union Values(C), <<k>>)
  BY DEF Chained
<1>2. Values(<<k>>) = {k} \ {0} /\ Values(<< 0 >>) = {} /\ (k = 0 \/ k - 1 \in {base} \union (X \union Values(O) \union Values(C)))
  BY <1>1, FollowsOne
<1>3. Follows(base, X \union Values(O), Append(C, k)) /\ Values(Append(C, k)) = Values(C) \union ({k} \ {0})
  <2>1. k = 0 \/ k - 1 \in {base} \union (X \union Values(O)) \union Values(C)
    BY <1>2
  <2> QED
    BY <1>1, <2>1, FollowsAppend, ValuesAppend DEF Stations
<1>4. \A Y : Follows(base, Y, << 0 >>)
  BY FollowsOne
<1> QED
  BY <1>2, <1>3, <1>4 DEF Chained

\* A number that is published again.
LEMMA ChainedAgain ==
  ASSUME NEW base, NEW top, NEW X,
         NEW O \in Stations, NEW C \in Stations, NEW M \in Stations,
         NEW I \in Stations, NEW S \in Stations, NEW F \in Stations,
         NEW k \in Values(O),
         Chained(base, top, X, O, C, M, I, S, F)
  PROVE  Chained(base, top, X, Append(O, k), C, M, I, S, F)
<1>1. Follows(base, X, O)
  BY DEF Chained
<1>2. PICK i \in 1 .. Len(O) : O[i] = k /\ k # 0
  BY DEF Values
<1>3. k \in Nat /\ Len(O) \in Nat
  BY <1>2, ElementOfSeq, LenProperties DEF Stations
<1>4. k - 1 \in {base} \union X \union Values(O)
  <2>1. k - 1 \in {base} \union X \/ \E j \in 1 .. i - 1 : O[j] # 0 /\ O[j] = k - 1
    BY <1>1, <1>2 DEF Follows
  <2>2. \A j \in 1 .. i - 1 : j \in 1 .. Len(O)
    BY <1>2, <1>3
  <2> QED
    BY <2>1, <2>2 DEF Values
<1>5. Follows(base, X, Append(O, k))
  BY <1>1, <1>3, <1>4, FollowsAppend DEF Stations
<1>6. Values(Append(O, k)) = Values(O)
  <2>1. Values(Append(O, k)) = Values(O) \union ({k} \ {0})
    BY <1>3, ValuesAppend DEF Stations
  <2> QED
    BY <2>1
<1> QED
  BY <1>5, <1>6 DEF Chained

\* A connection that is lost: a sign of it in the inbox, and a part G of what
\* was in flight is sent again.
LEMMA ChainedLost ==
  ASSUME NEW base, NEW top, NEW X,
         NEW O \in Stations, NEW C \in Stations, NEW M \in Stations,
         NEW I \in Stations, NEW S \in Stations, NEW F \in Stations,
         NEW G \in Stations, Values(G) \subseteq Values(F),
         Chained(base, top, X, O, C, M, I, S, F)
  PROVE  /\ Chained(base, top, X, O, C, M, I, G \o S, <<>>)
         /\ Chained(base, top, X, O, C, M, Append(I, 0), G \o S, <<>>)
<1> DEFINE B1 == X \union Values(O)
           B2 == B1 \union Values(C)
           B3 == B2 \union Values(M)
           B4 == B3 \union Values(I)
<1>1. /\ Follows(base, X, O) /\ Follows(base, B1, C) /\ Follows(base, B2, M)
      /\ Follows(base, B3, I) /\ Follows(base, B4, S)
      /\ \A k \in X : k - 1 \in {base} \union B4
      /\ B4 \union Values(S) = base + 1 .. top
      /\ Values(F) \subseteq B4
  BY DEF Chained
<1>3. \A k \in B4 : k - 1 \in {base} \union B4
  <2>1. \A k \in Values(O) : k - 1 \in {base} \union (X \union Values(O))
    BY <1>1, FollowsClosed
  <2>2. \A k \in Values(C) : k - 1 \in {base} \union (B1 \union Values(C))
    BY <1>1, FollowsClosed
  <2>3. \A k \in Values(M) : k - 1 \in {base} \union (B2 \union Values(M))
    BY <1>1, FollowsClosed
  <2>4. \A k \in Values(I) : k - 1 \in {base} \union (B3 \union Values(I))
    BY <1>1, FollowsClosed
  <2> QED
    BY <1>1, <2>1, <2>2, <2>3, <2>4
<1> HIDE DEF B1, B2, B3, B4
<1>4. Follows(base, B4, G)
  <2> SUFFICES ASSUME NEW i \in 1 .. Len(G), G[i] # 0
               PROVE  G[i] - 1 \in {base} \union B4
    BY DEF Follows
  <2>1. G[i] \in Values(G)
    BY DEF Values
  <2> QED
    BY <1>1, <1>3, <2>1
<1>5. Values(G) \subseteq B4
  BY <1>1
<1>6. Follows(base, B4, G \o S) /\ Values(G \o S) = Values(G) \union Values(S)
  <2>1. Follows(base, B4 \union Values(G), S)
    BY <1>1, FollowsMore
  <2> QED
    BY <1>4, <2>1, FollowsConcat, ValuesConcat DEF Stations
<1>7. B4 \union Values(G \o S) = base + 1 .. top
  BY <1>1, <1>5, <1>6
<1>8. Values(<<>>) = {} /\ Values(<<>>) \subseteq B4
  BY FollowsNothing
<1>9. Follows(base, B3, Append(I, 0)) /\ Values(Append(I, 0)) = Values(I)
  <2>1. Values(Append(I, 0)) = Values(I) \union ({0} \ {0})
    BY ValuesAppend DEF Stations
  <2> QED
    BY <1>1, <2>1, FollowsAppend DEF Stations
<1> QED
  BY <1>1, <1>6, <1>7, <1>8, <1>9 DEF Chained, B1, B2, B3, B4

-----------------------------------------------------------------------------
(* The numbers of a topic in a sequence of messages.                       *)

Marked == Message \union {Lost, Free}

LEMMA NumberOfType ==
  ASSUME NEW v, NEW m \in Marked
  PROVE  /\ NumberOf(v, m) \in Nat
         /\ NumberOf(v, Free) = 0 /\ NumberOf(v, Lost) = 0
         /\ m \in Message => NumberOf(v, m) = IF m[1] = v THEN m[2] ELSE 0
<1>1. m \in Message => m \notin {Lost, Free} /\ m[2] \in Nat
  BY MessageParts, MqttAssumption
<1> QED
  BY <1>1 DEF NumberOf, Marked

LEMMA NumbersType ==
  ASSUME NEW v, NEW s \in Seq(Marked)
  PROVE  /\ Numbers(v, s) \in Stations /\ Len(Numbers(v, s)) = Len(s) /\ Len(s) \in Nat
         /\ \A i \in 1 .. Len(s) : Numbers(v, s)[i] = NumberOf(v, s[i])
<1>1. DOMAIN s = 1 .. Len(s) /\ Len(s) \in Nat /\ \A i \in 1 .. Len(s) : s[i] \in Marked
  BY LenProperties, ElementOfSeq
<1>2. Numbers(v, s) = [i \in 1 .. Len(s) |-> NumberOf(v, s[i])]
  BY <1>1 DEF Numbers
<1>3. \A i \in 1 .. Len(s) : NumberOf(v, s[i]) \in Nat
  BY <1>1, NumberOfType
<1>4. Numbers(v, s) \in [1 .. Len(s) -> Nat]
  BY <1>2, <1>3
<1> HIDE DEF Stations
<1>5. Numbers(v, s) \in Seq(Nat)
  BY <1>1, <1>4 DEF Numbers
<1>6. Len(Numbers(v, s)) = Len(s)
  BY <1>1, <1>2, <1>5, LenProperties
<1> QED
  BY <1>1, <1>2, <1>5, <1>6 DEF Stations

LEMMA NumbersOne ==
  ASSUME NEW v, NEW m \in Marked
  PROVE  Numbers(v, <<m>>) = <<NumberOf(v, m)>>
<1>1. <<m>> \in Seq(Marked) /\ Len(<<m>>) = 1 /\ <<m>>[1] = m
  OBVIOUS
<1>2. NumberOf(v, m) \in Nat
  BY NumberOfType
<1>3. <<NumberOf(v, m)>> \in Seq(Nat) /\ Len(<<NumberOf(v, m)>>) = 1 /\ <<NumberOf(v, m)>>[1] = NumberOf(v, m)
  BY <1>2
<1>4. /\ Numbers(v, <<m>>) \in Seq(Nat) /\ Len(Numbers(v, <<m>>)) = 1
      /\ \A i \in 1 .. 1 : Numbers(v, <<m>>)[i] = <<NumberOf(v, m)>>[i]
  <2> DEFINE one == <<m>>
  <2>1. one \in Seq(Marked) /\ Len(one) = 1 /\ one[1] = m
    BY <1>1
  <2> HIDE DEF one
  <2>2. /\ Numbers(v, one) \in Seq(Nat) /\ Len(Numbers(v, one)) = 1
        /\ \A i \in 1 .. 1 : Numbers(v, one)[i] = NumberOf(v, one[i])
    BY <2>1, NumbersType DEF Stations
  <2>3. \A i \in 1 .. 1 : i = 1
    OBVIOUS
  <2>4. \A i \in 1 .. 1 : Numbers(v, one)[i] = <<NumberOf(v, m)>>[i]
    BY <1>3, <2>1, <2>2, <2>3
  <2> QED
    BY <2>2, <2>4 DEF one
<1> QED
  BY <1>3, <1>4, SeqEqual

LEMMA NumbersEmpty == \A v : Numbers(v, <<>>) = <<>>
<1> SUFFICES ASSUME NEW v PROVE Numbers(v, <<>>) = <<>>
  OBVIOUS
<1>1. <<>> \in Seq(Marked) /\ Len(<<>>) = 0
  BY EmptySeq
<1>2. Numbers(v, <<>>) \in Seq(Nat) /\ Len(Numbers(v, <<>>)) = 0
  BY <1>1, NumbersType DEF Stations
<1> QED
  BY <1>2, EmptySeq

LEMMA NumbersAppend ==
  ASSUME NEW v, NEW s \in Seq(Marked), NEW m \in Marked
  PROVE  Numbers(v, Append(s, m)) = Append(Numbers(v, s), NumberOf(v, m))
<1>1. /\ Append(s, m) \in Seq(Marked) /\ Len(Append(s, m)) = Len(s) + 1 /\ Len(s) \in Nat
      /\ \A i \in 1 .. Len(s) : Append(s, m)[i] = s[i]
      /\ Append(s, m)[Len(s) + 1] = m
  BY AppendProperties, LenProperties
<1>2. /\ Numbers(v, s) \in Seq(Nat) /\ Len(Numbers(v, s)) = Len(s)
      /\ \A i \in 1 .. Len(s) : Numbers(v, s)[i] = NumberOf(v, s[i])
  BY NumbersType DEF Stations
<1>3. /\ Numbers(v, Append(s, m)) \in Seq(Nat) /\ Len(Numbers(v, Append(s, m))) = Len(s) + 1
      /\ \A i \in 1 .. Len(s) + 1 : Numbers(v, Append(s, m))[i] = NumberOf(v, Append(s, m)[i])
  BY <1>1, NumbersType DEF Stations
<1>4. NumberOf(v, m) \in Nat
  BY NumberOfType
<1>5. /\ Append(Numbers(v, s), NumberOf(v, m)) \in Seq(Nat)
      /\ Len(Append(Numbers(v, s), NumberOf(v, m))) = Len(s) + 1
      /\ \A i \in 1 .. Len(s) : Append(Numbers(v, s), NumberOf(v, m))[i] = Numbers(v, s)[i]
      /\ Append(Numbers(v, s), NumberOf(v, m))[Len(s) + 1] = NumberOf(v, m)
  BY <1>2, <1>4, AppendProperties
<1>6. \A i \in 1 .. Len(s) + 1 :
        Numbers(v, Append(s, m))[i] = Append(Numbers(v, s), NumberOf(v, m))[i]
  <2> SUFFICES ASSUME NEW i \in 1 .. Len(s) + 1
               PROVE  Numbers(v, Append(s, m))[i] = Append(Numbers(v, s), NumberOf(v, m))[i]
    OBVIOUS
  <2>1. CASE i = Len(s) + 1
    BY <1>1, <1>3, <1>5, <2>1
  <2>2. CASE i # Len(s) + 1
    <3>1. i \in 1 .. Len(s)
      BY <1>1, <2>2
    <3> QED
      BY <1>1, <1>2, <1>3, <1>5, <3>1
  <2> QED
    BY <2>1, <2>2
<1> QED
  BY <1>3, <1>5, <1>6, SeqEqual

LEMMA NumbersTail ==
  ASSUME NEW v, NEW s \in Seq(Marked), s # <<>>
  PROVE  /\ Numbers(v, s) # <<>> /\ Head(s) \in Marked
         /\ Head(Numbers(v, s)) = NumberOf(v, Head(s))
         /\ Tail(Numbers(v, s)) = Numbers(v, Tail(s))
<1>1. /\ Tail(s) \in Seq(Marked) /\ Len(Tail(s)) = Len(s) - 1 /\ Len(s) \in Nat
      /\ Len(s) > 0 /\ Head(s) = s[1] /\ Head(s) \in Marked
      /\ \A i \in 1 .. Len(Tail(s)) : Tail(s)[i] = s[i + 1]
  BY HeadTailProperties, LenProperties, EmptySeq
<1>2. /\ Numbers(v, s) \in Seq(Nat) /\ Len(Numbers(v, s)) = Len(s)
      /\ \A i \in 1 .. Len(s) : Numbers(v, s)[i] = NumberOf(v, s[i])
  BY NumbersType DEF Stations
<1>3. Numbers(v, s) # <<>>
  BY <1>1, <1>2, EmptySeq
<1>4. /\ Tail(Numbers(v, s)) \in Seq(Nat) /\ Len(Tail(Numbers(v, s))) = Len(s) - 1
      /\ Head(Numbers(v, s)) = Numbers(v, s)[1]
      /\ \A i \in 1 .. Len(s) - 1 : Tail(Numbers(v, s))[i] = Numbers(v, s)[i + 1]
  BY <1>2, <1>3, HeadTailProperties
<1>5. /\ Numbers(v, Tail(s)) \in Seq(Nat) /\ Len(Numbers(v, Tail(s))) = Len(s) - 1
      /\ \A i \in 1 .. Len(s) - 1 : Numbers(v, Tail(s))[i] = NumberOf(v, Tail(s)[i])
  BY <1>1, NumbersType, ZenonT(30) DEF Stations
<1>6. \A i \in 1 .. Len(s) - 1 : Tail(Numbers(v, s))[i] = Numbers(v, Tail(s))[i]
  <2>1. \A i \in 1 .. Len(s) - 1 : i + 1 \in 1 .. Len(s)
    BY <1>1
  <2> QED
    BY <1>1, <1>2, <1>4, <1>5, <2>1
<1>7. Head(Numbers(v, s)) = NumberOf(v, Head(s))
  BY <1>1, <1>2, <1>4
<1> QED
  BY <1>1, <1>3, <1>4, <1>5, <1>6, <1>7, SeqEqual

LEMMA NumbersConcat ==
  ASSUME NEW v, NEW s \in Seq(Marked), NEW t \in Seq(Marked)
  PROVE  Numbers(v, s \o t) = Numbers(v, s) \o Numbers(v, t)
<1>1. /\ s \o t \in Seq(Marked) /\ Len(s \o t) = Len(s) + Len(t)
      /\ Len(s) \in Nat /\ Len(t) \in Nat
      /\ \A i \in 1 .. Len(s) + Len(t) :
           (s \o t)[i] = IF i <= Len(s) THEN s[i] ELSE t[i - Len(s)]
  BY ConcatProperties, LenProperties
<1>2. /\ Numbers(v, s) \in Seq(Nat) /\ Len(Numbers(v, s)) = Len(s)
      /\ \A i \in 1 .. Len(s) : Numbers(v, s)[i] = NumberOf(v, s[i])
  BY NumbersType DEF Stations
<1>3. /\ Numbers(v, t) \in Seq(Nat) /\ Len(Numbers(v, t)) = Len(t)
      /\ \A i \in 1 .. Len(t) : Numbers(v, t)[i] = NumberOf(v, t[i])
  BY NumbersType DEF Stations
<1>4. /\ Numbers(v, s \o t) \in Seq(Nat) /\ Len(Numbers(v, s \o t)) = Len(s) + Len(t)
      /\ \A i \in 1 .. Len(s) + Len(t) : Numbers(v, s \o t)[i] = NumberOf(v, (s \o t)[i])
  BY <1>1, NumbersType DEF Stations
<1>5. /\ Numbers(v, s) \o Numbers(v, t) \in Seq(Nat)
      /\ Len(Numbers(v, s) \o Numbers(v, t)) = Len(s) + Len(t)
      /\ \A i \in 1 .. Len(s) + Len(t) : (Numbers(v, s) \o Numbers(v, t))[i] =
           IF i <= Len(s) THEN Numbers(v, s)[i] ELSE Numbers(v, t)[i - Len(s)]
  <2> DEFINE a == Numbers(v, s)
             b == Numbers(v, t)
  <2>1. a \in Seq(Nat) /\ b \in Seq(Nat) /\ Len(a) = Len(s) /\ Len(b) = Len(t)
    BY <1>2, <1>3
  <2> HIDE DEF a, b
  <2>2. /\ a \o b \in Seq(Nat) /\ Len(a \o b) = Len(a) + Len(b)
        /\ \A i \in 1 .. Len(a) + Len(b) :
             (a \o b)[i] = IF i <= Len(a) THEN a[i] ELSE b[i - Len(a)]
    BY <2>1, ConcatProperties
  <2>3. /\ a \o b \in Seq(Nat) /\ Len(a \o b) = Len(s) + Len(t)
        /\ \A i \in 1 .. Len(s) + Len(t) :
             (a \o b)[i] = IF i <= Len(s) THEN a[i] ELSE b[i - Len(s)]
    BY <2>1, <2>2
  <2> QED
    BY <2>3 DEF a, b
<1>6. ASSUME NEW i \in 1 .. Len(s) + Len(t)
      PROVE  Numbers(v, s \o t)[i] = (Numbers(v, s) \o Numbers(v, t))[i]
  <2>1. CASE i <= Len(s)
    BY <1>1, <1>2, <1>4, <1>5, <2>1
  <2>2. CASE ~(i <= Len(s))
    <3>1. i - Len(s) \in 1 .. Len(t)
      BY <1>1, <2>2
    <3> QED
      BY <1>1, <1>3, <1>4, <1>5, <2>2, <3>1
  <2> QED
    BY <2>1, <2>2
<1> QED
  BY <1>4, <1>5, <1>6, SeqEqual

\* What is sent again is part of what was in flight.
LEMMA NumbersSuffix ==
  ASSUME NEW v, NEW q \in Seq(Message), NEW i \in 1 .. Len(q) + 1
  PROVE  Values(Numbers(v, SubSeq(q, i, Len(q)))) \subseteq Values(Numbers(v, q))
<1> DEFINE g == SubSeq(q, i, Len(q))
<1>1. /\ g \in Seq(Message)
      /\ \A j \in 1 .. Len(g) : \E k \in 1 .. Len(q) : g[j] = q[k]
  BY SuffixType
<1>2. g \in Seq(Marked) /\ q \in Seq(Marked)
  BY <1>1, SeqMonotonic DEF Marked
<1> HIDE DEF g
<1>3. /\ Len(Numbers(v, g)) = Len(g) /\ Len(Numbers(v, q)) = Len(q)
      /\ \A j \in 1 .. Len(g) : Numbers(v, g)[j] = NumberOf(v, g[j])
      /\ \A j \in 1 .. Len(q) : Numbers(v, q)[j] = NumberOf(v, q[j])
  BY <1>2, NumbersType
<1>4. ASSUME NEW j \in 1 .. Len(Numbers(v, g))
      PROVE  \E k \in 1 .. Len(Numbers(v, q)) : Numbers(v, g)[j] = Numbers(v, q)[k]
  <2>1. PICK k \in 1 .. Len(q) : g[j] = q[k]
    BY <1>1, <1>3
  <2> QED
    BY <1>3, <2>1
<1>5. Values(Numbers(v, g)) \subseteq Values(Numbers(v, q))
  BY <1>4 DEF Values
<1> QED
  BY <1>5 DEF g

-----------------------------------------------------------------------------
(* Nothing is missed.  Until the input task is ready it has nothing, and   *)
(* until the broker has the subscription nobody has; from then on, as long *)
(* as the broker remembers the session, the numbers of every topic are     *)
(* chained.                                                                *)

ChainOf(v) ==
  Chained(since[v], sent[v], missed[v], Outgoing(v), channel[v], Numbers(v, <<message>>),
          Numbers(v, inbox), Numbers(v, session), Numbers(v, flight))

Idle ==
  /\ inbox = <<>> /\ message = Free /\ process = "starting"
  /\ \A v \in Topics : channel[v] = <<>> /\ Outgoing(v) = <<>>

Untouched == session = <<>> /\ flight = <<>> /\ \A v \in Topics : missed[v] = {}

Watching == \A v \in Topics : since[v] <= sent[v] /\ ChainOf(v)

TaskStage ==
  /\ pc \in {"connect", "subscribe", "subscribing"} => ~started
  /\ Open => started
  /\ pc = "subscribing" \/ started => subscribed \/ forgot

NumbersInv ==
  /\ TaskStage
  /\ ~started => Idle
  /\ ~(subscribed \/ forgot) => Untouched
  /\ (subscribed /\ ~forgot) => Watching

\* The stations of a topic are sequences of numbers.
LEMMA StationsOf ==
  ASSUME TypeInv, NEW v \in Topics
  PROVE  /\ Outgoing(v) \in Stations /\ channel[v] \in Stations /\ Numbers(v, <<message>>) \in Stations
         /\ Numbers(v, inbox) \in Stations /\ Numbers(v, session) \in Stations
         /\ Numbers(v, flight) \in Stations
         /\ since[v] \in Nat /\ sent[v] \in Nat
         /\ inbox \in Seq(Marked) /\ session \in Seq(Marked) /\ flight \in Seq(Marked)
         /\ message \in Marked
<1>1. TypeOK
  BY DEF TypeInv
<1>2. /\ inbox \in Seq(Marked) /\ session \in Seq(Marked) /\ flight \in Seq(Marked)
      /\ message \in Marked
  BY <1>1, SeqMonotonic DEF TypeOK, Marked
<1>3. <<message>> \in Seq(Marked)
  BY <1>2
<1>4. channel[v] \in Seq(1 .. MaxMessages) /\ \A x \in 1 .. MaxMessages : x \in Nat
  BY <1>1, MqttAssumption DEF TypeOK
<1>5. channel[v] \in Stations
  BY <1>4, SeqMonotonic DEF Stations
<1>6. Outgoing(v) \in Stations
  <2>1. CASE v \in Unread
    BY <2>1, EmptySeq DEF Outgoing, Stations
  <2>2. CASE v \in Monitored
    <3>1. published[v] \in Seq(1 .. MaxMessages)
      BY <1>1, <2>2 DEF TypeOK
    <3>2. published[v] \in Seq(Nat)
      BY <1>4, <3>1, SeqMonotonic
    <3>3. task[v] = Free \/ task[v][2] \in Nat
      BY <1>1, <1>4, <2>2 DEF TypeOK
    <3>4. (IF task[v] = Free THEN <<>> ELSE <<task[v][2]>>) \in Seq(Nat)
      BY <3>3, EmptySeq
    <3> QED
      BY <2>2, <3>2, <3>4, ConcatProperties DEF Outgoing, Stations, Monitored
  <2> QED
    BY <2>1, <2>2 DEF Monitored
<1>7. since[v] \in Nat /\ sent[v] \in Nat
  BY <1>1, MqttAssumption DEF TypeOK
<1> QED
  BY <1>2, <1>3, <1>5, <1>6, <1>7, NumbersType

LEMMA OutgoingStays == UNCHANGED <<task, published>> => \A v : Outgoing(v)' = Outgoing(v)
BY DEF Outgoing

LEMMA ChainStays ==
  ASSUME NEW v, UNCHANGED <<since, sent, channel, message, inbox, session, flight, missed>>,
         Outgoing(v)' = Outgoing(v), ChainOf(v)
  PROVE  ChainOf(v)'
BY DEF ChainOf

LEMMA IdleStays ==
  ASSUME Idle, UNCHANGED <<channel, message, inbox, process>>,
         \A v \in Topics : Outgoing(v)' = Outgoing(v)
  PROVE  Idle'
BY DEF Idle

LEMMA WatchingStays ==
  ASSUME Watching, UNCHANGED <<since, sent, channel, message, inbox, session, flight, missed>>,
         \A v \in Topics : Outgoing(v)' = Outgoing(v)
  PROVE  Watching'
<1>1. \A v \in Topics : ChainOf(v)'
  BY ChainStays DEF Watching
<1> QED
  BY <1>1 DEF Watching

\* Publishing moves a value within what goes out.
LEMMA Held ==
  ASSUME TypeInv, NEW v \in Monitored, task[v][1] \in {"publish", "reconnect"}
  PROVE  /\ v \in Topics \ Unread /\ task[v] # Free
         /\ task[v][2] \in Nat /\ published[v] \in Seq(Nat)
         /\ Outgoing(v) = Append(published[v], task[v][2])
<1>1. /\ task[v] \in {Free} \union ({"publish", "reconnect"} \X (1 .. MaxMessages))
      /\ published[v] \in Seq(1 .. MaxMessages)
  BY DEF TypeInv, TypeOK
<1>2. task[v] # Free /\ task[v][2] \in 1 .. MaxMessages
  BY <1>1, TaskParts
<1>3. \A x \in 1 .. MaxMessages : x \in Nat
  BY MqttAssumption
<1>4. published[v] \in Seq(Nat)
  BY <1>1, <1>3, SeqMonotonic
<1>5. published[v] \o <<task[v][2]>> = Append(published[v], task[v][2])
  BY <1>2, <1>3, <1>4, AppendIsConcat
<1> QED
  BY <1>2, <1>3, <1>4, <1>5 DEF Outgoing, Monitored

LEMMA HeldNext ==
  ASSUME NEW v \in Monitored, NEW n \in Nat, published[v]' \in Seq(Nat)
  PROVE  /\ task[v]' = Free => Outgoing(v)' = published[v]'
         /\ task[v]' \in {<<"publish", n>>, <<"reconnect", n>>} => Outgoing(v)' = Append(published[v]', n)
<1>1. v \notin Unread
  BY DEF Monitored
<1>2. published[v]' \o <<>> = published[v]' /\ published[v]' \o <<n>> = Append(published[v]', n)
  BY ConcatEmptySeq, AppendIsConcat
<1>3. ASSUME task[v]' \in {<<"publish", n>>, <<"reconnect", n>>}
      PROVE  Outgoing(v)' = Append(published[v]', n)
  <2>1. task[v]' # Free /\ task[v]'[2] = n
    BY <1>3 DEF Free
  <2> QED
    BY <1>1, <1>2, <2>1 DEF Outgoing
<1> QED
  BY <1>1, <1>2, <1>3 DEF Outgoing

LEMMA OutgoingElsewhere ==
  ASSUME NEW v, NEW x, NEW y, v # x,
         task' = [task EXCEPT ![x] = y], published' = published \/ \E z : published' = [published EXCEPT ![x] = z],
         TypeInv, v \in Topics
  PROVE  Outgoing(v)' = Outgoing(v)
<1>1. v \in Unread \/ v \in Monitored
  BY DEF Monitored
<1>2. v \in Monitored => task'[v] = task[v] /\ published'[v] = published[v]
  BY DEF TypeInv, TypeOK
<1> QED
  BY <1>1, <1>2 DEF Outgoing

LEMMA PublishKeeps ==
  ASSUME TypeInv, NEW v \in Monitored, Publish(v) \/ ReconnectOutput(v)
  PROVE  \A t \in Topics : Outgoing(t)' = Outgoing(t)
<1>1. task[v][1] \in {"publish", "reconnect"}
  BY DEF Publish, ReconnectOutput
<1> DEFINE n == task[v][2]
<1>2. /\ task[v] # Free /\ n \in Nat /\ published[v] \in Seq(Nat)
      /\ Outgoing(v) = Append(published[v], n)
  BY <1>1, Held
<1>3. /\ task \in [Monitored -> {Free} \union ({"publish", "reconnect"} \X (1 .. MaxMessages))]
      /\ published \in [Monitored -> Seq(1 .. MaxMessages)]
  BY DEF TypeInv, TypeOK
<1> HIDE DEF n
<1>4. CASE UNCHANGED <<task, published>>
  BY <1>4, OutgoingStays
<1>5. CASE /\ published' = [published EXCEPT ![v] = Append(published[v], n)]
           /\ task' = [task EXCEPT ![v] = Free]
  <2>1. published[v]' = Append(published[v], n) /\ task[v]' = Free
    BY <1>3, <1>5
  <2>2. published[v]' \in Seq(Nat)
    BY <1>2, <2>1, AppendProperties
  <2>3. Outgoing(v)' = Outgoing(v)
    BY <1>2, <2>1, <2>2, HeldNext
  <2>4. \A t \in Topics : t # v => Outgoing(t)' = Outgoing(t)
    BY <1>5, OutgoingElsewhere
  <2> QED
    BY <2>3, <2>4
<1>6. CASE /\ published' = published
           /\ task' \in {[task EXCEPT ![v] = <<"publish", n>>], [task EXCEPT ![v] = <<"reconnect", n>>]}
  <2>1. published[v]' = published[v] /\ task[v]' \in {<<"publish", n>>, <<"reconnect", n>>}
    BY <1>3, <1>6
  <2>2. Outgoing(v)' = Outgoing(v)
    BY <1>2, <2>1, HeldNext
  <2>3. \A t \in Topics : t # v => Outgoing(t)' = Outgoing(t)
    BY <1>6, OutgoingElsewhere
  <2> QED
    BY <2>2, <2>3
<1> QED
  BY <1>4, <1>5, <1>6 DEF Publish, ReconnectOutput, reader, broker, connection, n

\* What does not move a message.
LEMMA StillSteps ==
  ASSUME TypeInv, NumbersInv,
         \/ LoseOutput \/ Restart \/ Connect \/ Answer \/ Resubscribe \/ Reconnect \/ Start \/ EndRun
         \/ \E v \in Monitored : Publish(v) \/ ReconnectOutput(v)
         \/ UNCHANGED vars
  PROVE  NumbersInv'
<1> USE DEF broker, connection, reader, output, vars
<1>1. UNCHANGED <<subscribed, forgot, channel, message, inbox, session, flight, missed, since, sent>>
  BY DEF LoseOutput, Restart, Connect, Answer, Resubscribe, Reconnect, Start, EndRun, Publish, ReconnectOutput
<1>2. \A t \in Topics : Outgoing(t)' = Outgoing(t)
  <2>1. CASE \E v \in Monitored : Publish(v) \/ ReconnectOutput(v)
    BY <2>1, PublishKeeps
  <2>2. CASE UNCHANGED <<task, published>>
    BY <2>2, OutgoingStays
  <2> QED
    BY <2>1, <2>2 DEF LoseOutput, Restart, Connect, Answer, Resubscribe, Reconnect, Start, EndRun
<1>3. TaskStage' /\ (started => started')
  <2>1. TaskStage
    BY DEF NumbersInv
  <2>2. CASE pc' = pc /\ started' = started
    BY <1>1, <2>1, <2>2 DEF TaskStage, Open
  <2>3. CASE Connect
    BY <1>1, <2>1, <2>3 DEF TaskStage, Open, Connect
  <2>4. CASE Reconnect
    <3>1. pc = "reconnect" /\ pc' \in {"reopen", "ended"} /\ started' = started
      BY <2>4 DEF Reconnect
    <3> QED
      BY <1>1, <2>1, <3>1 DEF TaskStage, Open
  <2>5. CASE Answer
    <3>1. /\ pc = "subscribing"
          /\ \/ pc' = "read" /\ started' = TRUE
             \/ pc' = "subscribe" /\ started' = started
      BY <2>5 DEF Answer
    <3> QED
      BY <1>1, <2>1, <3>1 DEF TaskStage, Open
  <2> QED
    BY <2>2, <2>3, <2>4, <2>5
    DEF LoseOutput, Restart, Resubscribe, Start, EndRun, Publish, ReconnectOutput
<1>4. ASSUME ~started' PROVE Idle'
  <2>1. Idle /\ process = "starting" /\ ~started
    BY <1>3, <1>4 DEF NumbersInv, Idle
  <2>2. process' = process
    BY <2>1 DEF LoseOutput, Restart, Connect, Answer, Resubscribe, Reconnect, Start, EndRun, Publish, ReconnectOutput
  <2> QED
    BY <1>1, <1>2, <2>1, <2>2, IdleStays
<1>5. ASSUME subscribed, ~forgot PROVE Watching'
  BY <1>1, <1>2, <1>5, WatchingStays DEF NumbersInv
<1>6. Untouched' = Untouched
  BY <1>1 DEF Untouched
<1> QED
  BY <1>1, <1>3, <1>4, <1>5, <1>6 DEF NumbersInv

LEMMA InitNumbersInv == Init => NumbersInv
<1> SUFFICES ASSUME Init PROVE NumbersInv
  OBVIOUS
<1>1. \A v \in Topics : Outgoing(v) = <<>>
  <2>1. ASSUME NEW v \in Monitored PROVE published[v] \o <<>> = <<>>
    <3>1. published[v] = <<>> /\ <<>> \in Seq(Nat)
      BY EmptySeq DEF Init
    <3> QED
      BY <3>1, ConcatEmptySeq
  <2> QED
    BY <2>1 DEF Outgoing, Init, Monitored
<1> QED
  BY <1>1 DEF Init, NumbersInv, TaskStage, Open, Idle, Untouched

\* A message that is sent goes to the end of what the session holds.
LEMMA SendNumbers ==
  ASSUME TypeInv, NumbersInv, NEW x \in Topics, Send(x)
  PROVE  NumbersInv'
<1> USE DEF broker, connection, reader, output
<1>1. /\ sent' = [sent EXCEPT ![x] = @ + 1] /\ sent[x] < MaxMessages
      /\ sent \in [Topics -> 0 .. MaxMessages]
      /\ UNCHANGED <<subscribed, since, forgot, flight, inbox, missed, pc, message, started, channel, task,
                     published, process>>
  BY DEF Send, TypeInv, TypeOK
<1>2. \A v \in Topics : Outgoing(v)' = Outgoing(v)
  BY <1>1, OutgoingStays
<1>3. TaskStage'
  BY <1>1 DEF NumbersInv, TaskStage, Open
<1>4. ASSUME ~started PROVE Idle'
  BY <1>1, <1>2, <1>4, IdleStays DEF NumbersInv
<1>6. ASSUME ~(subscribed \/ forgot) PROVE Untouched'
  <2>1. session' = session
    BY <1>6 DEF Send
  <2> QED
    BY <1>1, <1>6, <2>1 DEF NumbersInv, Untouched
<1>5. ASSUME subscribed, ~forgot PROVE Watching'
  <2>1. Watching
    BY <1>5 DEF NumbersInv
  <2>2. PICK good \in BOOLEAN : session' = Append(session, <<x, sent[x] + 1, good>>)
    BY <1>5 DEF Send
  <2> DEFINE m == <<x, sent[x] + 1, good>>
  <2>3. m \in Message /\ m \in Marked
    BY <1>1, MqttAssumption DEF Message, Marked
  <2>4. \A v : NumberOf(v, m) = IF v = x THEN sent[x] + 1 ELSE 0
    BY <2>3, NumberOfType
  <2> HIDE DEF m
  <2>5. ASSUME NEW v \in Topics
        PROVE  since[v]' <= sent[v]' /\ ChainOf(v)'
    <3>1. /\ since[v] <= sent[v] /\ ChainOf(v)
          /\ since[v] \in Nat /\ sent[v] \in Nat
      BY <2>1, StationsOf DEF Watching
    <3>2. Numbers(v, Append(session, m)) = Append(Numbers(v, session), NumberOf(v, m))
      BY <2>3, StationsOf, NumbersAppend
    <3>3. session' = Append(session, m)
      BY <2>2 DEF m
    <3>4. CASE v = x
      <4>1. Chained(since[v], sent[v] + 1, missed[v], Outgoing(v), channel[v], Numbers(v, <<message>>),
                    Numbers(v, inbox), Append(Numbers(v, session), sent[v] + 1), Numbers(v, flight))
        BY <3>1, StationsOf, ChainedSend DEF ChainOf
      <4>2. sent'[v] = sent[v] + 1 /\ since'[v] <= sent'[v]
        BY <1>1, <3>1, <3>4
      <4>3. NumberOf(v, m) = sent[v] + 1
        BY <2>4, <3>4
      <4> QED
        BY <1>1, <1>2, <3>2, <3>3, <4>1, <4>2, <4>3 DEF ChainOf
    <3>5. CASE v # x
      <4>1. Chained(since[v], sent[v], missed[v], Outgoing(v), channel[v], Numbers(v, <<message>>),
                    Numbers(v, inbox), Append(Numbers(v, session), 0), Numbers(v, flight))
        BY <3>1, StationsOf, ChainedSend DEF ChainOf
      <4>2. sent'[v] = sent[v] /\ since'[v] <= sent'[v]
        BY <1>1, <3>1, <3>5
      <4>3. NumberOf(v, m) = 0
        BY <2>4, <3>5
      <4> QED
        BY <1>1, <1>2, <3>2, <3>3, <4>1, <4>2, <4>3 DEF ChainOf
    <3> QED
      BY <3>4, <3>5
  <2> QED
    BY <1>1, <2>1, <2>5 DEF Watching
<1> QED
  BY <1>1, <1>3, <1>4, <1>5, <1>6 DEF NumbersInv

\* What is missed is what the messages nobody took carry.
LEMMA MissNumbers ==
  ASSUME TypeInv, NEW s \in Seq(Message \union {Lost}), Miss(s), NEW v \in Topics
  PROVE  missed[v]' = missed[v] \union Values(Numbers(v, s))
<1>1. s \in Seq(Marked)
  BY SeqMonotonic DEF Marked
<1>2. Numbers(v, s) \in Seq(Nat)
  BY <1>1, NumbersType DEF Stations
<1>3. ToSet(Numbers(v, s)) \ {0} = Values(Numbers(v, s))
  <2> DEFINE n == Numbers(v, s)
  <2>1. DOMAIN n = 1 .. Len(n)
    BY <1>2, LenProperties
  <2> HIDE DEF n
  <2>2. ToSet(n) \ {0} = Values(n)
    BY <2>1 DEF ToSet, Values
  <2> QED
    BY <2>2 DEF n
<1> QED
  BY <1>3 DEF Miss

\* The library hands the first message of the session to the stream, if there
\* is one with room.
LEMMA DeliverNumbers ==
  ASSUME TypeInv, NumbersInv, Deliver
  PROVE  NumbersInv'
<1> USE DEF broker, connection, reader, output
<1>1. /\ session # <<>> /\ session' = Tail(session) /\ flight' = Append(flight, Head(session))
      /\ Takes => inbox' = Append(inbox, Head(session)) /\ UNCHANGED missed
      /\ ~Takes => Miss(<<Head(session)>>) /\ UNCHANGED inbox
      /\ UNCHANGED <<subscribed, since, sent, forgot, pc, message, started, channel, task, published, process>>
  BY DEF Deliver
<1>2. \A v \in Topics : Outgoing(v)' = Outgoing(v)
  BY <1>1, OutgoingStays
<1>3. TaskStage' /\ (subscribed \/ forgot)
  BY <1>1 DEF NumbersInv, TaskStage, Open, Untouched
<1>4. ASSUME ~started PROVE Idle'
  <2>1. ~Takes
    BY <1>4 DEF NumbersInv, TaskStage, Takes
  <2> QED
    BY <1>1, <1>2, <1>4, <2>1, IdleStays DEF NumbersInv
<1>5. ASSUME subscribed, ~forgot PROVE Watching'
  <2>1. Watching
    BY <1>5 DEF NumbersInv
  <2>2. ASSUME NEW v \in Topics PROVE ChainOf(v)'
    <3>1. /\ Numbers(v, session) # <<>> /\ Head(session) \in Marked
          /\ Head(Numbers(v, session)) = NumberOf(v, Head(session))
          /\ Tail(Numbers(v, session)) = Numbers(v, Tail(session))
      BY <1>1, StationsOf, NumbersTail
    <3>2. /\ Numbers(v, Append(inbox, Head(session))) = Append(Numbers(v, inbox), NumberOf(v, Head(session)))
          /\ Numbers(v, Append(flight, Head(session))) = Append(Numbers(v, flight), NumberOf(v, Head(session)))
      BY <3>1, StationsOf, NumbersAppend
    <3>3. CASE Takes
      <4>1. Chained(since[v], sent[v], missed[v], Outgoing(v), channel[v], Numbers(v, <<message>>),
                    Append(Numbers(v, inbox), Head(Numbers(v, session))), Tail(Numbers(v, session)),
                    Append(Numbers(v, flight), Head(Numbers(v, session))))
        BY <2>1, <3>1, StationsOf, ChainedDeliver DEF ChainOf, Watching
      <4> QED
        BY <1>1, <1>2, <3>1, <3>2, <3>3, <4>1 DEF ChainOf
    <3>4. CASE ~Takes
      <4>1. Chained(since[v], sent[v], missed[v] \union ({Head(Numbers(v, session))} \ {0}),
                    Outgoing(v), channel[v], Numbers(v, <<message>>),
                    Numbers(v, inbox), Tail(Numbers(v, session)),
                    Append(Numbers(v, flight), Head(Numbers(v, session))))
        BY <2>1, <3>1, StationsOf, ChainedMiss DEF ChainOf, Watching
      <4>2. Head(session) \in Message /\ NumberOf(v, Head(session)) \in Nat
        BY <1>1, <3>1, HeadTailProperties, NumberOfType DEF TypeInv, TypeOK
      <4>3. <<Head(session)>> \in Seq(Message \union {Lost})
        BY <4>2
      <4>4. missed[v]' = missed[v] \union Values(Numbers(v, <<Head(session)>>))
        BY <1>1, <3>4, <4>3, MissNumbers
      <4>5. Values(Numbers(v, <<Head(session)>>)) = {Head(Numbers(v, session))} \ {0}
        BY <3>1, <4>2, NumbersOne, FollowsOne
      <4> QED
        BY <1>1, <1>2, <3>1, <3>2, <3>4, <4>1, <4>4, <4>5 DEF ChainOf
    <3> QED
      BY <3>3, <3>4
  <2> QED
    BY <1>1, <2>1, <2>2 DEF Watching
<1> QED
  BY <1>1, <1>3, <1>4, <1>5 DEF NumbersInv

\* What was in flight may come again, and the task learns of the loss.
LEMMA LossNumbers ==
  ASSUME TypeInv, NumbersInv, LoseInput \/ Stop
  PROVE  NumbersInv'
<1> USE DEF broker, connection, reader, output
<1>1. UNCHANGED <<since, sent, missed, pc, message, started, channel, task, published, process>>
  BY DEF LoseInput, Stop, Disconnected
<1>2. \A v \in Topics : Outgoing(v)' = Outgoing(v)
  BY <1>1, OutgoingStays
<1>4. PICK kept \in BOOLEAN :
        /\ Disconnected(kept) /\ subscribed' = (subscribed /\ kept)
        /\ forgot' = (forgot \/ (subscribed /\ ~kept))
  <2>1. CASE LoseInput
    <3>1. /\ Disconnected(TRUE) /\ subscribed' = (subscribed /\ TRUE)
          /\ forgot' = (forgot \/ (subscribed /\ ~TRUE))
      BY <2>1 DEF LoseInput, TypeInv, TypeOK
    <3> QED
      BY <3>1
  <2>2. CASE Stop
    BY <2>2 DEF Stop
  <2> QED
    BY <2>1, <2>2
<1>5. /\ flight' = <<>> /\ inbox' \in {inbox, Append(inbox, Lost)}
      /\ inbox \in Seq(Message \union {Lost}) /\ flight \in Seq(Message) /\ session \in Seq(Message)
  BY <1>4 DEF Disconnected, TypeInv, TypeOK
<1>3. TaskStage'
  BY <1>1, <1>4 DEF NumbersInv, TaskStage, Open
<1>6. ASSUME ~started PROVE Idle'
  <2>1. ~Takes
    BY <1>6 DEF NumbersInv, TaskStage, Takes
  <2>2. inbox' = inbox
    BY <1>4, <2>1 DEF Disconnected
  <2> QED
    BY <1>1, <1>2, <1>6, <2>2, IdleStays DEF NumbersInv
<1>8. ASSUME ~(subscribed' \/ forgot') PROVE Untouched'
  <2>1. Untouched
    BY <1>4, <1>8 DEF NumbersInv
  <2>2. session' = <<>>
    <3>1. CASE ~kept
      BY <1>4, <3>1 DEF Disconnected
    <3>2. CASE kept
      <4>1. PICK i \in 1 .. Len(flight) + 1 : session' = SubSeq(flight, i, Len(flight)) \o session
        BY <1>4, <3>2 DEF Disconnected
      <4>2. flight = <<>> /\ session = <<>> /\ Len(flight) = 0
        BY <2>1, EmptySeq DEF Untouched
      <4>3. SubSeq(flight, i, Len(flight)) = <<>>
        <5>1. /\ SubSeq(flight, i, Len(flight)) \in Seq(Message)
              /\ \A j \in 1 .. Len(SubSeq(flight, i, Len(flight))) :
                   \E k \in 1 .. Len(flight) : SubSeq(flight, i, Len(flight))[j] = flight[k]
          BY <1>5, SuffixType
        <5>2. Len(SubSeq(flight, i, Len(flight))) = 0
          BY <4>2, <5>1, LenProperties
        <5> QED
          BY <5>1, <5>2, EmptySeq
      <4> QED
        BY <1>5, <4>1, <4>2, <4>3, ConcatEmptySeq
    <3> QED
      BY <3>1, <3>2
  <2> QED
    BY <1>1, <1>5, <2>1, <2>2 DEF Untouched
<1>7. ASSUME subscribed', ~forgot' PROVE Watching'
  <2>1. Watching /\ subscribed
    BY <1>4, <1>7 DEF NumbersInv
  <2>2. kept /\ subscribed'
    BY <1>4, <1>7, <2>1
  <2>3. PICK i \in 1 .. Len(flight) + 1 : session' = SubSeq(flight, i, Len(flight)) \o session
    BY <1>4, <2>2 DEF Disconnected
  <2> DEFINE g == SubSeq(flight, i, Len(flight))
  <2>4. g \in Seq(Message) /\ g \in Seq(Marked)
    <3>1. g \in Seq(Message)
      BY <1>5, SuffixType
    <3> QED
      BY <3>1, SeqMonotonic DEF Marked
  <2>5. \A v : Values(Numbers(v, g)) \subseteq Values(Numbers(v, flight))
    BY <1>5, NumbersSuffix
  <2>6. session' = g \o session
    BY <2>3
  <2> HIDE DEF g
  <2>7. ASSUME NEW v \in Topics PROVE ChainOf(v)'
    <3>1. Numbers(v, g) \in Stations /\ Numbers(v, g \o session) = Numbers(v, g) \o Numbers(v, session)
      BY <2>4, StationsOf, NumbersType, NumbersConcat
    <3>2. Numbers(v, Append(inbox, Lost)) = Append(Numbers(v, inbox), 0)
      <4>1. Lost \in Marked
        BY DEF Marked
      <4>2. NumberOf(v, Lost) = 0
        BY DEF NumberOf
      <4> QED
        BY <4>1, <4>2, StationsOf, NumbersAppend
    <3>3. ChainOf(v)
      BY <2>1 DEF Watching
    <3>4. /\ Chained(since[v], sent[v], missed[v], Outgoing(v), channel[v], Numbers(v, <<message>>),
                     Numbers(v, inbox), Numbers(v, g) \o Numbers(v, session), <<>>)
          /\ Chained(since[v], sent[v], missed[v], Outgoing(v), channel[v], Numbers(v, <<message>>),
                     Append(Numbers(v, inbox), 0), Numbers(v, g) \o Numbers(v, session), <<>>)
      BY <2>5, <3>1, <3>3, StationsOf, ChainedLost DEF ChainOf
    <3>5. Numbers(v, flight') = <<>>
      BY <1>5, NumbersEmpty
    <3>6. CASE inbox' = inbox
      BY <1>1, <1>2, <2>6, <3>1, <3>4, <3>5, <3>6 DEF ChainOf
    <3>7. CASE inbox' = Append(inbox, Lost)
      BY <1>1, <1>2, <2>6, <3>1, <3>2, <3>4, <3>5, <3>7 DEF ChainOf
    <3> QED
      BY <1>5, <3>6, <3>7
  <2> QED
    BY <1>1, <2>1, <2>2, <2>7 DEF Watching
<1> QED
  BY <1>1, <1>3, <1>6, <1>7, <1>8 DEF NumbersInv

\* The chain begins when the broker has the subscription; a subscription that
\* is made again changes nothing.
LEMMA SubscribeNumbers ==
  ASSUME TypeInv, NumbersInv, Subscribe
  PROVE  NumbersInv'
<1> USE DEF broker, connection, reader, output
<1>1. /\ subscribed' = TRUE /\ pc' = "subscribing" /\ pc = "subscribe"
      /\ since' = IF subscribed \/ forgot THEN since ELSE sent
      /\ UNCHANGED <<sent, forgot, session, flight, missed, inbox, message, started, channel, task, published, process>>
  BY DEF Subscribe
<1>2. \A v \in Topics : Outgoing(v)' = Outgoing(v)
  BY <1>1, OutgoingStays
<1>3. ~started /\ Idle /\ Idle' /\ TaskStage'
  BY <1>1, <1>2, IdleStays DEF NumbersInv, TaskStage, Open
<1>4. ASSUME ~subscribed, ~forgot, NEW v \in Topics PROVE since'[v] <= sent'[v] /\ ChainOf(v)'
  <2>1. sent[v] \in Nat /\ since'[v] = sent[v]
    BY <1>1, <1>4, StationsOf
  <2>2. Chained(sent[v], sent[v], {}, <<>>, <<>>, << 0 >>, <<>>, <<>>, <<>>)
    BY <2>1, ChainedEmpty
  <2>3. Numbers(v, <<Free>>) = << 0 >>
    <3>1. Free \in Marked /\ NumberOf(v, Free) = 0
      BY DEF Marked, NumberOf
    <3> QED
      BY <3>1, NumbersOne
  <2>4. Numbers(v, <<>>) = <<>>
    BY NumbersEmpty
  <2>5. /\ Outgoing(v) = <<>> /\ channel[v] = <<>> /\ message = Free /\ inbox = <<>>
        /\ session = <<>> /\ flight = <<>> /\ missed[v] = {}
    BY <1>3, <1>4 DEF NumbersInv, Idle, Untouched
  <2>6. ChainOf(v)'
    BY <1>1, <1>2, <2>1, <2>2, <2>3, <2>4, <2>5 DEF ChainOf
  <2> QED
    BY <1>1, <2>1, <2>6
<1>5. ASSUME ~forgot PROVE Watching'
  <2>1. CASE subscribed
    BY <1>1, <1>2, <1>5, <2>1, WatchingStays DEF NumbersInv
  <2>2. CASE ~subscribed
    BY <1>4, <1>5, <2>2 DEF Watching
  <2> QED
    BY <2>1, <2>2
<1> QED
  BY <1>1, <1>3, <1>5 DEF NumbersInv

\* A stream that is dropped leaves what it holds to nobody.
LEMMA ReopenNumbers ==
  ASSUME TypeInv, NumbersInv, Reopen
  PROVE  NumbersInv'
<1> USE DEF broker, connection, reader, output
<1>1. /\ pc = "reopen" /\ pc' = "read" /\ inbox' = <<>> /\ Miss(inbox)
      /\ inbox \in Seq(Message \union {Lost})
      /\ UNCHANGED <<subscribed, since, sent, forgot, session, flight, message, started, channel, task, published, process>>
  BY DEF Reopen, TypeInv, TypeOK
<1>2. \A v \in Topics : Outgoing(v)' = Outgoing(v)
  BY <1>1, OutgoingStays
<1>3. started /\ TaskStage' /\ (subscribed \/ forgot)
  BY <1>1 DEF NumbersInv, TaskStage, Open
<1>4. ASSUME ~forgot, NEW v \in Topics PROVE ChainOf(v)'
  <2>1. ChainOf(v)
    BY <1>3, <1>4 DEF NumbersInv, Watching
  <2>2. Chained(since[v], sent[v], missed[v] \union Values(Numbers(v, inbox)), Outgoing(v), channel[v],
                Numbers(v, <<message>>), <<>>, Numbers(v, session), Numbers(v, flight))
    BY <2>1, StationsOf, ChainedReopen DEF ChainOf
  <2>3. missed[v]' = missed[v] \union Values(Numbers(v, inbox)) /\ Numbers(v, inbox') = <<>>
    BY <1>1, MissNumbers, NumbersEmpty
  <2> QED
    BY <1>1, <1>2, <2>2, <2>3 DEF ChainOf
<1>5. ASSUME ~forgot PROVE Watching'
  <2>1. Watching
    BY <1>3, <1>5 DEF NumbersInv
  <2> QED
    BY <1>1, <1>4, <1>5, <2>1 DEF Watching
<1> QED
  BY <1>1, <1>3, <1>5 DEF NumbersInv

\* The task takes the next message in its hand, or learns of a loss.
LEMMA ReadNumbers ==
  ASSUME TypeInv, NumbersInv, Read
  PROVE  NumbersInv'
<1> USE DEF broker, connection, reader, output
<1>1. /\ inbox # <<>> /\ inbox' = Tail(inbox) /\ pc = "read" /\ pc' \in {"reconnect", "send", "ended"}
      /\ message = Free /\ message' = (IF Head(inbox) = Lost THEN Free ELSE Head(inbox))
      /\ UNCHANGED <<subscribed, since, sent, forgot, session, flight, missed, started, channel, task, published, process>>
  BY DEF Read, TypeInv, TaskInv
<1>2. \A v \in Topics : Outgoing(v)' = Outgoing(v)
  BY <1>1, OutgoingStays
<1>3. started /\ TaskStage' /\ (subscribed \/ forgot)
  BY <1>1 DEF NumbersInv, TaskStage, Open
<1>4. ASSUME ~forgot, NEW v \in Topics PROVE ChainOf(v)'
  <2>1. ChainOf(v)
    BY <1>3, <1>4 DEF NumbersInv, Watching
  <2>2. /\ Numbers(v, inbox) # <<>> /\ Head(inbox) \in Marked
        /\ Head(Numbers(v, inbox)) = NumberOf(v, Head(inbox))
        /\ Tail(Numbers(v, inbox)) = Numbers(v, Tail(inbox))
    BY <1>1, StationsOf, NumbersTail
  <2>3. Free \in Marked /\ NumberOf(v, Free) = 0 /\ NumberOf(v, Lost) = 0
    BY DEF Marked, NumberOf
  <2>4. Numbers(v, <<message>>) = << 0 >>
    BY <1>1, <2>3, NumbersOne
  <2>5. Chained(since[v], sent[v], missed[v], Outgoing(v), channel[v], << 0 >>,
                Numbers(v, inbox), Numbers(v, session), Numbers(v, flight))
    BY <2>1, <2>4 DEF ChainOf
  <2>6. Chained(since[v], sent[v], missed[v], Outgoing(v), channel[v], <<Head(Numbers(v, inbox))>>,
                Tail(Numbers(v, inbox)), Numbers(v, session), Numbers(v, flight))
    BY <2>2, <2>5, StationsOf, ChainedRead
  <2>7. message' \in Marked /\ NumberOf(v, message') = NumberOf(v, Head(inbox))
    BY <1>1, <2>2, <2>3
  <2>8. Numbers(v, <<message'>>) = <<Head(Numbers(v, inbox))>>
    BY <2>2, <2>7, NumbersOne
  <2> QED
    BY <1>1, <1>2, <2>2, <2>6, <2>8 DEF ChainOf
<1>5. ASSUME ~forgot PROVE Watching'
  <2>1. Watching
    BY <1>3, <1>5 DEF NumbersInv
  <2> QED
    BY <1>1, <1>4, <1>5, <2>1 DEF Watching
<1> QED
  BY <1>1, <1>3, <1>5 DEF NumbersInv

\* What the task holds goes into the channel of its topic.
LEMMA HandOnNumbers ==
  ASSUME TypeInv, NumbersInv, HandOn
  PROVE  NumbersInv'
<1> USE DEF broker, connection, reader, output
<1>1. /\ channel' = [channel EXCEPT ![message[1]] = Append(@, message[2])]
      /\ pc = "send" /\ message' = Free /\ pc' = "read" /\ message \in Message
      /\ channel \in [Topics -> Seq(1 .. MaxMessages)]
      /\ UNCHANGED <<subscribed, since, sent, forgot, session, flight, missed, inbox, started, task, published, process>>
  BY DEF HandOn, TypeInv, TaskInv, TypeOK
<1>2. \A v \in Topics : Outgoing(v)' = Outgoing(v)
  BY <1>1, OutgoingStays
<1>3. started /\ TaskStage' /\ (subscribed \/ forgot)
  BY <1>1 DEF NumbersInv, TaskStage, Open
<1>4. message[1] \in Topics /\ message[2] \in Nat /\ message \in Marked
  BY <1>1, MessageParts, MqttAssumption DEF Marked
<1>5. ASSUME ~forgot, NEW v \in Topics PROVE ChainOf(v)'
  <2>1. ChainOf(v)
    BY <1>3, <1>5 DEF NumbersInv, Watching
  <2>2. /\ Numbers(v, <<message>>) = <<NumberOf(v, message)>>
        /\ NumberOf(v, message) = (IF message[1] = v THEN message[2] ELSE 0)
    BY <1>1, <1>4, NumbersOne, NumberOfType
  <2>3. Numbers(v, <<Free>>) = << 0 >>
    <3>1. Free \in Marked /\ NumberOf(v, Free) = 0
      BY DEF Marked, NumberOf
    <3> QED
      BY <3>1, NumbersOne
  <2>4. CASE message[1] = v
    <3>1. Chained(since[v], sent[v], missed[v], Outgoing(v), channel[v], <<message[2]>>,
                  Numbers(v, inbox), Numbers(v, session), Numbers(v, flight))
      BY <2>1, <2>2, <2>4 DEF ChainOf
    <3>2. Chained(since[v], sent[v], missed[v], Outgoing(v), Append(channel[v], message[2]), << 0 >>,
                  Numbers(v, inbox), Numbers(v, session), Numbers(v, flight))
      BY <1>4, <3>1, StationsOf, ChainedHandOn
    <3>3. channel'[v] = Append(channel[v], message[2])
      BY <1>1, <2>4
    <3> QED
      BY <1>1, <1>2, <2>3, <3>2, <3>3 DEF ChainOf
  <2>5. CASE message[1] # v
    <3>1. Chained(since[v], sent[v], missed[v], Outgoing(v), channel[v], << 0 >>,
                  Numbers(v, inbox), Numbers(v, session), Numbers(v, flight))
      BY <2>1, <2>2, <2>5 DEF ChainOf
    <3>2. channel'[v] = channel[v]
      BY <1>1, <2>5
    <3> QED
      BY <1>1, <1>2, <2>3, <3>1, <3>2 DEF ChainOf
  <2> QED
    BY <2>4, <2>5
<1>6. ASSUME ~forgot PROVE Watching'
  <2>1. Watching
    BY <1>3, <1>6 DEF NumbersInv
  <2> QED
    BY <1>1, <1>5, <1>6, <2>1 DEF Watching
<1> QED
  BY <1>1, <1>3, <1>6 DEF NumbersInv

\* Only after the task has begun is there anything to publish.
LEMMA RunningStarted == NumbersInv /\ process = "running" => started
BY DEF NumbersInv, Idle

LEMMA TakeNumbers ==
  ASSUME TypeInv, NumbersInv, NEW x \in Monitored, Take(x)
  PROVE  NumbersInv'
<1> USE DEF broker, connection, reader, output
<1>1. /\ task[x] = Free /\ channel[x] # <<>>
      /\ task' = [task EXCEPT ![x] = <<"publish", Head(channel[x])>>]
      /\ channel' = [channel EXCEPT ![x] = Tail(@)]
      /\ channel \in [Topics -> Seq(1 .. MaxMessages)]
      /\ task \in [Monitored -> {Free} \union ({"publish", "reconnect"} \X (1 .. MaxMessages))]
      /\ published \in [Monitored -> Seq(1 .. MaxMessages)]
      /\ x \in Topics /\ x \notin Unread
      /\ UNCHANGED <<subscribed, since, sent, forgot, session, flight, missed, inbox, started, message, pc, published>>
  BY DEF Take, TypeInv, TypeOK, Monitored
<1>2. started /\ TaskStage' /\ (subscribed \/ forgot)
  BY <1>1, RunningStarted DEF NumbersInv, TaskStage, Open, Take
<1>3. ASSUME NEW v \in Topics, v # x PROVE Outgoing(v)' = Outgoing(v)
  BY <1>1, <1>3, OutgoingElsewhere
<1> DEFINE n == Head(channel[x])
<1>4. n \in Nat /\ published[x] \in Seq(Nat) /\ channel[x] \in Stations
  <2>1. \A k \in 1 .. MaxMessages : k \in Nat
    BY MqttAssumption
  <2>2. published[x] \in Seq(Nat)
    BY <1>1, <2>1, SeqMonotonic
  <2>3. channel[x] \in Seq(Nat)
    BY <1>1, <2>1, SeqMonotonic
  <2> QED
    BY <1>1, <2>2, <2>3, HeadTailProperties DEF Stations
<1>5. Outgoing(x) = published[x]
  BY <1>1, <1>4, ConcatEmptySeq DEF Outgoing
<1>6. Outgoing(x)' = Append(Outgoing(x), n)
  <2>1. task[x]' = <<"publish", n>> /\ published[x]' = published[x]
    BY <1>1
  <2> HIDE DEF n
  <2> QED
    BY <1>4, <1>5, <2>1, HeldNext
<1>7. ASSUME ~forgot, NEW v \in Topics PROVE ChainOf(v)'
  <2>1. ChainOf(v)
    BY <1>2, <1>7 DEF NumbersInv, Watching
  <2>2. CASE v = x
    <3>1. Chained(since[v], sent[v], missed[v], Append(Outgoing(v), Head(channel[v])), Tail(channel[v]),
                  Numbers(v, <<message>>), Numbers(v, inbox), Numbers(v, session), Numbers(v, flight))
      BY <1>1, <2>1, <2>2, StationsOf, ChainedTake DEF ChainOf
    <3>2. channel'[v] = Tail(channel[v])
      BY <1>1, <2>2
    <3> QED
      BY <1>1, <1>6, <2>2, <3>1, <3>2 DEF ChainOf
  <2>3. CASE v # x
    <3>1. channel'[v] = channel[v]
      BY <1>1, <2>3
    <3> QED
      BY <1>1, <1>3, <2>1, <2>3, <3>1 DEF ChainOf
  <2> QED
    BY <2>2, <2>3
<1>8. ASSUME ~forgot PROVE Watching'
  <2>1. Watching
    BY <1>2, <1>8 DEF NumbersInv
  <2> QED
    BY <1>1, <1>7, <1>8, <2>1 DEF Watching
<1> QED
  BY <1>1, <1>2, <1>8 DEF NumbersInv

\* A value whose publication was not answered is published again.
LEMMA UnansweredNumbers ==
  ASSUME TypeInv, NumbersInv, NEW x \in Monitored, PublishUnanswered(x)
  PROVE  NumbersInv'
<1> USE DEF broker, connection, reader, output
<1> DEFINE n == task[x][2]
<1>1. /\ task[x][1] = "publish"
      /\ published' = [published EXCEPT ![x] = Append(@, n)]
      /\ task' = [task EXCEPT ![x] = <<"reconnect", n>>]
      /\ task \in [Monitored -> {Free} \union ({"publish", "reconnect"} \X (1 .. MaxMessages))]
      /\ published \in [Monitored -> Seq(1 .. MaxMessages)]
      /\ UNCHANGED <<subscribed, since, sent, forgot, session, flight, missed, inbox, started, message, pc, channel>>
  BY DEF PublishUnanswered, TypeInv, TypeOK
<1>2. started /\ TaskStage' /\ (subscribed \/ forgot)
  BY <1>1, RunningStarted DEF NumbersInv, TaskStage, Open, PublishUnanswered
<1>3. ASSUME NEW v \in Topics, v # x PROVE Outgoing(v)' = Outgoing(v)
  BY <1>1, <1>3, OutgoingElsewhere
<1>4. n \in Nat /\ published[x] \in Seq(Nat) /\ Outgoing(x) = Append(published[x], n)
  BY <1>1, Held
<1>5. Outgoing(x)' = Append(Outgoing(x), n)
  <2>1. task[x]' = <<"reconnect", n>> /\ published[x]' = Append(published[x], n)
    BY <1>1
  <2> HIDE DEF n
  <2>2. published[x]' \in Seq(Nat)
    BY <1>4, <2>1, AppendProperties
  <2> QED
    BY <1>4, <2>1, <2>2, HeldNext
<1>6. n = 0 \/ n \in Values(Outgoing(x))
  <2> HIDE DEF n
  <2>1. Values(Outgoing(x)) = Values(published[x]) \union ({n} \ {0})
    BY <1>4, ValuesAppend
  <2> QED
    BY <2>1
<1>7. n # 0
  BY <1>1, TaskParts, MqttAssumption
<1>8. ASSUME ~forgot, NEW v \in Topics PROVE ChainOf(v)'
  <2>1. ChainOf(v)
    BY <1>2, <1>8 DEF NumbersInv, Watching
  <2>2. CASE v = x
    <3>1. Chained(since[v], sent[v], missed[v], Append(Outgoing(v), n), channel[v],
                  Numbers(v, <<message>>), Numbers(v, inbox), Numbers(v, session), Numbers(v, flight))
      <4> HIDE DEF n
      <4> QED
        BY <1>6, <1>7, <2>1, <2>2, StationsOf, ChainedAgain DEF ChainOf
    <3> QED
      BY <1>1, <1>5, <2>2, <3>1 DEF ChainOf
  <2>3. CASE v # x
    BY <1>1, <1>3, <2>1, <2>3 DEF ChainOf
  <2> QED
    BY <2>2, <2>3
<1>9. ASSUME ~forgot PROVE Watching'
  <2>1. Watching
    BY <1>2, <1>9 DEF NumbersInv
  <2> QED
    BY <1>1, <1>8, <1>9, <2>1 DEF Watching
<1> QED
  BY <1>1, <1>2, <1>9 DEF NumbersInv

LEMMA NextNumbersInv == TypeInv /\ NumbersInv /\ [Next]_vars => NumbersInv'
<1> SUFFICES ASSUME TypeInv, NumbersInv, [Next]_vars PROVE NumbersInv'
  OBVIOUS
<1>1. CASE \E v \in Topics : Send(v)
  BY <1>1, SendNumbers
<1>2. CASE Deliver
  BY <1>2, DeliverNumbers
<1>3. CASE LoseInput \/ Stop
  BY <1>3, LossNumbers
<1>4. CASE Subscribe
  BY <1>4, SubscribeNumbers
<1>5. CASE Read
  BY <1>5, ReadNumbers
<1>6. CASE HandOn
  BY <1>6, HandOnNumbers
<1>7. CASE \E v \in Monitored : Take(v)
  BY <1>7, TakeNumbers
<1>8. CASE \E v \in Monitored : PublishUnanswered(v)
  BY <1>8, UnansweredNumbers
<1>10. CASE Reopen
  BY <1>10, ReopenNumbers
<1>9. CASE \/ LoseOutput \/ Restart \/ Connect \/ Answer \/ Resubscribe \/ Reconnect \/ Start \/ EndRun
           \/ \E v \in Monitored : Publish(v) \/ ReconnectOutput(v)
           \/ UNCHANGED vars
  BY <1>9, StillSteps
<1> QED
  BY <1>1, <1>2, <1>3, <1>4, <1>5, <1>6, <1>7, <1>8, <1>9, <1>10 DEF Next

\* Stations that are chained make a trail that, with what is missed, is
\* complete.
Unbroken(base, top, X, T) ==
  /\ (ToSet(T) \ {0}) \union X = base + 1 .. top
  /\ \A i \in DOMAIN T : T[i] \in {0, base + 1} \/ T[i] - 1 \in X \/ \E j \in 1 .. i - 1 : T[j] = T[i] - 1

LEMMA ChainIsTrail ==
  ASSUME NEW base \in Nat, NEW top \in Nat, NEW X,
         NEW O \in Stations, NEW C \in Stations, NEW M \in Stations,
         NEW I \in Stations, NEW S \in Stations, NEW F,
         Chained(base, top, X, O, C, M, I, S, F)
  PROVE  Unbroken(base, top, X, O \o C \o M \o I \o S)
<1> DEFINE T2 == O \o C
           T3 == T2 \o M
           T4 == T3 \o I
           T == T4 \o S
<1>1. T2 \in Stations /\ Follows(base, X, T2) /\ Values(T2) = Values(O) \union Values(C)
  <2>1. Follows(base, X, O) /\ Follows(base, X \union Values(O), C)
    BY DEF Chained
  <2> QED
    BY <2>1, FollowsConcat, ValuesConcat DEF Stations
<1> HIDE DEF T2
<1>2. T3 \in Stations /\ Follows(base, X, T3) /\ Values(T3) = Values(T2) \union Values(M)
  <2>1. Follows(base, X \union Values(T2), M)
    BY <1>1 DEF Chained
  <2> QED
    BY <1>1, <2>1, FollowsConcat, ValuesConcat DEF Stations
<1> HIDE DEF T3
<1>3. T4 \in Stations /\ Follows(base, X, T4) /\ Values(T4) = Values(T3) \union Values(I)
  <2>1. Follows(base, X \union Values(T3), I)
    BY <1>1, <1>2 DEF Chained
  <2> QED
    BY <1>2, <2>1, FollowsConcat, ValuesConcat DEF Stations
<1> HIDE DEF T4
<1>4. T \in Stations /\ Follows(base, X, T) /\ Values(T) = Values(T4) \union Values(S)
  <2>1. Follows(base, X \union Values(T4), S)
    BY <1>1, <1>2, <1>3 DEF Chained
  <2> QED
    BY <1>3, <2>1, FollowsConcat, ValuesConcat DEF Stations
<1>5. Values(T) \union X = base + 1 .. top
  BY <1>1, <1>2, <1>3, <1>4 DEF Chained
<1> HIDE DEF T
<1>6. DOMAIN T = 1 .. Len(T) /\ \A i \in 1 .. Len(T) : T[i] \in Nat
  BY <1>4, LenProperties, ElementOfSeq DEF Stations
<1>7. (ToSet(T) \ {0}) \union X = base + 1 .. top
  BY <1>5, <1>6 DEF ToSet, Values
<1>8. ASSUME NEW i \in DOMAIN T
      PROVE  T[i] \in {0, base + 1} \/ T[i] - 1 \in X \/ \E j \in 1 .. i - 1 : T[j] = T[i] - 1
  <2>1. T[i] # 0 => T[i] - 1 \in {base} \union X \/ \E j \in 1 .. i - 1 : T[j] = T[i] - 1
    BY <1>4, <1>6, <1>8 DEF Follows
  <2>2. T[i] \in Nat
    BY <1>6, <1>8
  <2> QED
    BY <2>1, <2>2
<1> QED
  BY <1>7, <1>8 DEF Unbroken, T, T4, T3, T2

\* From when the provider is ready on, as long as the broker remembers its
\* session, every number that was sent on a topic is somewhere between the
\* broker and the output, or was handed to a stream without room or reader, and
\* none comes before its predecessor unless that was missed: input_monitor,
\* message_stream and publish_stream lose nothing else and overtake nothing.
THEOREM NothingIsMissed == Spec => []NothingMissed
<1>1. TypeInv /\ NumbersInv => NothingMissed
  <2> SUFFICES ASSUME TypeInv, NumbersInv, started, ~forgot, NEW v \in Topics
               PROVE  /\ (ToSet(Trail(v)) \ {0}) \union missed[v] = since[v] + 1 .. sent[v]
                      /\ \A i \in DOMAIN Trail(v) :
                           \/ Trail(v)[i] \in {0, since[v] + 1}
                           \/ Trail(v)[i] - 1 \in missed[v]
                           \/ \E j \in 1 .. i - 1 : Trail(v)[j] = Trail(v)[i] - 1
    BY DEF NothingMissed
  <2>1. ChainOf(v)
    BY DEF NumbersInv, TaskStage, Watching
  <2> DEFINE base == since[v]
             top == sent[v]
             X == missed[v]
             O == Outgoing(v)
             C == channel[v]
             M == Numbers(v, <<message>>)
             I == Numbers(v, inbox)
             S == Numbers(v, session)
             F == Numbers(v, flight)
  <2>2. /\ base \in Nat /\ top \in Nat
        /\ O \in Stations /\ C \in Stations /\ M \in Stations /\ I \in Stations /\ S \in Stations
    BY StationsOf
  <2>3. Chained(base, top, X, O, C, M, I, S, F)
    BY <2>1 DEF ChainOf
  <2>4. Trail(v) = O \o C \o M \o I \o S
    BY DEF Trail
  <2> HIDE DEF base, top, X, O, C, M, I, S, F
  <2>5. Unbroken(base, top, X, Trail(v))
    BY <2>2, <2>3, <2>4, ChainIsTrail
  <2> QED
    BY <2>5 DEF Unbroken, base, top, X
<1>2. Spec => [](TypeInv /\ NumbersInv)
  <2>1. Init => TypeInv /\ NumbersInv
    BY InitTypeInv, InitNumbersInv
  <2>2. TypeInv /\ NumbersInv /\ [Next]_vars => (TypeInv /\ NumbersInv)'
    BY NextTypeInv, NextNumbersInv
  <2> QED
    BY <2>1, <2>2, PTL DEF Spec
<1> QED
  BY <1>1, <1>2, PTL

-----------------------------------------------------------------------------
(* The refinement of InOrder.  A value held for publication is due: what   *)
(* goes out of a topic is the first station of its chain.                  *)

\* What a publisher of a listening process holds may come out.
LEMMA HeldIsDue ==
  ASSUME TypeInv, NumbersInv, NEW v \in Monitored, task[v][1] = "publish", process = "running"
  PROVE  /\ subscribed \/ forgot
         /\ task[v][2] \in 1 .. MaxMessages
         /\ forgot \/ (Transport!Sent(v, task[v][2]) /\ Transport!Due(v, task[v][2]))
<1> DEFINE n == task[v][2]
           s == published[v]
<1>1. (subscribed \/ forgot) /\ (~forgot => ChainOf(v)) /\ v \in Topics
  BY RunningStarted DEF NumbersInv, TaskStage, Watching, Monitored
<1>2. n \in 1 .. MaxMessages /\ n \in Nat /\ n # 0
  BY TaskParts, MqttAssumption DEF TypeInv, TypeOK
<1>3. s \in Seq(Nat) /\ Outgoing(v) = Append(s, n)
  BY Held
<1>4. since[v] \in Nat /\ sent[v] \in Nat
  BY <1>1, StationsOf
<1> HIDE DEF n, s
<1>5. ASSUME ~forgot
      PROVE  n \in since[v] + 1 .. sent[v] /\ (n - 1 \in {since[v]} \union missed[v] \/ n - 1 \in Values(s))
  <2> DEFINE O == Append(s, n)
  <2>1. Follows(since[v], missed[v], O) /\ Values(O) \subseteq since[v] + 1 .. sent[v]
    BY <1>1, <1>3, <1>5 DEF ChainOf, Chained
  <2>2. /\ Len(O) = Len(s) + 1 /\ Len(s) \in Nat /\ O[Len(s) + 1] = n
        /\ \A j \in 1 .. Len(s) : O[j] = s[j]
    BY <1>2, <1>3, AppendProperties, LenProperties
  <2>3. n \in Values(O)
    BY <1>2, <1>3, ValuesAppend
  <2> HIDE DEF O
  <2>4. n - 1 \in {since[v]} \union missed[v] \/ \E j \in 1 .. Len(s) : s[j] # 0 /\ s[j] = n - 1
    BY <1>2, <2>1, <2>2 DEF Follows
  <2> QED
    BY <2>1, <2>3, <2>4 DEF Values
<1>6. \A x \in Values(s) : \E i \in DOMAIN s : s[i] = x
  BY <1>3, LenProperties DEF Values
<1>7. ~forgot => Transport!Sent(v, n) /\ Transport!Due(v, n)
  BY <1>2, <1>4, <1>5, <1>6 DEF Transport!Sent, Transport!Due, s
<1> QED
  BY <1>1, <1>2, <1>7 DEF n

\* What nobody takes was sent since the subscription.
LEMMA MissIsLose ==
  ASSUME TypeInv, NumbersInv, TypeInv', NumbersInv',
         NEW s \in Seq(Message \union {Lost}), Miss(s), subscribed \/ forgot,
         UNCHANGED <<sent, subscribed, since, published, forgot>>
  PROVE  Transport!Lose
<1>1. missed' \in [Topics -> SUBSET (1 .. MaxMessages)]
  BY DEF TypeInv, TypeOK
<1>2. ASSUME NEW v \in Topics PROVE missed[v] \subseteq missed'[v]
  BY DEF Miss
<1>3. ASSUME NEW v \in Topics, ~forgot, NEW k \in missed'[v] PROVE Transport!Sent(v, k)
  <2>1. ChainOf(v)'
    BY <1>3 DEF NumbersInv, Watching
  <2>2. missed'[v] \subseteq since'[v] + 1 .. sent'[v]
    BY <2>1 DEF ChainOf, Chained
  <2>3. since[v] \in Nat /\ sent[v] \in Nat
    BY StationsOf
  <2> QED
    BY <1>3, <2>2, <2>3 DEF Transport!Sent
<1> QED
  BY <1>1, <1>2, <1>3 DEF Transport!Lose

\* Every step of the broker and the process is one of InOrder or changes
\* nothing of it.
LEMMA NextTransport ==
  ASSUME TypeInv, NumbersInv, [Next]_vars
  PROVE  [Transport!Next]_Transport!vars
<1> USE DEF broker, connection, reader, output
<1>0. TypeInv' /\ NumbersInv'
  BY NextTypeInv, NextNumbersInv
<1>1. UNCHANGED <<sent, subscribed, since, published, missed, forgot>> => [Transport!Next]_Transport!vars
  BY DEF Transport!vars
<1>2. CASE \E v \in Topics : Send(v)
  <2>1. PICK v \in Topics : Send(v)
    BY <1>2
  <2>2. Transport!Send(v)
    BY <2>1 DEF Send, Transport!Send
  <2> QED
    BY <2>2 DEF Transport!Next
<1>3. CASE Subscribe
  <2>1. CASE subscribed \/ forgot
    <3>1. UNCHANGED <<sent, since, published, missed, forgot>> /\ subscribed' = TRUE
      BY <1>3, <2>1 DEF Subscribe
    <3>2. (subscribed \/ forgot)' = (subscribed \/ forgot)
      BY <2>1, <3>1
    <3> QED
      BY <3>1, <3>2 DEF Transport!vars
  <2>2. CASE ~(subscribed \/ forgot)
    <3>1. Transport!Open
      BY <1>3, <2>2 DEF Subscribe, Transport!Open
    <3> QED
      BY <3>1 DEF Transport!Next
  <2> QED
    BY <2>1, <2>2
<1>4. CASE Stop
  <2>1. /\ UNCHANGED <<sent, since, published, missed>>
        /\ \E kept \in BOOLEAN : /\ subscribed' = (subscribed /\ kept)
                                 /\ forgot' = (forgot \/ (subscribed /\ ~kept))
    BY <1>4 DEF Stop, Disconnected
  <2>2. {subscribed, forgot} \subseteq BOOLEAN
    BY DEF TypeInv, TypeOK
  <2>3. /\ (subscribed \/ forgot)' = (subscribed \/ forgot)
        /\ forgot' = forgot \/ forgot' = TRUE
    BY <2>1, <2>2
  <2>4. forgot' = TRUE => Transport!Forget
    BY <2>1, <2>3 DEF Transport!Forget
  <2>5. forgot' = forgot => [Transport!Next]_Transport!vars
    BY <2>1, <2>3 DEF Transport!vars
  <2> QED
    BY <2>3, <2>4, <2>5 DEF Transport!Next
<1>5. ASSUME NEW v \in Monitored, Publish(v) \/ PublishUnanswered(v)
      PROVE  [Transport!Next]_Transport!vars
  <2>1. task[v][1] = "publish" /\ process = "running"
    BY <1>5 DEF Publish, PublishUnanswered
  <2>2. \/ UNCHANGED <<sent, subscribed, since, published, missed, forgot>>
        \/ /\ published' = [published EXCEPT ![v] = Append(@, task[v][2])]
           /\ UNCHANGED <<sent, subscribed, since, missed, forgot>>
    BY <1>5 DEF Publish, PublishUnanswered
  <2>3. CASE published' = [published EXCEPT ![v] = Append(@, task[v][2])]
              /\ UNCHANGED <<sent, subscribed, since, missed, forgot>>
    <3>1. Transport!Deliver(v, task[v][2])
      BY <2>1, <2>3, HeldIsDue DEF Transport!Deliver
    <3> QED
      BY <2>1, <3>1, HeldIsDue DEF Transport!Next
  <2> QED
    BY <1>1, <2>2, <2>3
<1>6. CASE Deliver
  <2>1. /\ Takes => UNCHANGED missed
        /\ ~Takes => Miss(<<Head(session)>>)
        /\ UNCHANGED <<sent, subscribed, since, published, forgot>> /\ session # <<>>
    BY <1>6 DEF Deliver
  <2>2. subscribed \/ forgot
    BY <2>1 DEF NumbersInv, Untouched
  <2>3. Head(session) \in Message
    BY <2>1, HeadTailProperties DEF TypeInv, TypeOK
  <2>4. <<Head(session)>> \in Seq(Message \union {Lost})
    BY <2>3
  <2>5. ~Takes => Transport!Lose
    BY <1>0, <2>1, <2>2, <2>4, MissIsLose
  <2> QED
    BY <1>1, <2>1, <2>5 DEF Transport!Next
<1>7. CASE Reopen
  <2>1. /\ Miss(inbox) /\ inbox \in Seq(Message \union {Lost}) /\ pc = "reopen"
        /\ UNCHANGED <<sent, subscribed, since, published, forgot>>
    BY <1>7 DEF Reopen, TypeInv, TypeOK
  <2>2. subscribed \/ forgot
    BY <2>1 DEF NumbersInv, TaskStage, Open
  <2>3. Transport!Lose
    BY <1>0, <2>1, <2>2, MissIsLose
  <2> QED
    BY <2>3 DEF Transport!Next
<1>8. CASE \/ LoseInput \/ LoseOutput \/ Restart \/ Connect \/ Answer \/ Resubscribe \/ Read
           \/ HandOn \/ Reconnect \/ Start \/ EndRun \/ UNCHANGED vars
           \/ \E v \in Monitored : Take(v) \/ ReconnectOutput(v)
  BY <1>1, <1>8 DEF LoseInput, Disconnected, LoseOutput, Restart, Connect, Answer, Resubscribe, Read,
     HandOn, Reconnect, Start, EndRun, vars, Take, ReconnectOutput
<1> QED
  BY <1>2, <1>3, <1>4, <1>5, <1>6, <1>7, <1>8 DEF Next

\* The broker, the input provider, the wires and the output handler implement
\* InOrder: what is published on a topic are numbers sent since the broker took
\* the subscription, none before its predecessor unless that was handed to a
\* stream without room or reader, repetitions allowed, until the broker forgets
\* the subscription.
THEOREM TransportIsInOrder == Spec => ImplementsTransport
<1>1. Init => Transport!Init
  BY DEF Init, Transport!Init
<1>2. Spec => [](TypeInv /\ NumbersInv)
  <2>1. Init => TypeInv /\ NumbersInv
    BY InitTypeInv, InitNumbersInv
  <2>2. TypeInv /\ NumbersInv /\ [Next]_vars => (TypeInv /\ NumbersInv)'
    BY NextTypeInv, NextNumbersInv
  <2> QED
    BY <2>1, <2>2, PTL DEF Spec
<1>3. TypeInv /\ NumbersInv /\ [Next]_vars => [Transport!Next]_Transport!vars
  BY NextTransport
<1> QED
  BY <1>1, <1>2, <1>3, PTL DEF Spec, ImplementsTransport, Transport!Spec
=============================================================================
