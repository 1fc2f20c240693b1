------------------------- MODULE AsyncMonitorProofs -------------------------
(***************************************************************************)
(* Theorems about AsyncMonitor, for all constants.  The inductive invariant *)
(* counts the values of every stream (Counts), says that a manager keeps    *)
(* every reader that still listens and loses nothing for it (Listening),    *)
(* and that what has ended without a failure was read to its end (Drained).*)
(***************************************************************************)
EXTENDS AsyncMonitor, TLAPS

\* The token is cancelled exactly when the last output stream was dropped.
GuardInv == cancelled <=> open = {}

FeedInv ==
  /\ feed # "running" => hand = None
  /\ feed = "ok" => "closed" \in faults
  /\ result = "ok" /\ "closed" \notin faults => ~failed /\ open = {}

InTodo(v, c) == IF c \in todo[v] THEN 1 ELSE 0

\* The values of every stream, counted at its source and at its readers.
WithinSent == \A v \in InputVars : taken[v] <= sent[v]
TodoListed == \A v \in Vars : todo[v] \subseteq subscribers[v]
Delivered ==
  \A v \in Vars : \A c \in Readers(v) :
    IF Direct(v) THEN got[v][c] = taken[v]
                 ELSE got[v][c] + buf[v][c] + InTodo(v, c) <= taken[v]
InStep ==
  \A o \in Outputs : \A v \in Uses[o] :
    taken[o] <= got[v][o] /\ got[v][o] <= taken[o] + 1
InPrint ==
  \A o \in Outputs :
    published[o] <= got[o][Handler] /\ got[o][Handler] <= published[o] + 1
Counts == WithinSent /\ TodoListed /\ Delivered /\ InStep /\ InPrint

\* Operand v of output o has ended and was read by o to its end.
Finished(v, o) ==
  IF Direct(v)
    THEN InputEnded(v)
    ELSE /\ v \notin managed
         /\ taken[v] = got[v][o]
         /\ v \in InputVars => InputEnded(v)

Exhausted(v) ==
  IF v \in InputVars
    THEN InputEnded(v)
    ELSE \E u \in Uses[v] : got[u][v] = taken[v] /\ Finished(u, v)

\* A manager holds a sender for each reader that still listens; until the
\* token is cancelled it loses no value for it, and ends only with its source.
Listening ==
  \A v \in Managed : \A c \in Readers(v) :
    Attached(v, c) =>
      /\ c \in subscribers[v]
      /\ ~cancelled =>
           /\ got[v][c] + buf[v][c] + InTodo(v, c) = taken[v]
           /\ v \notin managed => todo[v] = {} /\ Exhausted(v)

\* No stream was dropped before its end.
Clean ==
  /\ ~failed
  /\ result = "running" \/ (result = "ok" /\ "closed" \notin faults)

Drained ==
  Clean => \A o \in Outputs \ open : published[o] = taken[o] /\ Exhausted(o)

CountInv == GuardInv /\ FeedInv /\ Counts /\ Listening /\ Drained

-----------------------------------------------------------------------------
(* How the streams are connected.                                          *)

LEMMA Wiring ==
  /\ Handler \in Consumers /\ Handler \notin Outputs
  /\ Outputs \subseteq Vars /\ InputVars \subseteq Vars
  /\ \A o \in Outputs : Uses[o] \subseteq Vars /\ Uses[o] # {}
  /\ \A v \in Vars : Readers(v) \subseteq Consumers
  /\ \A o \in Outputs : \A v \in Uses[o] : o \in Readers(v)
  /\ \A o \in Outputs : Handler \in Readers(o)
  /\ \A v \in InputVars : v \notin Outputs /\ Readers(v) \subseteq Outputs
  /\ \A v \in Vars : v \in InputVars \/ v \in Outputs
  /\ \A v \in Vars : \A c \in Readers(v) : c = Handler \/ (c \in Outputs /\ v \in Uses[c])
  /\ \A v \in Vars : \A c, d \in Readers(v) : Direct(v) => c = d
  /\ \A o, p \in Outputs : p \in Uses[o] => ~Direct(p)
<1> USE DEF Vars, Handler
<1>1. Handler \in Consumers /\ Handler \notin Outputs
  BY AsyncMonitorAssumption DEF Consumers, Outputs
<1>2. Outputs \subseteq Vars /\ InputVars \subseteq Vars
  OBVIOUS
<1>3. \A o \in Outputs : Uses[o] \subseteq Vars /\ Uses[o] # {}
  BY AsyncMonitorAssumption
<1>4. \A v \in Vars : Readers(v) \subseteq Consumers
  BY DEF Readers, Consumers
<1>5. \A o \in Outputs : \A v \in Uses[o] : o \in Readers(v)
  BY DEF Readers
<1>6. \A o \in Outputs : Handler \in Readers(o)
  BY DEF Readers
<1>7. \A v \in InputVars : v \notin Outputs /\ Readers(v) \subseteq Outputs
  BY AsyncMonitorAssumption DEF Readers
<1>8. \A v \in Vars : v \in InputVars \/ v \in Outputs
  OBVIOUS
<1>9. \A v \in Vars : \A c \in Readers(v) : c = Handler \/ (c \in Outputs /\ v \in Uses[c])
  BY DEF Readers
<1>10. \A v \in Vars : \A c, d \in Readers(v) : Direct(v) => c = d
  BY DEF Direct
<1>11. \A o, p \in Outputs : p \in Uses[o] => ~Direct(p)
  BY <1>1, <1>5, <1>6, <1>10, <1>2
<1> QED
  BY <1>1, <1>2, <1>3, <1>4, <1>5, <1>6, <1>7, <1>8, <1>9, <1>10, <1>11

-----------------------------------------------------------------------------
(* Types.                                                                  *)

\* One entry of a table of counters changes.
LEMMA Tables ==
  ASSUME NEW S, NEW f \in [Vars -> [Consumers -> S]], NEW v \in Vars, NEW c \in Consumers
  PROVE  /\ f[v][c] + 1 \in S => Increment(f, v, c) \in [Vars -> [Consumers -> S]]
         /\ f[v][c] - 1 \in S => Decrement(f, v, c) \in [Vars -> [Consumers -> S]]
<1>1. ASSUME NEW e \in S
      PROVE  [f EXCEPT ![v][c] = e] \in [Vars -> [Consumers -> S]]
  <2>1. [f[v] EXCEPT ![c] = e] \in [Consumers -> S]
    OBVIOUS
  <2> QED
    BY <2>1
<1> QED
  BY <1>1 DEF Increment, Decrement

LEMMA InitType == Init => TypeOK
<1> SUFFICES ASSUME Init PROVE TypeOK
  OBVIOUS
<1>1. 0 \in 0..SubCapacity
  BY AsyncMonitorAssumption
<1>2. /\ buf \in [Vars -> [Consumers -> 0..SubCapacity]]
      /\ got \in [Vars -> [Consumers -> Nat]]
  BY <1>1 DEF Init
<1>3. subscribers \in [Vars -> SUBSET Consumers]
  BY Wiring DEF Init
<1> QED
  BY <1>2, <1>3 DEF Init, TypeOK

LEMMA ReceiveType ==
  ASSUME TypeOK, NEW v \in Vars, NEW c \in Consumers, Receive(v, c)
  PROVE  /\ taken' \in [Vars -> Nat]
         /\ buf' \in [Vars -> [Consumers -> 0..SubCapacity]]
         /\ got' \in [Vars -> [Consumers -> Nat]]
<1>1. /\ taken \in [Vars -> Nat]
      /\ buf \in [Vars -> [Consumers -> 0..SubCapacity]]
      /\ got \in [Vars -> [Consumers -> Nat]]
  BY DEF TypeOK
<1>2. taken' \in [Vars -> Nat]
  BY <1>1 DEF Receive
<1>3. got' \in [Vars -> [Consumers -> Nat]]
  BY <1>1 DEF Receive, Increment
<1>4. buf' \in [Vars -> [Consumers -> 0..SubCapacity]]
  <2>1. buf[v][c] > 0 => buf[v][c] - 1 \in 0..SubCapacity
    BY <1>1, AsyncMonitorAssumption
  <2>2. buf[v][c] - 1 \in 0..SubCapacity =>
          Decrement(buf, v, c) \in [Vars -> [Consumers -> 0..SubCapacity]]
    BY <1>1, Tables, Zenon
  <2> QED
    BY <1>1, <2>1, <2>2 DEF Receive
<1> QED
  BY <1>2, <1>3, <1>4

LEMMA NextType == TypeOK /\ [Next]_vars => TypeOK'
<1> SUFFICES ASSUME TypeOK, [Next]_vars PROVE TypeOK'
  OBVIOUS
<1>1. CASE Broker
  <2>1. ASSUME NEW v \in InputVars, MessageArrives(v) PROVE TypeOK'
    <3>1. faults' \in SUBSET (Faults \cup {"unread"})
      BY <2>1 DEF TypeOK, MessageArrives
    <3> QED
      BY <2>1, <3>1 DEF TypeOK, MessageArrives, varsManager, varsHandler
  <2>2. CASE BadPayload
    BY <2>2 DEF TypeOK, BadPayload, varsManager, varsHandler
  <2>3. CASE ConnectionCloses
    BY <2>3 DEF TypeOK, ConnectionCloses, varsManager, varsHandler
  <2> QED
    BY <1>1, <2>1, <2>2, <2>3 DEF Broker
<1>2. CASE Provider
  BY <1>2 DEF TypeOK, Provider, SendToVar, SendRefused, varsManager, varsHandler
<1>3. ASSUME NEW v \in Vars, Manager(v) PROVE TypeOK'
  <2>1. CASE ManagerReads(v)
    BY <2>1 DEF TypeOK, ManagerReads, Recipients, varsProvider, varsHandler
  <2>2. ASSUME NEW c \in Consumers, ManagerSends(v, c) PROVE TypeOK'
    <3>1. buf' \in [Vars -> [Consumers -> 0..SubCapacity]]
      <4>1. buf[v][c] < SubCapacity => buf[v][c] + 1 \in 0..SubCapacity
        BY AsyncMonitorAssumption DEF TypeOK
      <4>2. buf \in [Vars -> [Consumers -> 0..SubCapacity]]
        BY DEF TypeOK
      <4>3. buf[v][c] + 1 \in 0..SubCapacity =>
              Increment(buf, v, c) \in [Vars -> [Consumers -> 0..SubCapacity]]
        BY <4>2, Tables, Zenon
      <4> QED
        BY <2>2, <4>1, <4>2, <4>3 DEF ManagerSends, SubHasRoom
    <3> QED
      BY <2>2, <3>1 DEF TypeOK, ManagerSends, varsProvider, varsHandler
  <2>3. CASE ManagerEnds(v)
    BY <2>3 DEF TypeOK, ManagerEnds, varsProvider, varsHandler
  <2> QED
    BY <1>3, <2>1, <2>2, <2>3 DEF Manager
<1>4. ASSUME NEW o \in Outputs, Output(o) PROVE TypeOK'
  <2>1. ASSUME NEW v \in Vars, OperandArrives(o, v) PROVE TypeOK'
    BY <2>1, Wiring, ReceiveType DEF TypeOK, OperandArrives, Consumers,
       varsProvider, varsManager, varsHandler
  <2>2. CASE ValueArrives(o)
    BY <2>2, Wiring, ReceiveType DEF TypeOK, ValueArrives, varsProvider,
       varsManager, varsHandler
  <2>3. CASE Publish(o)
    BY <2>3 DEF TypeOK, Publish, varsProvider, varsManager
  <2>4. CASE PublishFails(o)
    BY <2>4 DEF TypeOK, PublishFails, Drop, varsProvider, varsManager
  <2>5. CASE StreamEnds(o)
    BY <2>5 DEF TypeOK, StreamEnds, Drop, varsProvider, varsManager
  <2> QED
    BY <1>4, <2>1, <2>2, <2>3, <2>4, <2>5 DEF Output
<1>5. CASE OutputCompletes
  BY <1>5 DEF TypeOK, OutputCompletes, varsProvider, varsManager, varsHandler
<1>6. CASE InputCompletes
  BY <1>6 DEF TypeOK, InputCompletes, Drop, varsProvider, varsManager
<1>7. CASE UNCHANGED vars
  BY <1>7 DEF TypeOK, vars, varsProvider, varsManager, varsHandler
<1> QED
  BY <1>1, <1>2, <1>3, <1>4, <1>5, <1>6, <1>7 DEF Next

\* Types: in particular no channel holds more than its capacity.
THEOREM TypeCorrect == Spec => []TypeOK
<1>1. Init => TypeOK
  BY InitType
<1>2. TypeOK /\ [Next]_vars => TypeOK'
  BY NextType
<1> QED
  BY <1>1, <1>2, PTL DEF Spec

-----------------------------------------------------------------------------
(* Counting.                                                               *)

\* What Receive does to each counter.
LEMMA Received ==
  ASSUME TypeOK, NEW v \in Vars, NEW c \in Consumers, Receive(v, c)
  PROVE  /\ \A w \in Vars : \A d \in Consumers :
              got'[w][d] = IF w = v /\ d = c THEN got[v][c] + 1 ELSE got[w][d]
         /\ \A w \in Vars : \A d \in Consumers :
              buf'[w][d] = IF ~Direct(v) /\ w = v /\ d = c THEN buf[v][c] - 1 ELSE buf[w][d]
         /\ \A w \in Vars :
              taken'[w] = IF Direct(v) /\ w = v THEN taken[v] + 1 ELSE taken[w]
         /\ Direct(v) => HasNext(v)
         /\ ~Direct(v) => buf[v][c] > 0
<1>1. got \in [Vars -> [Consumers -> Nat]] /\ taken \in [Vars -> Nat]
  BY DEF TypeOK
<1>2. buf \in [Vars -> [Consumers -> 0..SubCapacity]]
  BY DEF TypeOK
<1>3. ASSUME NEW w \in Vars, NEW d \in Consumers
      PROVE  Increment(got, v, c)[w][d] = IF w = v /\ d = c THEN got[v][c] + 1 ELSE got[w][d]
  BY <1>1 DEF Increment
<1>4. ASSUME NEW w \in Vars, NEW d \in Consumers
      PROVE  Decrement(buf, v, c)[w][d] = IF w = v /\ d = c THEN buf[v][c] - 1 ELSE buf[w][d]
  BY <1>2 DEF Decrement
<1> QED
  BY <1>1, <1>3, <1>4 DEF Receive

LEMMA ReceiveCounts ==
  ASSUME TypeOK, Counts, NEW v \in Vars, NEW c \in Readers(v), Receive(v, c),
         c # Handler => got[v][c] = taken[c],
         c = Handler => got[v][c] = published[v],
         UNCHANGED <<sent, todo, subscribers, published>>
  PROVE  Counts'
<1>1. c \in Consumers
  BY Wiring
<1>2. /\ \A w \in Vars : \A d \in Consumers :
           got'[w][d] = IF w = v /\ d = c THEN got[v][c] + 1 ELSE got[w][d]
      /\ \A w \in Vars : \A d \in Consumers :
           buf'[w][d] = IF ~Direct(v) /\ w = v /\ d = c THEN buf[v][c] - 1 ELSE buf[w][d]
      /\ \A w \in Vars :
           taken'[w] = IF Direct(v) /\ w = v THEN taken[v] + 1 ELSE taken[w]
      /\ Direct(v) => HasNext(v)
  BY <1>1, Received
<1>3. WithinSent'
  BY <1>2, Wiring DEF Counts, WithinSent, HasNext, TypeOK
<1>4. TodoListed'
  BY DEF Counts, TodoListed
<1>5. Delivered'
  <2> SUFFICES ASSUME NEW w \in Vars, NEW d \in Readers(w)
               PROVE  IF Direct(w) THEN got'[w][d] = taken'[w]
                      ELSE got'[w][d] + buf'[w][d] + InTodo(w, d)' <= taken'[w]
    BY DEF Delivered
  <2>1. d \in Consumers /\ InTodo(w, d)' = InTodo(w, d) /\ InTodo(w, d) \in Nat
    BY Wiring DEF InTodo
  <2>2. IF Direct(w) THEN got[w][d] = taken[w]
        ELSE got[w][d] + buf[w][d] + InTodo(w, d) <= taken[w]
    BY DEF Counts, Delivered
  <2>3. /\ got[w][d] \in Nat /\ buf[w][d] \in Int /\ taken[w] \in Nat
        /\ got[v][c] \in Nat /\ buf[v][c] \in Int /\ taken[v] \in Nat
    BY <1>1, <2>1 DEF TypeOK
  <2>4. Direct(v) /\ w = v => d = c
    BY Wiring
  <2> QED
    BY <1>1, <1>2, <2>1, <2>2, <2>3, <2>4
<1>6. InStep'
  <2> SUFFICES ASSUME NEW o \in Outputs, NEW w \in Uses[o]
               PROVE  taken'[o] <= got'[w][o] /\ got'[w][o] <= taken'[o] + 1
    BY DEF InStep
  <2>1. w \in Vars /\ o \in Vars /\ o \in Consumers /\ o # Handler
    BY Wiring DEF Consumers
  <2>2. taken[o] <= got[w][o] /\ got[w][o] <= taken[o] + 1
    BY DEF Counts, InStep
  <2>3. taken[o] \in Nat /\ got[w][o] \in Nat
    BY <2>1 DEF TypeOK
  <2>4. Direct(v) /\ o = v => c = Handler /\ got[w][o] = taken[o] + 1
    BY <1>2, Wiring DEF HasNext, Holds
  <2>5. c = o => c # Handler
    BY <2>1
  <2> QED
    BY <1>2, <2>1, <2>2, <2>3, <2>4, <2>5
<1>7. InPrint'
  <2> SUFFICES ASSUME NEW o \in Outputs
               PROVE  published'[o] <= got'[o][Handler] /\ got'[o][Handler] <= published'[o] + 1
    BY DEF InPrint
  <2>1. o \in Vars /\ Handler \in Consumers
    BY Wiring
  <2> QED
    BY <1>2, <2>1 DEF Counts, InPrint, TypeOK
<1> QED
  BY <1>3, <1>4, <1>5, <1>6, <1>7 DEF Counts

\* What ManagerSends does to a counter.
LEMMA SentOn ==
  ASSUME TypeOK, NEW v \in Vars, NEW c \in Consumers, ManagerSends(v, c),
         NEW w \in Vars, NEW d \in Consumers
  PROVE  /\ buf'[w][d] + InTodo(w, d)' <= buf[w][d] + InTodo(w, d)
         /\ Attached(v, c) => buf'[w][d] + InTodo(w, d)' = buf[w][d] + InTodo(w, d)
         /\ ~(w = v /\ d = c) => buf'[w][d] + InTodo(w, d)' = buf[w][d] + InTodo(w, d)
<1>1. /\ buf \in [Vars -> [Consumers -> Int]]
      /\ todo \in [Vars -> SUBSET Consumers]
  BY AsyncMonitorAssumption DEF TypeOK
<1>2. Increment(buf, v, c)[w][d] = IF w = v /\ d = c THEN buf[v][c] + 1 ELSE buf[w][d]
  BY <1>1 DEF Increment
<1>3. InTodo(w, d)' = IF w = v /\ d = c THEN 0 ELSE InTodo(w, d)
  BY <1>1 DEF ManagerSends, InTodo
<1>4. InTodo(v, c) = 1 /\ InTodo(w, d) \in {0, 1}
  BY DEF ManagerSends, InTodo
<1>5. buf'[w][d] = (IF Attached(v, c) /\ w = v /\ d = c THEN buf[v][c] + 1 ELSE buf[w][d])
  BY <1>2 DEF ManagerSends
<1>6. buf[w][d] \in Int /\ buf[v][c] \in Int
  BY <1>1
<1> QED
  BY <1>3, <1>4, <1>5, <1>6

LEMMA NextCounts == TypeOK /\ Counts /\ [Next]_vars => Counts'
<1> SUFFICES ASSUME TypeOK, Counts, [Next]_vars PROVE Counts'
  OBVIOUS
<1>1. CASE UNCHANGED <<sent, taken, todo, subscribers, buf, got, published>>
  BY <1>1 DEF Counts, WithinSent, TodoListed, Delivered, InTodo, InStep, InPrint
<1>2. CASE SendToVar
  <2>1. UNCHANGED <<taken, todo, subscribers, buf, got, published>>
    BY <1>2 DEF SendToVar, varsManager, varsHandler
  <2>2. WithinSent'
    BY <1>2, <2>1 DEF Counts, WithinSent, SendToVar, TypeOK, Vars
  <2> QED
    BY <2>1, <2>2 DEF Counts, TodoListed, Delivered, InTodo, InStep, InPrint
<1>3. ASSUME NEW v \in Vars, ManagerReads(v) PROVE Counts'
  <2>1. UNCHANGED <<sent, subscribers, buf, got, published>>
    BY <1>3 DEF ManagerReads, varsProvider, varsHandler
  <2>2. \A w \in Vars : /\ taken[w] \in Nat
                        /\ taken'[w] = IF w = v THEN taken[v] + 1 ELSE taken[w]
                        /\ todo'[w] = IF w = v THEN subscribers[v] ELSE todo[w]
    BY <1>3 DEF ManagerReads, TypeOK, Recipients
  <2>3. ~Direct(v) /\ todo[v] = {} /\ HasNext(v)
    BY <1>3 DEF ManagerReads, TypeOK, Managed
  <2>4. WithinSent'
    BY <2>1, <2>2, <2>3, Wiring, SMTT(30) DEF Counts, WithinSent, HasNext, TypeOK
  <2>5. TodoListed'
    BY <2>1, <2>2 DEF Counts, TodoListed
  <2>6. Delivered'
    <3> SUFFICES ASSUME NEW w \in Vars, NEW d \in Readers(w)
                 PROVE  IF Direct(w) THEN got'[w][d] = taken'[w]
                        ELSE got'[w][d] + buf'[w][d] + InTodo(w, d)' <= taken'[w]
      BY DEF Delivered
    <3>1. /\ got[w][d] \in Nat /\ buf[w][d] \in Int
          /\ InTodo(w, d) \in {0, 1} /\ InTodo(w, d)' \in {0, 1}
      BY Wiring DEF TypeOK, InTodo
    <3>2. w = v => InTodo(w, d) = 0
      BY <2>3 DEF InTodo
    <3>3. w # v => InTodo(w, d)' = InTodo(w, d)
      BY <2>2 DEF InTodo
    <3> QED
      BY <2>1, <2>2, <2>3, <3>1, <3>2, <3>3 DEF Counts, Delivered
  <2>7. InStep'
    <3> SUFFICES ASSUME NEW o \in Outputs, NEW w \in Uses[o]
                 PROVE  taken'[o] <= got[w][o] /\ got[w][o] <= taken'[o] + 1
      BY <2>1 DEF InStep
    <3>1. o = v => got[w][o] = taken[o] + 1
      BY <2>3, Wiring DEF HasNext, Holds
    <3>2. w \in Vars /\ o \in Consumers /\ o \in Vars
      BY Wiring DEF Consumers
    <3> QED
      BY <2>2, <3>1, <3>2 DEF Counts, InStep, TypeOK
  <2> QED
    BY <2>1, <2>4, <2>5, <2>6, <2>7 DEF Counts, InPrint
<1>4. ASSUME NEW v \in Vars, NEW c \in Consumers, ManagerSends(v, c) PROVE Counts'
  <2>1. UNCHANGED <<sent, taken, got, published>>
    BY <1>4 DEF ManagerSends, varsProvider, varsHandler
  <2>2. TodoListed'
    BY <1>4 DEF Counts, TodoListed, ManagerSends, TypeOK
  <2>3. Delivered'
    <3> SUFFICES ASSUME NEW w \in Vars, NEW d \in Readers(w)
                 PROVE  IF Direct(w) THEN got'[w][d] = taken'[w]
                        ELSE got'[w][d] + buf'[w][d] + InTodo(w, d)' <= taken'[w]
      BY DEF Delivered
    <3>1. d \in Consumers
      BY Wiring
    <3>2. /\ got[w][d] \in Nat /\ buf[w][d] \in Int /\ buf'[w][d] \in Int /\ taken[w] \in Nat
          /\ InTodo(w, d) \in {0, 1} /\ InTodo(w, d)' \in {0, 1}
      BY <3>1, NextType DEF TypeOK, InTodo
    <3>3. buf'[w][d] + InTodo(w, d)' <= buf[w][d] + InTodo(w, d)
      BY <1>4, <3>1, SentOn
    <3> QED
      BY <2>1, <3>2, <3>3 DEF Counts, Delivered
  <2> QED
    BY <2>1, <2>2, <2>3 DEF Counts, WithinSent, InStep, InPrint
<1>5. ASSUME NEW v \in Vars, ManagerEnds(v) PROVE Counts'
  <2>1. UNCHANGED <<sent, taken, subscribers, buf, got, published>>
    BY <1>5 DEF ManagerEnds, varsProvider, varsHandler
  <2>2. \A w \in Vars : todo'[w] \subseteq todo[w]
    BY <1>5 DEF ManagerEnds, TypeOK
  <2>3. Delivered'
    <3> SUFFICES ASSUME NEW w \in Vars, NEW d \in Readers(w)
                 PROVE  IF Direct(w) THEN got'[w][d] = taken'[w]
                        ELSE got'[w][d] + buf'[w][d] + InTodo(w, d)' <= taken'[w]
      BY DEF Delivered
    <3>1. /\ got[w][d] \in Nat /\ buf[w][d] \in Int /\ taken[w] \in Nat
      BY Wiring DEF TypeOK
    <3>2. InTodo(w, d)' \in Int /\ InTodo(w, d) \in Int /\ InTodo(w, d)' <= InTodo(w, d)
      BY <2>2 DEF InTodo
    <3> QED
      BY <2>1, <3>1, <3>2 DEF Counts, Delivered
  <2> QED
    BY <2>1, <2>2, <2>3 DEF Counts, WithinSent, TodoListed, InStep, InPrint
<1>6. ASSUME NEW o \in Outputs, NEW v \in Vars, OperandArrives(o, v) PROVE Counts'
  <2>1. o \in Readers(v) /\ o # Handler /\ Receive(v, o)
    BY <1>6, Wiring DEF OperandArrives
  <2>2. got[v][o] = taken[o]
    <3>1. v \in Uses[o] /\ got[v][o] # taken[o] + 1
      BY <1>6 DEF OperandArrives, Holds
    <3>2. got[v][o] \in Nat /\ taken[o] \in Nat
      BY Wiring DEF TypeOK, Consumers
    <3> QED
      BY <3>1, <3>2 DEF Counts, InStep
  <2>3. UNCHANGED <<sent, todo, subscribers, published>>
    BY <1>6 DEF OperandArrives, varsProvider, varsManager, varsHandler
  <2> QED
    BY <2>1, <2>2, <2>3, ReceiveCounts
<1>7. ASSUME NEW o \in Outputs, ValueArrives(o) PROVE Counts'
  <2>1. Handler \in Readers(o) /\ o \in Vars /\ o # Handler /\ Receive(o, Handler)
    BY <1>7, Wiring DEF ValueArrives
  <2>2. got[o][Handler] = published[o]
    <3>1. ~(got[o][Handler] > published[o])
      BY <1>7 DEF ValueArrives, Publishing
    <3>2. got[o][Handler] \in Nat /\ published[o] \in Nat
      BY Wiring DEF TypeOK
    <3> QED
      BY <3>1, <3>2 DEF Counts, InPrint
  <2>3. UNCHANGED <<sent, todo, subscribers, published>>
    BY <1>7 DEF ValueArrives, varsProvider, varsManager, varsHandler
  <2> QED
    BY <2>1, <2>2, <2>3, ReceiveCounts
<1>8. ASSUME NEW o \in Outputs, Publish(o) PROVE Counts'
  <2>1. UNCHANGED <<sent, taken, todo, subscribers, buf, got>>
    BY <1>8 DEF Publish, varsProvider, varsManager
  <2>2. InPrint'
    BY <1>8, <2>1, Wiring DEF Counts, InPrint, Publish, Publishing, TypeOK
  <2> QED
    BY <2>1, <2>2 DEF Counts, WithinSent, TodoListed, Delivered, InTodo, InStep
<1>9. CASE Broker \/ SendRefused \/ OutputCompletes \/ InputCompletes \/ UNCHANGED vars
  BY <1>1, <1>9 DEF Broker, MessageArrives, BadPayload, ConnectionCloses, SendRefused,
     OutputCompletes, InputCompletes, vars, varsProvider, varsManager, varsHandler
<1>10. ASSUME NEW o \in Outputs, PublishFails(o) \/ StreamEnds(o) PROVE Counts'
  BY <1>1, <1>10 DEF PublishFails, StreamEnds, varsProvider, varsManager
<1> QED
  BY <1>2, <1>3, <1>4, <1>5, <1>6, <1>7, <1>8, <1>9, <1>10
     DEF Next, Provider, Manager, Output

-----------------------------------------------------------------------------
(* What has ended stays so.                                                *)

\* Streams, managers and senders are dropped and never made.
LEMMA Shrinking ==
  ASSUME TypeOK, [Next]_vars
  PROVE  /\ open' \subseteq open /\ managed' \subseteq managed
         /\ \A v \in Vars : \A c \in Consumers :
              /\ c \in subscribers'[v] => c \in subscribers[v]
              /\ Attached(v, c)' => Attached(v, c)
         /\ feed # "running" => feed' # "running"
<1>1. open' \subseteq open /\ managed' \subseteq managed
  BY DEF Next, Broker, Provider, Manager, Output, MessageArrives, BadPayload, ConnectionCloses,
     SendToVar, SendRefused, ManagerReads, ManagerSends, ManagerEnds, OperandArrives,
     ValueArrives, Publish, PublishFails, StreamEnds, Drop, OutputCompletes, InputCompletes,
     vars, varsProvider, varsManager, varsHandler
<1>2. \A v \in Vars : \A c \in Consumers : c \in subscribers'[v] => c \in subscribers[v]
  <2>1. ASSUME NEW w \in Vars, NEW d \in Consumers, ManagerSends(w, d),
               NEW v \in Vars, NEW c \in subscribers'[v]
        PROVE  c \in subscribers[v]
    BY <2>1 DEF TypeOK, ManagerSends
  <2>2. \/ subscribers' = subscribers
        \/ \E w \in Vars : \E d \in Consumers : ManagerSends(w, d)
    BY DEF Next, Broker, Provider, Manager, Output, MessageArrives, BadPayload,
       ConnectionCloses, SendToVar, SendRefused, ManagerReads, ManagerEnds, OperandArrives,
       ValueArrives, Publish, PublishFails, StreamEnds, OutputCompletes, InputCompletes,
       vars, varsProvider, varsManager, varsHandler
  <2> QED
    BY <2>1, <2>2
<1>3. \A v \in Vars : \A c \in Consumers : Attached(v, c)' => Attached(v, c)
  BY <1>1 DEF Attached, ExprAlive
<1>4. feed # "running" => feed' # "running"
  BY DEF Next, Broker, Provider, Manager, Output, MessageArrives, BadPayload, ConnectionCloses,
     SendToVar, SendRefused, ManagerReads, ManagerSends, ManagerEnds, OperandArrives,
     ValueArrives, Publish, PublishFails, StreamEnds, OutputCompletes, InputCompletes,
     vars, varsProvider, varsManager, varsHandler
<1> QED
  BY <1>1, <1>2, <1>3, <1>4

\* A source is read only by its owner, and never beyond what it holds.
LEMMA TakenStep ==
  ASSUME TypeOK, [Next]_vars, NEW v \in Vars
  PROVE  taken'[v] = taken[v] \/ (HasNext(v) /\ (Direct(v) \/ v \in managed))
<1>1. ASSUME NEW w \in Vars, ManagerReads(w)
      PROVE  taken'[v] = taken[v] \/ (HasNext(v) /\ v \in managed)
  BY <1>1 DEF ManagerReads, TypeOK
<1>2. ASSUME NEW w \in Vars, NEW c \in Consumers, Receive(w, c)
      PROVE  taken'[v] = taken[v] \/ (HasNext(v) /\ Direct(v))
  BY <1>2, Received
<1>3. ASSUME NEW o \in Outputs, NEW w \in Vars, OperandArrives(o, w)
      PROVE  taken'[v] = taken[v] \/ (HasNext(v) /\ Direct(v))
  BY <1>2, <1>3 DEF OperandArrives, Consumers
<1>4. ASSUME NEW o \in Outputs, ValueArrives(o)
      PROVE  taken'[v] = taken[v] \/ (HasNext(v) /\ Direct(v))
  BY <1>2, <1>4, Wiring DEF ValueArrives
<1> QED
  BY <1>1, <1>3, <1>4
     DEF Next, Broker, Provider, Manager, Output, MessageArrives, BadPayload, ConnectionCloses,
     SendToVar, SendRefused, ManagerSends, ManagerEnds, Publish, PublishFails, StreamEnds,
     OutputCompletes, InputCompletes, vars, varsProvider, varsManager, varsHandler

\* A reader receives only what is there for it.
LEMMA GotStep ==
  ASSUME TypeOK, [Next]_vars, NEW v \in Vars, NEW c \in Readers(v)
  PROVE  got'[v][c] = got[v][c] \/ (IF Direct(v) THEN HasNext(v) ELSE buf[v][c] > 0)
<1> c \in Consumers
  BY Wiring
<1>1. ASSUME NEW w \in Vars, NEW d \in Consumers, Receive(w, d)
      PROVE  got'[v][c] = got[v][c] \/ (IF Direct(v) THEN HasNext(v) ELSE buf[v][c] > 0)
  BY <1>1, Received
<1>2. ASSUME NEW o \in Outputs, NEW w \in Vars, OperandArrives(o, w)
      PROVE  got'[v][c] = got[v][c] \/ (IF Direct(v) THEN HasNext(v) ELSE buf[v][c] > 0)
  BY <1>1, <1>2 DEF OperandArrives, Consumers
<1>3. ASSUME NEW o \in Outputs, ValueArrives(o)
      PROVE  got'[v][c] = got[v][c] \/ (IF Direct(v) THEN HasNext(v) ELSE buf[v][c] > 0)
  BY <1>1, <1>3, Wiring DEF ValueArrives
<1> QED
  BY <1>2, <1>3
     DEF Next, Broker, Provider, Manager, Output, MessageArrives, BadPayload, ConnectionCloses,
     SendToVar, SendRefused, ManagerReads, ManagerSends, ManagerEnds, Publish, PublishFails,
     StreamEnds, OutputCompletes, InputCompletes, vars, varsProvider, varsManager, varsHandler

LEMMA InputEndedStays ==
  ASSUME TypeOK, FeedInv, [Next]_vars, NEW v \in InputVars, InputEnded(v)
  PROVE  InputEnded(v)'
<1>1. taken'[v] = taken[v]
  BY TakenStep, Wiring DEF HasNext, InputEnded, TypeOK
<1>2. sent' = sent
  BY DEF FeedInv, InputEnded, Next, Broker, Provider, Manager, Output, MessageArrives,
     BadPayload, ConnectionCloses, SendToVar, SendRefused, ManagerReads, ManagerSends,
     ManagerEnds, OperandArrives, ValueArrives, Publish, PublishFails, StreamEnds,
     OutputCompletes, InputCompletes, vars, varsProvider, varsManager, varsHandler
<1> QED
  BY <1>1, <1>2, Shrinking DEF InputEnded

LEMMA ExhaustedStays ==
  ASSUME TypeOK, Counts, FeedInv, [Next]_vars, NEW v \in Vars, Exhausted(v)
  PROVE  Exhausted(v)' /\ taken'[v] = taken[v]
<1>1. CASE v \in InputVars
  <2>1. taken'[v] = taken[v]
    BY <1>1, TakenStep DEF Exhausted, HasNext, InputEnded, TypeOK
  <2> QED
    BY <1>1, <2>1, InputEndedStays DEF Exhausted
<1>2. CASE v \in Outputs
  <2>0. v \notin InputVars
    BY <1>2, Wiring
  <2>1. PICK u \in Uses[v] : got[u][v] = taken[v] /\ Finished(u, v)
    BY <2>0 DEF Exhausted
  <2>2. u \in Vars /\ v \in Readers(u) /\ v \in Consumers /\ v # Handler
    BY <1>2, Wiring DEF Consumers
  <2>3. taken'[v] = taken[v]
    BY <2>0, <2>1, <2>2, TakenStep DEF HasNext, Holds, TypeOK
  <2>4. CASE Direct(u)
    <3>1. u \in InputVars
      BY <1>2, <2>4, <2>2, Wiring
    <3>2. ~HasNext(u)
      BY <2>1, <2>4, <3>1 DEF Finished, InputEnded, HasNext, TypeOK
    <3>3. got'[u][v] = got[u][v]
      BY <2>2, <2>4, <3>2, GotStep
    <3>4. Finished(u, v)'
      BY <2>1, <2>4, <3>1, InputEndedStays DEF Finished
    <3> QED
      BY <2>0, <2>1, <2>3, <3>3, <3>4 DEF Exhausted
  <2>5. CASE ~Direct(u)
    <3>1. got[u][v] \in Nat /\ buf[u][v] \in Nat /\ InTodo(u, v) \in {0, 1}
      BY <2>2, AsyncMonitorAssumption DEF TypeOK, InTodo
    <3>2. got[u][v] + buf[u][v] + InTodo(u, v) <= taken[u] /\ taken[u] = got[u][v]
      BY <2>1, <2>2, <2>5 DEF Counts, Delivered, Finished
    <3>3. ~(buf[u][v] > 0)
      BY <3>1, <3>2
    <3>4. got'[u][v] = got[u][v]
      BY <2>2, <2>5, <3>3, GotStep
    <3>5. u \notin managed /\ u \notin managed'
      BY <2>1, <2>5, Shrinking DEF Finished
    <3>6. taken'[u] = taken[u]
      BY <2>2, <2>5, <3>5, TakenStep
    <3>7. Finished(u, v)'
      BY <2>1, <2>5, <3>2, <3>4, <3>5, <3>6, InputEndedStays DEF Finished
    <3> QED
      BY <2>0, <2>1, <2>3, <3>4, <3>7 DEF Exhausted
  <2> QED
    BY <2>4, <2>5
<1> QED
  BY <1>1, <1>2, Wiring

-----------------------------------------------------------------------------
(* The invariant.                                                          *)

LEMMA GuardStep ==
  ASSUME TypeOK, GuardInv, [Next]_vars
  PROVE  GuardInv' /\ (cancelled => cancelled')
<1>1. CASE UNCHANGED <<open, cancelled>>
  BY <1>1 DEF GuardInv
<1>2. ASSUME NEW outs, Drop(outs) PROVE GuardInv' /\ (cancelled => cancelled')
  BY <1>2 DEF Drop, GuardInv
<1>3. CASE Broker
  BY <1>1, <1>3 DEF Broker, MessageArrives, BadPayload, ConnectionCloses, varsHandler
<1>4. CASE Provider
  BY <1>1, <1>4 DEF Provider, SendToVar, SendRefused, varsHandler
<1>5. ASSUME NEW v \in Vars, Manager(v) PROVE GuardInv' /\ (cancelled => cancelled')
  BY <1>1, <1>5 DEF Manager, ManagerReads, ManagerSends, ManagerEnds, varsHandler
<1>6. ASSUME NEW o \in Outputs, Output(o) PROVE GuardInv' /\ (cancelled => cancelled')
  <2>1. CASE PublishFails(o) \/ StreamEnds(o)
    BY <1>2, <2>1 DEF PublishFails, StreamEnds
  <2>2. CASE (\E v \in Vars : OperandArrives(o, v)) \/ ValueArrives(o) \/ Publish(o)
    BY <1>1, <2>2 DEF OperandArrives, ValueArrives, Publish, varsHandler
  <2> QED
    BY <1>6, <2>1, <2>2 DEF Output
<1>7. CASE OutputCompletes
  BY <1>1, <1>7 DEF OutputCompletes, varsHandler
<1>8. CASE InputCompletes
  BY <1>2, <1>8 DEF InputCompletes
<1>9. CASE UNCHANGED vars
  BY <1>1, <1>9 DEF vars, varsHandler
<1> QED
  BY <1>3, <1>4, <1>5, <1>6, <1>7, <1>8, <1>9 DEF Next

LEMMA FeedStep ==
  ASSUME TypeOK, FeedInv, [Next]_vars
  PROVE  FeedInv' /\ (Clean' => Clean /\ ~InputCompletes)
<1>1. CASE Broker
  BY <1>1 DEF FeedInv, Clean, Broker, MessageArrives, BadPayload, ConnectionCloses,
     InputCompletes, varsHandler
<1>2. CASE Provider
  BY <1>2 DEF FeedInv, Clean, Provider, SendToVar, SendRefused, InputCompletes, varsHandler
<1>3. ASSUME NEW v \in Vars, Manager(v) PROVE FeedInv' /\ (Clean' => Clean /\ ~InputCompletes)
  BY <1>3 DEF FeedInv, Clean, Manager, ManagerReads, ManagerSends, ManagerEnds,
     InputCompletes, varsHandler, varsProvider
<1>4. ASSUME NEW o \in Outputs, Output(o) PROVE FeedInv' /\ (Clean' => Clean /\ ~InputCompletes)
  BY <1>4 DEF FeedInv, Clean, Output, OperandArrives, ValueArrives, Publish, PublishFails,
     StreamEnds, Drop, InputCompletes, varsHandler, varsProvider
<1>5. CASE OutputCompletes
  BY <1>5 DEF FeedInv, Clean, OutputCompletes, InputCompletes, varsHandler, varsProvider
<1>6. CASE InputCompletes
  BY <1>6 DEF FeedInv, Clean, InputCompletes, Drop, varsProvider
<1>7. CASE UNCHANGED vars
  BY <1>7 DEF FeedInv, Clean, InputCompletes, vars, varsHandler, varsProvider
<1> QED
  BY <1>1, <1>2, <1>3, <1>4, <1>5, <1>6, <1>7 DEF Next

\* An expression whose owner is there ends only after reading an operand to
\* its end: every operand it waits for still has it among its readers.
LEMMA EndIsReal ==
  ASSUME TypeOK, Counts, Listening, ~cancelled, NEW o \in Outputs, ExprAlive(o), ExprEnded(o)
  PROVE  Exhausted(o)
<1>1. PICK u \in Uses[o] :
        ~Holds(o, u) /\ IF Direct(u) THEN InputEnded(u) ELSE ChannelEnded(u, o)
  BY DEF ExprEnded
<1>2. u \in Vars /\ o \in Readers(u) /\ o # Handler /\ o \in Consumers /\ o \notin InputVars
  BY Wiring DEF Consumers
<1>3. got[u][o] \in Nat /\ taken[o] \in Nat /\ buf[u][o] \in Nat /\ taken[u] \in Nat
  BY <1>2, Wiring, AsyncMonitorAssumption DEF TypeOK
<1>4. got[u][o] = taken[o]
  BY <1>1, <1>3 DEF Holds, Counts, InStep
<1>5. CASE Direct(u)
  BY <1>1, <1>2, <1>4, <1>5 DEF Exhausted, Finished
<1>6. CASE ~Direct(u)
  <2>1. Attached(u, o)
    BY <1>2 DEF Attached
  <2>2. o \in subscribers[u] /\ got[u][o] + buf[u][o] + InTodo(u, o) = taken[u]
        /\ (u \notin managed => todo[u] = {} /\ Exhausted(u))
    BY <1>2, <1>6, <2>1 DEF Listening, Managed
  <2>3. u \notin managed /\ buf[u][o] = 0
    BY <1>1, <1>6, <2>2 DEF ChannelEnded
  <2>4. InTodo(u, o) = 0
    BY <2>2, <2>3 DEF InTodo
  <2>5. taken[u] = got[u][o]
    BY <1>3, <2>2, <2>3, <2>4
  <2>6. u \in InputVars => InputEnded(u)
    BY <2>2, <2>3 DEF Exhausted
  <2> QED
    BY <1>2, <1>4, <1>6, <2>3, <2>5, <2>6 DEF Exhausted, Finished
<1> QED
  BY <1>5, <1>6

LEMMA ListeningStep ==
  ASSUME TypeOK, CountInv, [Next]_vars
  PROVE  Listening'
<1> SUFFICES ASSUME NEW v \in Managed, NEW c \in Readers(v), Attached(v, c)'
             PROVE  /\ c \in subscribers'[v]
                    /\ ~cancelled' =>
                         /\ got'[v][c] + buf'[v][c] + InTodo(v, c)' = taken'[v]
                         /\ v \notin managed' => todo'[v] = {} /\ Exhausted(v)'
  BY DEF Listening
<1>1. v \in Vars /\ c \in Consumers /\ ~Direct(v)
  BY Wiring DEF Managed
<1>2. Attached(v, c)
  BY <1>1, Shrinking
<1>3. c \in subscribers[v]
  BY <1>2 DEF CountInv, Listening
<1>4. c \in subscribers'[v]
  <2>1. ASSUME NEW w \in Vars, NEW d \in Consumers, ManagerSends(w, d)
        PROVE  c \in subscribers'[v]
    BY <1>1, <1>2, <1>3, <2>1 DEF ManagerSends, TypeOK
  <2>2. \/ subscribers' = subscribers
        \/ \E w \in Vars : \E d \in Consumers : ManagerSends(w, d)
    BY DEF Next, Broker, Provider, Manager, Output, MessageArrives, BadPayload,
       ConnectionCloses, SendToVar, SendRefused, ManagerReads, ManagerEnds, OperandArrives,
       ValueArrives, Publish, PublishFails, StreamEnds, OutputCompletes, InputCompletes,
       vars, varsProvider, varsManager, varsHandler
  <2> QED
    BY <1>3, <2>1, <2>2
<1>5. ASSUME ~cancelled'
      PROVE  got'[v][c] + buf'[v][c] + InTodo(v, c)' = taken'[v]
  <2>1. ~cancelled
    BY <1>5, GuardStep DEF CountInv
  <2>2. got[v][c] + buf[v][c] + InTodo(v, c) = taken[v]
    BY <1>2, <2>1 DEF CountInv, Listening
  <2>3. /\ got[v][c] \in Nat /\ buf[v][c] \in Int /\ taken[v] \in Nat
        /\ InTodo(v, c) \in {0, 1}
    BY <1>1 DEF TypeOK, InTodo
  <2>4. CASE UNCHANGED <<taken, todo, buf, got>>
    BY <2>2, <2>4 DEF InTodo
  <2>5. ASSUME NEW w \in Vars, ManagerReads(w)
        PROVE  got'[v][c] + buf'[v][c] + InTodo(v, c)' = taken'[v]
    <3>1. UNCHANGED <<buf, got>>
      BY <2>5 DEF ManagerReads
    <3>2. w # v => InTodo(v, c)' = InTodo(v, c) /\ taken'[v] = taken[v]
      BY <1>1, <2>5 DEF ManagerReads, InTodo, TypeOK
    <3>3. w = v => InTodo(v, c)' = 1 /\ InTodo(v, c) = 0 /\ taken'[v] = taken[v] + 1
      BY <1>1, <1>3, <2>5 DEF ManagerReads, Recipients, InTodo, TypeOK
    <3> QED
      BY <2>2, <2>3, <3>1, <3>2, <3>3
  <2>6. ASSUME NEW w \in Vars, NEW d \in Consumers, ManagerSends(w, d)
        PROVE  got'[v][c] + buf'[v][c] + InTodo(v, c)' = taken'[v]
    <3>1. buf'[v][c] + InTodo(v, c)' = buf[v][c] + InTodo(v, c)
      BY <1>1, <1>2, <2>6, SentOn
    <3>2. UNCHANGED <<taken, got>>
      BY <2>6 DEF ManagerSends
    <3>3. buf'[v][c] \in Int /\ InTodo(v, c)' \in {0, 1}
      BY <1>1, NextType DEF TypeOK, InTodo
    <3> QED
      BY <2>2, <2>3, <3>1, <3>2, <3>3
  <2>7. ASSUME NEW w \in Vars, ManagerEnds(w)
        PROVE  got'[v][c] + buf'[v][c] + InTodo(v, c)' = taken'[v]
    <3>1. todo' = todo
      BY <2>1, <2>7 DEF ManagerEnds, TypeOK
    <3> QED
      BY <2>2, <2>7, <3>1 DEF ManagerEnds, InTodo
  <2>8. ASSUME NEW w \in Vars, NEW d \in Consumers, Receive(w, d), todo' = todo
        PROVE  got'[v][c] + buf'[v][c] + InTodo(v, c)' = taken'[v]
    <3>1. InTodo(v, c)' = InTodo(v, c)
      BY <2>8 DEF InTodo
    <3>2. /\ got'[v][c] = IF v = w /\ c = d THEN got[w][d] + 1 ELSE got[v][c]
          /\ buf'[v][c] = IF ~Direct(w) /\ v = w /\ c = d THEN buf[w][d] - 1 ELSE buf[v][c]
          /\ taken'[v] = IF Direct(w) /\ v = w THEN taken[w] + 1 ELSE taken[v]
      BY <1>1, <2>8, Received
    <3> QED
      BY <1>1, <2>2, <2>3, <3>1, <3>2
  <2>9. ASSUME NEW o \in Outputs, NEW w \in Vars, OperandArrives(o, w)
        PROVE  got'[v][c] + buf'[v][c] + InTodo(v, c)' = taken'[v]
    BY <2>8, <2>9 DEF OperandArrives, Consumers, varsManager
  <2>10. ASSUME NEW o \in Outputs, ValueArrives(o)
         PROVE  got'[v][c] + buf'[v][c] + InTodo(v, c)' = taken'[v]
    BY <2>8, <2>10, Wiring DEF ValueArrives, varsManager
  <2> QED
    BY <2>4, <2>5, <2>6, <2>7, <2>9, <2>10
       DEF Next, Broker, Provider, Manager, Output, MessageArrives, BadPayload,
       ConnectionCloses, SendToVar, SendRefused, Publish, PublishFails, StreamEnds,
       OutputCompletes, InputCompletes, vars, varsManager
<1>6. ASSUME ~cancelled', v \notin managed'
      PROVE  todo'[v] = {} /\ Exhausted(v)'
  <2>1. ~cancelled
    BY <1>6, GuardStep DEF CountInv
  <2>2. CASE v \notin managed
    <3>1. todo[v] = {} /\ Exhausted(v)
      BY <1>2, <2>1, <2>2 DEF CountInv, Listening
    <3>2. Exhausted(v)'
      BY <1>1, <3>1, ExhaustedStays DEF CountInv
    <3>3. todo'[v] = {}
      BY <1>1, <2>2, <3>1
         DEF TypeOK, Next, Broker, Provider, Manager, Output, MessageArrives, BadPayload,
         ConnectionCloses, SendToVar, SendRefused, ManagerReads, ManagerSends, ManagerEnds,
         OperandArrives, ValueArrives, Publish, PublishFails, StreamEnds, OutputCompletes,
         InputCompletes, vars, varsManager
    <3> QED
      BY <3>2, <3>3
  <2>3. CASE v \in managed
    <3>1. ManagerEnds(v)
      BY <1>6, <2>3
         DEF Next, Broker, Provider, Manager, Output, MessageArrives, BadPayload,
         ConnectionCloses, SendToVar, SendRefused, ManagerReads, ManagerSends, ManagerEnds,
         OperandArrives, ValueArrives, Publish, PublishFails, StreamEnds, OutputCompletes,
         InputCompletes, vars, varsManager
    <3>2. todo'[v] = {} /\ SourceEnded(v)
      BY <1>1, <1>3, <2>1, <3>1 DEF ManagerEnds, ManagerDone, TypeOK
    <3>3. Exhausted(v)
      <4>1. CASE v \in InputVars
        BY <3>2, <4>1 DEF Exhausted, SourceEnded
      <4>2. CASE v \in Outputs
        BY <1>1, <2>1, <2>3, <3>2, <4>2, EndIsReal, Wiring
           DEF CountInv, SourceEnded, ExprAlive
      <4> QED
        BY <1>1, <4>1, <4>2, Wiring
    <3> QED
      BY <1>1, <3>2, <3>3, ExhaustedStays DEF CountInv
  <2> QED
    BY <2>2, <2>3
<1> QED
  BY <1>4, <1>5, <1>6

LEMMA DrainedStep ==
  ASSUME TypeOK, CountInv, [Next]_vars
  PROVE  Drained'
<1> SUFFICES ASSUME Clean', NEW o \in Outputs, o \notin open'
             PROVE  published'[o] = taken'[o] /\ Exhausted(o)'
  BY DEF Drained
<1>1. Clean /\ ~InputCompletes
  BY FeedStep DEF CountInv
<1>2. o \in Vars /\ Handler \in Readers(o) /\ Handler \in Consumers
  BY Wiring
<1>3. /\ got[o][Handler] \in Nat /\ buf[o][Handler] \in Nat
      /\ published[o] \in Nat /\ taken[o] \in Nat
  BY <1>2, AsyncMonitorAssumption DEF TypeOK
<1>4. CASE o \notin open
  <2>1. published[o] = taken[o] /\ Exhausted(o)
    BY <1>1, <1>4 DEF CountInv, Drained
  <2>2. published'[o] = published[o]
    BY <1>4 DEF TypeOK, Next, Broker, Provider, Manager, Output, MessageArrives, BadPayload,
       ConnectionCloses, SendToVar, SendRefused, ManagerReads, ManagerSends, ManagerEnds,
       OperandArrives, ValueArrives, Publish, PublishFails, StreamEnds, OutputCompletes,
       InputCompletes, vars, varsHandler
  <2> QED
    BY <1>2, <2>1, <2>2, ExhaustedStays DEF CountInv
<1>5. CASE o \in open
  <2>1. StreamEnds(o)
    <3>1. ~failed'
      BY DEF Clean
    <3> QED
      BY <1>1, <1>5, <3>1
         DEF Next, Broker, Provider, Manager, Output, MessageArrives, BadPayload,
         ConnectionCloses, SendToVar, SendRefused, ManagerReads, ManagerSends, ManagerEnds,
         OperandArrives, ValueArrives, Publish, PublishFails, StreamEnds, Drop,
         OutputCompletes, vars, varsHandler
  <2>2. ~cancelled
    BY <1>5 DEF CountInv, GuardInv
  <2>3. got[o][Handler] = published[o] /\ published' = published
    BY <1>3, <2>1 DEF StreamEnds, Publishing, CountInv, Counts, InPrint
  <2>4. CASE Direct(o)
    <3>1. Exhausted(o)
      BY <1>5, <2>1, <2>2, <2>4, EndIsReal DEF CountInv, ExprAlive, StreamEnds
    <3>2. got[o][Handler] = taken[o]
      BY <1>2, <2>4 DEF CountInv, Counts, Delivered
    <3> QED
      BY <1>2, <2>3, <3>1, <3>2, ExhaustedStays DEF CountInv
  <2>5. CASE ~Direct(o)
    <3>1. /\ Handler \in subscribers[o]
          /\ got[o][Handler] + buf[o][Handler] + InTodo(o, Handler) = taken[o]
          /\ o \notin managed => todo[o] = {} /\ Exhausted(o)
      BY <1>2, <1>5, <2>2, <2>5 DEF CountInv, Listening, Managed, Attached
    <3>2. o \notin managed /\ buf[o][Handler] = 0
      BY <2>1, <2>5, <3>1 DEF StreamEnds, ChannelEnded
    <3>3. InTodo(o, Handler) = 0
      BY <3>1, <3>2 DEF InTodo
    <3>4. got[o][Handler] = taken[o] /\ Exhausted(o)
      BY <1>3, <3>1, <3>2, <3>3
    <3> QED
      BY <1>2, <2>3, <3>4, ExhaustedStays DEF CountInv
  <2> QED
    BY <2>4, <2>5
<1> QED
  BY <1>4, <1>5

LEMMA InitCount == Init => CountInv
<1> SUFFICES ASSUME Init PROVE CountInv
  OBVIOUS
<1>1. 1 \in Outputs
  BY AsyncMonitorAssumption DEF Outputs
<1>2. GuardInv /\ FeedInv
  BY <1>1 DEF Init, GuardInv, FeedInv
<1>3. WithinSent /\ TodoListed
  BY Wiring DEF Init, WithinSent, TodoListed
<1>4. Delivered
  BY Wiring DEF Init, Delivered, InTodo
<1>5. InStep /\ InPrint
  BY Wiring DEF Init, InStep, InPrint, Consumers
<1>6. Listening
  <2> SUFFICES ASSUME NEW v \in Managed, NEW c \in Readers(v)
               PROVE  /\ c \in subscribers[v] /\ v \in managed
                      /\ got[v][c] + buf[v][c] + InTodo(v, c) = taken[v]
    BY DEF Listening
  <2>1. v \in Vars /\ c \in Consumers /\ ~Direct(v)
    BY Wiring DEF Managed
  <2> QED
    BY <2>1 DEF Init, InTodo
<1>7. Drained
  BY DEF Init, Drained
<1> QED
  BY <1>2, <1>3, <1>4, <1>5, <1>6, <1>7 DEF CountInv, Counts

LEMMA NextCount == TypeOK /\ CountInv /\ [Next]_vars => CountInv'
<1> SUFFICES ASSUME TypeOK, CountInv, [Next]_vars PROVE CountInv'
  OBVIOUS
<1>1. GuardInv'
  BY GuardStep DEF CountInv
<1>2. FeedInv'
  BY FeedStep DEF CountInv
<1>3. Counts'
  BY NextCounts DEF CountInv
<1> QED
  BY <1>1, <1>2, <1>3, ListeningStep, DrainedStep DEF CountInv

LEMMA CountCorrect == Spec => [](TypeOK /\ CountInv)
<1>1. Init => TypeOK /\ CountInv
  BY InitType, InitCount
<1>2. TypeOK /\ CountInv /\ [Next]_vars => (TypeOK /\ CountInv)'
  BY NextType, NextCount
<1> QED
  BY <1>1, <1>2, PTL DEF Spec

-----------------------------------------------------------------------------
(* The properties.                                                         *)

\* An output whose stream was read to its end has a value for each step for
\* which its operands came, and no other: the operand that ended first decides.
LEMMA DrainedRows ==
  ASSUME TypeOK, CountInv, Clean, open = {}
  PROVE  \A o \in Outputs :
           /\ \A v \in Uses[o] : published[o] <= Rows(v)
           /\ \E v \in Uses[o] : published[o] = Rows(v)
<1> SUFFICES ASSUME NEW o \in Outputs
             PROVE  /\ \A v \in Uses[o] : published[o] <= Rows(v)
                    /\ \E v \in Uses[o] : published[o] = Rows(v)
  OBVIOUS
<1>1. \A p \in Outputs : published[p] = taken[p] /\ Exhausted(p)
  BY DEF CountInv, Drained
<1>2. o \in Vars /\ o \in Consumers /\ o \notin InputVars /\ taken[o] \in Nat
  BY Wiring DEF Consumers, TypeOK
<1>3. \A v \in Uses[o] :
        /\ v \in Vars /\ o \in Readers(v)
        /\ taken[v] \in Nat /\ Rows(v) \in Nat
        /\ got[v][o] \in Nat /\ buf[v][o] \in Nat /\ InTodo(v, o) \in Nat
  BY <1>2, Wiring, AsyncMonitorAssumption DEF TypeOK, Rows, InTodo
<1>4. \A v \in Uses[o] : taken[v] <= Rows(v)
  BY <1>1, <1>3, Wiring DEF CountInv, Counts, WithinSent, Rows
<1>5. \A v \in Uses[o] : got[v][o] <= taken[v]
  BY <1>3 DEF CountInv, Counts, Delivered
<1>6. \A v \in Uses[o] : taken[o] <= got[v][o]
  BY DEF CountInv, Counts, InStep
<1>7. \A v \in Uses[o] : published[o] <= Rows(v)
  BY <1>1, <1>2, <1>3, <1>4, <1>5, <1>6
<1>8. PICK u \in Uses[o] : got[u][o] = taken[o] /\ Finished(u, o)
  BY <1>1, <1>2 DEF Exhausted
<1>9. taken[u] = got[u][o]
  BY <1>3, <1>8 DEF Finished, CountInv, Counts, Delivered
<1>10. CASE u \in InputVars
  BY <1>1, <1>7, <1>8, <1>9, <1>10 DEF Finished, InputEnded, Rows
<1>11. CASE u \notin InputVars
  BY <1>1, <1>3, <1>7, <1>8, <1>9, <1>11, Wiring DEF Rows
<1> QED
  BY <1>7, <1>10, <1>11

\* Success means that everything sent was drained: run_boxed() reports Ok, and
\* the connection was up, only when each output was published for every step
\* for which its operands were sent.
THEOREM SuccessIsDrained == Spec => []OkMeansDrained
<1>1. TypeOK /\ CountInv => OkMeansDrained
  BY DrainedRows DEF CountInv, FeedInv, Clean, OkMeansDrained
<1> QED
  BY <1>1, CountCorrect, PTL

\* As long as the provider runs and the token is not cancelled, the manager of
\* a variable runs if one of its readers listens.
Supplied ==
  feed = "running" /\ ~cancelled =>
    \A v \in Managed : \A c \in Readers(v) : Attached(v, c) => v \in managed

\* While its operands are supplied, an expression with an owner does not end.
LEMMA SuppliedGoesOn ==
  ASSUME CountInv, Supplied, feed = "running", ~cancelled,
         NEW o \in Outputs, ExprAlive(o)
  PROVE  ~ExprEnded(o)
<1> SUFFICES ASSUME NEW v \in Uses[o]
             PROVE  IF Direct(v) THEN ~InputEnded(v) ELSE ~ChannelEnded(v, o)
  BY DEF ExprEnded
<1>1. v \in Vars /\ o \in Readers(v) /\ Attached(v, o)
  BY Wiring DEF Attached
<1>2. CASE Direct(v)
  BY <1>2 DEF InputEnded
<1>3. CASE ~Direct(v)
  BY <1>1, <1>3 DEF Managed, Supplied, CountInv, Listening, ChannelEnded
<1> QED
  BY <1>2, <1>3

LEMMA SuppliedStep ==
  ASSUME TypeOK, CountInv, Supplied, [Next]_vars
  PROVE  Supplied'
<1> SUFFICES ASSUME feed' = "running", ~cancelled', NEW v \in Managed, NEW c \in Readers(v),
                    Attached(v, c)'
             PROVE  v \in managed'
  BY DEF Supplied
<1>1. v \in Vars /\ c \in Consumers
  BY Wiring DEF Managed
<1>2. feed = "running" /\ ~cancelled /\ Attached(v, c)
  BY <1>1, Shrinking, GuardStep DEF CountInv
<1>3. v \in managed /\ c \in subscribers[v]
  BY <1>2 DEF Supplied, CountInv, Listening
<1>4. ~SourceEnded(v)
  BY <1>1, <1>2, <1>3, SuppliedGoesOn, Wiring
     DEF SourceEnded, InputEnded, ExprAlive, Managed
<1>5. ~ManagerEnds(v)
  BY <1>2, <1>3, <1>4 DEF ManagerEnds, ManagerDone
<1>6. ASSUME NEW w \in Vars, ManagerEnds(w) PROVE v \in managed'
  BY <1>3, <1>5, <1>6 DEF ManagerEnds
<1> QED
  BY <1>3, <1>6
     DEF Next, Broker, Provider, Manager, Output, MessageArrives, BadPayload, ConnectionCloses,
     SendToVar, SendRefused, ManagerReads, ManagerSends, OperandArrives, ValueArrives,
     Publish, PublishFails, StreamEnds, OutputCompletes, InputCompletes,
     vars, varsProvider, varsManager, varsHandler

LEMMA SuppliedCorrect == Spec => [](TypeOK /\ CountInv /\ Supplied)
<1>1. Init => Supplied
  BY DEF Init, Supplied
<1>2. TypeOK /\ CountInv /\ Supplied /\ [Next]_vars => Supplied'
  BY SuppliedStep
<1> QED
  BY <1>1, <1>2, CountCorrect, PTL DEF Spec

\* What an output that is still published needs is there: its expression, and
\* somebody who receives each of its inputs.
LEMMA OpenIsFed ==
  ASSUME CountInv, Supplied, feed = "running", ~cancelled, NEW o \in Outputs, o \in open
  PROVE  ExprAlive(o)
<1>1. o \in Vars /\ Handler \in Readers(o) /\ Attached(o, Handler)
  BY Wiring DEF Attached
<1> QED
  BY <1>1 DEF ExprAlive, Managed, Supplied

LEMMA ReadIsFed ==
  ASSUME CountInv, Supplied, feed = "running", ~cancelled,
         NEW v \in Vars, NEW o \in Readers(v), Attached(v, o)
  PROVE  SourceAlive(v)
<1>1. CASE Direct(v)
  BY <1>1, Wiring DEF SourceAlive
<1>2. CASE ~Direct(v)
  BY <1>2 DEF SourceAlive, Supplied, Managed
<1> QED
  BY <1>1, <1>2

\* A failed publication, or the end of one output, touches no other output:
\* its expression and the receivers of its inputs stay, and the token is
\* cancelled with the last output only.
THEOREM FailureStaysContained == Spec => []FailureIsContained
<1>1. ASSUME TypeOK, CountInv, Supplied PROVE FailureIsContained
  <2> SUFFICES ASSUME NEW o \in open
               PROVE  /\ ~cancelled
                      /\ feed = "running" =>
                           ExprAlive(o) /\ \A v \in Uses[o] \cap InputVars : SourceAlive(v)
    BY DEF FailureIsContained
  <2>1. o \in Outputs /\ ~cancelled
    BY <1>1 DEF TypeOK, CountInv, GuardInv
  <2>2. ASSUME feed = "running" PROVE ExprAlive(o)
    BY <1>1, <2>1, <2>2, OpenIsFed
  <2>3. ASSUME feed = "running", NEW v \in Uses[o] PROVE SourceAlive(v)
    <3>1. v \in Vars /\ o \in Readers(v) /\ Attached(v, o)
      BY <2>1, <2>2, <2>3, Wiring DEF Attached
    <3> QED
      BY <1>1, <2>1, <2>3, <3>1, ReadIsFed
  <2> QED
    BY <2>1, <2>2, <2>3
<1>2. TypeOK /\ CountInv /\ Supplied => FailureIsContained
  BY <1>1
<1> QED
  BY <1>2, SuppliedCorrect, PTL

\* Without a fault nothing ends, and each message is for a variable that is read.
Quiet ==
  faults = {} =>
    /\ feed = "running"
    /\ result = "running"
    /\ open = Outputs
    /\ hand # None => Readers(hand) # {}

\* Without a fault every reader listens.
LEMMA QuietListens ==
  ASSUME TypeOK, CountInv, Supplied, Quiet, faults = {}, NEW v \in Vars, NEW c \in Readers(v)
  PROVE  ~cancelled /\ Attached(v, c) /\ (~Direct(v) => v \in managed)
<1>1. open = Outputs /\ feed = "running"
  BY DEF Quiet
<1>2. ~cancelled
  BY <1>1, AsyncMonitorAssumption DEF CountInv, GuardInv, Outputs
<1>3. \A o \in Outputs : ExprAlive(o)
  BY <1>1, <1>2, OpenIsFed
<1>4. Attached(v, c)
  BY <1>1, <1>3, Wiring DEF Attached
<1>5. ~Direct(v) => v \in managed
  BY <1>1, <1>2, <1>4 DEF Supplied, Managed
<1> QED
  BY <1>2, <1>4, <1>5

LEMMA QuietStep ==
  ASSUME TypeOK, CountInv, Supplied, Quiet, [Next]_vars
  PROVE  Quiet'
<1> SUFFICES ASSUME faults' = {} PROVE Quiet'
  BY DEF Quiet
<1>1. faults = {}
  BY DEF Next, Broker, Provider, Manager, Output, MessageArrives, BadPayload, ConnectionCloses,
     SendToVar, SendRefused, ManagerReads, ManagerSends, ManagerEnds, OperandArrives,
     ValueArrives, Publish, PublishFails, StreamEnds, OutputCompletes, InputCompletes,
     vars, varsProvider, varsManager, varsHandler
<1>2. feed = "running" /\ result = "running" /\ open = Outputs /\ open # {}
      /\ (hand # None => Readers(hand) # {})
  BY <1>1, AsyncMonitorAssumption DEF Quiet, Outputs
<1>3. ~SendRefused
  <2> SUFFICES ASSUME hand # None PROVE SourceAlive(hand)
    BY DEF SendRefused
  <2>1. hand \in Vars
    BY Wiring DEF TypeOK
  <2>2. PICK c \in Readers(hand) : TRUE
    BY <1>2
  <2>3. Attached(hand, c) /\ ~cancelled
    BY <1>1, <2>1, QuietListens
  <2> QED
    BY <1>2, <2>1, <2>3, ReadIsFed
<1>4. ASSUME NEW o \in Outputs PROVE ~StreamEnds(o)
  <2>1. o \in Vars /\ Handler \in Readers(o)
    BY Wiring
  <2>2. ~cancelled /\ Attached(o, Handler) /\ (~Direct(o) => o \in managed)
    BY <1>1, <2>1, QuietListens
  <2>3. CASE Direct(o)
    BY <1>2, <2>2, <2>3, OpenIsFed, SuppliedGoesOn DEF StreamEnds
  <2>4. CASE ~Direct(o)
    BY <2>1, <2>2, <2>4 DEF StreamEnds, ChannelEnded, CountInv, Listening, Managed
  <2> QED
    BY <2>3, <2>4
<1>5. ~OutputCompletes /\ ~InputCompletes
  BY <1>2 DEF OutputCompletes, InputCompletes
<1>6. UNCHANGED <<feed, result, open>> /\ (hand' = hand \/ hand' = None \/ Readers(hand') # {})
  BY <1>3, <1>4, <1>5
     DEF Next, Broker, Provider, Manager, Output, MessageArrives, BadPayload, ConnectionCloses,
     SendToVar, ManagerReads, ManagerSends, ManagerEnds, OperandArrives,
     ValueArrives, Publish, PublishFails, vars, varsProvider, varsManager, varsHandler
<1> QED
  BY <1>2, <1>6 DEF Quiet, Readers

LEMMA QuietCorrect == Spec => [](TypeOK /\ CountInv /\ Supplied /\ Quiet)
<1>1. Init => Quiet
  BY DEF Init, Quiet
<1>2. TypeOK /\ CountInv /\ Supplied /\ Quiet /\ [Next]_vars => Quiet'
  BY QuietStep
<1> QED
  BY <1>1, <1>2, SuppliedCorrect, PTL DEF Spec

\* A monitor ends only through a fault of its surroundings: the provider's
\* sends are not refused, no stream ends by itself, the token is not cancelled
\* and every manager somebody reads from keeps running.
THEOREM EndsOnlyByFault == Spec => []OnlyFaultsEnd
<1>1. ASSUME TypeOK, CountInv, Supplied, Quiet, faults = {}
      PROVE  /\ feed = "running"
             /\ result = "running"
             /\ ~cancelled
             /\ \A v \in Managed : Readers(v) # {} => v \in managed
  <2>1. feed = "running" /\ result = "running" /\ open = Outputs
    BY <1>1 DEF Quiet
  <2>2. ~cancelled
    BY <1>1, <2>1, AsyncMonitorAssumption DEF CountInv, GuardInv, Outputs
  <2>3. ASSUME NEW v \in Managed, Readers(v) # {} PROVE v \in managed
    <3>1. v \in Vars /\ ~Direct(v)
      BY DEF Managed
    <3>2. PICK c \in Readers(v) : TRUE
      BY <2>3
    <3> QED
      BY <1>1, <3>1, QuietListens
  <2> QED
    BY <2>1, <2>2, <2>3
<1>2. TypeOK /\ CountInv /\ Supplied /\ Quiet => OnlyFaultsEnd
  BY <1>1 DEF OnlyFaultsEnd
<1> QED
  BY <1>2, QuietCorrect, PTL

=============================================================================
