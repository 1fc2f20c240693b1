-------------------------- MODULE VarManagerProofs --------------------------
(***************************************************************************)
(* Proofs about VarManager, for every number of values and subscriptions,  *)
(* every channel size and every set of tick futures: types, the counters   *)
(* and the ticks first, then what the subscribers see and when the actor   *)
(* panics; at last, a manager used as Context uses it implements           *)
(* BroadcastStream.                                                        *)
(***************************************************************************)
EXTENDS VarManager, FiniteSetTheorems, SequenceTheorems, TLAPS

-----------------------------------------------------------------------------
(* Types.  They are not inductive by themselves: outstanding stays a        *)
(* natural number because it counts the tasks in flight, and what a tick    *)
(* sends is a value of the input because it has read one.                   *)

WaitingSubscribed == \A s \in waiting : stream[s] # "none"
SendingValue == \A t \in Ticks : pc[t] = "send" => pos \in Data

TypeInv == TypeOK /\ RequestCount /\ WaitingSubscribed /\ SendingValue

\* waiting is a finite set, so its cardinality is a number.
LEMMA WaitingFinite ==
  ASSUME TypeOK
  PROVE  IsFiniteSet(waiting) /\ Cardinality(waiting) \in Nat
<1>1. IsFiniteSet(Subs)
  BY FS_Interval, VarManagerAssumption DEF Subs
<1> QED
  BY <1>1, FS_Subset, FS_CardinalityType DEF TypeOK

\* A task that is waiting is counted.
LEMMA WaitingCounted ==
  ASSUME TypeOK, RequestCount, NEW s \in waiting
  PROVE  outstanding > 0
BY WaitingFinite, FS_EmptySet DEF RequestCount, TypeOK

\* The last statements of a request's task keep the count right.
LEMMA CompleteCounts ==
  ASSUME TypeOK, RequestCount, NEW s \in waiting, CompleteRequest(s)
  PROVE  /\ RequestCount'
         /\ permits' \in Nat /\ outstanding' \in Nat /\ waiting' \in SUBSET Subs
         /\ waiting' = {} <=> outstanding = 1
<1>1. IsFiniteSet(waiting) /\ Cardinality(waiting) \in Nat
  BY WaitingFinite
<1>2. IsFiniteSet(waiting') /\ Cardinality(waiting') = Cardinality(waiting) - 1
  BY <1>1, FS_RemoveElement DEF CompleteRequest
<1>3. outstanding' = Cardinality(waiting')
  BY <1>2 DEF CompleteRequest, RequestCount
<1>4. waiting' = {} <=> Cardinality(waiting') = 0
  BY <1>2, FS_EmptySet
<1>5. outstanding > 0
  BY WaitingCounted
<1> QED
  BY <1>2, <1>3, <1>4, <1>5 DEF RequestCount, CompleteRequest, TypeOK

\* Type correctness holds initially.
LEMMA InitTypeInv == Init => TypeInv
<1> SUFFICES ASSUME Init PROVE TypeInv
  OBVIOUS
<1>1. TypeOK
  <2>1. <<>> \in Seq(Data) /\ 0 \in 0..Values
    BY VarManagerAssumption
  <2> QED
    BY <2>1 DEF Init, TypeOK, Stages
<1>2. RequestCount
  BY FS_EmptySet DEF Init, RequestCount
<1>3. WaitingSubscribed /\ SendingValue
  BY DEF Init, SendingValue, WaitingSubscribed
<1> QED
  BY <1>1, <1>2, <1>3 DEF TypeInv

\* The steps of a subscription, from subscribe() to the end of its task.
LEMMA SubscriptionTypeInv ==
  ASSUME TypeInv, NEW s \in Subs, Subscription(s)
  PROVE  TypeInv'
<1> USE DEF TypeInv, varsManager, varsTick, varsConsumer
<1>0. IsFiniteSet(waiting) /\ Cardinality(waiting) \in Nat
  BY WaitingFinite
<1>1. CASE Subscribe(s)
  <2>1. TypeOK'
    BY <1>1 DEF Subscribe, PermitRemoved, CanSubscribe, TypeOK, Stages
  <2>2. s \notin waiting
    BY <1>1 DEF Subscribe, CanSubscribe, WaitingSubscribed
  <2>3. RequestCount'
    BY <1>0, <1>1, <2>2, FS_AddElement DEF Subscribe, RequestCount
  <2>4. WaitingSubscribed' /\ SendingValue'
    BY <1>1 DEF Subscribe, WaitingSubscribed, SendingValue, TypeOK
  <2> QED
    BY <2>1, <2>3, <2>4
<1>2. CASE SubscribePanics(s)
  BY <1>2 DEF SubscribePanics, TypeOK, RequestCount, WaitingSubscribed, SendingValue
<1>3. CASE ServeDirect(s)
  <2>1. RequestCount' /\ permits' \in Nat /\ outstanding' \in Nat
        /\ waiting' \in SUBSET Subs
    BY <1>3, CompleteCounts DEF ServeDirect, CanServe
  <2>2. TypeOK'
    BY <1>3, <2>1 DEF ServeDirect, TypeOK
  <2>3. WaitingSubscribed' /\ SendingValue'
    BY <1>3 DEF ServeDirect, CompleteRequest, WaitingSubscribed, SendingValue, TypeOK
  <2> QED
    BY <2>1, <2>2, <2>3
<1>4. CASE ServeChannel(s)
  <2>1. RequestCount' /\ permits' \in Nat /\ outstanding' \in Nat
        /\ waiting' \in SUBSET Subs
    BY <1>4, CompleteCounts DEF ServeChannel, CanServe
  <2>2. TypeOK'
    BY <1>4, <2>1 DEF ServeChannel, TypeOK
  <2>3. WaitingSubscribed' /\ SendingValue'
    BY <1>4 DEF ServeChannel, CompleteRequest, WaitingSubscribed, SendingValue, TypeOK
  <2> QED
    BY <2>1, <2>2, <2>3
<1>5. CASE ServePanics(s)
  BY <1>5 DEF ServePanics, TypeOK, RequestCount, WaitingSubscribed, SendingValue
<1> QED
  BY <1>1, <1>2, <1>3, <1>4, <1>5 DEF Subscription

\* A step in which a tick future returns.
LEMMA ReturnTypeInv ==
  ASSUME TypeInv, NEW t \in Ticks, NEW result \in BOOLEAN, Return(t, result),
         stage' = stage, permits' \in Nat, subscribers' \in SUBSET Subs,
         pos' = pos \/ pos' \in Data, clock' \in Nat, chan' \in [Subs -> Seq(Data)],
         UNCHANGED <<outstanding, waiting, captured, input, cancelled, stream,
                     recv, base, panicked>>
  PROVE  TypeInv'
<1>1. /\ pc' \in [Ticks -> {"idle", "start", "acquire", "read", "send"}]
      /\ todo' \in [Ticks -> SUBSET Subs]
      /\ failed' \in [Ticks -> SUBSET Subs]
      /\ owner' \in {"caller", "running", "gone"}
      /\ \A u \in Ticks : pc'[u] = "send" => pc[u] = "send"
  BY DEF TypeInv, TypeOK, Return
<1>2. pos' \in 0..Values
  BY VarManagerAssumption DEF TypeInv, TypeOK, Data
<1>3. TypeOK'
  BY <1>1, <1>2 DEF TypeInv, TypeOK
<1>4. RequestCount' /\ WaitingSubscribed'
  BY DEF TypeInv, RequestCount, WaitingSubscribed
<1>5. SendingValue'
  BY <1>1 DEF TypeInv, SendingValue
<1> QED
  BY <1>3, <1>4, <1>5 DEF TypeInv

\* The steps of a tick future.
LEMMA TickTypeInv ==
  ASSUME TypeInv, NEW t \in Ticks, Tick(t)
  PROVE  TypeInv'
<1>1. CASE TickCall(t)
  BY <1>1 DEF TickCall, TypeInv, TypeOK, RequestCount, WaitingSubscribed,
              SendingValue, varsManager, varsConsumer
<1>2. CASE TickStart(t)
  <2>1. CASE cancelled
    BY <1>2, <2>1, ReturnTypeInv DEF TickStart, StopAtStart, varsConsumer, TypeInv, TypeOK
  <2>2. CASE ~cancelled
    BY <1>2, <2>2 DEF TickStart, StopAtStart, Stages, TypeInv, TypeOK, RequestCount,
                      WaitingSubscribed, SendingValue, varsConsumer
  <2> QED
    BY <2>1, <2>2
<1>3. CASE TickAcquire(t)
  <2>1. UNCHANGED <<stage, outstanding, subscribers, waiting, captured, input,
                    pos, clock, cancelled, varsConsumer, panicked>>
    BY <1>3 DEF TickAcquire
  <2>2. CASE Return(t, FALSE) /\ UNCHANGED permits
    BY <2>1, <2>2, ReturnTypeInv DEF varsConsumer, TypeInv, TypeOK
  <2>3. CASE /\ permits' = permits - 1
             /\ pc' = [pc EXCEPT ![t] = "read"]
             /\ UNCHANGED <<owner, todo, failed>>
    <3>1. permits' \in Nat
      BY <1>3, <2>3 DEF TickAcquire, TypeInv, TypeOK
    <3> QED
      BY <2>1, <2>3, <3>1 DEF TypeInv, TypeOK, RequestCount,
                              WaitingSubscribed, SendingValue, varsConsumer
  <2> QED
    BY <1>3, <2>2, <2>3 DEF TickAcquire
<1>4. CASE AcquirePanics(t)
  BY <1>4 DEF AcquirePanics, TypeInv, TypeOK, RequestCount, WaitingSubscribed,
              SendingValue, varsManager, varsTick, varsConsumer
<1>5. CASE TickReadValue(t)
  <2>1. pos' \in Data /\ pos' \in 0..Values /\ clock' \in Nat /\ clock' = clock + 1
    BY <1>5, VarManagerAssumption DEF TickReadValue, Data, TypeInv, TypeOK
  <2>2. UNCHANGED <<stage, outstanding, subscribers, waiting, captured, input,
                    cancelled, varsConsumer, panicked>>
    BY <1>5 DEF TickReadValue
  <2>3. CASE subscribers = {}
    <3>1. Return(t, TRUE) /\ permits' = permits + 1
      BY <1>5, <2>3 DEF TickReadValue
    <3>2. permits' \in Nat
      BY <3>1 DEF TypeInv, TypeOK
    <3> QED
      BY <2>1, <2>2, <3>1, <3>2, ReturnTypeInv DEF varsConsumer, TypeInv, TypeOK
  <2>4. CASE subscribers # {}
    <3>1. /\ pc' = [pc EXCEPT ![t] = "send"]
          /\ todo' = [todo EXCEPT ![t] = subscribers]
          /\ UNCHANGED <<owner, failed, permits>>
      BY <1>5, <2>4 DEF TickReadValue
    <3>2. TypeOK'
      <4>1. pc' \in [Ticks -> {"idle", "start", "acquire", "read", "send"}]
            /\ todo' \in [Ticks -> SUBSET Subs]
        BY <3>1 DEF TypeInv, TypeOK
      <4> QED
        BY <2>1, <2>2, <3>1, <4>1 DEF TypeInv, TypeOK, varsConsumer
    <3>3. RequestCount' /\ WaitingSubscribed'
      BY <2>2 DEF TypeInv, RequestCount, WaitingSubscribed, varsConsumer
    <3>4. SendingValue'
      BY <2>1 DEF SendingValue
    <3> QED
      BY <3>2, <3>3, <3>4 DEF TypeInv
  <2> QED
    BY <2>3, <2>4
<1>6. CASE TickReadEnd(t)
  <2>1. permits' \in Nat /\ clock' \in Nat /\ subscribers' \in SUBSET Subs
    BY <1>6 DEF TickReadEnd, TypeInv, TypeOK
  <2> QED
    BY <1>6, <2>1, ReturnTypeInv DEF TickReadEnd, varsConsumer, TypeInv, TypeOK
<1>7. ASSUME NEW s \in Subs, TickSend(t, s)
      PROVE  TypeInv'
  <2>1. chan' \in [Subs -> Seq(Data)]
    <3>1. Append(chan[s], pos) \in Seq(Data)
      BY <1>7, AppendProperties DEF TickSend, TypeInv, TypeOK, SendingValue
    <3> QED
      BY <1>7, <3>1 DEF TickSend, TypeInv, TypeOK
  <2> DEFINE gone == IF ReceiverAlive(s) THEN failed[t] ELSE failed[t] \cup {s}
  <2>2. gone \in SUBSET Subs
    BY DEF TypeInv, TypeOK
  <2>3. UNCHANGED <<stage, outstanding, waiting, captured, input, pos, clock,
                    cancelled, stream, recv, base, panicked>>
    BY <1>7 DEF TickSend
  <2>4. CASE LastSend(t, s)
    <3>1. /\ Return(t, TRUE)
          /\ permits' = permits + 1
          /\ subscribers' = subscribers \ gone
      BY <1>7, <2>4 DEF TickSend
    <3>2. permits' \in Nat /\ subscribers' \in SUBSET Subs
      BY <3>1 DEF TypeInv, TypeOK
    <3> QED
      BY <2>1, <2>3, <3>1, <3>2, ReturnTypeInv DEF TypeInv, TypeOK
  <2>5. CASE ~LastSend(t, s)
    <3>1. /\ todo' = [todo EXCEPT ![t] = @ \ {s}]
          /\ failed' = [failed EXCEPT ![t] = gone]
          /\ UNCHANGED <<subscribers, permits, owner, pc>>
      BY <1>7, <2>5 DEF TickSend
    <3> HIDE DEF gone
    <3>2. TypeOK'
      <4>1. todo' \in [Ticks -> SUBSET Subs] /\ failed' \in [Ticks -> SUBSET Subs]
        BY <2>2, <3>1 DEF TypeInv, TypeOK
      <4> QED
        BY <2>1, <2>3, <3>1, <4>1 DEF TypeInv, TypeOK
    <3>3. RequestCount' /\ WaitingSubscribed' /\ SendingValue'
      BY <2>3, <3>1 DEF TypeInv, RequestCount, WaitingSubscribed, SendingValue
    <3> QED
      BY <3>2, <3>3 DEF TypeInv
  <2> QED
    BY <2>4, <2>5
<1>8. CASE TickCancelled(t)
  <2>1. permits' \in Nat
    BY <1>8 DEF TickCancelled, TypeInv, TypeOK
  <2> QED
    BY <1>8, <2>1, ReturnTypeInv DEF TickCancelled, varsConsumer, TypeInv, TypeOK
<1> QED
  BY <1>1, <1>2, <1>3, <1>4, <1>5, <1>6, <1>7, <1>8 DEF Tick

\* The steps of a consumer.
LEMMA ConsumerTypeInv ==
  ASSUME TypeInv, NEW s \in Subs, Consumer(s)
  PROVE  TypeInv'
<1> USE DEF TypeInv, TypeOK, RequestCount, WaitingSubscribed, SendingValue,
            varsManager, varsTick, varsConsumer
<1>1. CASE RecvChannel(s)
  <2>1. Head(chan[s]) \in Data /\ Tail(chan[s]) \in Seq(Data)
    BY <1>1 DEF RecvChannel
  <2> QED
    BY <1>1, <2>1 DEF RecvChannel
<1>2. CASE RecvDirect(s)
  <2>1. pos + 1 \in Data /\ pos' \in 0..Values
    BY <1>2, VarManagerAssumption DEF RecvDirect, Data
  <2> QED
    BY <1>2, <2>1 DEF RecvDirect
<1>3. CASE RecvEnd(s)
  BY <1>3 DEF RecvEnd
<1>4. CASE DropStream(s)
  BY <1>4 DEF DropStream
<1> QED
  BY <1>1, <1>2, <1>3, <1>4 DEF Consumer

\* The steps of the owner, and cancellation.
LEMMA LifecycleTypeInv ==
  ASSUME TypeInv, Lifecycle
  PROVE  TypeInv'
<1> USE DEF TypeInv, TypeOK, RequestCount, WaitingSubscribed, SendingValue,
            varsManager, varsTick, varsConsumer
<1>1. CASE Run
  BY <1>1 DEF Run, Stages
<1>2. CASE RunCancelled
  <2>1. Runner \in Ticks /\ permits' \in Nat
    BY <1>2 DEF RunCancelled, Ticks
  <2> QED
    BY <1>2, <2>1, ReturnTypeInv DEF RunCancelled
<1>3. CASE DropManager
  BY <1>3 DEF DropManager
<1>4. CASE Cancel
  BY <1>4 DEF Cancel
<1> QED
  BY <1>1, <1>2, <1>3, <1>4 DEF Lifecycle

LEMMA NextTypeInv == TypeInv /\ [Next]_vars => TypeInv'
<1> SUFFICES ASSUME TypeInv, [Next]_vars PROVE TypeInv'
  OBVIOUS
<1>1. CASE Next
  BY <1>1, SubscriptionTypeInv, TickTypeInv, ConsumerTypeInv, LifecycleTypeInv
     DEF Next
<1>2. CASE UNCHANGED vars
  BY <1>2 DEF vars, varsManager, varsTick, varsConsumer, TypeInv, TypeOK,
              RequestCount, WaitingSubscribed, SendingValue
<1> QED
  BY <1>1, <1>2

\* Type correctness: every variable of a manager keeps its type, and the
\* counter of outstanding requests never wraps below zero, for any callers.
THEOREM TypeCorrect == Spec => []TypeOK
<1>1. Spec => []TypeInv
  BY InitTypeInv, NextTypeInv, PTL DEF Spec
<1> QED
  BY <1>1, PTL DEF TypeInv

\* outstanding_sub_requests is at all times the number of subscription tasks
\* in flight, for any callers.
THEOREM RequestsCounted == Spec => []RequestCount
<1>1. Spec => []TypeInv
  BY InitTypeInv, NextTypeInv, PTL DEF Spec
<1> QED
  BY <1>1, PTL DEF TypeInv

-----------------------------------------------------------------------------
(* The barrier of permits.  It needs callers that never subscribe, tick or  *)
(* run while a tick is in flight: the saturating remove_permits(1) of a     *)
(* subscription takes nothing back from a tick that holds the permit.       *)

InFlight(t) == pc[t] # "idle"

\* At most one tick is in flight, and it belongs to the owner.
OneInFlight ==
  /\ \A t, u \in Ticks : InFlight(t) /\ InFlight(u) => t = u
  /\ owner = "caller" => ~InFlight(Runner)
  /\ owner = "running" => \A t \in Manual : ~InFlight(t)
  /\ owner = "gone" => \A t \in Ticks : ~InFlight(t)

\* There is one permit: with the requests while one is outstanding, else with
\* the tick that distributes, else in the semaphore.
OnePermit ==
  /\ waiting # {} => permits = 0 /\ ~InputBorrowed
  /\ waiting = {} => permits = IF InputBorrowed THEN 0 ELSE 1

BarrierInv == OneInFlight /\ OnePermit

\* Only the tick in flight can hold the permit.
LEMMA BorrowerInFlight ==
  ASSUME OneInFlight, NEW t \in Ticks, InFlight(t)
  PROVE  InputBorrowed <=> Holding(t)
BY DEF OneInFlight, InputBorrowed, Holding, InFlight

LEMMA InitBarrier == Init => BarrierInv
<1> SUFFICES ASSUME Init PROVE BarrierInv
  OBVIOUS
<1>1. \A t \in Ticks : pc[t] = "idle"
  BY DEF Init
<1>2. ~InputBorrowed
  BY <1>1 DEF InputBorrowed, Holding
<1>3. Runner \in Ticks /\ Manual \subseteq Ticks
  BY DEF Ticks
<1> QED
  BY <1>1, <1>2, <1>3 DEF Init, BarrierInv, OneInFlight, OnePermit, InFlight

\* A step that leaves the tick futures, the owner, the requests and the
\* permits alone.
LEMMA FrameBarrier ==
  ASSUME BarrierInv, UNCHANGED <<pc, owner, waiting, permits>>
  PROVE  BarrierInv'
BY DEF BarrierInv, OneInFlight, OnePermit, InFlight, InputBorrowed, Holding

\* A step in which the tick in flight returns: the permit, if it held it,
\* goes back to the semaphore.
LEMMA ReturnBarrier ==
  ASSUME TypeOK, BarrierInv, NEW t \in Ticks, NEW result \in BOOLEAN,
         InFlight(t), Return(t, result), waiting' = waiting,
         permits' = IF Holding(t) THEN permits + 1 ELSE permits
  PROVE  BarrierInv'
<1>1. \A u \in Ticks : pc'[u] = "idle"
  BY DEF TypeOK, BarrierInv, OneInFlight, InFlight, Return
<1>2. ~InputBorrowed'
  BY <1>1 DEF InputBorrowed, Holding
<1>3. InputBorrowed <=> Holding(t)
  BY BorrowerInFlight DEF BarrierInv
<1>4. OnePermit'
  BY <1>2, <1>3 DEF BarrierInv, OnePermit
<1>5. OneInFlight'
  BY <1>1 DEF OneInFlight, InFlight, Ticks
<1> QED
  BY <1>4, <1>5 DEF BarrierInv

LEMMA SubscriptionBarrier ==
  ASSUME ~Overlap, TypeInv, BarrierInv, NEW s \in Subs, Subscription(s)
  PROVE  BarrierInv'
<1>1. CASE Subscribe(s)
  <2>1. \A t \in Ticks : pc[t] = "idle"
    BY <1>1 DEF Subscribe, CanSubscribe, CallerFree
  <2>2. ~InputBorrowed
    BY <2>1 DEF InputBorrowed, Holding
  <2>3. permits \in {0, 1}
    BY <2>2 DEF BarrierInv, OnePermit
  <2>4. permits' = 0 /\ waiting' # {}
    BY <1>1, <2>3 DEF Subscribe, PermitRemoved
  <2>5. UNCHANGED <<pc, owner>>
    BY <1>1 DEF Subscribe, varsTick
  <2>6. ~InputBorrowed'
    BY <2>2, <2>5 DEF InputBorrowed, Holding
  <2>7. OneInFlight'
    BY <2>5 DEF BarrierInv, OneInFlight, InFlight
  <2> QED
    BY <2>4, <2>6, <2>7 DEF BarrierInv, OnePermit
<1>2. CASE SubscribePanics(s)
  BY <1>2, FrameBarrier DEF SubscribePanics, varsManager, varsTick
<1>3. CASE ServeDirect(s) \/ ServeChannel(s)
  <2>1. s \in waiting /\ CompleteRequest(s) /\ UNCHANGED <<pc, owner>>
    BY <1>3 DEF ServeDirect, ServeChannel, CanServe, varsTick
  <2>2. waiting' = {} <=> outstanding = 1
    BY <2>1, CompleteCounts DEF TypeInv
  <2>3. permits = 0 /\ ~InputBorrowed
    BY <2>1 DEF BarrierInv, OnePermit
  <2>4. permits' = IF waiting' = {} THEN 1 ELSE 0
    BY <2>1, <2>2, <2>3 DEF CompleteRequest
  <2>5. ~InputBorrowed' /\ OneInFlight'
    BY <2>1, <2>3 DEF InputBorrowed, Holding, BarrierInv, OneInFlight, InFlight
  <2> QED
    BY <2>4, <2>5 DEF BarrierInv, OnePermit
<1>4. CASE ServePanics(s)
  BY <1>4, FrameBarrier DEF ServePanics, varsManager, varsTick
<1> QED
  BY <1>1, <1>2, <1>3, <1>4 DEF Subscription

LEMMA TickBarrier ==
  ASSUME ~Overlap, TypeInv, BarrierInv, NEW t \in Ticks, Tick(t)
  PROVE  BarrierInv'
<1> USE DEF TypeInv
<1>1. CASE TickCall(t)
  <2>1. \A u \in Ticks : pc[u] = "idle"
    BY <1>1 DEF TickCall, CallerFree, BarrierInv, OneInFlight, InFlight, Ticks
  <2>2. /\ pc' = [pc EXCEPT ![t] = "start"]
        /\ UNCHANGED <<owner, waiting, permits>>
        /\ owner = IF t = Runner THEN "running" ELSE "caller"
    BY <1>1 DEF TickCall, varsManager
  <2>3. pc'[t] = "start" /\ \A u \in Ticks \ {t} : pc'[u] = "idle"
    BY <2>1, <2>2 DEF TypeOK
  <2>4. ~InputBorrowed /\ ~InputBorrowed'
    BY <2>1, <2>3 DEF InputBorrowed, Holding
  <2>5. OneInFlight'
    BY <2>2, <2>3, VarManagerAssumption DEF OneInFlight, InFlight, Ticks
  <2> QED
    BY <2>2, <2>4, <2>5 DEF BarrierInv, OnePermit
<1>2. CASE TickStart(t)
  <2>1. InFlight(t) /\ ~Holding(t) /\ UNCHANGED <<waiting, permits>>
    BY <1>2 DEF TickStart, InFlight, Holding
  <2>2. CASE Return(t, FALSE)
    BY <2>1, <2>2, ReturnBarrier
  <2>3. CASE pc' = [pc EXCEPT ![t] = "acquire"] /\ owner' = owner
    <3>1. \A u \in Ticks : /\ InFlight(u)' <=> InFlight(u)
                           /\ Holding(u)' <=> Holding(u)
      BY <2>1, <2>3 DEF InFlight, Holding, TypeOK
    <3> QED
      BY <2>1, <2>3, <3>1 DEF BarrierInv, OneInFlight, OnePermit, InputBorrowed, Ticks
  <2> QED
    BY <1>2, <2>2, <2>3 DEF TickStart
<1>3. CASE TickAcquire(t)
  <2>1. InFlight(t) /\ ~Holding(t) /\ permits > 0 /\ UNCHANGED waiting
    BY <1>3 DEF TickAcquire, InFlight, Holding
  <2>2. CASE Return(t, FALSE) /\ UNCHANGED permits
    BY <2>1, <2>2, ReturnBarrier
  <2>3. CASE /\ permits' = permits - 1
             /\ pc' = [pc EXCEPT ![t] = "read"]
             /\ owner' = owner
    <3>1. \A u \in Ticks : InFlight(u)' <=> InFlight(u)
      BY <2>1, <2>3 DEF InFlight, TypeOK
    <3>2. OneInFlight'
      BY <2>3, <3>1 DEF BarrierInv, OneInFlight, Ticks
    <3>3. waiting = {} /\ permits = 1
      BY <2>1 DEF BarrierInv, OnePermit
    <3>4. InputBorrowed'
      BY <2>3 DEF InputBorrowed, Holding, TypeOK
    <3> QED
      BY <2>1, <2>3, <3>2, <3>3, <3>4 DEF BarrierInv, OnePermit
  <2> QED
    BY <1>3, <2>2, <2>3 DEF TickAcquire
<1>4. CASE AcquirePanics(t)
  BY <1>4, FrameBarrier DEF AcquirePanics, varsManager, varsTick
<1>5. CASE TickReadValue(t)
  <2>1. InFlight(t) /\ Holding(t) /\ UNCHANGED waiting
    BY <1>5 DEF TickReadValue, InFlight, Holding
  <2>2. CASE Return(t, TRUE) /\ permits' = permits + 1
    BY <2>1, <2>2, ReturnBarrier
  <2>3. CASE pc' = [pc EXCEPT ![t] = "send"] /\ UNCHANGED <<owner, permits>>
    <3>1. \A u \in Ticks : /\ InFlight(u)' <=> InFlight(u)
                           /\ Holding(u)' <=> Holding(u)
      BY <2>1, <2>3 DEF InFlight, Holding, TypeOK
    <3> QED
      BY <2>1, <2>3, <3>1 DEF BarrierInv, OneInFlight, OnePermit, InputBorrowed, Ticks
  <2> QED
    BY <1>5, <2>2, <2>3 DEF TickReadValue
<1>6. CASE TickReadEnd(t)
  BY <1>6, ReturnBarrier DEF TickReadEnd, InFlight, Holding
<1>7. ASSUME NEW s \in Subs, TickSend(t, s)
      PROVE  BarrierInv'
  <2>1. InFlight(t) /\ Holding(t) /\ UNCHANGED waiting
    BY <1>7 DEF TickSend, InFlight, Holding
  <2>2. \/ Return(t, TRUE) /\ permits' = permits + 1
        \/ UNCHANGED <<permits, owner, pc>>
    BY <1>7 DEF TickSend
  <2> QED
    BY <2>1, <2>2, ReturnBarrier, FrameBarrier
<1>8. CASE TickCancelled(t)
  BY <1>8, ReturnBarrier DEF TickCancelled, InFlight
<1> QED
  BY <1>1, <1>2, <1>3, <1>4, <1>5, <1>6, <1>7, <1>8 DEF Tick

LEMMA LifecycleBarrier ==
  ASSUME ~Overlap, TypeInv, BarrierInv, Lifecycle
  PROVE  BarrierInv'
<1> USE DEF TypeInv
<1>1. CASE Run
  <2>1. \A t \in Ticks : pc[t] = "idle"
    BY <1>1 DEF Run, CallerFree
  <2>2. owner' = "running" /\ UNCHANGED <<pc, waiting, permits>>
    BY <1>1 DEF Run, varsTick
  <2> QED
    BY <2>1, <2>2 DEF BarrierInv, OneInFlight, OnePermit, InFlight,
                      InputBorrowed, Holding, Ticks
<1>2. CASE RunCancelled
  <2>1. Runner \in Ticks /\ \A t \in Manual : pc[t] = "idle"
    BY <1>2 DEF RunCancelled, BarrierInv, OneInFlight, InFlight, Ticks
  <2>2. /\ Return(Runner, FALSE) /\ UNCHANGED waiting
        /\ permits' = IF Holding(Runner) THEN permits + 1 ELSE permits
    BY <1>2 DEF RunCancelled
  <2>3. \A t \in Ticks : pc'[t] = "idle"
    BY <2>1, <2>2 DEF Return, TypeOK, Ticks
  <2>4. ~InputBorrowed' /\ OneInFlight'
    BY <2>1, <2>3 DEF InputBorrowed, Holding, OneInFlight, InFlight, Ticks
  <2>5. InputBorrowed <=> Holding(Runner)
    BY <2>1 DEF InputBorrowed, Holding, Ticks
  <2> QED
    BY <2>2, <2>4, <2>5 DEF BarrierInv, OnePermit
<1>3. CASE DropManager
  <2>1. /\ \A t \in Ticks : pc'[t] = "idle"
        /\ UNCHANGED waiting
        /\ permits' = IF InputBorrowed THEN permits + 1 ELSE permits
    BY <1>3 DEF DropManager
  <2>2. ~InputBorrowed' /\ OneInFlight'
    BY <2>1 DEF InputBorrowed, Holding, OneInFlight, InFlight, Ticks
  <2> QED
    BY <2>1, <2>2 DEF BarrierInv, OnePermit
<1>4. CASE Cancel
  BY <1>4, FrameBarrier DEF Cancel, varsTick
<1> QED
  BY <1>1, <1>2, <1>3, <1>4 DEF Lifecycle

LEMMA NextBarrier ==
  ASSUME ~Overlap
  PROVE  TypeInv /\ BarrierInv /\ [Next]_vars => BarrierInv'
<1> SUFFICES ASSUME TypeInv, BarrierInv, [Next]_vars PROVE BarrierInv'
  OBVIOUS
<1>1. ASSUME NEW s \in Subs, Consumer(s) PROVE BarrierInv'
  BY <1>1, FrameBarrier DEF Consumer, RecvChannel, RecvDirect, RecvEnd,
                            DropStream, varsManager, varsTick
<1>2. CASE UNCHANGED vars
  BY <1>2, FrameBarrier DEF vars, varsManager, varsTick
<1> QED
  BY <1>1, <1>2, SubscriptionBarrier, TickBarrier, LifecycleBarrier DEF Next

\* The invariant says what the comment on VarManager promises.
LEMMA BarrierImplies == TypeInv /\ BarrierInv => PermitBarrier
<1> SUFFICES ASSUME TypeInv, BarrierInv PROVE PermitBarrier
  OBVIOUS
<1>1. \A t, u \in Ticks : Holding(t) /\ Holding(u) => t = u
  BY DEF BarrierInv, OneInFlight, InFlight, Holding
<1>2. ASSUME outstanding > 0 PROVE \A t \in Ticks : ~Holding(t)
  <2>1. waiting # {}
    BY <1>2, FS_EmptySet DEF TypeInv, RequestCount
  <2> QED
    BY <2>1 DEF BarrierInv, OnePermit, InputBorrowed
<1> QED
  BY <1>1, <1>2 DEF PermitBarrier

\* The two promises of the comment on VarManager hold for callers that behave
\* as Context does: only one tick distributes at a time, and none while a
\* subscription request is outstanding.
THEOREM BarrierHolds ==
  ASSUME ~Overlap
  PROVE  Spec => []PermitBarrier
<1>1. Spec => [](TypeInv /\ BarrierInv)
  BY InitTypeInv, NextTypeInv, InitBarrier, NextBarrier, PTL DEF Spec
<1> QED
  BY <1>1, BarrierImplies, PTL

-----------------------------------------------------------------------------
(* What the subscribers see, and when the actor panics.                    *)

\* A request made while the manager gathers subscriptions.
Gathered(s) == s \in waiting /\ captured[s] = "Gathering"

-----------------------------------------------------------------------------
(* The gathering stage: until all its requests are served no tick reads, so *)
(* that the input stream may be handed over whole.                          *)

Gathering ==
  stage = "Gathering" =>
    /\ \A t \in Ticks : pc[t] \in {"idle", "start"}
    /\ \A s \in waiting : captured[s] = "Gathering"
    /\ permits = IF waiting = {} THEN 1 ELSE 0
Captures ==
  /\ stage = "Closed" => owner # "caller"
  /\ \A s \in waiting : captured[s] # "Closed"
GatheredIdle == (\E s \in Subs : Gathered(s)) => permits = 0 /\ ~InputBorrowed
GatheredFresh ==
  \A s \in Subs : Gathered(s) =>
    /\ s \in subscribers /\ stream[s] \in {"pending", "dropped"}
    /\ chan[s] = <<>> /\ recv[s] = <<>> /\ base[s] = pos
Directs ==
  /\ input = "taken" => ~InputBorrowed /\ subscribers = {} /\ stage = "Closed"
  /\ \A s \in Subs : stream[s] = "direct" => input = "taken"
  /\ \A s, r \in Subs : stream[s] = "direct" /\ stream[r] = "direct" => s = r
Unsubscribed ==
  \A s \in Subs : stream[s] = "none" =>
    s \notin subscribers /\ s \notin waiting /\ chan[s] = <<>> /\ recv[s] = <<>>
OneHolder == \A t, u \in Ticks : Holding(t) /\ Holding(u) => t = u

GatherInv ==
  /\ Gathering /\ Captures /\ GatheredIdle /\ GatheredFresh /\ Directs
  /\ Unsubscribed /\ OneHolder

LEMMA InitGather == Init => GatherInv
BY DEF Init, GatherInv, Gathering, Captures, GatheredIdle, GatheredFresh, Directs, Unsubscribed,
       OneHolder, Gathered, InputBorrowed, Holding

\* A step of a tick or of the owner that reads and distributes nothing.
LEMMA FrameGather ==
  ASSUME GatherInv,
         UNCHANGED <<stage, permits, subscribers, waiting, captured, input, pos, stream, chan, recv, base>>,
         owner' \in {owner, "gone", "running"},
         \A t \in Ticks : pc'[t] = pc[t] \/ pc'[t] \in {"idle", "start"}
  PROVE  GatherInv'
<1>1. \A t \in Ticks : Holding(t)' => Holding(t)
  BY DEF Holding
<1>2. InputBorrowed' => InputBorrowed
  BY <1>1 DEF InputBorrowed
<1>3. \A s : Gathered(s)' <=> Gathered(s)
  BY DEF Gathered
<1>4. Gathering' /\ Captures' /\ OneHolder'
  BY <1>1 DEF GatherInv, Gathering, Captures, OneHolder
<1>5. GatheredIdle' /\ GatheredFresh'
  BY <1>2, <1>3 DEF GatherInv, GatheredIdle, GatheredFresh
<1>6. Directs' /\ Unsubscribed'
  BY <1>2 DEF GatherInv, Directs, Unsubscribed
<1> QED
  BY <1>4, <1>5, <1>6 DEF GatherInv

\* A step while a tick reads or distributes: no request of the gathering
\* stage is left.
LEMMA FrameHolding ==
  ASSUME GatherInv, InputBorrowed,
         UNCHANGED <<stage, waiting, captured, input, stream, recv, base>>,
         subscribers' \subseteq subscribers,
         \A s \in Subs : stream[s] = "none" => chan'[s] = chan[s],
         owner' \in {owner, "gone"},
         \A t \in Ticks : Holding(t)' => Holding(t)
  PROVE  GatherInv'
<1>1. stage # "Gathering" /\ ~\E s \in Subs : Gathered(s)
  BY DEF GatherInv, Gathering, GatheredIdle, InputBorrowed, Holding
<1>2. ~\E s \in Subs : Gathered(s)'
  BY <1>1 DEF Gathered
<1>3. input # "taken"
  BY DEF GatherInv, Directs
<1>4. Gathering' /\ Captures' /\ OneHolder'
  BY <1>1 DEF GatherInv, Gathering, Captures, OneHolder
<1>5. GatheredIdle' /\ GatheredFresh'
  BY <1>2 DEF GatheredIdle, GatheredFresh
<1>6. Directs' /\ Unsubscribed'
  BY <1>3 DEF GatherInv, Directs, Unsubscribed
<1> QED
  BY <1>4, <1>5, <1>6 DEF GatherInv

\* What is served with the input stream itself is the only subscription, made
\* while the manager gathered, and nothing has been read.
LEMMA DirectIsGathered ==
  ASSUME TypeInv, GatherInv, NEW s \in Subs, CanServe(s), ServedDirectly(s)
  PROVE  Gathered(s) /\ subscribers = {s} /\ stage = "Closed"
<1>1. Gathered(s) /\ stage = "Closed"
  BY DEF CanServe, ServedDirectly, SeenStage, Gathered, GatherInv, Captures, TypeInv, TypeOK, Stages
<1>2. s \in subscribers
  BY <1>1 DEF GatherInv, GatheredFresh
<1>3. IsFiniteSet(subscribers)
  <2>1. IsFiniteSet(Subs) /\ subscribers \subseteq Subs
    BY FS_Interval, VarManagerAssumption DEF Subs, TypeInv, TypeOK
  <2> QED
    BY <2>1, FS_Subset
<1>4. \E x : subscribers = {x}
  BY <1>3, FS_Singleton DEF ServedDirectly
<1> QED
  BY <1>1, <1>2, <1>4

\* The requests: the permit goes with the first and comes back with the last.
LEMMA SubscriptionGather ==
  ASSUME TypeInv, GatherInv, NEW s \in Subs, Subscription(s)
  PROVE  GatherInv'
<1>1. CASE Subscribe(s)
  <2>1. /\ owner = "caller" /\ stream[s] = "none"
        /\ subscribers' = subscribers \union {s} /\ waiting' = waiting \union {s}
        /\ permits' = IF permits > 0 THEN permits - 1 ELSE 0
        /\ captured' = [captured EXCEPT ![s] = stage]
        /\ stream' = [stream EXCEPT ![s] = "pending"]
        /\ base' = [base EXCEPT ![s] = pos]
        /\ UNCHANGED <<stage, input, pos, owner, pc, chan, recv>>
    BY <1>1 DEF Subscribe, CanSubscribe, PermitRemoved, varsTick
  <2>2. stage # "Closed" /\ input # "taken"
    BY <2>1 DEF GatherInv, Captures, Directs
  <2>3. s \notin waiting /\ chan[s] = <<>> /\ recv[s] = <<>>
    BY <2>1 DEF GatherInv, Unsubscribed
  <2>4. captured'[s] = stage /\ stream'[s] = "pending" /\ base'[s] = pos
        /\ \A r \in Subs \ {s} : captured'[r] = captured[r] /\ stream'[r] = stream[r] /\ base'[r] = base[r]
    BY <2>1 DEF TypeInv, TypeOK
  <2>5. (InputBorrowed' <=> InputBorrowed) /\ OneHolder'
    BY <2>1 DEF InputBorrowed, Holding, OneHolder, GatherInv
  <2>6. Gathering'
    <3>1. stage = "Gathering" => permits \in {0, 1}
      BY DEF GatherInv, Gathering
    <3>2. stage = "Gathering" => permits' = 0
      BY <2>1, <3>1
    <3>3. stage = "Gathering" => \A r \in waiting' : captured'[r] = "Gathering"
      BY <2>1, <2>4 DEF GatherInv, Gathering, TypeInv, TypeOK
    <3> QED
      BY <2>1, <3>2, <3>3 DEF GatherInv, Gathering
  <2>7. Captures'
    BY <2>1, <2>2, <2>4 DEF GatherInv, Captures, TypeInv, TypeOK
  <2>8. GatheredIdle'
    <3>1. CASE stage = "Gathering"
      <4>1. ~InputBorrowed
        BY <3>1 DEF GatherInv, Gathering, InputBorrowed, Holding
      <4>2. permits \in {0, 1}
        BY <3>1 DEF GatherInv, Gathering
      <4> QED
        BY <2>1, <2>5, <4>1, <4>2 DEF GatheredIdle
    <3>2. CASE stage # "Gathering"
      <4>1. \A r \in Subs : Gathered(r)' => Gathered(r)
        BY <2>1, <2>4, <3>2 DEF Gathered
      <4>2. permits = 0 => permits' = 0
        BY <2>1
      <4> QED
        BY <2>5, <4>1, <4>2 DEF GatherInv, GatheredIdle
    <3> QED
      BY <3>1, <3>2
  <2>9. GatheredFresh'
    <3> SUFFICES ASSUME NEW r \in Subs, Gathered(r)'
                 PROVE  /\ r \in subscribers' /\ stream'[r] \in {"pending", "dropped"}
                        /\ chan'[r] = <<>> /\ recv'[r] = <<>> /\ base'[r] = pos'
      BY DEF GatheredFresh
    <3>1. CASE r = s
      BY <2>1, <2>3, <2>4, <3>1
    <3>2. CASE r # s
      BY <2>1, <2>4, <3>2 DEF Gathered, GatherInv, GatheredFresh
    <3> QED
      BY <3>1, <3>2
  <2>10. Directs'
    BY <2>1, <2>2, <2>4, <2>5 DEF GatherInv, Directs
  <2>11. Unsubscribed'
    BY <2>1, <2>4 DEF GatherInv, Unsubscribed
  <2> QED
    BY <2>5, <2>6, <2>7, <2>8, <2>9, <2>10, <2>11 DEF GatherInv
<1>2. ASSUME CanServe(s), CompleteRequest(s), stream' \in {[stream EXCEPT ![s] = "direct"], [stream EXCEPT ![s] = "channel"]},
             stream'[s] = "direct" =>
               input' = "taken" /\ input = "held" /\ ~InputBorrowed /\ subscribers' = {} /\ stage = "Closed",
             stream'[s] = "channel" => UNCHANGED <<input, subscribers>>,
             (\E r \in Subs : Gathered(r) /\ r # s) => subscribers' = subscribers,
             UNCHANGED <<stage, captured, pos, owner, pc, chan, recv, base>>
      PROVE  GatherInv'
  <2>1. s \in waiting /\ waiting' = waiting \ {s} /\ (waiting' = {} <=> outstanding = 1)
        /\ permits' = IF waiting' = {} THEN permits + 1 ELSE permits
    BY <1>2, CompleteCounts DEF CanServe, CompleteRequest, TypeInv
  <2>2. (InputBorrowed' <=> InputBorrowed) /\ OneHolder'
    BY <1>2 DEF InputBorrowed, Holding, OneHolder, GatherInv
  <2>3. \A r \in Subs : Gathered(r)' => Gathered(r) /\ r # s
    BY <1>2, <2>1 DEF Gathered
  <2>4. stage # "Gathering"
    BY <1>2, <2>1 DEF CanServe, SeenStage, GatherInv, Gathering
  <2>5. Gathering' /\ Captures'
    BY <1>2, <2>1, <2>4 DEF GatherInv, Gathering, Captures
  <2>6. GatheredIdle'
    <3>1. ASSUME NEW r \in Subs, Gathered(r)' PROVE permits' = 0 /\ ~InputBorrowed'
      <4>1. Gathered(r) /\ waiting' # {}
        BY <3>1, <2>3 DEF Gathered
      <4> QED
        BY <2>1, <2>2, <4>1 DEF GatherInv, GatheredIdle
    <3> QED
      BY <3>1 DEF GatheredIdle
  <2>7. stream'[s] \in {"direct", "channel"} /\ \A r \in Subs \ {s} : stream'[r] = stream[r]
    BY <1>2 DEF TypeInv, TypeOK
  <2>8. GatheredFresh'
    <3> SUFFICES ASSUME NEW r \in Subs, Gathered(r)'
                 PROVE  /\ r \in subscribers' /\ stream'[r] \in {"pending", "dropped"}
                        /\ chan'[r] = <<>> /\ recv'[r] = <<>> /\ base'[r] = pos'
      BY DEF GatheredFresh
    <3>1. Gathered(r) /\ r # s
      BY <2>3
    <3> QED
      BY <1>2, <2>7, <3>1 DEF GatherInv, GatheredFresh
  <2>9. Directs'
    BY <1>2, <2>2, <2>7 DEF GatherInv, Directs
  <2>10. Unsubscribed'
    <3>1. subscribers' \subseteq subscribers
      BY <1>2, <2>7
    <3> QED
      BY <1>2, <2>1, <2>7, <3>1 DEF GatherInv, Unsubscribed
  <2> QED
    BY <2>2, <2>5, <2>6, <2>8, <2>9, <2>10 DEF GatherInv
<1>3. CASE ServeDirect(s)
  <2>1. CanServe(s) /\ CompleteRequest(s) /\ ServedDirectly(s) /\ ~InputBorrowed /\ input # "taken"
    BY <1>3 DEF ServeDirect, ServeFails
  <2>2. subscribers = {s} /\ stage = "Closed"
    BY <2>1, DirectIsGathered
  <2>3. input = "held" /\ stream' = [stream EXCEPT ![s] = "direct"] /\ stream'[s] = "direct"
    BY <1>3, <2>1 DEF ServeDirect, TypeInv, TypeOK
  <2>4. ~\E r \in Subs : Gathered(r) /\ r # s
    BY <2>2 DEF GatherInv, GatheredFresh
  <2>5. /\ input' = "taken" /\ subscribers' = {}
        /\ UNCHANGED <<stage, captured, pos, owner, pc, chan, recv, base>>
    BY <1>3 DEF ServeDirect, varsTick
  <2> QED
    BY <1>2, <2>1, <2>2, <2>3, <2>4, <2>5
<1>4. CASE ServeChannel(s)
  <2>1. /\ CanServe(s) /\ CompleteRequest(s)
        /\ stream' = [stream EXCEPT ![s] = "channel"] /\ stream'[s] = "channel"
        /\ UNCHANGED <<input, subscribers, stage, captured, pos, owner, pc, chan, recv, base>>
    BY <1>4 DEF ServeChannel, varsTick, TypeInv, TypeOK
  <2> QED
    BY <1>2, <2>1
<1>5. CASE SubscribePanics(s) \/ ServePanics(s)
  BY <1>5, FrameGather DEF SubscribePanics, ServePanics, varsManager, varsTick, varsConsumer
<1> QED
  BY <1>1, <1>3, <1>4, <1>5 DEF Subscription

\* The steps of a tick future.
LEMMA TickGather ==
  ASSUME TypeInv, GatherInv, NEW t \in Ticks, Tick(t)
  PROVE  GatherInv'
<1>1. CASE TickCall(t)
  <2>1. \A u \in Ticks : pc'[u] = pc[u] \/ pc'[u] \in {"idle", "start"}
    BY <1>1 DEF TickCall, TypeInv, TypeOK
  <2> QED
    BY <1>1, <2>1, FrameGather DEF TickCall, varsManager, varsConsumer
<1>2. CASE TickStart(t)
  <2>0. UNCHANGED <<permits, subscribers, waiting, captured, input, pos, stream, chan, recv, base>>
    BY <1>2 DEF TickStart, varsConsumer
  <2>1. CASE StopAtStart
    <3>1. \A u \in Ticks : pc'[u] = pc[u] \/ pc'[u] \in {"idle", "start"}
      BY <1>2, <2>1 DEF TickStart, Return, TypeInv, TypeOK
    <3>2. stage' = stage /\ owner' \in {owner, "gone"}
      BY <1>2, <2>1 DEF TickStart, Return
    <3> QED
      BY <2>0, <3>1, <3>2, FrameGather
  <2>2. CASE ~StopAtStart
    <3>1. /\ pc' = [pc EXCEPT ![t] = "acquire"] /\ pc[t] = "start" /\ owner' = owner
          /\ stage' = IF stage = "Gathering" THEN "Open" ELSE stage
      BY <1>2, <2>2 DEF TickStart
    <3>2. \A u \in Ticks : Holding(u)' <=> Holding(u)
      BY <3>1 DEF Holding, TypeInv, TypeOK
    <3>3. (InputBorrowed' <=> InputBorrowed) /\ OneHolder'
      BY <3>2 DEF InputBorrowed, OneHolder, GatherInv
    <3>4. Gathering' /\ Captures' /\ Directs' /\ Unsubscribed'
      BY <2>0, <3>1, <3>3 DEF GatherInv, Gathering, Captures, Directs, Unsubscribed
    <3>5. GatheredIdle' /\ GatheredFresh'
      BY <2>0, <3>3 DEF GatherInv, GatheredIdle, GatheredFresh, Gathered
    <3> QED
      BY <3>3, <3>4, <3>5 DEF GatherInv
  <2> QED
    BY <2>1, <2>2
<1>3. CASE TickAcquire(t)
  <2>0. /\ permits > 0 /\ ~InputBorrowed /\ pc[t] = "acquire"
        /\ UNCHANGED <<stage, subscribers, waiting, captured, input, pos, stream, chan, recv, base>>
    BY <1>3 DEF TickAcquire, varsConsumer
  <2>1. CASE Return(t, FALSE) /\ UNCHANGED permits
    <3>1. \A u \in Ticks : pc'[u] = pc[u] \/ pc'[u] \in {"idle", "start"}
      BY <2>1 DEF Return, TypeInv, TypeOK
    <3>2. owner' \in {owner, "gone"}
      BY <2>1 DEF Return
    <3> QED
      BY <2>0, <2>1, <3>1, <3>2, FrameGather
  <2>2. CASE input = "held" /\ pc' = [pc EXCEPT ![t] = "read"] /\ owner' = owner
    <3>1. stage # "Gathering" /\ ~\E s \in Subs : Gathered(s)
      BY <2>0 DEF GatherInv, Gathering, GatheredIdle
    <3>2. OneHolder'
      BY <2>0, <2>2 DEF OneHolder, InputBorrowed, Holding, TypeInv, TypeOK
    <3>3. Gathering' /\ Captures' /\ Directs' /\ Unsubscribed'
      BY <2>0, <2>2, <3>1 DEF GatherInv, Gathering, Captures, Directs, Unsubscribed
    <3>4. GatheredIdle' /\ GatheredFresh'
      BY <2>0, <3>1 DEF GatheredIdle, GatheredFresh, Gathered
    <3> QED
      BY <3>2, <3>3, <3>4 DEF GatherInv
  <2> QED
    BY <1>3, <2>1, <2>2 DEF TickAcquire
<1>4. CASE AcquirePanics(t)
  BY <1>4, FrameGather DEF AcquirePanics, varsManager, varsTick, varsConsumer
<1>5. ASSUME NEW result \in BOOLEAN, Return(t, result)
      PROVE  owner' \in {owner, "gone"} /\ \A u \in Ticks : Holding(u)' => Holding(u)
  BY <1>5 DEF Return, Holding, TypeInv, TypeOK
<1>6. CASE TickReadValue(t) \/ TickReadEnd(t)
  <2>1. /\ InputBorrowed /\ subscribers' \subseteq subscribers
        /\ UNCHANGED <<stage, waiting, captured, input, stream, chan, recv, base>>
    BY <1>6 DEF TickReadValue, TickReadEnd, InputBorrowed, Holding, varsConsumer
  <2>2. CASE Return(t, TRUE) \/ Return(t, FALSE)
    BY <1>5, <2>1, <2>2, FrameHolding
  <2>3. CASE pc' = [pc EXCEPT ![t] = "send"] /\ UNCHANGED owner
    <3>1. \A u \in Ticks : Holding(u)' => Holding(u)
      BY <1>6, <2>3 DEF TickReadValue, TickReadEnd, Holding, TypeInv, TypeOK
    <3> QED
      BY <2>1, <2>3, <3>1, FrameHolding
  <2> QED
    BY <1>6, <2>2, <2>3 DEF TickReadValue, TickReadEnd
<1>7. ASSUME NEW s \in Subs, TickSend(t, s) PROVE GatherInv'
  <2>1. /\ InputBorrowed /\ subscribers' \subseteq subscribers
        /\ UNCHANGED <<stage, waiting, captured, input, stream, recv, base>>
    BY <1>7 DEF TickSend, InputBorrowed, Holding
  <2>2. \A r \in Subs : stream[r] = "none" => chan'[r] = chan[r]
    BY <1>7 DEF TickSend, ReceiverAlive, TypeInv, TypeOK, WaitingSubscribed
  <2>3. Return(t, TRUE) \/ UNCHANGED <<owner, pc>>
    BY <1>7 DEF TickSend
  <2>4. owner' \in {owner, "gone"} /\ \A u \in Ticks : Holding(u)' => Holding(u)
    BY <1>5, <2>3 DEF Holding
  <2> QED
    BY <2>1, <2>2, <2>4, FrameHolding
<1>8. CASE TickCancelled(t)
  <2>1. /\ Return(t, FALSE) /\ permits' = IF Holding(t) THEN permits + 1 ELSE permits
        /\ UNCHANGED <<stage, subscribers, waiting, captured, input, pos, stream, chan, recv, base>>
    BY <1>8 DEF TickCancelled, varsConsumer
  <2>2. CASE Holding(t)
    <3>1. InputBorrowed
      BY <2>2 DEF InputBorrowed
    <3> QED
      BY <1>5, <2>1, <3>1, FrameHolding
  <2>3. CASE ~Holding(t)
    <3>1. \A u \in Ticks : pc'[u] = pc[u] \/ pc'[u] \in {"idle", "start"}
      BY <2>1 DEF Return, TypeInv, TypeOK
    <3> QED
      BY <1>5, <2>1, <2>3, <3>1, FrameGather
  <2> QED
    BY <2>2, <2>3
<1> QED
  BY <1>1, <1>2, <1>3, <1>4, <1>6, <1>7, <1>8 DEF Tick

LEMMA ConsumerGather ==
  ASSUME TypeInv, GatherInv, NEW s \in Subs, Consumer(s)
  PROVE  GatherInv'
<1>0. /\ UNCHANGED <<stage, permits, subscribers, waiting, captured, input, owner, pc, base>>
      /\ stream[s] # "none"
  BY DEF Consumer, RecvChannel, RecvDirect, RecvEnd, DropStream, varsManager, varsTick
<1>1. Gathering' /\ Captures' /\ OneHolder' /\ GatheredIdle' /\ (InputBorrowed' <=> InputBorrowed)
  BY <1>0 DEF GatherInv, Gathering, Captures, OneHolder, GatheredIdle, Gathered, InputBorrowed, Holding
<1>2. \A r \in Subs \ {s} : stream'[r] = stream[r] /\ chan'[r] = chan[r] /\ recv'[r] = recv[r]
  BY DEF Consumer, RecvChannel, RecvDirect, RecvEnd, DropStream, TypeInv, TypeOK
<1>3. stream'[s] \in {stream[s], "ended", "dropped"}
  BY DEF Consumer, RecvChannel, RecvDirect, RecvEnd, DropStream, TypeInv, TypeOK
<1>4. Directs' /\ Unsubscribed'
  BY <1>0, <1>1, <1>2, <1>3 DEF GatherInv, Directs, Unsubscribed
<1>5. GatheredFresh'
  <2> SUFFICES ASSUME NEW r \in Subs, Gathered(r)
               PROVE  /\ r \in subscribers /\ stream'[r] \in {"pending", "dropped"}
                      /\ chan'[r] = <<>> /\ recv'[r] = <<>> /\ base[r] = pos'
    BY <1>0 DEF GatheredFresh, Gathered
  <2>1. /\ r \in subscribers /\ stream[r] \in {"pending", "dropped"}
        /\ chan[r] = <<>> /\ recv[r] = <<>> /\ base[r] = pos
    BY DEF GatherInv, GatheredFresh
  <2>2. ~RecvDirect(s)
    BY <2>1 DEF RecvDirect, GatherInv, Directs
  <2>3. pos' = pos
    BY <2>2 DEF Consumer, RecvChannel, RecvEnd, DropStream, varsManager
  <2>4. CASE r = s
    <3>1. ~RecvChannel(s) /\ ~RecvEnd(s)
      BY <2>1, <2>4 DEF RecvChannel, RecvEnd
    <3>2. DropStream(s)
      BY <2>2, <3>1 DEF Consumer
    <3>3. stream'[s] = "dropped" /\ UNCHANGED <<chan, recv>>
      BY <3>2 DEF DropStream, TypeInv, TypeOK
    <3> QED
      BY <2>1, <2>3, <2>4, <3>3
  <2>5. CASE r # s
    BY <1>2, <2>1, <2>3, <2>5
  <2> QED
    BY <2>1, <2>3, <2>4, <2>5
<1> QED
  BY <1>1, <1>4, <1>5 DEF GatherInv

LEMMA LifecycleGather ==
  ASSUME TypeInv, GatherInv, Lifecycle
  PROVE  GatherInv'
<1>1. CASE Run
  <2>1. /\ owner' = "running" /\ stage' = "Closed"
        /\ UNCHANGED <<permits, subscribers, waiting, captured, input, pos, pc, stream, chan, recv, base>>
    BY <1>1 DEF Run, varsTick, varsConsumer
  <2>2. (InputBorrowed' <=> InputBorrowed) /\ OneHolder'
    BY <2>1 DEF InputBorrowed, Holding, OneHolder, GatherInv
  <2> QED
    BY <2>1, <2>2 DEF GatherInv, Gathering, Captures, GatheredIdle, GatheredFresh, Gathered, Directs, Unsubscribed
<1>2. CASE RunCancelled
  <2>1. /\ Return(Runner, FALSE) /\ permits' = IF Holding(Runner) THEN permits + 1 ELSE permits
        /\ UNCHANGED <<stage, subscribers, waiting, captured, input, pos, stream, chan, recv, base>>
    BY <1>2 DEF RunCancelled, varsConsumer
  <2>2. /\ owner' \in {owner, "gone"}
        /\ \A u \in Ticks : pc'[u] = pc[u] \/ pc'[u] \in {"idle", "start"}
    BY <2>1 DEF Return, TypeInv, TypeOK
  <2>3. \A u \in Ticks : Holding(u)' => Holding(u)
    BY <2>2 DEF Holding
  <2>4. CASE Holding(Runner)
    <3>1. InputBorrowed
      BY <2>4 DEF InputBorrowed, Ticks
    <3> QED
      BY <2>1, <2>2, <2>3, <3>1, FrameHolding
  <2>5. CASE ~Holding(Runner)
    BY <2>1, <2>2, <2>5, FrameGather
  <2> QED
    BY <2>4, <2>5
<1>3. CASE DropManager
  <2>1. /\ owner' = "gone" /\ \A u \in Ticks : pc'[u] = "idle"
        /\ permits' = IF InputBorrowed THEN permits + 1 ELSE permits
        /\ UNCHANGED <<stage, subscribers, waiting, captured, input, pos, stream, chan, recv, base>>
    BY <1>3 DEF DropManager, varsConsumer
  <2>2. CASE InputBorrowed
    <3>1. \A u \in Ticks : Holding(u)' => Holding(u)
      BY <2>1 DEF Holding
    <3> QED
      BY <2>1, <2>2, <3>1, FrameHolding
  <2>3. CASE ~InputBorrowed
    BY <2>1, <2>3, FrameGather
  <2> QED
    BY <2>2, <2>3
<1>4. CASE Cancel
  BY <1>4, FrameGather DEF Cancel, varsTick, varsConsumer
<1> QED
  BY <1>1, <1>2, <1>3, <1>4 DEF Lifecycle

LEMMA NextGather == TypeInv /\ GatherInv /\ [Next]_vars => GatherInv'
<1> SUFFICES ASSUME TypeInv, GatherInv, [Next]_vars PROVE GatherInv'
  OBVIOUS
<1>1. CASE UNCHANGED vars
  BY <1>1, FrameGather DEF vars, varsManager, varsTick, varsConsumer
<1> QED
  BY <1>1, SubscriptionGather, ConsumerGather, TickGather, LifecycleGather DEF Next

-----------------------------------------------------------------------------
(* PanicOnlyIfAbandoned.  A tick that holds the permit keeps away the requests, so what   *)
(* is served with the input stream finds it there.                          *)

LEMMA NextPanics ==
  ASSUME ~Overlap
  PROVE  TypeInv /\ BarrierInv /\ GatherInv /\ PanicOnlyIfAbandoned /\ [Next]_vars => PanicOnlyIfAbandoned'
<1> SUFFICES ASSUME TypeInv, BarrierInv, GatherInv, PanicOnlyIfAbandoned, [Next]_vars PROVE PanicOnlyIfAbandoned'
  OBVIOUS
<1>1. CASE UNCHANGED vars
  BY <1>1 DEF vars, varsManager, varsConsumer, PanicOnlyIfAbandoned
<1>2. CASE Next
  <2>1. ~panicked
    BY <1>2 DEF Next
  <2>2. ASSUME NEW s \in Subs, SubscribePanics(s) PROVE FALSE
    BY <2>2 DEF SubscribePanics, CanSubscribe, CallerFree, SubscribersBorrowed
  <2>3. ASSUME NEW s \in Subs, ServePanics(s) PROVE PanicOnlyIfAbandoned'
    <3>1. CanServe(s) /\ s \in waiting /\ UNCHANGED <<waiting, stream>>
      BY <2>3 DEF ServePanics, CanServe, varsManager, varsConsumer
    <3>2. CASE stream[s] = "dropped"
      BY <3>1, <3>2 DEF PanicOnlyIfAbandoned
    <3>3. CASE ServedDirectly(s) /\ (InputBorrowed \/ input = "taken")
      <4>1. Gathered(s) /\ subscribers = {s}
        BY <3>1, <3>3, DirectIsGathered
      <4> QED
        BY <3>3, <4>1 DEF GatherInv, GatheredIdle, Directs
    <3> QED
      BY <2>3, <3>2, <3>3 DEF ServePanics, ServeFails
  <2>4. ASSUME NEW t \in Ticks, AcquirePanics(t) PROVE FALSE
    BY <2>4 DEF AcquirePanics, BarrierInv, OnePermit
  <2>5. ASSUME panicked' = panicked PROVE PanicOnlyIfAbandoned'
    BY <2>1, <2>5 DEF PanicOnlyIfAbandoned
  <2>6. ASSUME NEW s \in Subs, Subscription(s) PROVE PanicOnlyIfAbandoned'
    BY <2>2, <2>3, <2>5, <2>6 DEF Subscription, Subscribe, ServeDirect, ServeChannel
  <2>7. ASSUME NEW s \in Subs, Consumer(s) PROVE PanicOnlyIfAbandoned'
    BY <2>5, <2>7 DEF Consumer, RecvChannel, RecvDirect, RecvEnd, DropStream
  <2>8. ASSUME NEW t \in Ticks, Tick(t) PROVE PanicOnlyIfAbandoned'
    BY <2>4, <2>5, <2>8 DEF Tick, TickCall, TickStart, TickAcquire, TickReadValue,
                            TickReadEnd, TickSend, TickCancelled
  <2>9. ASSUME Lifecycle PROVE PanicOnlyIfAbandoned'
    BY <2>5, <2>9 DEF Lifecycle, Run, RunCancelled, DropManager, Cancel
  <2> QED
    BY <1>2, <2>6, <2>7, <2>8, <2>9 DEF Next
<1> QED
  BY <1>1, <1>2

\* For callers that behave as Context does, no borrow of a RefCell fails and
\* the input stream is never handed over twice: the actor panics only when
\* the consumer of a request dropped its stream before it was served.
THEOREM PanicsOnlyIfAbandoned ==
  ASSUME ~Overlap
  PROVE  Spec => []PanicOnlyIfAbandoned
<1>1. Init => PanicOnlyIfAbandoned
  BY DEF Init, PanicOnlyIfAbandoned
<1>2. Spec => [](TypeInv /\ BarrierInv /\ GatherInv /\ PanicOnlyIfAbandoned)
  BY <1>1, InitTypeInv, NextTypeInv, InitBarrier, NextBarrier, InitGather, NextGather,
     NextPanics, PTL DEF Spec
<1> QED
  BY <1>2, PTL

-----------------------------------------------------------------------------
(* What a subscriber sees.  Its view reaches the values read so far, less   *)
(* the one that a tick is distributing and has not sent to it yet.          *)

\* The values that follow b, in order.
Follow(b, seq) == \A i \in 1..Len(seq) : seq[i] = b + i

\* A piece of the input grows by the value that comes next.
LEMMA FollowAppend ==
  ASSUME NEW S, NEW seq \in Seq(S), NEW b \in Nat, Follow(b, seq),
         NEW v \in S, v = b + Len(seq) + 1
  PROVE  Len(Append(seq, v)) = Len(seq) + 1 /\ Follow(b, Append(seq, v))
<1>1. Len(seq) \in Nat
  BY LenProperties
<1>2. /\ Len(Append(seq, v)) = Len(seq) + 1
      /\ \A i \in 1..Len(seq) : Append(seq, v)[i] = seq[i]
      /\ Append(seq, v)[Len(seq) + 1] = v
  BY AppendProperties
<1>3. ASSUME NEW i \in 1..(Len(seq) + 1) PROVE Append(seq, v)[i] = b + i
  <2>1. CASE i = Len(seq) + 1
    <3>1. b + i = b + Len(seq) + 1
      BY <1>1, <2>1
    <3> QED
      BY <1>2, <2>1, <3>1
  <2>2. CASE i # Len(seq) + 1
    <3>1. i \in 1..Len(seq)
      BY <1>1, <2>2
    <3> QED
      BY <1>2, <3>1 DEF Follow
  <2> QED
    BY <2>1, <2>2
<1> QED
  BY <1>2, <1>3 DEF Follow

\* Its first value moves to what is before it.
LEMMA FollowTail ==
  ASSUME NEW S, NEW seq \in Seq(S), seq # <<>>, NEW b \in Nat, Follow(b, seq)
  PROVE  /\ Head(seq) = b + 1
         /\ Len(Tail(seq)) = Len(seq) - 1 /\ Follow(b + 1, Tail(seq))
<1>1. Len(seq) \in Nat /\ Len(seq) >= 1
  BY EmptySeq
<1>2. Head(seq) = seq[1] /\ Len(Tail(seq)) = Len(seq) - 1
      /\ \A i \in 1..Len(Tail(seq)) : Tail(seq)[i] = seq[i + 1]
  BY HeadTailProperties
<1>3. ASSUME NEW i \in 1..(Len(seq) - 1) PROVE Tail(seq)[i] = b + 1 + i
  <2>1. i + 1 \in 1..Len(seq) /\ i \in 1..Len(Tail(seq)) /\ i \in Nat
    BY <1>1, <1>2
  <2>2. Tail(seq)[i] = b + (i + 1)
    BY <1>2, <2>1 DEF Follow
  <2> QED
    BY <2>1, <2>2
<1>4. Head(seq) = b + 1
  <2>1. 1 \in 1..Len(seq)
    BY <1>1
  <2> QED
    BY <1>2, <2>1 DEF Follow
<1> QED
  BY <1>2, <1>3, <1>4 DEF Follow

\* Two pieces, one after the other, are one.
LEMMA FollowConcat ==
  ASSUME NEW S, NEW left \in Seq(S), NEW right \in Seq(S), NEW b \in Nat,
         Follow(b, left), Follow(b + Len(left), right)
  PROVE  Len(left \o right) = Len(left) + Len(right) /\ Follow(b, left \o right)
<1>1. Len(left) \in Nat /\ Len(right) \in Nat
  BY LenProperties
<1>2. /\ Len(left \o right) = Len(left) + Len(right)
      /\ \A i \in 1..Len(left) + Len(right) :
           (left \o right)[i] = IF i <= Len(left) THEN left[i] ELSE right[i - Len(left)]
  BY ConcatProperties
<1>3. ASSUME NEW i \in 1..Len(left) + Len(right) PROVE (left \o right)[i] = b + i
  <2>1. CASE i <= Len(left)
    <3>1. i \in 1..Len(left)
      BY <1>1, <2>1
    <3> QED
      BY <1>2, <2>1, <3>1 DEF Follow
  <2>2. CASE ~(i <= Len(left))
    <3>1. i - Len(left) \in 1..Len(right) /\ b + Len(left) + (i - Len(left)) = b + i
      BY <1>1, <2>2
    <3>2. (left \o right)[i] = right[i - Len(left)]
      BY <1>2, <2>2
    <3> QED
      BY <3>1, <3>2 DEF Follow
  <2> QED
    BY <2>1, <2>2
<1> QED
  BY <1>2, <1>3 DEF Follow

UpTo(s) == base[s] + Len(recv[s]) + Len(chan[s])
\* Three parts of a view: one value moves from the last to the second, or one
\* is added.
LEMMA PartsOfView ==
  \A i, j, k \in Nat :
    /\ i + (j + 1) + (k - 1) = i + j + k
    /\ i + j + (k + 1) = i + j + k + 1
    /\ i + (j + k) = i + j + k
OBVIOUS

Sending(s) == \E t \in Ticks : pc[t] = "send" /\ s \in todo[t]

\* Nothing distributes any more: the manager was dropped, or all its ticks see
\* the cancellation at their first poll.
Stopped ==
  /\ owner = "gone" \/ cancelled
  /\ \A t \in Ticks : pc[t] = "idle" \/ (cancelled /\ pc[t] = "start")

Contiguous(s) == Follow(base[s], recv[s]) /\ Follow(base[s] + Len(recv[s]), chan[s])
Reaches(s) ==
  /\ UpTo(s) <= pos
  /\ ReceiverAlive(s) /\ Sending(s) => UpTo(s) = pos - 1
  /\ ReceiverAlive(s) /\ ~Sending(s) /\ s \in subscribers => UpTo(s) = pos \/ Stopped
  /\ stream[s] = "direct" => UpTo(s) = pos /\ chan[s] = <<>>
Viewed(s) == Contiguous(s) /\ Reaches(s)

ViewInv == ~cancelled => \A s \in Subs : Viewed(s)

LEMMA InitView == Init => ViewInv
<1> SUFFICES ASSUME Init, NEW s \in Subs PROVE Viewed(s)
  BY DEF ViewInv
<1>1. recv[s] = <<>> /\ chan[s] = <<>> /\ base[s] = 0 /\ pos = 0 /\ stream[s] = "none" /\ s \notin waiting
  BY DEF Init
<1> QED
  BY <1>1 DEF Viewed, Contiguous, Follow, Reaches, UpTo, ReceiverAlive

\* The lengths and the base of a view are numbers.
LEMMA ViewTypes ==
  ASSUME TypeOK, NEW s \in Subs
  PROVE  /\ recv[s] \in Seq(Data) /\ chan[s] \in Seq(Data)
         /\ Len(recv[s]) \in Nat /\ Len(chan[s]) \in Nat
         /\ base[s] \in Nat /\ pos \in Nat
<1>1. recv[s] \in Seq(Data) /\ chan[s] \in Seq(Data) /\ base[s] \in 0..Values /\ pos \in 0..Values
  BY DEF TypeOK
<1> QED
  BY <1>1, LenProperties, VarManagerAssumption

\* A step that leaves a subscription's view, and who sends to it, alone.
LEMMA FrameViewed ==
  ASSUME NEW s \in Subs, Viewed(s), pos' = pos,
         recv'[s] = recv[s], chan'[s] = chan[s], base'[s] = base[s],
         Sending(s)' <=> Sending(s), Stopped => Stopped',
         stream'[s] = "direct" => stream[s] = "direct",
         ReceiverAlive(s)' => ReceiverAlive(s),
         s \in subscribers' => s \in subscribers
  PROVE  Viewed(s)'
<1>1. UpTo(s)' = UpTo(s) /\ Contiguous(s)'
  BY DEF Viewed, Contiguous, UpTo
<1> QED
  BY <1>1 DEF Viewed, Reaches

LEMMA SubscriptionView ==
  ASSUME TypeInv, GatherInv, \A r \in Subs : Viewed(r), NEW s \in Subs, Subscription(s),
         NEW r \in Subs
  PROVE  Viewed(r)'
<1>1. CASE Subscribe(s)
  <2>1. /\ ~SubscribersBorrowed /\ owner = "caller" /\ stream[s] = "none"
        /\ UNCHANGED <<pos, chan, recv, owner, cancelled, pc, todo>>
        /\ subscribers' = subscribers \union {s} /\ waiting' = waiting \union {s}
    BY <1>1 DEF Subscribe, CanSubscribe, varsTick
  <2>2. stream'[s] = "pending" /\ base'[s] = pos
        /\ \A q \in Subs \ {s} : stream'[q] = stream[q] /\ base'[q] = base[q]
    BY <1>1 DEF Subscribe, TypeInv, TypeOK
  <2>3. (Sending(r)' <=> Sending(r)) /\ ~Sending(r) /\ (Stopped => Stopped')
    BY <2>1 DEF Sending, SubscribersBorrowed, Stopped
  <2>4. CASE r = s
    <3>1. recv[s] = <<>> /\ chan[s] = <<>>
      BY <2>1 DEF GatherInv, Unsubscribed
    <3>2. pos \in Nat
      BY ViewTypes DEF TypeInv
    <3>3. UpTo(s)' = pos'
      BY <2>1, <2>2, <3>1, <3>2 DEF UpTo
    <3> QED
      BY <2>1, <2>2, <2>3, <2>4, <3>1, <3>2, <3>3 DEF Viewed, Contiguous, Follow, Reaches
  <2>5. CASE r # s
    BY <2>1, <2>2, <2>3, <2>5, FrameViewed DEF ReceiverAlive
  <2> QED
    BY <2>4, <2>5
<1>2. CASE SubscribePanics(s) \/ ServePanics(s)
  BY <1>2, FrameViewed DEF SubscribePanics, ServePanics, varsManager, varsTick, varsConsumer,
                           Sending, Stopped, ReceiverAlive
<1>3. CASE ServeDirect(s)
  <2>1. /\ CanServe(s) /\ ServedDirectly(s) /\ ~InputBorrowed
        /\ subscribers' = {} /\ waiting' = waiting \ {s}
        /\ UNCHANGED <<pos, chan, recv, base, owner, cancelled, pc, todo>>
    BY <1>3 DEF ServeDirect, ServeFails, CompleteRequest, varsTick
  <2>2. stream'[s] = "direct" /\ \A q \in Subs \ {s} : stream'[q] = stream[q]
    BY <1>3 DEF ServeDirect, TypeInv, TypeOK
  <2>3. (Sending(r)' <=> Sending(r)) /\ ~Sending(r) /\ (Stopped => Stopped')
    BY <2>1 DEF Sending, InputBorrowed, Holding, Stopped
  <2>4. CASE r = s
    <3>1. Gathered(s)
      BY <2>1, DirectIsGathered
    <3>2. recv[s] = <<>> /\ chan[s] = <<>> /\ base[s] = pos
      BY <3>1 DEF GatherInv, GatheredFresh
    <3>3. pos \in Nat
      BY ViewTypes DEF TypeInv
    <3>4. UpTo(s)' = pos'
      BY <2>1, <3>2, <3>3 DEF UpTo
    <3> QED
      BY <2>1, <2>2, <2>3, <2>4, <3>2, <3>3, <3>4 DEF Viewed, Contiguous, Follow, Reaches, ReceiverAlive
  <2>5. CASE r # s
    BY <2>1, <2>2, <2>3, <2>5, FrameViewed DEF ReceiverAlive
  <2> QED
    BY <2>4, <2>5
<1>4. CASE ServeChannel(s)
  <2>1. /\ s \in waiting /\ waiting' = waiting \ {s}
        /\ UNCHANGED <<pos, chan, recv, base, owner, cancelled, subscribers, pc, todo>>
    BY <1>4 DEF ServeChannel, CanServe, CompleteRequest, varsTick
  <2>2. stream'[s] = "channel" /\ \A q \in Subs \ {s} : stream'[q] = stream[q]
    BY <1>4 DEF ServeChannel, TypeInv, TypeOK
  <2>3. (Sending(r)' <=> Sending(r)) /\ (Stopped => Stopped')
    BY <2>1 DEF Sending, Stopped
  <2>4. (ReceiverAlive(r)' => ReceiverAlive(r)) /\ (stream'[r] = "direct" => stream[r] = "direct")
    BY <2>1, <2>2 DEF ReceiverAlive
  <2> QED
    BY <2>1, <2>3, <2>4, FrameViewed
<1> QED
  BY <1>1, <1>2, <1>3, <1>4 DEF Subscription

LEMMA ConsumerView ==
  ASSUME TypeInv, GatherInv, \A r \in Subs : Viewed(r), NEW s \in Subs, Consumer(s),
         NEW r \in Subs
  PROVE  Viewed(r)'
<1>0. /\ UNCHANGED <<subscribers, waiting, owner, cancelled, pc, todo, base>>
      /\ \A q \in Subs \ {s} : stream'[q] = stream[q] /\ chan'[q] = chan[q] /\ recv'[q] = recv[q]
      /\ stream'[s] \in {stream[s], "ended", "dropped"}
  BY DEF Consumer, RecvChannel, RecvDirect, RecvEnd, DropStream, varsManager, varsTick, TypeInv, TypeOK
<1>1. /\ Sending(r)' <=> Sending(r)
      /\ Stopped <=> Stopped'
      /\ ReceiverAlive(r)' => ReceiverAlive(r)
      /\ stream'[r] = "direct" => stream[r] = "direct"
  BY <1>0 DEF Sending, Stopped, ReceiverAlive
<1>2. CASE RecvChannel(s)
  <2>1. /\ chan[s] # <<>> /\ stream' = stream /\ pos' = pos
        /\ recv'[s] = Append(recv[s], Head(chan[s])) /\ chan'[s] = Tail(chan[s])
    BY <1>2 DEF RecvChannel, varsManager, TypeInv, TypeOK
  <2>2. CASE r = s
    <3>1. recv[s] \in Seq(Data) /\ chan[s] \in Seq(Data) /\ base[s] \in 0..Values
      BY DEF TypeInv, TypeOK
    <3>2. base[s] \in Nat /\ Len(recv[s]) \in Nat /\ Len(chan[s]) \in Nat
      BY ViewTypes DEF TypeInv
    <3>3. Contiguous(s)
      BY DEF Viewed
    <3>4. base[s] + Len(recv[s]) \in Nat
      BY <3>2
    <3>5. /\ Head(chan[s]) = base[s] + Len(recv[s]) + 1
          /\ Len(chan'[s]) = Len(chan[s]) - 1
          /\ Follow(base[s] + Len(recv[s]) + 1, chan'[s])
      BY <2>1, <3>1, <3>3, <3>4, FollowTail DEF Contiguous
    <3>6. Head(chan[s]) \in Data
      BY <2>1, <3>1, HeadTailProperties
    <3>7. Len(recv'[s]) = Len(recv[s]) + 1 /\ Follow(base[s], recv'[s])
      BY <2>1, <3>1, <3>2, <3>3, <3>5, <3>6, FollowAppend DEF Contiguous
    <3>8. base[s] + Len(recv[s]) + 1 = base[s] + (Len(recv[s]) + 1)
      BY <3>2
    <3>9. Contiguous(s)'
      BY <1>0, <3>5, <3>7, <3>8 DEF Contiguous
    <3>10. UpTo(s)' = UpTo(s)
      <4>1. base[s] + (Len(recv[s]) + 1) + (Len(chan[s]) - 1) = base[s] + Len(recv[s]) + Len(chan[s])
        BY <3>2, PartsOfView
      <4> QED
        BY <1>0, <3>5, <3>7, <4>1 DEF UpTo
    <3>11. stream[s] # "direct"
      BY <1>2 DEF RecvChannel
    <3> QED
      BY <1>0, <1>1, <2>1, <2>2, <3>9, <3>10, <3>11 DEF Viewed, Reaches
  <2>3. CASE r # s
    BY <1>0, <1>1, <2>1, <2>3, FrameViewed
  <2> QED
    BY <2>2, <2>3
<1>3. CASE RecvDirect(s)
  <2>1. /\ stream[s] = "direct" /\ stream' = stream /\ pos' = pos + 1 /\ chan' = chan
        /\ recv'[s] = Append(recv[s], pos + 1)
    BY <1>3 DEF RecvDirect, TypeInv, TypeOK
  <2>2. subscribers = {} /\ ~Sending(r)
    BY <2>1 DEF GatherInv, Directs, Sending, InputBorrowed, Holding
  <2>3. /\ recv[r] \in Seq(Data) /\ chan[r] \in Seq(Data) /\ base[r] \in Nat
        /\ Len(recv[r]) \in Nat /\ Len(chan[r]) \in Nat /\ pos \in Nat
    BY ViewTypes DEF TypeInv
  <2>4. CASE r = s
    <3>1. UpTo(s) = pos /\ chan[s] = <<>> /\ Contiguous(s)
      BY <2>1 DEF Viewed, Reaches
    <3>2. base[s] \in Nat /\ Len(recv[s]) \in Nat /\ pos \in Nat /\ pos + 1 \in Data
      <4>1. pos \in 0..Values /\ pos < Values
        BY <1>3 DEF RecvDirect, TypeInv, TypeOK
      <4> QED
        BY <2>3, <2>4, <4>1, VarManagerAssumption DEF Data
    <3>3. pos = base[s] + Len(recv[s])
      <4>1. Len(chan[s]) = 0
        BY <3>1
      <4> QED
        BY <3>1, <3>2, <4>1 DEF UpTo
    <3>4. Len(recv'[s]) = Len(recv[s]) + 1 /\ Follow(base[s], recv'[s])
      BY <2>1, <2>3, <2>4, <3>1, <3>2, <3>3, FollowAppend DEF Contiguous
    <3>5. Contiguous(s)'
      BY <1>0, <2>1, <3>1, <3>4 DEF Contiguous, Follow
    <3>6. UpTo(s)' = pos'
      <4>1. Len(chan[s]) = 0
        BY <3>1
      <4>2. base[s] + (Len(recv[s]) + 1) + 0 = pos + 1
        BY <3>2, <3>3
      <4> QED
        BY <1>0, <2>1, <3>4, <4>1, <4>2 DEF UpTo
    <3> QED
      BY <1>0, <1>1, <2>1, <2>2, <2>4, <3>1, <3>2, <3>5, <3>6 DEF Viewed, Reaches
  <2>5. CASE r # s
    <3>1. UpTo(r)' = UpTo(r) /\ Contiguous(r)' /\ UpTo(r) \in Nat
      <4>1. /\ base'[r] = base[r] /\ recv'[r] = recv[r] /\ chan'[r] = chan[r]
            /\ base[r] \in Nat /\ Len(recv[r]) \in Nat /\ Len(chan[r]) \in Nat
        BY <1>0, <2>3, <2>5
      <4>2. UpTo(r) \in Nat
        BY <4>1 DEF UpTo
      <4> QED
        BY <4>1, <4>2 DEF UpTo, Viewed, Contiguous
    <3>2. stream[r] # "direct"
      BY <2>1, <2>5 DEF GatherInv, Directs
    <3> QED
      BY <1>0, <1>1, <2>1, <2>2, <2>3, <2>5, <3>1, <3>2 DEF Viewed, Reaches
  <2> QED
    BY <2>4, <2>5
<1>4. CASE RecvEnd(s) \/ DropStream(s)
  <2>1. UNCHANGED <<pos, chan, recv>>
    BY <1>4 DEF RecvEnd, DropStream, varsManager
  <2> QED
    BY <1>0, <1>1, <2>1, FrameViewed
<1> QED
  BY <1>2, <1>3, <1>4 DEF Consumer

\* The tick that distributes is alone, so what it has not sent yet is missing
\* from nobody else's view.
LEMMA TickView ==
  ASSUME TypeInv, GatherInv, \A r \in Subs : Viewed(r), NEW t \in Ticks, Tick(t),
         ~TickCancelled(t), NEW r \in Subs
  PROVE  Viewed(r)'
<1>0. /\ recv[r] \in Seq(Data) /\ chan[r] \in Seq(Data) /\ base[r] \in Nat
      /\ Len(recv[r]) \in Nat /\ Len(chan[r]) \in Nat /\ pos \in Nat /\ UpTo(r) \in Nat
  BY ViewTypes DEF TypeInv, UpTo
<1>1. CASE TickCall(t) \/ TickStart(t) \/ TickAcquire(t) \/ AcquirePanics(t)
  <2>1. UNCHANGED <<pos, chan, recv, base, stream, waiting, subscribers>>
    BY <1>1 DEF TickCall, TickStart, TickAcquire, AcquirePanics, varsManager, varsConsumer
  <2>2. /\ \A u \in Ticks \ {t} : pc'[u] = pc[u] /\ todo'[u] = todo[u]
        /\ pc[t] # "send" /\ pc'[t] # "send"
        /\ cancelled' = cancelled
    BY <1>1 DEF TickCall, TickStart, TickAcquire, AcquirePanics, Return, varsTick, varsManager,
                TypeInv, TypeOK
  <2>3. ASSUME Stopped PROVE Stopped'
    <3>1. CASE TickCall(t)
      <4>1. owner' = owner /\ owner # "gone" /\ pc'[t] = "start"
        BY <1>1, <3>1 DEF TickCall, varsManager, TypeInv, TypeOK
      <4> QED
        BY <2>2, <2>3, <4>1 DEF Stopped
    <3>2. CASE TickStart(t)
      <4>1. cancelled /\ pc'[t] = "idle"
        BY <2>3, <3>2 DEF TickStart, StopAtStart, Return, Stopped, TypeInv, TypeOK
      <4> QED
        BY <2>2, <2>3, <4>1 DEF Stopped
    <3>3. CASE TickAcquire(t) \/ AcquirePanics(t)
      BY <2>3, <3>3 DEF TickAcquire, AcquirePanics, Stopped
    <3> QED
      BY <1>1, <3>1, <3>2, <3>3
  <2>4. Sending(r)' <=> Sending(r)
    BY <2>2 DEF Sending
  <2> QED
    BY <2>1, <2>3, <2>4, FrameViewed DEF ReceiverAlive
<1>2. ASSUME Holding(t)
      PROVE  /\ ~Stopped /\ stream[r] # "direct"
             /\ \A u \in Ticks \ {t} : pc[u] # "send"
  BY <1>2 DEF Holding, Stopped, GatherInv, Directs, InputBorrowed, OneHolder
<1>3. CASE TickReadValue(t)
  <2>1. /\ pc[t] = "read" /\ Holding(t) /\ pos' = pos + 1
        /\ UNCHANGED <<chan, recv, base, stream, waiting, subscribers>>
    BY <1>3 DEF TickReadValue, Holding, varsConsumer
  <2>2. ~Sending(r)
    BY <1>2, <2>1 DEF Sending
  <2>3. /\ \A u \in Ticks \ {t} : pc'[u] = pc[u]
        /\ pc'[t] = "send" => todo'[t] = subscribers
        /\ pc'[t] = "send" <=> subscribers # {}
    BY <1>3 DEF TickReadValue, Return, TypeInv, TypeOK
  <2>4. Sending(r)' <=> r \in subscribers
    BY <1>2, <2>1, <2>3 DEF Sending
  <2>5. UpTo(r)' = UpTo(r) /\ Contiguous(r)'
    BY <2>1 DEF UpTo, Viewed, Contiguous
  <2> QED
    BY <1>0, <1>2, <2>1, <2>2, <2>4, <2>5 DEF Viewed, Reaches, ReceiverAlive
<1>4. CASE TickReadEnd(t)
  <2>1. /\ pc[t] = "read" /\ Holding(t) /\ subscribers' = {}
        /\ UNCHANGED <<pos, chan, recv, base, stream, waiting>>
    BY <1>4 DEF TickReadEnd, Holding, varsConsumer
  <2>2. (\A u \in Ticks \ {t} : pc'[u] = pc[u]) /\ pc'[t] = "idle"
    BY <1>4 DEF TickReadEnd, Return, TypeInv, TypeOK
  <2>3. ~Sending(r) /\ ~Sending(r)'
    BY <1>2, <2>1, <2>2 DEF Sending
  <2> QED
    BY <1>2, <2>1, <2>3, FrameViewed DEF ReceiverAlive
<1>5. ASSUME NEW s \in Subs, TickSend(t, s) PROVE Viewed(r)'
  <2>1. /\ pc[t] = "send" /\ Holding(t) /\ s \in todo[t] /\ subscribers' \subseteq subscribers
        /\ UNCHANGED <<pos, recv, base, stream, waiting>>
    BY <1>5 DEF TickSend, Holding
  <2>2. /\ \A u \in Ticks \ {t} : pc'[u] = pc[u] /\ todo'[u] = todo[u]
        /\ \/ pc'[t] = "idle" /\ todo[t] = {s}
           \/ pc'[t] = "send" /\ todo'[t] = todo[t] \ {s}
    BY <1>5 DEF TickSend, LastSend, Return, TypeInv, TypeOK
  <2>3. Sending(r)' <=> Sending(r) /\ r # s
    BY <1>2, <2>1, <2>2 DEF Sending
  <2>4. CASE r # s
    <3>1. chan'[r] = chan[r]
      BY <1>5, <2>4 DEF TickSend, TypeInv, TypeOK
    <3> QED
      BY <1>2, <2>1, <2>3, <2>4, <3>1, FrameViewed DEF ReceiverAlive
  <2>5. CASE r = s /\ ~ReceiverAlive(s)
    <3>1. chan'[r] = chan[r]
      BY <1>5, <2>5 DEF TickSend
    <3>2. UpTo(r)' = UpTo(r) /\ Contiguous(r)' /\ ~ReceiverAlive(r)'
      BY <2>1, <2>5, <3>1 DEF UpTo, Viewed, Contiguous, ReceiverAlive
    <3> QED
      BY <1>2, <2>1, <3>1, <3>2 DEF Viewed, Reaches
  <2>6. CASE r = s /\ ReceiverAlive(s)
    <3>1. chan'[r] = Append(chan[r], pos)
      BY <1>5, <2>6 DEF TickSend, TypeInv, TypeOK
    <3>2. Sending(r)
      BY <2>1, <2>6 DEF Sending
    <3>3. UpTo(r) = pos - 1 /\ Contiguous(r)
      BY <2>6, <3>2 DEF Viewed, Reaches
    <3>4. pos \in Data /\ base[r] + Len(recv[r]) \in Nat
      BY <1>0, <2>1 DEF TypeInv, SendingValue
    <3>5. pos = base[r] + Len(recv[r]) + Len(chan[r]) + 1
      <4>1. base[r] + Len(recv[r]) + Len(chan[r]) = pos - 1
        BY <3>3 DEF UpTo
      <4> HIDE <3>3
      <4> QED
        BY <1>0, <4>1
    <3>6. /\ Len(chan'[r]) = Len(chan[r]) + 1
          /\ Follow(base[r] + Len(recv[r]), chan'[r])
      <4>1. chan[r] \in Seq(Data) /\ Follow(base[r] + Len(recv[r]), chan[r])
        BY <1>0, <3>3 DEF Contiguous
      <4> QED
        BY <3>1, <3>4, <3>5, <4>1, FollowAppend
    <3>7. UpTo(r)' = pos' /\ Contiguous(r)'
      <4>1. base[r] \in Nat /\ Len(recv[r]) \in Nat /\ Len(chan[r]) \in Nat
        BY <1>0
      <4>2. base[r] + Len(recv[r]) + (Len(chan[r]) + 1) = base[r] + Len(recv[r]) + Len(chan[r]) + 1
        BY <4>1, PartsOfView
      <4> QED
        BY <2>1, <3>3, <3>5, <3>6, <4>2 DEF UpTo, Contiguous
    <3>8. ~Sending(r)'
      BY <2>3, <2>6
    <3> QED
      BY <1>0, <1>2, <2>1, <3>7, <3>8 DEF Viewed, Reaches
  <2> QED
    BY <2>4, <2>5, <2>6
<1> QED
  BY <1>1, <1>3, <1>4, <1>5 DEF Tick

LEMMA LifecycleView ==
  ASSUME TypeInv, \A r \in Subs : Viewed(r), Lifecycle, ~RunCancelled, NEW r \in Subs
  PROVE  Viewed(r)'
<1>1. CASE Run
  <2>1. /\ UNCHANGED <<pos, chan, recv, base, stream, waiting, subscribers, pc, todo, cancelled>>
        /\ owner # "gone"
    BY <1>1 DEF Run, varsTick, varsConsumer
  <2> QED
    BY <2>1, FrameViewed DEF ReceiverAlive, Sending, Stopped
<1>2. CASE DropManager
  <2>1. /\ UNCHANGED <<pos, chan, recv, base, stream, waiting, subscribers>>
        /\ Stopped' /\ ~Sending(r)'
    BY <1>2 DEF DropManager, varsConsumer, Stopped, Sending
  <2>2. UpTo(r)' = UpTo(r) /\ Contiguous(r)'
    BY <2>1 DEF UpTo, Viewed, Contiguous
  <2> QED
    BY <2>1, <2>2 DEF Viewed, Reaches
<1>3. CASE Cancel
  <2>1. /\ UNCHANGED <<pos, chan, recv, base, stream, waiting, subscribers, pc, todo, owner>>
        /\ cancelled'
    BY <1>3 DEF Cancel, varsTick, varsConsumer
  <2> QED
    BY <2>1, FrameViewed DEF ReceiverAlive, Sending, Stopped
<1> QED
  BY <1>1, <1>2, <1>3 DEF Lifecycle

\* Every step but the end of a tick by cancellation.
LEMMA StepView ==
  ASSUME TypeInv, GatherInv, \A r \in Subs : Viewed(r), [Next]_vars,
         \A t \in Ticks : ~TickCancelled(t), ~RunCancelled, NEW r \in Subs
  PROVE  Viewed(r)'
<1>1. CASE UNCHANGED vars
  BY <1>1, FrameViewed DEF vars, varsManager, varsTick, varsConsumer, Sending, Stopped, ReceiverAlive
<1> QED
  BY <1>1, SubscriptionView, ConsumerView, TickView, LifecycleView DEF Next

LEMMA NextView == TypeInv /\ GatherInv /\ ViewInv /\ [Next]_vars => ViewInv'
<1> SUFFICES ASSUME TypeInv, GatherInv, ViewInv, [Next]_vars, ~cancelled', NEW r \in Subs
             PROVE  Viewed(r)'
  BY DEF ViewInv
<1>1. ~cancelled
  BY DEF Next, Subscription, Subscribe, SubscribePanics, ServeDirect, ServeChannel, ServePanics,
    Consumer, RecvChannel, RecvDirect, RecvEnd, DropStream, Tick, TickCall, TickStart, TickAcquire,
    AcquirePanics, TickReadValue, TickReadEnd, TickSend, TickCancelled, Lifecycle, Run,
    RunCancelled, DropManager, Cancel, vars, varsManager
<1>2. (\A t \in Ticks : ~TickCancelled(t)) /\ ~RunCancelled
  BY <1>1 DEF TickCancelled, RunCancelled
<1> QED
  BY <1>1, <1>2, StepView DEF ViewInv

\* A contiguous view is a piece of the input that follows the subscription.
LEMMA ViewImplies == TypeOK /\ ViewInv => NoGapBeforeCancel
<1> SUFFICES ASSUME TypeOK, ViewInv, ~cancelled, NEW s \in Subs
             PROVE  LET view == recv[s] \o chan[s]
                    IN  /\ base[s] + Len(view) <= pos
                        /\ \A i \in 1..Len(view) : view[i] = base[s] + i
  BY DEF NoGapBeforeCancel, SubscriberView
<1>1. recv[s] \in Seq(Data) /\ chan[s] \in Seq(Data) /\ base[s] \in Nat
  BY ViewTypes
<1>2. Contiguous(s) /\ UpTo(s) <= pos
  BY DEF ViewInv, Viewed, Reaches
<1>3. /\ Len(recv[s] \o chan[s]) = Len(recv[s]) + Len(chan[s])
      /\ Follow(base[s], recv[s] \o chan[s])
  BY <1>1, <1>2, FollowConcat DEF Contiguous
<1>4. base[s] + (Len(recv[s]) + Len(chan[s])) = UpTo(s)
  <2>1. base[s] \in Nat /\ Len(recv[s]) \in Nat /\ Len(chan[s]) \in Nat
    BY ViewTypes
  <2> QED
    BY <2>1, PartsOfView DEF UpTo
<1> QED
  BY <1>2, <1>3, <1>4 DEF Follow

\* However callers overlap subscribe() and tick(), a subscriber misses and
\* repeats nothing before a cancellation: what it received and what is
\* buffered for it is the input that follows its subscription, in order.
THEOREM NoGap == Spec => []NoGapBeforeCancel
<1>1. Spec => [](TypeInv /\ GatherInv /\ ViewInv)
  BY InitTypeInv, NextTypeInv, InitGather, NextGather, InitView, NextView, PTL DEF Spec
<1>2. TypeInv /\ ViewInv => NoGapBeforeCancel
  BY ViewImplies DEF TypeInv
<1> QED
  BY <1>1, <1>2, PTL

-----------------------------------------------------------------------------
(* The views hold in every state: with one tick in flight at a time, the    *)
(* tick that a cancellation stops is the last that distributes.             *)

AllViewed == \A s \in Subs : Viewed(s)

LEMMA CancelView ==
  ASSUME TypeInv, BarrierInv, AllViewed, (\E t \in Ticks : TickCancelled(t)) \/ RunCancelled,
         NEW r \in Subs
  PROVE  Viewed(r)'
<1>1. /\ cancelled' /\ UNCHANGED <<pos, chan, recv, base, stream, waiting, subscribers>>
  <2>1. ASSUME NEW t \in Ticks, TickCancelled(t)
        PROVE  /\ cancelled' /\ UNCHANGED <<pos, chan, recv, base, stream, waiting, subscribers>>
    BY <2>1 DEF TickCancelled, varsConsumer
  <2>2. ASSUME RunCancelled
        PROVE  /\ cancelled' /\ UNCHANGED <<pos, chan, recv, base, stream, waiting, subscribers>>
    BY <2>2 DEF RunCancelled, varsConsumer
  <2> QED
    BY <2>1, <2>2
<1>2. \A u \in Ticks : pc'[u] = "idle"
  <2>1. ASSUME NEW t \in Ticks, TickCancelled(t) PROVE \A u \in Ticks : pc'[u] = "idle"
    BY <2>1 DEF TickCancelled, Return, BarrierInv, OneInFlight, InFlight, TypeInv, TypeOK
  <2>2. ASSUME RunCancelled PROVE \A u \in Ticks : pc'[u] = "idle"
    BY <2>2 DEF RunCancelled, Return, BarrierInv, OneInFlight, InFlight, Ticks, TypeInv, TypeOK
  <2> QED
    BY <2>1, <2>2
<1>3. Stopped' /\ ~Sending(r)'
  BY <1>1, <1>2 DEF Stopped, Sending
<1>4. UpTo(r)' = UpTo(r) /\ Contiguous(r)'
  BY <1>1 DEF AllViewed, Viewed, UpTo, Contiguous
<1> QED
  BY <1>1, <1>3, <1>4 DEF AllViewed, Viewed, Reaches

LEMMA NextViewed == TypeInv /\ BarrierInv /\ GatherInv /\ AllViewed /\ [Next]_vars => AllViewed'
<1> SUFFICES ASSUME TypeInv, BarrierInv, GatherInv, AllViewed, [Next]_vars, NEW r \in Subs
             PROVE  Viewed(r)'
  BY DEF AllViewed
<1>1. CASE (\E t \in Ticks : TickCancelled(t)) \/ RunCancelled
  BY <1>1, CancelView
<1>2. CASE (\A t \in Ticks : ~TickCancelled(t)) /\ ~RunCancelled
  BY <1>2, StepView DEF AllViewed
<1> QED
  BY <1>1, <1>2

-----------------------------------------------------------------------------
(* Who is served, who is sent to, and who was removed.                      *)

\* A request holds its sender of the stream until it is served.
Served ==
  \A s \in Subs :
    /\ s \in waiting => stream[s] \in {"pending", "dropped"}
    /\ stream[s] = "pending" => s \in waiting

\* The channels are bounded.
Windows == \A s \in Subs : Len(chan[s]) <= Capacity

\* A tick sends to subscribers, and those it will remove are gone.
FailedGone ==
  \A t \in Ticks : \A s \in Subs :
    /\ s \in todo[t] \/ s \in failed[t] => stream[s] # "none"
    /\ s \in failed[t] => ~ReceiverAlive(s)

\* A reader is removed while its receiver lives only at the end of the input,
\* and then it has everything.
Removed ==
  \A s \in Subs :
    stream[s] \in {"pending", "channel"} /\ s \notin subscribers => UpTo(s) = Values

\* A run loop that was not cancelled ends when nobody is left.
RunEnded == owner = "gone" /\ stage = "Closed" /\ ~cancelled => subscribers = {}

LEMMA NextServed == TypeInv /\ Served /\ [Next]_vars => Served'
<1> SUFFICES ASSUME TypeInv, Served, [Next]_vars, NEW r \in Subs
             PROVE  /\ r \in waiting' => stream'[r] \in {"pending", "dropped"}
                    /\ stream'[r] = "pending" => r \in waiting'
  BY DEF Served
<1>1. ASSUME NEW s \in Subs, Subscribe(s) \/ ServeDirect(s) \/ ServeChannel(s)
      PROVE  /\ \/ waiting' = waiting \union {s} /\ stream'[s] = "pending"
                \/ waiting' = waiting \ {s} /\ stream'[s] \in {"direct", "channel"}
             /\ \A q \in Subs \ {s} : stream'[q] = stream[q]
  <2>1. CASE Subscribe(s)
    <3>1. waiting' = waiting \union {s} /\ stream' = [stream EXCEPT ![s] = "pending"]
      BY <2>1 DEF Subscribe
    <3> QED
      BY <3>1 DEF TypeInv, TypeOK
  <2>2. CASE ServeDirect(s)
    BY <2>2 DEF ServeDirect, CompleteRequest, TypeInv, TypeOK
  <2>3. CASE ServeChannel(s)
    BY <2>3 DEF ServeChannel, CompleteRequest, TypeInv, TypeOK
  <2> QED
    BY <1>1, <2>1, <2>2, <2>3
<1>2. ASSUME NEW s \in Subs, Consumer(s)
      PROVE  /\ waiting' = waiting /\ \A q \in Subs \ {s} : stream'[q] = stream[q]
             /\ \/ stream'[s] = stream[s] \/ stream'[s] = "dropped"
                \/ stream'[s] = "ended" /\ stream[s] \in {"channel", "direct"}
  BY <1>2 DEF Consumer, RecvChannel, RecvDirect, RecvEnd, DropStream, varsManager, TypeInv, TypeOK
<1>3. ASSUME NEW s \in Subs, Subscription(s)
      PROVE  UNCHANGED <<waiting, stream>> \/ Subscribe(s) \/ ServeDirect(s) \/ ServeChannel(s)
  BY <1>3 DEF Subscription, SubscribePanics, ServePanics, varsManager, varsConsumer
<1>4. ASSUME NEW t \in Ticks, Tick(t) PROVE UNCHANGED <<waiting, stream>>
  BY <1>4 DEF Tick, TickCall, TickStart, TickAcquire, AcquirePanics, TickReadValue, TickReadEnd,
              TickSend, TickCancelled, varsManager, varsConsumer
<1>5. ASSUME Lifecycle \/ UNCHANGED vars PROVE UNCHANGED <<waiting, stream>>
  BY <1>5 DEF Lifecycle, Run, RunCancelled, DropManager, Cancel, vars, varsManager, varsConsumer
<1>6. CASE UNCHANGED <<waiting, stream>>
  BY <1>6 DEF Served
<1>7. ASSUME NEW s \in Subs, Subscription(s) \/ Consumer(s)
      PROVE  /\ r \in waiting' => stream'[r] \in {"pending", "dropped"}
             /\ stream'[r] = "pending" => r \in waiting'
  BY <1>1, <1>2, <1>3, <1>6, <1>7 DEF Served
<1> QED
  BY <1>4, <1>5, <1>6, <1>7 DEF Next

LEMMA NextWindows == TypeInv /\ Windows /\ [Next]_vars => Windows'
<1> SUFFICES ASSUME TypeInv, Windows, [Next]_vars, NEW r \in Subs
             PROVE  Len(chan'[r]) <= Capacity
  BY DEF Windows
<1>1. chan[r] \in Seq(Data) /\ Len(chan[r]) \in Nat /\ Len(chan[r]) <= Capacity /\ Capacity \in Nat
  BY ViewTypes, VarManagerAssumption DEF TypeInv, Windows
<1>2. ASSUME NEW s \in Subs, RecvChannel(s) PROVE Len(chan'[r]) <= Capacity
  <2>1. CASE r = s
    <3>1. chan[r] # <<>> /\ chan'[r] = Tail(chan[r])
      BY <1>2, <2>1 DEF RecvChannel, TypeInv, TypeOK
    <3>2. Len(chan'[r]) = Len(chan[r]) - 1
      BY <1>1, <3>1, HeadTailProperties
    <3> QED
      BY <1>1, <3>2
  <2>2. CASE r # s
    BY <1>1, <1>2, <2>2 DEF RecvChannel, TypeInv, TypeOK
  <2> QED
    BY <2>1, <2>2
<1>3. ASSUME NEW t \in Ticks, NEW s \in Subs, TickSend(t, s) PROVE Len(chan'[r]) <= Capacity
  <2>1. CASE chan'[r] = chan[r]
    BY <1>1, <2>1
  <2>2. CASE chan'[r] # chan[r]
    <3>1. chan' = [chan EXCEPT ![s] = Append(@, pos)] /\ Len(chan[s]) < Capacity /\ s = r
      BY <1>3, <2>2 DEF TickSend, HasRoom, TypeInv, TypeOK
    <3>2. pos \in Data
      BY <1>3 DEF TickSend, TypeInv, SendingValue
    <3>3. chan'[r] = Append(chan[r], pos)
      BY <3>1 DEF TypeInv, TypeOK
    <3>4. Len(chan'[r]) = Len(chan[r]) + 1
      BY <1>1, <3>2, <3>3, AppendProperties
    <3> QED
      BY <1>1, <3>1, <3>4
  <2> QED
    BY <2>1, <2>2
<1>4. CASE UNCHANGED chan
  BY <1>1, <1>4
<1>5. ASSUME NEW s \in Subs, Subscription(s) PROVE UNCHANGED chan
  BY <1>5 DEF Subscription, Subscribe, SubscribePanics, ServeDirect, ServeChannel, ServePanics, varsConsumer
<1>6. ASSUME NEW s \in Subs, Consumer(s) PROVE UNCHANGED chan \/ RecvChannel(s)
  BY <1>6 DEF Consumer, RecvDirect, RecvEnd, DropStream
<1>7. ASSUME NEW t \in Ticks, Tick(t) PROVE UNCHANGED chan \/ \E s \in Subs : TickSend(t, s)
  BY <1>7 DEF Tick, TickCall, TickStart, TickAcquire, AcquirePanics, TickReadValue, TickReadEnd,
              TickCancelled, varsConsumer
<1>8. ASSUME Lifecycle \/ UNCHANGED vars PROVE UNCHANGED chan
  BY <1>8 DEF Lifecycle, Run, RunCancelled, DropManager, Cancel, vars, varsConsumer
<1> QED
  BY <1>2, <1>3, <1>4, <1>5, <1>6, <1>7, <1>8 DEF Next

\* A receiver comes to life only when its subscription is made.
LEMMA AliveBefore ==
  ASSUME TypeInv, [Next]_vars, NEW r \in Subs, stream[r] # "none"
  PROVE  stream'[r] # "none" /\ (ReceiverAlive(r)' => ReceiverAlive(r))
<1>1. ASSUME NEW s \in Subs, Subscription(s)
      PROVE  stream'[r] # "none" /\ (ReceiverAlive(r)' => ReceiverAlive(r))
  BY <1>1 DEF Subscription, Subscribe, CanSubscribe, SubscribePanics, ServeDirect, ServeChannel, ServePanics,
              CanServe, CompleteRequest, ReceiverAlive, varsManager, varsConsumer, TypeInv, TypeOK
<1>2. ASSUME NEW s \in Subs, Consumer(s)
      PROVE  stream'[r] # "none" /\ (ReceiverAlive(r)' => ReceiverAlive(r))
  BY <1>2 DEF Consumer, RecvChannel, RecvDirect, RecvEnd, DropStream, ReceiverAlive, varsManager, TypeInv, TypeOK
<1>3. CASE UNCHANGED <<waiting, stream>>
  BY <1>3 DEF ReceiverAlive
<1>4. ASSUME NEW t \in Ticks, Tick(t) PROVE UNCHANGED <<waiting, stream>>
  BY <1>4 DEF Tick, TickCall, TickStart, TickAcquire, AcquirePanics, TickReadValue, TickReadEnd,
              TickSend, TickCancelled, varsManager, varsConsumer
<1>5. ASSUME Lifecycle \/ UNCHANGED vars PROVE UNCHANGED <<waiting, stream>>
  BY <1>5 DEF Lifecycle, Run, RunCancelled, DropManager, Cancel, vars, varsManager, varsConsumer
<1> QED
  BY <1>1, <1>2, <1>3, <1>4, <1>5 DEF Next

LEMMA NextFailed == TypeInv /\ GatherInv /\ FailedGone /\ [Next]_vars => FailedGone'
<1> SUFFICES ASSUME TypeInv, GatherInv, FailedGone, [Next]_vars, NEW u \in Ticks, NEW r \in Subs
             PROVE  /\ r \in todo'[u] \/ r \in failed'[u] => stream'[r] # "none"
                    /\ r \in failed'[u] => ~ReceiverAlive(r)'
  BY DEF FailedGone
<1>1. ASSUME r \in todo'[u] => r \in todo[u] \/ r \in subscribers,
             r \in failed'[u] => r \in failed[u] \/ (r \in todo[u] /\ ~ReceiverAlive(r))
      PROVE  /\ r \in todo'[u] \/ r \in failed'[u] => stream'[r] # "none"
             /\ r \in failed'[u] => ~ReceiverAlive(r)'
  BY <1>1, AliveBefore DEF FailedGone, GatherInv, Unsubscribed
<1>2. CASE UNCHANGED <<todo, failed>>
  BY <1>1, <1>2
<1>3. ASSUME NEW t \in Ticks, NEW result \in BOOLEAN, Return(t, result)
      PROVE  /\ r \in todo'[u] => r \in todo[u]
             /\ r \in failed'[u] => r \in failed[u]
  BY <1>3 DEF Return, TypeInv, TypeOK
<1>4. ASSUME NEW t \in Ticks, TickReadValue(t), ~Return(t, TRUE)
      PROVE  failed' = failed /\ (r \in todo'[u] => r \in todo[u] \/ r \in subscribers)
  BY <1>4 DEF TickReadValue, TypeInv, TypeOK
<1>5. ASSUME NEW t \in Ticks, NEW s \in Subs, TickSend(t, s), ~Return(t, TRUE)
      PROVE  /\ r \in todo'[u] => r \in todo[u]
             /\ r \in failed'[u] => r \in failed[u] \/ (r \in todo[u] /\ ~ReceiverAlive(r))
  <2>1. /\ s \in todo[t]
        /\ todo' = [todo EXCEPT ![t] = @ \ {s}]
        /\ failed' = [failed EXCEPT ![t] = IF ReceiverAlive(s) THEN failed[t] ELSE failed[t] \union {s}]
    BY <1>5 DEF TickSend
  <2> QED
    BY <2>1 DEF TypeInv, TypeOK
<1>6. ASSUME NEW t \in Ticks, Tick(t)
      PROVE  \/ UNCHANGED <<todo, failed>>
             \/ \E result \in BOOLEAN : Return(t, result)
             \/ TickReadValue(t)
             \/ \E s \in Subs : TickSend(t, s)
  BY <1>6 DEF Tick, TickCall, TickStart, TickAcquire, AcquirePanics, TickReadEnd, TickCancelled, varsTick
<1>7. ASSUME Lifecycle
      PROVE  \/ UNCHANGED <<todo, failed>>
             \/ Return(Runner, FALSE)
             \/ todo'[u] = {} /\ failed'[u] = {}
  BY <1>7 DEF Lifecycle, Run, RunCancelled, DropManager, Cancel, varsTick
<1>8. ASSUME NEW s \in Subs, Subscription(s) \/ Consumer(s) PROVE UNCHANGED <<todo, failed>>
  BY <1>8 DEF Subscription, Subscribe, SubscribePanics, ServeDirect, ServeChannel, ServePanics,
              Consumer, RecvChannel, RecvDirect, RecvEnd, DropStream, varsTick
<1>9. CASE UNCHANGED vars
  BY <1>2, <1>9 DEF vars, varsTick
<1>10. ASSUME NEW t \in Ticks, Tick(t)
       PROVE  /\ r \in todo'[u] \/ r \in failed'[u] => stream'[r] # "none"
              /\ r \in failed'[u] => ~ReceiverAlive(r)'
  BY <1>1, <1>2, <1>3, <1>4, <1>5, <1>6, <1>10
<1>11. ASSUME Lifecycle
       PROVE  /\ r \in todo'[u] \/ r \in failed'[u] => stream'[r] # "none"
              /\ r \in failed'[u] => ~ReceiverAlive(r)'
  <2>1. Runner \in Ticks
    BY DEF Ticks
  <2> QED
    BY <1>1, <1>2, <1>3, <1>7, <1>11, <2>1
<1> QED
  BY <1>2, <1>8, <1>9, <1>10, <1>11 DEF Next

LEMMA NextRunEnded ==
  TypeInv /\ BarrierInv /\ GatherInv /\ RunEnded /\ [Next]_vars => RunEnded'
<1> SUFFICES ASSUME TypeInv, GatherInv, RunEnded, [Next]_vars,
                    owner' = "gone", stage' = "Closed", ~cancelled'
             PROVE  subscribers' = {}
  BY DEF RunEnded
<1>1. CASE UNCHANGED vars
  BY <1>1 DEF vars, varsManager, RunEnded
<1>2. ASSUME NEW s \in Subs, Subscription(s) PROVE subscribers' = {}
  BY <1>2 DEF Subscription, Subscribe, CanSubscribe, SubscribePanics, ServeDirect, ServeChannel, ServePanics,
              varsManager, RunEnded
<1>3. ASSUME NEW s \in Subs, Consumer(s) PROVE subscribers' = {}
  BY <1>3 DEF Consumer, RecvChannel, RecvDirect, RecvEnd, DropStream, varsManager, RunEnded
<1>4. ASSUME NEW t \in Ticks, Tick(t) PROVE subscribers' = {}
  <2>1. CASE TickCall(t) \/ AcquirePanics(t)
    BY <2>1 DEF TickCall, AcquirePanics, varsManager, RunEnded
  <2>2. CASE TickStart(t)
    BY <2>2 DEF TickStart, StopAtStart, RunEnded
  <2>3. CASE TickAcquire(t)
    BY <2>3 DEF TickAcquire, RunEnded, GatherInv, Directs
  <2>4. CASE TickReadValue(t)
    <3>1. UNCHANGED <<owner, stage, cancelled, subscribers>>
      BY <2>4 DEF TickReadValue, Return
    <3> QED
      BY <3>1 DEF RunEnded
  <2>5. CASE TickReadEnd(t)
    BY <2>5 DEF TickReadEnd
  <2>6. ASSUME NEW s \in Subs, TickSend(t, s) PROVE subscribers' = {}
    <3>1. UNCHANGED <<owner, stage, cancelled>> /\ subscribers' \subseteq subscribers
      BY <2>6 DEF TickSend, Return
    <3> QED
      BY <3>1 DEF RunEnded
  <2>7. CASE TickCancelled(t)
    BY <2>7 DEF TickCancelled
  <2> QED
    BY <1>4, <2>1, <2>2, <2>3, <2>4, <2>5, <2>6, <2>7 DEF Tick
<1>5. ASSUME Lifecycle PROVE subscribers' = {}
  BY <1>5 DEF Lifecycle, Run, RunCancelled, DropManager, Cancel, RunEnded, GatherInv, Captures
<1> QED
  BY <1>1, <1>2, <1>3, <1>4, <1>5 DEF Next

\* A step that changes no view and removes nobody whose receiver lives.
LEMMA FrameRemoved ==
  ASSUME Removed, NEW r \in Subs, UpTo(r)' = UpTo(r),
         stream'[r] \in {"pending", "channel"} => stream[r] \in {"pending", "channel"},
         r \in subscribers /\ ReceiverAlive(r) => r \in subscribers',
         stream[r] = "pending" => r \in waiting
  PROVE  stream'[r] \in {"pending", "channel"} /\ r \notin subscribers' => UpTo(r)' = Values
BY DEF Removed, ReceiverAlive

LEMMA NextRemoved ==
  TypeInv /\ GatherInv /\ AllViewed /\ Served /\ FailedGone /\ Removed /\ [Next]_vars => Removed'
<1> SUFFICES ASSUME TypeInv, GatherInv, AllViewed, Served, FailedGone, Removed, [Next]_vars,
                    NEW r \in Subs
             PROVE  stream'[r] \in {"pending", "channel"} /\ r \notin subscribers' => UpTo(r)' = Values
  BY DEF Removed
<1> DEFINE Goal == stream'[r] \in {"pending", "channel"} /\ r \notin subscribers' => UpTo(r)' = Values
<1>0. stream[r] = "pending" => r \in waiting
  BY DEF Served
<1>1. CASE UNCHANGED <<chan, recv, base, stream, subscribers>>
  BY <1>1 DEF Removed, UpTo
<1>2. ASSUME NEW s \in Subs, Subscription(s) PROVE Goal
  <2>1. CASE Subscribe(s)
    <3>1. /\ subscribers' = subscribers \union {s} /\ UNCHANGED <<chan, recv>>
          /\ \A q \in Subs \ {s} : base'[q] = base[q] /\ stream'[q] = stream[q]
      BY <2>1 DEF Subscribe, TypeInv, TypeOK
    <3> QED
      BY <3>1 DEF Removed, UpTo
  <2>2. CASE ServeDirect(s)
    <3>1. CanServe(s) /\ ServedDirectly(s) /\ UNCHANGED <<chan, recv, base>>
      BY <2>2 DEF ServeDirect
    <3>2. stream'[s] = "direct" /\ \A q \in Subs \ {s} : stream'[q] = stream[q]
      BY <2>2 DEF ServeDirect, TypeInv, TypeOK
    <3>3. subscribers = {s}
      BY <3>1, DirectIsGathered
    <3> QED
      BY <3>1, <3>2, <3>3 DEF Removed, UpTo
  <2>3. CASE ServeChannel(s)
    <3>1. s \in waiting /\ stream[s] # "dropped" /\ UNCHANGED <<chan, recv, base, subscribers>>
      BY <2>3 DEF ServeChannel, ServeFails, CanServe
    <3>2. stream[s] = "pending"
      BY <3>1 DEF Served
    <3>3. \A q \in Subs \ {s} : stream'[q] = stream[q]
      BY <2>3 DEF ServeChannel, TypeInv, TypeOK
    <3> QED
      BY <3>1, <3>2, <3>3 DEF Removed, UpTo
  <2>4. CASE SubscribePanics(s) \/ ServePanics(s)
    BY <1>1, <2>4 DEF SubscribePanics, ServePanics, varsManager, varsConsumer
  <2> QED
    BY <1>2, <2>1, <2>2, <2>3, <2>4 DEF Subscription
<1>3. ASSUME NEW s \in Subs, Consumer(s) PROVE Goal
  <2>1. /\ subscribers' = subscribers /\ base' = base
        /\ stream'[r] \in {"pending", "channel"} => stream[r] \in {"pending", "channel"}
    BY <1>3 DEF Consumer, RecvChannel, RecvDirect, RecvEnd, DropStream, varsManager, TypeInv, TypeOK
  <2>2. CASE RecvChannel(s) /\ r = s
    <3>1. chan[s] # <<>> /\ chan[s] \in Seq(Data) /\ recv[s] \in Seq(Data)
          /\ chan'[s] = Tail(chan[s]) /\ recv'[s] = Append(recv[s], Head(chan[s]))
      BY <2>2 DEF RecvChannel, TypeInv, TypeOK
    <3>2. Len(chan'[s]) = Len(chan[s]) - 1 /\ Head(chan[s]) \in Data
      BY <3>1, HeadTailProperties
    <3>3. Len(recv'[s]) = Len(recv[s]) + 1
      BY <3>1, <3>2, AppendProperties
    <3>4. base[s] \in Nat /\ Len(recv[s]) \in Nat /\ Len(chan[s]) \in Nat
      BY ViewTypes DEF TypeInv
    <3>5. base[s] + (Len(recv[s]) + 1) + (Len(chan[s]) - 1) = base[s] + Len(recv[s]) + Len(chan[s])
      BY <3>4, PartsOfView
    <3>6. UpTo(r)' = UpTo(r)
      BY <2>1, <2>2, <3>2, <3>3, <3>5 DEF UpTo
    <3> QED
      BY <1>0, <2>1, <3>6, FrameRemoved
  <2>3. CASE RecvDirect(s) /\ r = s
    BY <2>3 DEF RecvDirect
  <2>4. CASE ~(RecvChannel(s) \/ RecvDirect(s)) \/ r # s
    <3>1. chan'[r] = chan[r] /\ recv'[r] = recv[r]
      BY <1>3, <2>4 DEF Consumer, RecvChannel, RecvDirect, RecvEnd, DropStream, TypeInv, TypeOK
    <3>2. UpTo(r)' = UpTo(r)
      BY <2>1, <3>1 DEF UpTo
    <3> QED
      BY <1>0, <2>1, <3>2, FrameRemoved
  <2> QED
    BY <2>2, <2>3, <2>4
<1>4. ASSUME NEW t \in Ticks, TickReadEnd(t) PROVE Goal
  <2>1. /\ pc[t] = "read" /\ Holding(t) /\ pos = Values
        /\ UNCHANGED <<chan, recv, base, stream>>
    BY <1>4 DEF TickReadEnd, Holding, varsConsumer
  <2>2. ~Sending(r) /\ ~Stopped
    BY <2>1 DEF Sending, Stopped, Holding, GatherInv, OneHolder
  <2>3. UpTo(r)' = UpTo(r)
    BY <2>1 DEF UpTo
  <2>4. CASE r \in subscribers /\ stream[r] \in {"pending", "channel"}
    BY <1>0, <2>1, <2>2, <2>3, <2>4 DEF AllViewed, Viewed, Reaches, ReceiverAlive
  <2>5. CASE ~(r \in subscribers /\ stream[r] \in {"pending", "channel"})
    BY <2>1, <2>3, <2>5 DEF Removed
  <2> QED
    BY <2>4, <2>5
<1>5. ASSUME NEW t \in Ticks, NEW s \in Subs, TickSend(t, s) PROVE Goal
  <2>1. /\ pc[t] = "send" /\ s \in todo[t]
        /\ \A q \in subscribers \ subscribers' : q \in failed[t] \/ (q = s /\ ~ReceiverAlive(s))
        /\ UNCHANGED <<recv, base, stream>>
    BY <1>5 DEF TickSend
  <2>2. r \in subscribers /\ ReceiverAlive(r) => r \in subscribers'
    BY <2>1 DEF FailedGone
  <2>3. CASE chan'[r] = chan[r]
    <3>1. UpTo(r)' = UpTo(r)
      BY <2>1, <2>3 DEF UpTo
    <3> QED
      BY <1>0, <2>1, <2>2, <3>1, FrameRemoved
  <2>4. CASE chan'[r] # chan[r]
    <3>1. r = s /\ ReceiverAlive(r)
      BY <1>5, <2>4 DEF TickSend, TypeInv, TypeOK
    <3>2. Sending(r)
      BY <2>1, <3>1 DEF Sending
    <3>3. UpTo(r) = pos - 1
      BY <3>1, <3>2 DEF AllViewed, Viewed, Reaches
    <3>4. pos \in Nat /\ pos <= Values /\ Values \in Nat
      BY VarManagerAssumption DEF TypeInv, TypeOK
    <3>5. UpTo(r) # Values
      BY <3>3, <3>4
    <3> QED
      BY <2>1, <2>2, <3>1, <3>5 DEF Removed
  <2> QED
    BY <2>3, <2>4
<1>6. ASSUME NEW t \in Ticks, Tick(t) PROVE Goal
  <2>1. \/ UNCHANGED <<chan, recv, base, stream, subscribers>>
        \/ TickReadEnd(t) \/ \E s \in Subs : TickSend(t, s)
    BY <1>6 DEF Tick, TickCall, TickStart, TickAcquire, AcquirePanics, TickReadValue, TickCancelled,
                varsManager, varsConsumer
  <2> QED
    BY <1>1, <1>4, <1>5, <2>1
<1>7. ASSUME Lifecycle \/ UNCHANGED vars PROVE Goal
  BY <1>1, <1>7 DEF Lifecycle, Run, RunCancelled, DropManager, Cancel, vars, varsManager, varsConsumer
<1> QED
  BY <1>2, <1>3, <1>6, <1>7 DEF Next

RefInv ==
  /\ TypeInv /\ BarrierInv /\ GatherInv /\ AllViewed
  /\ Served /\ Windows /\ FailedGone /\ Removed /\ RunEnded

LEMMA InitRef == Init => RefInv
<1> SUFFICES ASSUME Init PROVE RefInv
  OBVIOUS
<1>1. TypeInv /\ BarrierInv /\ GatherInv
  BY InitTypeInv, InitBarrier, InitGather
<1>2. AllViewed
  BY InitView DEF Init, ViewInv, AllViewed
<1>3. Served /\ Windows /\ FailedGone /\ Removed /\ RunEnded
  BY VarManagerAssumption DEF Init, Served, Windows, FailedGone, Removed, RunEnded
<1> QED
  BY <1>1, <1>2, <1>3 DEF RefInv

LEMMA NextRef ==
  ASSUME ~Overlap
  PROVE  RefInv /\ [Next]_vars => RefInv'
BY NextTypeInv, NextBarrier, NextGather, NextViewed, NextServed, NextWindows, NextFailed,
   NextRemoved, NextRunEnded DEF RefInv

-----------------------------------------------------------------------------
(* Each step of the manager is a step of the broadcast, or leaves what the  *)
(* readers can see alone.                                                   *)

Closing == cancelled \/ (owner = "gone" /\ stage # "Closed")
Status == [s \in Subs |->
            IF stream[s] \in {"pending", "channel", "direct"} THEN "open"
            ELSE IF stream[s] = "dropped" THEN "left" ELSE stream[s]]

Observed == UNCHANGED <<pos, Closing, Status, base, recv>>
BroadcastStep == [Broadcast!Next]_Broadcast!vars

LEMMA InitBroadcast == Init => Broadcast!Init
BY DEF Init, Broadcast!Init

LEMMA ObservedStep == Observed => BroadcastStep
BY DEF Observed, BroadcastStep, Closing, Status, Broadcast!vars

\* The manager may be stopped before its end.
LEMMA ClosingStep ==
  ASSUME TypeOK, UNCHANGED <<pos, stream, base, recv>>, Closing => Closing'
  PROVE  BroadcastStep
<1>1. Status' = Status
  BY DEF Status
<1>2. CASE Closing' = Closing
  BY <1>1, <1>2, ObservedStep DEF Observed
<1>3. CASE Closing' # Closing
  <2>1. Closing' = TRUE
    BY <1>3 DEF Closing
  <2>2. Broadcast!Close
    BY <1>1, <2>1 DEF Broadcast!Close, Closing, Status
  <2> QED
    BY <2>2 DEF BroadcastStep, Broadcast!Next
<1> QED
  BY <1>2, <1>3

LEMMA SubscriptionStep ==
  ASSUME RefInv, NEW s \in Subs, Subscription(s)
  PROVE  BroadcastStep
<1>0. TypeOK
  BY DEF RefInv, TypeInv
<1>1. CASE Subscribe(s)
  <2>1. /\ stream[s] = "none" /\ stream' = [stream EXCEPT ![s] = "pending"]
        /\ base' = [base EXCEPT ![s] = pos]
        /\ UNCHANGED <<pos, recv, cancelled, owner, stage>>
    BY <1>1 DEF Subscribe, CanSubscribe
  <2>2. Status[s] = "none" /\ Status' = [Status EXCEPT ![s] = "open"]
    BY <1>0, <2>1 DEF Status, TypeOK
  <2>3. Broadcast!Join(s)
    BY <2>1, <2>2 DEF Broadcast!Join, Status
  <2> QED
    BY <2>3 DEF BroadcastStep, Broadcast!Next
<1>2. CASE ServeDirect(s) \/ ServeChannel(s)
  <2>1. /\ stream[s] = "pending" /\ \/ stream' = [stream EXCEPT ![s] = "direct"]
                                    \/ stream' = [stream EXCEPT ![s] = "channel"]
        /\ UNCHANGED <<pos, recv, base, cancelled, owner, stage>>
    BY <1>2 DEF ServeDirect, ServeChannel, ServeFails, CanServe, RefInv, Served
  <2>2. Status' = Status
    BY <1>0, <2>1 DEF Status, TypeOK
  <2> QED
    BY <2>1, <2>2, ObservedStep DEF Observed, Closing
<1>3. CASE SubscribePanics(s) \/ ServePanics(s)
  BY <1>0, <1>3, ClosingStep DEF SubscribePanics, ServePanics, varsManager, varsConsumer, Closing
<1> QED
  BY <1>1, <1>2, <1>3 DEF Subscription

LEMMA TickStep ==
  ASSUME RefInv, NEW t \in Ticks, Tick(t)
  PROVE  BroadcastStep
<1>0. TypeOK
  BY DEF RefInv, TypeInv
<1>1. CASE ~TickReadValue(t)
  <2>1. UNCHANGED <<pos, stream, base, recv, cancelled>>
    BY <1>1 DEF Tick, TickCall, TickStart, TickAcquire, AcquirePanics, TickReadEnd, TickSend,
                TickCancelled, varsManager, varsConsumer
  <2>2. /\ owner = "gone" => owner' = "gone"
        /\ stage # "Closed" => stage' # "Closed"
    BY <1>1 DEF Tick, TickCall, TickStart, TickAcquire, AcquirePanics, TickReadEnd, TickSend,
                TickCancelled, Return, varsManager
  <2> QED
    BY <1>0, <2>1, <2>2, ClosingStep DEF Closing
<1>2. CASE TickReadValue(t)
  <2>1. /\ pc[t] = "read" /\ Holding(t) /\ pos < Values /\ pos' = pos + 1
        /\ UNCHANGED <<stream, base, recv, cancelled, owner, stage>>
    BY <1>2 DEF TickReadValue, Return, Holding, varsConsumer
  <2>2. Status' = Status /\ Closing' = Closing
    BY <2>1 DEF Status, Closing
  <2>3. ASSUME NEW r \in Subs, stream[r] \in {"pending", "channel", "direct"}
        PROVE  pos < base[r] + Len(recv[r]) + 1 + Capacity
    <3>1. stream[r] \in {"pending", "channel"}
      BY <2>1, <2>3 DEF RefInv, GatherInv, Directs, InputBorrowed
    <3>2. ReceiverAlive(r)
      BY <3>1 DEF RefInv, Served, ReceiverAlive
    <3>3. ~Sending(r) /\ ~Stopped
      BY <2>1 DEF RefInv, GatherInv, OneHolder, Sending, Stopped, Holding
    <3>4. /\ base[r] \in Nat /\ Len(recv[r]) \in Nat /\ Len(chan[r]) \in Nat /\ pos \in Nat
          /\ Capacity \in Nat /\ Values \in Nat
      BY <1>0, ViewTypes, VarManagerAssumption
    <3>5. UpTo(r) = pos
      <4>1. CASE r \in subscribers
        BY <3>2, <3>3, <4>1 DEF RefInv, AllViewed, Viewed, Reaches
      <4>2. CASE r \notin subscribers
        <5>1. UpTo(r) = Values /\ UpTo(r) <= pos
          BY <3>1, <4>2 DEF RefInv, Removed, AllViewed, Viewed, Reaches
        <5> QED
          BY <2>1, <3>4, <5>1
      <4> QED
        BY <4>1, <4>2
    <3>6. Len(chan[r]) <= Capacity
      BY DEF RefInv, Windows
    <3>7. \A b, n, k, c \in Nat : k <= c => b + n + k < b + n + 1 + c
      OBVIOUS
    <3>8. base[r] + Len(recv[r]) + Len(chan[r]) < base[r] + Len(recv[r]) + 1 + Capacity
      BY <3>4, <3>6, <3>7
    <3> QED
      BY <3>5, <3>8 DEF UpTo
  <2>4. \A r \in Subs : Status[r] = "open" => stream[r] \in {"pending", "channel", "direct"}
    BY <1>0 DEF Status, TypeOK
  <2>5. \A r \in Subs : Status[r] = "open" => pos < base[r] + Len(recv[r]) + 1 + Capacity
    BY <2>3, <2>4
  <2>6. Broadcast!Publish
    BY <2>1, <2>2, <2>5 DEF Broadcast!Publish, Broadcast!Open, Broadcast!Awaited, Status, Closing
  <2> QED
    BY <2>6 DEF BroadcastStep, Broadcast!Next
<1> QED
  BY <1>1, <1>2

LEMMA LifecycleStep ==
  ASSUME RefInv, Lifecycle
  PROVE  BroadcastStep
<1>0. TypeOK
  BY DEF RefInv, TypeInv
<1>1. UNCHANGED <<pos, stream, base, recv>>
  BY DEF Lifecycle, Run, RunCancelled, DropManager, Cancel, varsConsumer
<1>2. Closing => Closing'
  BY DEF Lifecycle, Run, RunCancelled, DropManager, Cancel, Return, Closing
<1> QED
  BY <1>0, <1>1, <1>2, ClosingStep

\* What a consumer reads is the value it waits for; what ends its stream is
\* the end of the input, or that the manager was stopped before.
LEMMA ConsumerStep ==
  ASSUME RefInv, NEW s \in Subs, Consumer(s)
  PROVE  BroadcastStep
<1>0. /\ TypeOK /\ Viewed(s)
      /\ recv[s] \in Seq(Data) /\ chan[s] \in Seq(Data)
      /\ base[s] \in Nat /\ Len(recv[s]) \in Nat /\ Len(chan[s]) \in Nat
      /\ pos \in Nat /\ Values \in Nat
  BY ViewTypes, VarManagerAssumption DEF RefInv, TypeInv, AllViewed
<1>1. UNCHANGED <<base, cancelled, owner, stage>> /\ Closing' = Closing
  BY DEF Consumer, RecvChannel, RecvDirect, RecvEnd, DropStream, varsManager, Closing
<1>2. CASE RecvChannel(s)
  <2>1. /\ stream[s] = "channel" /\ chan[s] # <<>> /\ UNCHANGED <<pos, stream>>
        /\ recv' = [recv EXCEPT ![s] = Append(@, Head(chan[s]))]
    BY <1>2 DEF RecvChannel, varsManager
  <2>2. Status[s] = "open" /\ Status' = Status
    BY <2>1 DEF Status
  <2>3. Head(chan[s]) = base[s] + Len(recv[s]) + 1
    <3>1. base[s] + Len(recv[s]) \in Nat
      BY <1>0
    <3>2. Follow(base[s] + Len(recv[s]), chan[s])
      BY <1>0 DEF Viewed, Contiguous
    <3> QED
      BY <1>0, <2>1, <3>1, <3>2, FollowTail
  <2>4. base[s] + Len(recv[s]) + 1 <= pos
    <3>1. Len(chan[s]) >= 1
      BY <1>0, <2>1, EmptySeq
    <3>2. base[s] + Len(recv[s]) + Len(chan[s]) <= pos
      BY <1>0 DEF Viewed, Reaches, UpTo
    <3>3. \A b, n, k, p \in Nat : k >= 1 /\ b + n + k <= p => b + n + 1 <= p
      OBVIOUS
    <3> QED
      BY <1>0, <3>1, <3>2, <3>3
  <2>5. Broadcast!Deliver(s)
    BY <1>1, <2>1, <2>2, <2>3, <2>4
       DEF Broadcast!Deliver, Broadcast!Open, Broadcast!Awaited, Status, Closing
  <2> QED
    BY <2>5 DEF BroadcastStep, Broadcast!Next
<1>3. CASE RecvDirect(s)
  <2>1. /\ stream[s] = "direct" /\ pos < Values /\ pos' = pos + 1 /\ stream' = stream
        /\ recv' = [recv EXCEPT ![s] = Append(@, pos + 1)]
    BY <1>3 DEF RecvDirect
  <2>2. Status[s] = "open" /\ Status' = Status
    BY <2>1 DEF Status
  <2>3. base[s] + Len(recv[s]) + 1 = pos + 1
    <3>1. UpTo(s) = pos /\ Len(chan[s]) = 0
      BY <1>0, <2>1 DEF Viewed, Reaches
    <3>2. base[s] + Len(recv[s]) + 0 = pos
      BY <3>1 DEF UpTo
    <3> QED
      BY <1>0, <3>2
  <2>4. ASSUME NEW q \in Subs \ {s} PROVE Status[q] # "open"
    <3>1. subscribers = {} /\ stream[q] # "direct"
      BY <2>1, <2>4 DEF RefInv, GatherInv, Directs
    <3>2. ASSUME stream[q] \in {"pending", "channel"} PROVE FALSE
      <4>1. UpTo(q) = Values /\ UpTo(q) <= pos
        BY <2>4, <3>1, <3>2 DEF RefInv, Removed, AllViewed, Viewed, Reaches
      <4> QED
        BY <1>0, <2>1, <4>1
    <3> QED
      BY <1>0, <3>1, <3>2 DEF Status, TypeOK
  <2>5. Broadcast!Forward(s)
    BY <1>1, <2>1, <2>2, <2>3, <2>4
       DEF Broadcast!Forward, Broadcast!Open, Broadcast!Awaited, Status, Closing
  <2> QED
    BY <2>5 DEF BroadcastStep, Broadcast!Next
<1>4. CASE RecvEnd(s)
  <2>1. /\ stream[s] \in {"channel", "direct"} /\ stream' = [stream EXCEPT ![s] = "ended"]
        /\ UNCHANGED <<pos, recv>>
    BY <1>4 DEF RecvEnd, varsManager
  <2>2. Status[s] = "open" /\ Status' = [Status EXCEPT ![s] = "ended"]
    BY <1>0, <2>1 DEF Status, TypeOK
  <2>3. Closing \/ base[s] + Len(recv[s]) = Values
    <3>1. CASE stream[s] = "channel" /\ chan[s] = <<>> /\ SenderGone(s)
      <4>1. UpTo(s) = base[s] + Len(recv[s])
        <5>1. Len(chan[s]) = 0
          BY <3>1
        <5>2. \A b, n \in Nat : b + n + 0 = b + n
          OBVIOUS
        <5> QED
          BY <1>0, <5>1, <5>2 DEF UpTo
      <4>2. ~Closing /\ owner = "gone" => s \notin subscribers
        BY DEF Closing, RefInv, RunEnded
      <4>3. ~Closing => s \notin subscribers
        BY <3>1, <4>2 DEF SenderGone
      <4> QED
        BY <3>1, <4>1, <4>3 DEF RefInv, Removed
    <3>2. CASE stream[s] = "direct" /\ pos = Values
      <4>1. UpTo(s) = pos /\ Len(chan[s]) = 0
        BY <1>0, <3>2 DEF Viewed, Reaches
      <4>2. base[s] + Len(recv[s]) + 0 = pos
        BY <4>1 DEF UpTo
      <4> QED
        BY <1>0, <3>2, <4>2
    <3> QED
      BY <1>4, <3>1, <3>2 DEF RecvEnd
  <2>4. Closing \/ base[s] + Len(recv[s]) + 1 = Values + 1
    BY <2>3
  <2>5. Broadcast!End(s)
    BY <1>1, <2>1, <2>2, <2>4 DEF Broadcast!End, Broadcast!Open, Broadcast!Awaited, Status, Closing
  <2> QED
    BY <2>5 DEF BroadcastStep, Broadcast!Next
<1>5. CASE DropStream(s)
  <2>1. /\ stream[s] \in {"pending", "channel", "direct"}
        /\ stream' = [stream EXCEPT ![s] = "dropped"] /\ UNCHANGED <<pos, recv>>
    BY <1>5 DEF DropStream, varsManager
  <2>2. Status[s] = "open" /\ Status' = [Status EXCEPT ![s] = "left"]
    BY <1>0, <2>1 DEF Status, TypeOK
  <2>3. Broadcast!Leave(s)
    BY <1>1, <2>1, <2>2 DEF Broadcast!Leave, Broadcast!Open, Status, Closing
  <2> QED
    BY <2>3 DEF BroadcastStep, Broadcast!Next
<1> QED
  BY <1>2, <1>3, <1>4, <1>5 DEF Consumer

LEMMA NextStep == RefInv /\ [Next]_vars => BroadcastStep
<1> SUFFICES ASSUME RefInv, [Next]_vars PROVE BroadcastStep
  OBVIOUS
<1>1. CASE UNCHANGED vars
  BY <1>1, ObservedStep DEF vars, varsManager, varsConsumer, Observed, Closing, Status
<1> QED
  BY <1>1, SubscriptionStep, ConsumerStep, TickStep, LifecycleStep DEF Next

\* Used as Context uses it, a manager implements the broadcast: whatever the
\* order of subscriptions, ticks, consumers and cancellation, every reader
\* sees what follows its subscription, nobody falls behind by more than the
\* channel, and no stream ends early unless the manager was stopped.
THEOREM ManagerImplementsBroadcast ==
  ASSUME ~Overlap
  PROVE  Spec => ImplementsBroadcast
<1>1. Init => RefInv
  BY InitRef
<1>2. RefInv /\ [Next]_vars => RefInv'
  BY NextRef
<1>3. RefInv /\ [Next]_vars => [Broadcast!Next]_Broadcast!vars
  BY NextStep DEF BroadcastStep
<1> QED
  BY <1>1, <1>2, <1>3, InitBroadcast, PTL DEF Spec, ImplementsBroadcast, Broadcast!Spec
=============================================================================
