----------------------------- MODULE VarManager -----------------------------
(***************************************************************************)
(* The actor that owns one stream variable of the asynchronous runtime     *)
(* (struct VarManager of runtime/asynchronous.rs).  It reads the stream     *)
(* that computes the variable and forwards every value to each subscriber. *)
(*                                                                         *)
(* The steps are those of the tasks of the single-threaded executor: the   *)
(* background task of each subscribe() call, the futures returned by       *)
(* tick(), the loop of run(), and the consumers of the streams handed out. *)
(* A task gives up control only at an await, so the code between two       *)
(* awaits is one action here.                                              *)
(*                                                                         *)
(* The input stream yields the values 1, 2, ..., Values, then ends.        *)
(* Subscriptions are numbered in the order of the subscribe() calls, so    *)
(* the vector `subscribers' of the code is the set subscribers read in     *)
(* increasing order.                                                       *)
(***************************************************************************)
EXTENDS Integers, Sequences, FiniteSets

CONSTANTS
  Values,     \* number of values the input stream yields before it ends
  MaxSubs,    \* bound: number of subscribe() calls
  Capacity,   \* size of a subscriber's channel, bounded::channel(1000)
  Manual,     \* futures returned by tick() to a caller
  Runner,     \* the tick future of the loop of run()
  MaxClock,   \* bound: no manual tick is started once clock reaches it
  Overlap     \* TRUE: callers may overlap subscribe() and tick() in any way
              \* the signatures allow; FALSE: they behave as Context does

ASSUME VarManagerAssumption ==
  /\ Values \in Nat
  /\ MaxSubs \in Nat
  /\ Capacity \in Nat \ {0}
  /\ MaxClock \in Nat
  /\ IsFiniteSet(Manual)
  /\ Runner \notin Manual
  /\ Overlap \in BOOLEAN

Subs == 1..MaxSubs
Ticks == Manual \cup {Runner}
Data == 1..Values

VARIABLES
  stage,        \* var_stage
  permits,      \* permits available in var_semaphore
  outstanding,  \* outstanding_sub_requests
  subscribers,  \* the subscriptions with a sender in the vector subscribers
  waiting,      \* the subscriptions whose background task has not finished
  captured,     \* the stage each subscribe() call saw
  input,        \* "held" | "taken": the RefCell holds Some(stream) | None
  pos,          \* number of values read from the input stream
  clock,        \* clock
  cancelled,    \* the cancellation token
  owner,        \* "caller" | "running" | "gone": who holds the VarManager
  pc,           \* control point of each tick future
  todo,         \* subscribers the send loop of a tick has still to reach
  failed,       \* to_delete: subscribers whose receiver was gone
  stream,       \* what the consumer of each subscription holds
  chan,         \* buffered values of each subscriber's channel
  recv,         \* values the consumer has received
  base,         \* history: pos when subscribe() was called
  panicked      \* a task panicked (which stops the executor)

varsManager == <<stage, permits, outstanding, subscribers, waiting, captured,
                 input, pos, clock, cancelled, owner>>
varsTick == <<pc, todo, failed>>
varsConsumer == <<stream, chan, recv, base>>
vars == <<varsManager, varsTick, varsConsumer, panicked>>

Stages == {"Gathering", "Open", "Closed"}

Init ==
  /\ stage = "Gathering"
  /\ permits = 1
  /\ outstanding = 0
  /\ subscribers = {}
  /\ waiting = {}
  /\ captured = [s \in Subs |-> "Gathering"]
  /\ input = "held"
  /\ pos = 0
  /\ clock = 0
  /\ cancelled = FALSE
  /\ owner = "caller"
  /\ pc = [t \in Ticks |-> "idle"]
  /\ todo = [t \in Ticks |-> {}]
  /\ failed = [t \in Ticks |-> {}]
  /\ stream = [s \in Subs |-> "none"]
  /\ chan = [s \in Subs |-> <<>>]
  /\ recv = [s \in Subs |-> <<>>]
  /\ base = [s \in Subs |-> 0]
  /\ panicked = FALSE

-----------------------------------------------------------------------------
(* The state the code reads.                                               *)

\* Tick futures that hold the semaphore's permit.
Holding(t) == pc[t] \in {"read", "send"}

\* input_stream is mutably borrowed from the permit to the end of the tick,
\* subscribers is borrowed by the for loop that sends.
InputBorrowed == \E t \in Ticks : Holding(t)
SubscribersBorrowed == \E t \in Ticks : pc[t] = "send"

CallerFree_Shared == TRUE       \* fault: tick() and var() both take &self

\* Context takes &mut self for tick() and only then awaits the managers, so
\* it never subscribes, ticks or runs while one of their ticks is in flight.
CallerFree == Overlap \/ \A t \in Ticks : pc[t] = "idle"

\* The receiver half of a subscriber's channel still exists.
\* (the background task owns it until the request is served).
ReceiverAlive(s) == s \in waiting \/ stream[s] = "channel"

\* Every sender of the channel is gone: removed from the vector, or the
\* vector itself was dropped with the last clone of its Rc.
SenderGone(s) ==
  \/ s \notin subscribers
  \/ owner = "gone" /\ waiting = {} /\ \A t \in Ticks : pc[t] = "idle"

\* The stage as the subscription's task sees it: it re-reads var_stage only
\* while it waits for Gathering to end.
SeenStage(s) == IF captured[s] = "Gathering" THEN stage ELSE captured[s]

\* The subscription is served with the input stream itself.
ServedDirectly(s) == SeenStage(s) = "Closed" /\ Cardinality(subscribers) = 1

-----------------------------------------------------------------------------
(* subscribe() and its background task.                                    *)

\* remove_permits(1) takes an available permit, if there is one.
PermitRemoved == IF permits > 0 THEN permits - 1 ELSE 0

CanSubscribe(s) ==
  /\ owner = "caller"
  /\ CallerFree
  /\ stream[s] = "none"
  /\ \A r \in 1..(s - 1) : stream[r] # "none"

Subscribe(s) ==
  /\ CanSubscribe(s)
  /\ ~SubscribersBorrowed
  /\ subscribers' = subscribers \cup {s}
  /\ outstanding' = outstanding + 1
  /\ permits' = PermitRemoved
  /\ captured' = [captured EXCEPT ![s] = stage]
  /\ waiting' = waiting \cup {s}
  /\ stream' = [stream EXCEPT ![s] = "pending"]
  /\ base' = [base EXCEPT ![s] = pos]
  /\ UNCHANGED <<stage, input, pos, clock, cancelled, owner, varsTick, chan,
                 recv, panicked>>

\* subscribers.borrow_mut() while a tick iterates over it.
SubscribePanics(s) ==
  /\ CanSubscribe(s)
  /\ SubscribersBorrowed
  /\ panicked' = TRUE
  /\ UNCHANGED <<varsManager, varsTick, varsConsumer>>

\* The task panics when the consumer is gone (send().unwrap()), and on the
\* direct path when a tick holds the input stream or it was taken before.
ServeFails(s) ==
  \/ stream[s] = "dropped"
  \/ ServedDirectly(s) /\ (InputBorrowed \/ input = "taken")

CanServe(s) == s \in waiting /\ SeenStage(s) # "Gathering"

\* fault: every request returns a permit
CompleteRequest_EachReturns(s) ==
  /\ permits' = permits + 1
  /\ outstanding' = outstanding - 1
  /\ waiting' = waiting \ {s}

\* fault: the counter is decremented before it is compared with one
CompleteRequest_Decremented(s) ==
  /\ permits' = IF outstanding - 1 = 1 THEN permits + 1 ELSE permits
  /\ outstanding' = outstanding - 1
  /\ waiting' = waiting \ {s}

\* The task's last statements: the permit comes back with the last request.
CompleteRequest(s) ==
  /\ permits' = IF outstanding = 1 THEN permits + 1 ELSE permits
  /\ outstanding' = outstanding - 1
  /\ waiting' = waiting \ {s}

ServeDirect(s) ==
  /\ CanServe(s)
  /\ ~ServeFails(s)
  /\ ServedDirectly(s)
  /\ input' = "taken"
  /\ subscribers' = {}                                     \* pop() of the one
  /\ stream' = [stream EXCEPT ![s] = "direct"]
  /\ CompleteRequest(s)
  /\ UNCHANGED <<stage, captured, pos, clock, cancelled, owner, varsTick,
                 chan, recv, base, panicked>>

ServeChannel(s) ==
  /\ CanServe(s)
  /\ ~ServeFails(s)
  /\ ~ServedDirectly(s)
  /\ stream' = [stream EXCEPT ![s] = "channel"]
  /\ CompleteRequest(s)
  /\ UNCHANGED <<stage, subscribers, captured, input, pos, clock, cancelled,
                 owner, varsTick, chan, recv, base, panicked>>

ServePanics(s) ==
  /\ CanServe(s)
  /\ ServeFails(s)
  /\ panicked' = TRUE
  /\ UNCHANGED <<varsManager, varsTick, varsConsumer>>

-----------------------------------------------------------------------------
(* tick(): the future goes through the control points start (not polled    *)
(* yet), acquire (waiting for the permit), read (awaiting the input stream)*)
(* and send (awaiting space in one subscriber's channel).                  *)

\* The future completes: false ends the loop of run(), which owns the manager.
Return(t, result) ==
  /\ pc' = [pc EXCEPT ![t] = "idle"]
  /\ todo' = [todo EXCEPT ![t] = {}]
  /\ failed' = [failed EXCEPT ![t] = {}]
  /\ owner' = IF t = Runner /\ ~result THEN "gone" ELSE owner

TickCall(t) ==
  /\ pc[t] = "idle"
  /\ IF t = Runner
       THEN owner = "running"
       ELSE owner = "caller" /\ CallerFree /\ clock < MaxClock
  /\ pc' = [pc EXCEPT ![t] = "start"]
  /\ UNCHANGED <<varsManager, todo, failed, varsConsumer, panicked>>

StopAtStart == cancelled

\* The first poll: return on cancellation, else leave the Gathering stage.
TickStart(t) ==
  /\ pc[t] = "start"
  /\ \/ /\ StopAtStart
        /\ Return(t, FALSE)
        /\ UNCHANGED stage
     \/ /\ ~StopAtStart
        /\ pc' = [pc EXCEPT ![t] = "acquire"]
        /\ stage' = IF stage = "Gathering" THEN "Open" ELSE stage
        /\ UNCHANGED <<owner, todo, failed>>
  /\ UNCHANGED <<permits, outstanding, subscribers, waiting, captured, input,
                 pos, clock, cancelled, varsConsumer, panicked>>

\* The permit is acquired: it goes back at once if there is nothing to
\* distribute, else it is held until the future completes or is dropped.
TickAcquire(t) ==
  /\ pc[t] = "acquire"
  /\ permits > 0
  /\ ~InputBorrowed
  /\ \/ /\ input = "taken" \/ (stage = "Closed" /\ subscribers = {})
        /\ Return(t, FALSE)
        /\ UNCHANGED permits
     \/ /\ input = "held" /\ ~(stage = "Closed" /\ subscribers = {})
        /\ permits' = permits - 1
        /\ pc' = [pc EXCEPT ![t] = "read"]
        /\ UNCHANGED <<owner, todo, failed>>
  /\ UNCHANGED <<stage, outstanding, subscribers, waiting, captured, input,
                 pos, clock, cancelled, varsConsumer, panicked>>

\* input_stream.borrow_mut() while another tick holds the borrow.
AcquirePanics(t) ==
  /\ pc[t] = "acquire"
  /\ permits > 0
  /\ InputBorrowed
  /\ panicked' = TRUE
  /\ UNCHANGED <<varsManager, varsTick, varsConsumer>>

\* input_stream.next() yields a value: the send loop starts.
TickReadValue(t) ==
  /\ pc[t] = "read"
  /\ pos < Values
  /\ pos' = pos + 1
  /\ clock' = clock + 1
  /\ IF subscribers = {}
       THEN Return(t, TRUE) /\ permits' = permits + 1
       ELSE /\ pc' = [pc EXCEPT ![t] = "send"]
            /\ todo' = [todo EXCEPT ![t] = subscribers]
            /\ UNCHANGED <<owner, failed, permits>>
  /\ UNCHANGED <<stage, outstanding, subscribers, waiting, captured, input,
                 cancelled, varsConsumer, panicked>>

\* input_stream.next() yields None: the senders are dropped.
TickReadEnd(t) ==
  /\ pc[t] = "read"
  /\ pos = Values
  /\ clock' = clock + 1
  /\ subscribers' = {}
  /\ permits' = permits + 1
  /\ Return(t, FALSE)
  /\ UNCHANGED <<stage, outstanding, waiting, captured, input, pos, cancelled,
                 varsConsumer, panicked>>

HasRoom_Unbounded(s) == TRUE    \* fault: the channel has no bound

HasRoom(s) == Len(chan[s]) < Capacity

\* fault: the loop stops at the first receiver that is gone
LastSend_Break(t, s) == todo[t] = {s} \/ ~ReceiverAlive(s)

LastSend(t, s) == todo[t] = {s}

\* One send of the loop completes, with Err if the receiver is gone.  After
\* the last one the failed senders are removed and the permit is released.
TickSend(t, s) ==
  /\ pc[t] = "send"
  /\ s \in todo[t] /\ \A r \in todo[t] : s <= r
  /\ \/ /\ ReceiverAlive(s)
        /\ HasRoom(s)
        /\ chan' = [chan EXCEPT ![s] = Append(@, pos)]
     \/ /\ ~ReceiverAlive(s)
        /\ UNCHANGED chan
  /\ LET gone == IF ReceiverAlive(s) THEN failed[t] ELSE failed[t] \cup {s}
     IN  IF LastSend(t, s)
           THEN /\ subscribers' = subscribers \ gone
                /\ permits' = permits + 1
                /\ Return(t, TRUE)
           ELSE /\ todo' = [todo EXCEPT ![t] = @ \ {s}]
                /\ failed' = [failed EXCEPT ![t] = gone]
                /\ UNCHANGED <<subscribers, permits, owner, pc>>
  /\ UNCHANGED <<stage, outstanding, waiting, captured, input, pos, clock,
                 cancelled, stream, recv, base, panicked>>

\* The cancelled() branch of the selects around acquire, next and send.
TickCancelled(t) ==
  /\ cancelled
  /\ pc[t] \in {"acquire", "read", "send"}
  /\ permits' = IF Holding(t) THEN permits + 1 ELSE permits
  /\ Return(t, FALSE)
  /\ UNCHANGED <<stage, outstanding, subscribers, waiting, captured, input,
                 pos, clock, cancelled, varsConsumer, panicked>>

-----------------------------------------------------------------------------
(* run(), cancellation and the owner.                                      *)

Run ==
  /\ owner = "caller"
  /\ CallerFree
  /\ owner' = "running"
  /\ stage' = "Closed"
  /\ UNCHANGED <<permits, outstanding, subscribers, waiting, captured, input,
                 pos, clock, cancelled, varsTick, varsConsumer, panicked>>

\* The loop's own select sees the cancellation and drops its tick future.
RunCancelled ==
  /\ owner = "running"
  /\ cancelled
  /\ permits' = IF Holding(Runner) THEN permits + 1 ELSE permits
  /\ Return(Runner, FALSE)
  /\ UNCHANGED <<stage, outstanding, subscribers, waiting, captured, input,
                 pos, clock, cancelled, varsConsumer, panicked>>

\* The owner (a subcontext that was not run) is dropped, and with it the
\* future that awaits a tick of its managers.
DropManager ==
  /\ owner = "caller"
  /\ owner' = "gone"
  /\ pc' = [t \in Ticks |-> "idle"]
  /\ todo' = [t \in Ticks |-> {}]
  /\ failed' = [t \in Ticks |-> {}]
  /\ permits' = IF InputBorrowed THEN permits + 1 ELSE permits
  /\ UNCHANGED <<stage, outstanding, subscribers, waiting, captured, input,
                 pos, clock, cancelled, varsConsumer, panicked>>

Cancel ==
  /\ ~cancelled
  /\ cancelled' = TRUE
  /\ UNCHANGED <<stage, permits, outstanding, subscribers, waiting, captured,
                 input, pos, clock, owner, varsTick, varsConsumer, panicked>>

-----------------------------------------------------------------------------
(* The consumers.                                                          *)

RecvChannel(s) ==
  /\ stream[s] = "channel"
  /\ chan[s] # <<>>
  /\ recv' = [recv EXCEPT ![s] = Append(@, Head(chan[s]))]
  /\ chan' = [chan EXCEPT ![s] = Tail(@)]
  /\ UNCHANGED <<varsManager, varsTick, stream, base, panicked>>

RecvDirect(s) ==
  /\ stream[s] = "direct"
  /\ pos < Values
  /\ pos' = pos + 1
  /\ recv' = [recv EXCEPT ![s] = Append(@, pos + 1)]
  /\ UNCHANGED <<stage, permits, outstanding, subscribers, waiting, captured,
                 input, clock, cancelled, owner, varsTick, stream, chan, base,
                 panicked>>

\* The consumer reads None.
RecvEnd(s) ==
  /\ \/ stream[s] = "channel" /\ chan[s] = <<>> /\ SenderGone(s)
     \/ stream[s] = "direct" /\ pos = Values
  /\ stream' = [stream EXCEPT ![s] = "ended"]
  /\ UNCHANGED <<varsManager, varsTick, chan, recv, base, panicked>>

\* The consumer drops its stream, served or not.
DropStream(s) ==
  /\ stream[s] \in {"pending", "channel", "direct"}
  /\ stream' = [stream EXCEPT ![s] = "dropped"]
  /\ UNCHANGED <<varsManager, varsTick, chan, recv, base, panicked>>

-----------------------------------------------------------------------------

Subscription(s) ==
  \/ Subscribe(s) \/ SubscribePanics(s)
  \/ ServeDirect(s) \/ ServeChannel(s) \/ ServePanics(s)

Tick(t) ==
  \/ TickCall(t) \/ TickStart(t) \/ TickAcquire(t) \/ AcquirePanics(t)
  \/ TickReadValue(t) \/ TickReadEnd(t)
  \/ \E s \in Subs : TickSend(t, s)
  \/ TickCancelled(t)

Consumer(s) == RecvChannel(s) \/ RecvDirect(s) \/ RecvEnd(s) \/ DropStream(s)

Lifecycle == Run \/ RunCancelled \/ DropManager \/ Cancel

Next ==
  /\ ~panicked
  /\ \/ \E s \in Subs : Subscription(s) \/ Consumer(s)
     \/ \E t \in Ticks : Tick(t)
     \/ Lifecycle

Spec == Init /\ [][Next]_vars

(* The executor polls every woken task, so each step of a background task,  *)
(* of a tick future and of a run loop is eventually taken.  The provider of *)
(* the input stream and the consumers are assumed to keep going as well.    *)
Fairness ==
  /\ \A s \in Subs :
       /\ WF_vars(~panicked /\ (ServeDirect(s) \/ ServeChannel(s) \/ ServePanics(s)))
       /\ WF_vars(~panicked /\ (RecvChannel(s) \/ RecvDirect(s) \/ RecvEnd(s)))
  /\ \A t \in Ticks :
       /\ WF_vars(~panicked /\ (TickStart(t) \/ TickAcquire(t) \/ AcquirePanics(t)))
       /\ WF_vars(~panicked /\ (TickReadValue(t) \/ TickReadEnd(t)))
       /\ WF_vars(~panicked /\ (\E s \in Subs : TickSend(t, s)))
  /\ WF_vars(~panicked /\ TickCall(Runner))

FairSpec == Spec /\ Fairness

-----------------------------------------------------------------------------
(* Properties.                                                             *)

\* Every variable keeps its type; the counters stay within the bounds that
\* the clock bound implies.
TypeOK ==
  /\ stage \in Stages
  /\ permits \in Nat
  /\ outstanding \in Nat
  /\ subscribers \in SUBSET Subs
  /\ waiting \in SUBSET Subs
  /\ captured \in [Subs -> Stages]
  /\ input \in {"held", "taken"}
  /\ pos \in 0..Values
  /\ clock \in Nat
  /\ cancelled \in BOOLEAN
  /\ owner \in {"caller", "running", "gone"}
  /\ pc \in [Ticks -> {"idle", "start", "acquire", "read", "send"}]
  /\ todo \in [Ticks -> SUBSET Subs]
  /\ failed \in [Ticks -> SUBSET Subs]
  /\ stream \in [Subs -> {"none", "pending", "channel", "direct", "ended", "dropped"}]
  /\ chan \in [Subs -> Seq(Data)]
  /\ recv \in [Subs -> Seq(Data)]
  /\ base \in [Subs -> 0..Values]
  /\ panicked \in BOOLEAN

\* The counter of outstanding requests counts the background tasks in flight,
\* so the task that finds it at one is the last, and only it returns a permit.
RequestCount == outstanding = Cardinality(waiting)

\* The two promises of the comment on VarManager about the semaphore: two
\* ticks never distribute at once, and no tick distributes while a
\* subscription request is outstanding.
PermitBarrier ==
  /\ \A t, u \in Ticks : Holding(t) /\ Holding(u) => t = u
  /\ outstanding > 0 => \A t \in Ticks : ~Holding(t)

\* A subscriber sees the values of the input stream that follow its
\* subscription, each once and in order: what it received and what is
\* buffered for it is a contiguous piece of the input that starts at base.
SubscriberView ==
  \A s \in Subs :
    LET view == recv[s] \o chan[s]
    IN  /\ base[s] + Len(view) <= pos
        /\ \A i \in 1..Len(view) : view[i] = base[s] + i

\* However callers overlap subscribe() and tick(), a subscriber misses or
\* repeats nothing before a cancellation: what the semaphore fails to exclude
\* then, the borrow of the input stream turns into a panic.
NoGapBeforeCancel == ~cancelled => SubscriberView

\* The only panic of the actor that callers like Context can meet is that of
\* a request whose consumer dropped the stream before it was served: every
\* borrow of a RefCell and the take().unwrap() of the input stream succeed.
PanicOnlyIfAbandoned ==
  panicked => \E s \in waiting : stream[s] = "dropped"

\* The abstract promise: the manager is a broadcast of the input stream.
Broadcast == INSTANCE BroadcastStream WITH
  Readers <- Subs,
  Window <- Capacity,
  published <- pos,
  closing <- cancelled \/ (owner = "gone" /\ stage # "Closed"),
  status <- [s \in Subs |->
              IF stream[s] \in {"pending", "channel", "direct"} THEN "open"
              ELSE IF stream[s] = "dropped" THEN "left" ELSE stream[s]],
  from <- base,
  got <- recv

\* Used as Context uses it, a manager implements the broadcast, whatever the
\* order in which subscriptions, ticks, consumers and cancellation come.
ImplementsBroadcast == Broadcast!Spec

\* Once the manager runs, every consumer that keeps reading comes to the end
\* of its stream: the barrier of permits always opens and no send blocks
\* for ever, unless a panic stops the executor.
Delivery ==
  \A s \in Subs :
    (owner = "running" /\ stream[s] \in {"pending", "channel", "direct"})
      ~> (stream[s] \in {"ended", "dropped"} \/ panicked)

=============================================================================
