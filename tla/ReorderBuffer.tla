--------------------------- MODULE ReorderBuffer ---------------------------
(***************************************************************************)
(* The subscriber half of RedisEventTransport (packages/api/src/stream/    *)
(* implementations/RedisEventTransport.ts) for one stream on one replica.  *)
(*                                                                         *)
(* Every sequenced event of the stream takes its number from one counter   *)
(* in Redis and is published on one channel.  The replica subscribes to    *)
(* the channel, puts the events back in sequence order in a reorder        *)
(* buffer, and hands them to its SSE handlers.  An event is represented by *)
(* its sequence number: the number determines the payload.                 *)
(***************************************************************************)
EXTENDS Naturals, Sequences, FiniteSets, SequencesExt

CONSTANTS
    MaxSeq,         \* bound on the shared sequence counter
    MaxBatch,       \* bound on the events of one CHUNK_BATCH frame
    MaxBufferSize,  \* MAX_BUFFER_SIZE: pending events that force a flush
    MaxSubscribers, \* bound on the SSE subscribers attached at once
    MaxStates,      \* bound on the stream states created after cleanup()
    MaxSyncs        \* bound on the syncReorderBuffer calls in flight

ASSUME BoundsAssumption ==
    /\ MaxSeq \in Nat \ {0}
    /\ MaxBatch \in Nat \ {0}
    /\ MaxBufferSize \in Nat \ {0}
    /\ MaxSubscribers \in Nat
    /\ MaxStates \in Nat
    /\ MaxSyncs \in Nat

NoReplay == MaxSeq + 1  \* replayedNextSeq === undefined
Unread   == MaxSeq + 1  \* the GET of a sync has not been executed yet
NoState  == 0           \* streams.get(streamId) === undefined

VARIABLES
    seqCounter, \* the Redis key stream:{id}:seq
    terminals,  \* the numbers that belong to DONE and ERROR events
    net,        \* frames published to this replica
    wired,      \* Redis has this replica's connection on the channel
    channel,    \* channelSubscriptions: "none", "pending" or "active"
    state,      \* identity of the StreamSubscribers object, or NoState
    created,    \* how many such objects were created
    listener,   \* an abort or preempt callback is registered
    count,      \* SSE subscribers attached
    nextSeq,    \* reorderBuffer.nextSeq
    pending,    \* keys of reorderBuffer.pending
    deferred,   \* reorderBuffer.deliveryDeferred
    timer,      \* reorderBuffer.flushTimeout is armed
    ingress,    \* rest of the frame handleMessage is unpacking
    syncs,      \* syncReorderBuffer calls in flight, oldest first
    delivered,  \* history: what this attachment's handlers got, in order
    excused,    \* history: what its forced flushes and syncs stepped over
    missing     \* history: a flush looked up an event no longer pending

bufferVars  == <<nextSeq, pending, deferred, timer, delivered, excused>>
channelVars == <<wired, channel, state, created, listener, count>>
redisVars   == <<seqCounter, terminals>>
vars == <<redisVars, net, channelVars, bufferVars, ingress, syncs, missing>>

Seqs   == 0..MaxSeq
Frames  == {f \in [lo : Seqs, hi : Seqs] : f.lo <= f.hi}
NoFrame == [lo |-> 1, hi |-> 0]
Syncs  == [st : Nat, replay : 0..(MaxSeq + 1), val : 0..(MaxSeq + 1)]

TypeOK ==
    /\ seqCounter \in Seqs
    /\ net \subseteq Frames
    /\ wired \in BOOLEAN
    /\ channel \in {"none", "pending", "active"}
    /\ state \in Nat
    /\ created \in Nat
    /\ listener \in BOOLEAN
    /\ count \in Nat
    /\ nextSeq \in Seqs
    /\ pending \subseteq Seqs
    /\ deferred \in BOOLEAN
    /\ timer \in BOOLEAN
    /\ ingress \in Frames \cup {NoFrame}
    /\ syncs \in Seq(Syncs)
    /\ delivered \in Seq(Seqs)
    /\ excused \subseteq Seqs
    /\ terminals \subseteq Seqs
    /\ missing \in BOOLEAN

Init ==
    /\ seqCounter = 0 /\ terminals = {} /\ net = {}
    /\ ingress = NoFrame /\ syncs = <<>>
    /\ wired = FALSE /\ channel = "none" /\ listener = FALSE
    /\ state = NoState /\ created = 0 /\ count = 0
    /\ nextSeq = 0 /\ pending = {} /\ deferred = FALSE /\ timer = FALSE
    /\ delivered = <<>> /\ excused = {}
    /\ missing = FALSE

(***************************************************************************)
(* JavaScript runs one callback at a time: while a CHUNK_BATCH is unpacked *)
(* no other callback of the replica runs, although Redis goes on.          *)
(***************************************************************************)
Idle == ingress = NoFrame

(***************************************************************************)
(* Redis and the network.                                                  *)
(***************************************************************************)

\* One PUBLISH_SEQ_LUA by any replica: reserve k numbers, publish one frame.
Publish(k, terminal) ==
    /\ seqCounter + k <= MaxSeq
    /\ terminal => k = 1
    /\ seqCounter' = seqCounter + k
    /\ terminals' = IF terminal THEN terminals \cup {seqCounter} ELSE terminals
    /\ net' = IF wired
              THEN net \cup {[lo |-> seqCounter, hi |-> seqCounter + k - 1]}
              ELSE net
    /\ UNCHANGED <<channelVars, bufferVars, ingress, syncs, missing>>

\* Redis executes the UNSUBSCRIBE that precedes any later SUBSCRIBE.
RedisUnsubscribed ==
    /\ wired /\ channel # "active"
    /\ wired' = FALSE
    /\ UNCHANGED <<redisVars, net, missing, channel, state, created, listener,
                   count, bufferVars, ingress, syncs>>

\* The SUBSCRIBE of ensureChannelSubscription succeeds, or is rejected.
ChannelReady ==
    /\ Idle /\ channel = "pending" /\ ~wired
    /\ channel' = "active"
    /\ wired' = TRUE
    /\ UNCHANGED <<redisVars, net, missing, state, created, listener, count,
                   bufferVars, ingress, syncs>>

ChannelFailed ==
    /\ Idle /\ channel = "pending" /\ ~wired
    /\ channel' = "none"
    /\ UNCHANGED <<redisVars, net, missing, wired, state, created, listener,
                   count, bufferVars, ingress, syncs>>

(***************************************************************************)
(* The reorder buffer.                                                     *)
(***************************************************************************)

\* The buffer after resetReorderBuffer, expecting n.
FreshBuffer(n, defer) ==
    /\ nextSeq' = n /\ pending' = {} /\ timer' = FALSE
    /\ deferred' = defer
    /\ delivered' = <<>> /\ excused' = {}

ResetReorderBuffer(defer) == FreshBuffer(0, defer)

\* unsubscribeUnusedChannel, when the step leaves n subscribers.
UnsubscribeUnusedChannel(n, listening) ==
    channel' = IF n = 0 /\ ~listening THEN "none" ELSE channel

\* deliverMessage for the events of D.  A subscriber that gets its terminal
\* event unsubscribes before deliverMessage returns; one that is paused, or
\* follows another generation, stays.
DeliverAndStay(D) ==
    /\ count' \in 0..count
    /\ count' # count => count' > 0 /\ D \cap terminals # {}
    /\ UNCHANGED channel

\* The same when t closes the last subscriber: the buffer is reset under the
\* loop that is delivering, which goes on with n as its frontier.
DeliverAndDetach(t, n) ==
    /\ count > 0 /\ t \in terminals
    /\ count' = 0
    /\ UnsubscribeUnusedChannel(0, listener)
    /\ FreshBuffer(n, FALSE)

\* The numbers a, a + 1, ..., b - 1.
Upwards(a, b) == [i \in 1..(b - a) |-> a + i - 1]

\* Deliver `direct`, then flushPendingMessages on a buffer that holds P and
\* expects n: the events n, n + 1, ... up to the first gap go out, and an
\* emptied buffer clears the armed timer.
FlushPendingMessages(n, P, direct, armed, over) ==
    /\ \E m \in n..seqCounter :
        /\ n..(m - 1) \subseteq P
        /\ m \notin P
        /\ LET run == direct \o Upwards(n, m) IN
           \/ /\ DeliverAndStay(Range(run))
              /\ nextSeq' = m
              /\ pending' = P \ (n..(m - 1))
              /\ delivered' = delivered \o run
              /\ timer' = (armed /\ pending' # {})
              /\ excused' = excused \cup over
              /\ deferred' = FALSE
           \/ \E t \in Range(run) : DeliverAndDetach(t, 1)
    /\ UNCHANGED missing

InOrder(q) == \A i, j \in DOMAIN q : i < j => q[i] < q[j]

\* The members of P in ascending order.
Ascending(P) ==
    {q \in [1..Cardinality(P) -> P] : InOrder(q) /\ P \subseteq Range(q)}

\* Deliver all of P in ascending order and step over the gaps.  When an event
\* before the last one detaches the buffer, the next lookup finds nothing and
\* deliverMessage throws on it.
ForceFlushBuffer(P) ==
    \E q \in Ascending(P), last \in P :
        /\ q[Len(q)] = last
        /\ \/ /\ DeliverAndStay(P)
              /\ nextSeq' = last + 1
              /\ pending' = {}
              /\ delivered' = delivered \o q
              /\ excused' = excused \cup ((nextSeq..last) \ P)
              /\ timer' = FALSE
              /\ UNCHANGED <<deferred, missing>>
           \/ \E t \in P :
              /\ DeliverAndDetach(t, IF t = last THEN last + 1 ELSE 0)
              /\ missing' = (missing \/ t # last)

\* Faulty: a held terminal event arms no timer.
HoldEventUntimed(s) ==
    /\ pending' = pending \cup {s}
    /\ timer' = (timer \/ (~deferred /\ s \notin terminals))
    /\ UNCHANGED <<nextSeq, delivered, excused, deferred, count, channel,
                   missing>>

HoldEvent(s) ==
    /\ pending' = pending \cup {s}
    /\ timer' = (timer \/ ~deferred)
    /\ UNCHANGED <<nextSeq, delivered, excused, deferred, count, channel,
                   missing>>

\* Faulty: a late event is delivered instead of dropped.
HandleSequencedLate(s) ==
    \/ deferred /\ HoldEvent(s)
    \/ /\ ~deferred /\ s <= nextSeq
       /\ FlushPendingMessages(nextSeq + 1, pending, <<s>>, timer, {})
    \/ /\ ~deferred /\ s > nextSeq
       /\ HoldEvent(s)

\* handleOrderedChunk and handleTerminalEvent: only a chunk checks the size.
HandleSequenced(s) ==
    \/ deferred /\ HoldEvent(s)
    \/ /\ ~deferred /\ s = nextSeq
       /\ FlushPendingMessages(s + 1, pending, <<s>>, timer, {})
    \/ /\ ~deferred /\ s > nextSeq
       /\ IF s \notin terminals
             /\ Cardinality(pending \cup {s}) >= MaxBufferSize
          THEN ForceFlushBuffer(pending \cup {s})
          ELSE HoldEvent(s)
    \/ /\ ~deferred /\ s < nextSeq
       /\ UNCHANGED <<bufferVars, count, channel, missing>>

RestOf(f) == IF f.lo < f.hi THEN [f EXCEPT !.lo = f.lo + 1] ELSE NoFrame

\* handleMessage for a frame from the channel; it is ignored with no subscriber.
\* A frame may arrive in any order, more than once, or, when this never happens
\* for it, be lost.
Receive(f) ==
    /\ Idle
    /\ IF state = NoState \/ count = 0
       THEN UNCHANGED <<bufferVars, ingress, count, channel, missing>>
       ELSE /\ HandleSequenced(f.lo)
            /\ ingress' = RestOf(f)
    /\ UNCHANGED <<redisVars, net, wired, state, created, listener, syncs>>

\* The loop of handleMessage over the other events of a CHUNK_BATCH.
UnpackNext ==
    /\ ~Idle
    /\ HandleSequenced(ingress.lo)
    /\ ingress' = RestOf(ingress)
    /\ UNCHANGED <<redisVars, net, wired, state, created, listener, syncs>>

\* The callback of scheduleFlushTimeout.
Timeout ==
    /\ Idle /\ timer
    /\ ForceFlushBuffer(pending)
    /\ UNCHANGED <<redisVars, net, wired, state, created, listener, ingress,
                   syncs>>

(***************************************************************************)
(* Attachment.                                                             *)
(***************************************************************************)

GetOrCreateStreamState ==
    IF state = NoState
    THEN created < MaxStates /\ created' = created + 1 /\ state' = created + 1
    ELSE UNCHANGED <<created, state>>

EnsureChannelSubscription ==
    channel' = IF channel = "none" THEN "pending" ELSE channel

\* subscribe(): only the first subscriber opens a fresh attachment.
Subscribe(defer) ==
    /\ Idle /\ count < MaxSubscribers
    /\ GetOrCreateStreamState
    /\ EnsureChannelSubscription
    /\ count' = count + 1
    /\ IF count = 0 THEN ResetReorderBuffer(defer) ELSE UNCHANGED bufferVars
    /\ UNCHANGED <<redisVars, net, missing, wired, listener, ingress, syncs>>

\* The unsubscribe closure of the current state; the last one detaches.
Unsubscribe ==
    /\ Idle /\ count > 0
    /\ count' = count - 1
    /\ IF count = 1 THEN ResetReorderBuffer(FALSE) ELSE UNCHANGED bufferVars
    /\ UnsubscribeUnusedChannel(count - 1, listener)
    /\ UNCHANGED <<redisVars, net, missing, wired, state, created, listener,
                   ingress, syncs>>

\* closeLocalSubscribers(): all handlers at once.
CloseLocalSubscribers ==
    /\ Idle /\ count > 0
    /\ count' = 0
    /\ ResetReorderBuffer(FALSE)
    /\ UnsubscribeUnusedChannel(0, listener)
    /\ UNCHANGED <<redisVars, net, missing, wired, state, created, listener,
                   ingress, syncs>>

\* onAbort / onPreempt register a listener that keeps the channel open.
AddListener ==
    /\ Idle /\ ~listener
    /\ GetOrCreateStreamState
    /\ EnsureChannelSubscription
    /\ listener' = TRUE
    /\ UNCHANGED <<redisVars, net, missing, wired, count, bufferVars, ingress,
                   syncs>>

DropListener ==
    /\ Idle /\ listener
    /\ listener' = FALSE
    /\ UnsubscribeUnusedChannel(count, FALSE)
    /\ UNCHANGED <<redisVars, net, missing, wired, state, created, count,
                   bufferVars, ingress, syncs>>

\* cleanup(): the local state goes, the Redis counter stays.
Cleanup ==
    /\ Idle /\ state # NoState
    /\ state' = NoState /\ count' = 0 /\ listener' = FALSE /\ channel' = "none"
    /\ ResetReorderBuffer(FALSE)
    /\ UNCHANGED <<redisVars, net, missing, wired, created, ingress, syncs>>

(***************************************************************************)
(* syncReorderBuffer: a GET of the counter, then the frontier is moved.    *)
(***************************************************************************)

\* The call.  replay is the frontier of a local replay of published events.
SyncStart(replay) ==
    /\ Idle /\ state # NoState /\ Len(syncs) < MaxSyncs
    /\ syncs' = Append(syncs, [st |-> state, replay |-> replay, val |-> Unread])
    /\ UNCHANGED <<redisVars, net, missing, channelVars, bufferVars, ingress>>

\* Redis executes the oldest GET.
SyncRead ==
    /\ syncs # <<>> /\ Head(syncs).val = Unread
    /\ syncs' = [syncs EXCEPT ![1].val = seqCounter]
    /\ UNCHANGED <<redisVars, net, missing, channelVars, bufferVars, ingress>>

\* Faulty: the counter is trusted over the exact replay frontier.
CeilingTrustsCounter(y) == y.val

Ceiling(y) == IF y.replay # NoReplay THEN y.replay ELSE y.val

\* Pending entries a local replay already delivered are pruned.
Pruned(y) ==
    IF y.replay # NoReplay THEN {s \in pending : s >= y.replay} ELSE pending

\* History: what may be stepped over, because the caller replayed it, or
\* because the caller, which replayed nothing, has read a counter that had
\* passed it and it has not arrived: it predates the attachment, is lost, or is
\* still on its way.
Excusable(y) ==
    IF y.replay # NoReplay THEN 0..(y.replay - 1) ELSE (0..(y.val - 1)) \ pending

\* History: the part of it a synchronization steps over that moves to n.
SteppedOver(y, n) == Excusable(y) \cap (nextSeq..(n - 1))

\* Faulty: the frontier may regress.
LargestRegresses(a, b) == b

Largest(a, b) == IF a >= b THEN a ELSE b

\* The reply: an obsolete snapshot of a replaced state changes nothing.  The
\* frontier moves to the ceiling or the oldest pending event, never back.
SyncReply ==
    /\ Idle /\ syncs # <<>> /\ Head(syncs).val # Unread
    /\ LET y == Head(syncs) IN
       IF y.st # state \/ state = NoState
       THEN UNCHANGED <<bufferVars, count, channel, missing>>
       ELSE \E low \in Pruned(y) \cup {Ceiling(y)} :
               /\ \A s \in Pruned(y) \cup {Ceiling(y)} : low <= s
               /\ LET n == Largest(nextSeq, low) IN
                  FlushPendingMessages(n, Pruned(y), <<>>, TRUE,
                                       SteppedOver(y, n))
    /\ syncs' = Tail(syncs)
    /\ UNCHANGED <<redisVars, net, wired, state, created, listener, ingress>>

\* The GET fails: a paused attachment is released on its replay frontier.
SyncFail ==
    /\ Idle /\ syncs # <<>>
    /\ LET y == Head(syncs)
           r == IF y.replay # NoReplay THEN y.replay ELSE 0
           n == Largest(nextSeq, r)
       IN IF y.st # state \/ ~deferred
          THEN UNCHANGED <<bufferVars, count, channel, missing>>
          ELSE FlushPendingMessages(n, Pruned(y), <<>>, TRUE, SteppedOver(y, n))
    /\ syncs' = Tail(syncs)
    /\ UNCHANGED <<redisVars, net, wired, state, created, listener, ingress>>

(***************************************************************************)
(* Specification.                                                          *)
(***************************************************************************)

Network ==
    \/ \E k \in 1..MaxBatch, t \in BOOLEAN : Publish(k, t)
    \/ RedisUnsubscribed \/ ChannelReady \/ ChannelFailed

Delivery ==
    \/ \E f \in net : Receive(f)
    \/ UnpackNext \/ Timeout

Attachment ==
    \/ \E d \in BOOLEAN : Subscribe(d)
    \/ Unsubscribe \/ CloseLocalSubscribers
    \/ AddListener \/ DropListener \/ Cleanup

Synchronization ==
    \/ \E r \in (0..seqCounter) \cup {NoReplay} : SyncStart(r)
    \/ SyncRead \/ SyncReply \/ SyncFail

Next == Network \/ Delivery \/ Attachment \/ Synchronization

Spec == Init /\ [][Next]_vars

\* Node fires an armed timer, however many frames arrive meanwhile, because
\* every turn of its event loop looks at the timers, and it finishes a frame it
\* began to unpack.
Fairness == SF_vars(Timeout) /\ WF_vars(UnpackNext)

FairSpec == Spec /\ Fairness

(***************************************************************************)
(* Properties.                                                             *)
(***************************************************************************)

\* Every number below the expected one is accounted for while a subscriber is
\* attached: its event was handed to the handlers, or stepped over by a forced
\* flush, or by a synchronization that may step over it.  One that knows what
\* its caller replayed steps over nothing else, whatever the counter says; one
\* that does not steps over no event that is held and over none that was
\* numbered after the counter was read, but it does step over one that was
\* numbered before and is still on its way.
Accounted ==
    count > 0 => 0..(nextSeq - 1) \subseteq Range(delivered) \cup excused

\* A paused attachment is handed nothing before it is synchronized, so that
\* what its caller replays comes first.
PausedIsSilent == deferred => delivered = <<>> /\ nextSeq = 0

\* The flush timer is armed exactly while a released buffer holds events, so
\* that a gap which is never filled cannot strand what is behind it.
HeldEventsAreTimed == timer <=> ~deferred /\ pending # {}

\* The state of a stream is well formed whatever attaches, leaves, overflows or
\* is cleaned up in between: its subscribers are counted right, a pause hides
\* it, and its flush timer covers what it holds (TypeOK and the two above).
BufferIsSound == TypeOK /\ PausedIsSilent /\ HeldEventsAreTimed

\* Within one attachment events go out in sequence order and at most once,
\* across gaps, frames that arrive late or again, forced flushes, batches that
\* overlap what was delivered, and synchronizations.
InOrderDelivery == InOrder(delivered)

\* A held event does not wait forever for a gap that will not be filled, and
\* that includes a DONE whose predecessors were lost.
Stuck(s) == s \in pending /\ ~deferred
HeldEventsLeave == \A s \in Seqs : []<>~Stuck(s)

\* The transport keeps the promise of OrderedDelivery to its subscribers: the
\* frontier never moves back, and what it passes is delivered then, once and in
\* order, or was stepped over by a forced flush or by a synchronization.
Ordered == INSTANCE OrderedDelivery WITH
    sent     <- seqCounter,
    attached <- count > 0,
    frontier <- IF count > 0 THEN nextSeq ELSE 0,
    got      <- IF count > 0 THEN delivered ELSE <<>>,
    excused  <- IF count > 0 THEN excused ELSE {}

KeepsOrder == Ordered!Spec

=============================================================================
