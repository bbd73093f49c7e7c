---------------------------- MODULE StreamAttach ----------------------------
(***************************************************************************)
(* How SSE requests attach to a generation on the replica that runs it, in *)
(* Redis mode: attachSubscription, subscribeWithResume and the early event *)
(* buffer of GenerationJobManager (packages/api/src/stream/).              *)
(*                                                                         *)
(* Until somebody is attached the runtime buffers what it emits.  The      *)
(* first reader replays the buffer while the reorder buffer of the         *)
(* transport is paused, then releases it where the replay ended.  Readers  *)
(* that reconnect (resume) get a snapshot instead and join the live        *)
(* stream.  ReorderBuffer models gaps, losses and forced flushes; here the *)
(* frames of the one publisher arrive late but in order.                   *)
(***************************************************************************)
EXTENDS Naturals, Sequences, FiniteSets, SequencesExt

CONSTANTS
    MaxRequests,  \* bound on the SSE requests, numbered as they attach
    FirstSeq,     \* where the shared counter stands when it starts
    MaxChunks,    \* bound on the events a generation emits while it runs
    Statuses,     \* what the running generation may become
    MaxEarly,     \* EARLY_EVENT_BUFFER_MAX_EVENTS
    MaxFaults     \* bound on failed commands and replacements

ASSUME BoundsAssumption ==
    /\ MaxChunks \in Nat \ {0}
    /\ Statuses \subseteq {"paused", "complete", "replaced"}
    /\ MaxEarly \in Nat \ {0}
    /\ MaxRequests \in Nat
    /\ FirstSeq \in Nat
    /\ MaxFaults \in Nat

Readers  == 1..MaxRequests
Nobody   == 0              \* nobody awaits the sync
Get      == 0              \* the GET of a sync
Created  == 1              \* the first event a generation emits
Events   == 1..(MaxChunks + 1)  \* one of them announces a pause
Done     == MaxChunks + 2  \* the terminal event, which comes last
NoReplay == FirstSeq + MaxChunks + 3  \* replayedNextSeq === undefined
Unread   == FirstSeq + MaxChunks + 3  \* the GET of a sync has not been executed yet

Stages == {"idle", "check", "fence", "recheck", "sync", "ready", "reconciled",
           "live", "failed", "ended", "gone"}

VARIABLES
    job,        \* the durable job: running, paused, complete or replaced
    stored,     \* its hash has not been deleted
    emitted,    \* events emitted: 1, ..., emitted
    approval,   \* the event that announces the pause, or 0
    conn,       \* publications and GETs sent and not yet executed, in order
    log,        \* events published, in the order of their numbers
    receipt,    \* what the emitter knows of the number of an event
    received,   \* frames of the log this replica has received
    nextSeq,    \* reorderBuffer.nextSeq
    pending,    \* keys of reorderBuffer.pending
    deferred,   \* reorderBuffer.deliveryDeferred
    syncs,      \* syncReorderBuffer calls in flight, oldest first
    skipped,    \* history: a sync moved nextSeq over frames in flight
    hasSubscriber, attachGen, buffered, closed, overflowed, \* the runtime's
    conts,      \* continueEarlyEventBootstrap tasks
    since,      \* history: emitted before the current attachment
    on,         \* readers registered with the transport
    reader,     \* the progress of each request
    faults,     \* how many there were
    abandoned,  \* history: attachments whose bootstrap nobody ended
    late        \* history: readers that attached after DONE had come

generationVars == <<job, emitted, approval, conn, log, receipt>>
bufferVars  == <<nextSeq, pending, deferred>>
earlyVars   == <<buffered, closed, overflowed>>
runtimeVars == <<hasSubscriber, attachGen, since>>
faultVars   == <<faults, abandoned>>
storeVars   == <<stored, late>>
syncVars    == <<syncs, skipped>>
readerVars  == <<on, reader>>
vars == <<generationVars, received, bufferVars, syncVars, runtimeVars, earlyVars,
          conts, readerVars, faultVars, storeVars>>

Fresh == [pc |-> "idle", kind |-> "initial", defer |-> FALSE, told |-> FALSE,
          gen |-> 0, waits |-> {}, look |-> FALSE, replay |-> "none",
          queue |-> <<>>, got |-> <<>>]

\* earlyReplayHandlers, and the handlers whose delivery is activated.
Early  == {r \in on : reader[r].kind = "initial"}
Active == {r \in on : reader[r].pc = "live"}

Counter == FirstSeq + Len(log)  \* the key stream:{id}:seq

NumberOf(e) == FirstSeq + (CHOOSE i \in DOMAIN log : log[i] = e) - 1

\* A set of integers in ascending order.
Ascending(S) ==
    {n \in [1..Cardinality(S) -> S] :
        /\ \A s \in S : \E i \in DOMAIN n : n[i] = s
        /\ \A i, j \in DOMAIN n : i < j => n[i] < n[j]}

\* The events of a sequence of numbers.
EventsOf(n) == [i \in DOMAIN n |-> log[n[i] - FirstSeq + 1]]

Init ==
    /\ job = "running" /\ stored = TRUE /\ emitted = 0 /\ approval = 0
    /\ conn = <<>> /\ log = <<>>
    /\ receipt = [e \in Events |-> "none"]
    /\ received = 0 /\ syncs = <<>> /\ skipped = FALSE /\ conts = {}
    /\ nextSeq = 0 /\ pending = {} /\ deferred = FALSE
    /\ hasSubscriber = FALSE /\ attachGen = 0 /\ since = 0 /\ abandoned = {}
    /\ buffered = <<>> /\ closed = FALSE /\ overflowed = FALSE
    /\ on = {}
    /\ reader = [r \in Readers |-> Fresh]
    /\ faults = 0 /\ late = {}

(***************************************************************************)
(* Emission.                                                               *)
(***************************************************************************)

\* bufferEarlyEvent: kept for the first reader, or everything is dropped.
BufferEarlyEvent(e) ==
    IF hasSubscriber \/ closed
    THEN UNCHANGED <<earlyVars, receipt>>
    ELSE IF Len(buffered) >= MaxEarly
    THEN /\ buffered' = <<>> /\ closed' = TRUE /\ overflowed' = TRUE
         /\ UNCHANGED receipt
    ELSE /\ buffered' = Append(buffered, e)
         /\ receipt' = [receipt EXCEPT ![e] = "open"]
         /\ UNCHANGED <<closed, overflowed>>

\* emitChunkNow
Emit(e) ==
    /\ e = emitted + 1 /\ e \in Events
    /\ emitted' = e
    /\ conn' = Append(conn, e)
    /\ BufferEarlyEvent(e)
    /\ UNCHANGED <<job, log, received, bufferVars, syncVars, runtimeVars,
                   conts, readerVars, faultVars, storeVars>>

EmitChunk(e) ==
    /\ job = "running" /\ e <= MaxChunks
    /\ Emit(e)
    /\ UNCHANGED approval

\* The run pauses for an approval: first the status, then the event.
Pause ==
    /\ "paused" \in Statuses
    /\ job = "running" /\ emitted > 0
    /\ job' = "paused"
    /\ UNCHANGED <<emitted, approval, conn, log, receipt, received,
                   bufferVars, syncVars, runtimeVars, earlyVars, conts,
                   readerVars, faultVars, storeVars>>

EmitApproval(e) ==
    /\ job = "paused" /\ approval = 0
    /\ Emit(e)
    /\ approval' = e

\* The generation ends, or another one replaces it, which counts as a fault.
End(status) ==
    /\ job \in {"running", "paused"}
    /\ job' = status
    /\ conn' = Append(conn, Done)
    /\ IF status = "replaced"
       THEN faults < MaxFaults /\ faults' = faults + 1
       ELSE UNCHANGED faults
    /\ UNCHANGED <<emitted, approval, log, receipt, received, bufferVars,
                   syncVars, runtimeVars, earlyVars, conts, readerVars,
                   abandoned, storeVars>>

\* Redis executes the oldest command; the fence refuses chunks of a
\* generation that has been replaced.
Execute ==
    /\ conn # <<>>
    /\ conn' = Tail(conn)
    /\ CASE Head(conn) = Get ->
              /\ \E i \in DOMAIN syncs :
                    /\ syncs[i].val = Unread
                    /\ \A j \in 1..(i - 1) : syncs[j].val # Unread
                    /\ syncs' = [syncs EXCEPT ![i].val = Counter]
              /\ UNCHANGED <<log, receipt>>
         [] Head(conn) \in Events /\ job = "replaced" ->
              /\ receipt' = [receipt EXCEPT ![Head(conn)] = "failed"]
              /\ UNCHANGED <<log, syncs>>
         [] OTHER ->
              /\ log' = Append(log, Head(conn))
              /\ UNCHANGED <<receipt, syncs>>
    /\ UNCHANGED <<job, emitted, approval, received, bufferVars, skipped,
                   runtimeVars, earlyVars, conts, readerVars, faultVars,
                   storeVars>>

\* The publication of a chunk fails before it is executed.
Fail ==
    /\ faults < MaxFaults /\ conn # <<>> /\ Head(conn) \in Events
    /\ faults' = faults + 1
    /\ conn' = Tail(conn)
    /\ receipt' = [receipt EXCEPT ![Head(conn)] = "failed"]
    /\ UNCHANGED <<job, emitted, approval, log, received, bufferVars,
                   syncVars, runtimeVars, earlyVars, conts, readerVars,
                   abandoned, storeVars>>

\* The receipts somebody awaits, or may yet.
Awaited == Range(buffered) \cup (UNION {reader[r].waits : r \in Readers})
                           \cup (UNION {c.waits : c \in conts})

\* The oldest open receipt of a published event gets its number.
Settle(e) ==
    /\ receipt[e] = "open" /\ e \in Range(log) /\ e \in Awaited
    /\ \A d \in 1..(e - 1) : receipt[d] # "open"
    /\ receipt' = [receipt EXCEPT ![e] = "numbered"]
    /\ UNCHANGED <<job, emitted, approval, conn, log, received,
                   bufferVars, syncVars, runtimeVars, earlyVars, conts, readerVars,
                   faultVars, storeVars>>

Settled(E) == \A e \in E : receipt[e] # "open"

\* finishTerminalJob: the hash of a job that has completed is deleted once its
\* DONE is published.  The replies to what was published before DONE have come
\* by then, and what awaited them has gone on.
DeleteJob ==
    /\ job = "complete" /\ stored /\ Done \in Range(log)
    /\ Settled(Awaited) /\ conts = {}
    /\ \A r \in Readers : reader[r].pc # "fence"
    /\ stored' = FALSE
    /\ UNCHANGED <<generationVars, received, bufferVars, syncVars, runtimeVars,
                   earlyVars, conts, readerVars, faultVars, late>>

(***************************************************************************)
(* Readers: what a handler does with an event, and leaving.                *)
(***************************************************************************)

\* deliverChunk calls onChunk for all it is given but a 'created' that is not
\* the first, or that is given to a request that resumes.
Called(r) ==
    {i \in DOMAIN reader[r].got :
        /\ reader[r].got[i] # Done
        /\ reader[r].got[i] = Created =>
               /\ reader[r].kind = "initial"
               /\ \A j \in 1..(i - 1) : reader[r].got[j] # Created}

\* Handlers that still accept events: a queued DONE is the last.
Open(T) == {r \in T \cap on : Done \notin Range(reader[r].queue)}

\* queueChunk and queueDone: what the requests R become once the events es
\* are handed to T; an event is kept until the delivery is activated.
Handed(R, T, es) ==
    [r \in Readers |->
        CASE r \in Open(T) \cap Active -> [R[r] EXCEPT !.got = @ \o es]
          [] r \in Open(T) \ Active    -> [R[r] EXCEPT !.queue = @ \o es]
          [] OTHER                     -> R[r]]

\* Those whose delivery of DONE unsubscribes them.
Ended(T, es) == IF Done \in Range(es) THEN Open(T) \cap Active ELSE {}

ResetBuffer(defer) == nextSeq' = 0 /\ pending' = {} /\ deferred' = defer

\* The request after its handlers are gone: a response that has been ended,
\* or a request that still awaits something.
Gone(d) == [d EXCEPT !.pc = IF @ \in {"live", "failed"} THEN "ended" ELSE @,
                     !.queue = <<>>, !.look = FALSE]

\* unsubscribe of L, and registerAllSubscribersLeft when nobody is left.
Detach(L, R) ==
    /\ on' = on \ L
    /\ reader' = [r \in Readers |-> IF r \in L THEN Gone(R[r]) ELSE R[r]]
    /\ IF on # {} /\ on' = {}
       THEN hasSubscriber' = FALSE /\ attachGen' = attachGen + 1 /\ UNCHANGED since
       ELSE UNCHANGED runtimeVars

\* The same outside of the reorder buffer.
DetachLocally(L, R) ==
    /\ Detach(L, R)
    /\ IF on' = {} THEN ResetBuffer(FALSE) ELSE UNCHANGED bufferVars

\* What matters of a request whose client has left: it only goes on where
\* others wait for the bootstrap it has begun.
Departed(d) ==
    [Fresh EXCEPT !.pc = IF d.pc \in {"fence", "recheck", "sync"} THEN d.pc ELSE "gone",
                  !.gen = d.gen, !.waits = d.waits, !.defer = d.defer]

\* The client closes its request.
Leave(r) ==
    /\ r \in on
    /\ on' = on \ {r}
    /\ reader' = [reader EXCEPT ![r] = Departed(@)]
    /\ IF on' = {}
       THEN hasSubscriber' = FALSE /\ attachGen' = attachGen + 1 /\ UNCHANGED since
            /\ ResetBuffer(FALSE)
       ELSE UNCHANGED <<runtimeVars, bufferVars>>
    /\ UNCHANGED <<generationVars, received, syncVars, earlyVars, conts,
                   faultVars, storeVars>>

(***************************************************************************)
(* The reorder buffer of the transport.                                    *)
(***************************************************************************)

\* flushPendingMessages on a buffer that holds P and expects n, while the
\* requests become R.
FlushFrom(R, n, P) ==
    \E m \in n..Counter :
        /\ n..(m - 1) \subseteq P /\ m \notin P
        /\ LET es == EventsOf([i \in 1..(m - n) |-> n + i - 1]) IN
           Detach(Ended(on, es), Handed(R, on, es))
        /\ IF on' = {}
           THEN ResetBuffer(FALSE)
           ELSE nextSeq' = m /\ pending' = P \ (n..(m - 1)) /\ deferred' = FALSE

HoldEvent(s) == pending' = pending \cup {s} /\ UNCHANGED <<nextSeq, deferred>>

\* handleMessage for the next frame.
Receive ==
    /\ received < Len(log)
    /\ received' = received + 1
    /\ LET s == FirstSeq + received IN
       IF on = {} \/ (~deferred /\ s < nextSeq)
       THEN UNCHANGED <<bufferVars, readerVars, runtimeVars>>
       ELSE IF deferred \/ s > nextSeq
       THEN HoldEvent(s) /\ UNCHANGED <<readerVars, runtimeVars>>
       ELSE FlushFrom(reader, s, pending \cup {s})
    /\ UNCHANGED <<generationVars, syncVars, earlyVars, conts, faultVars,
                   storeVars>>

\* The timer of scheduleFlushTimeout: what is held goes out over the gap.
FlushTimeout ==
    /\ on # {} /\ ~deferred /\ pending # {}
    /\ \E n \in Ascending(pending) :
          /\ Detach(Ended(on, EventsOf(n)), Handed(reader, on, EventsOf(n)))
          /\ IF on' = {}
             THEN ResetBuffer(FALSE)
             ELSE /\ nextSeq' = n[Len(n)] + 1 /\ pending' = {}
                  /\ UNCHANGED deferred
    /\ UNCHANGED <<generationVars, received, syncVars, earlyVars, conts,
                   faultVars, storeVars>>

\* The requests once the one that awaits the oldest sync goes on.
Resumed ==
    [r \in Readers |-> IF Head(syncs).by = r THEN [reader[r] EXCEPT !.pc = "ready"]
                                             ELSE reader[r]]

\* What a sync that established the frontier replay leaves in the buffer.
Unreplayed(replay) ==
    IF replay = NoReplay THEN pending ELSE {s \in pending : s >= replay}

Larger(a, b) == IF a >= b THEN a ELSE b

\* syncReorderBuffer: the reply, which finds nothing to do without readers.
\* The buffer opens at the oldest held event or at the ceiling.
SyncReply ==
    /\ syncs # <<>> /\ Head(syncs).val # Unread
    /\ skipped' = \/ skipped
                  \/ /\ on # {} /\ Head(syncs).replay = NoReplay
                     /\ Head(syncs).val > FirstSeq + received
    /\ LET y == Head(syncs)
           P == Unreplayed(y.replay)
           ceiling == IF y.replay # NoReplay THEN y.replay ELSE y.val
       IN IF on = {}
          THEN Detach({}, Resumed) /\ UNCHANGED bufferVars
          ELSE \E s \in P \cup {ceiling} :
                  /\ \A t \in P \cup {ceiling} : s <= t
                  /\ FlushFrom(Resumed, Larger(nextSeq, s), P)
    /\ syncs' = Tail(syncs)
    /\ UNCHANGED <<generationVars, received, earlyVars, conts, faultVars,
                   storeVars>>

\* The GET fails: a paused buffer is released where the replay ended.
SyncFail ==
    /\ faults < MaxFaults /\ syncs # <<>> /\ Head(syncs).val # Unread
    /\ faults' = faults + 1
    /\ LET y == Head(syncs)
           n == IF y.replay # NoReplay THEN y.replay ELSE 0
       IN IF on = {} \/ ~deferred
          THEN Detach({}, Resumed) /\ UNCHANGED bufferVars
          ELSE FlushFrom(Resumed, Larger(nextSeq, n), Unreplayed(y.replay))
    /\ syncs' = Tail(syncs)
    /\ UNCHANGED <<generationVars, received, skipped, earlyVars, conts,
                   abandoned, storeVars>>

(***************************************************************************)
(* Attachment.                                                             *)
(***************************************************************************)

Goto(r, pc) == reader' = [reader EXCEPT ![r].pc = pc]

\* The job hash is there, and of this generation.
Expected == stored /\ job # "replaced"

\* Nothing is left of the request.
Quit(r) == reader' = [reader EXCEPT ![r] = [Fresh EXCEPT !.pc = "gone"]]

\* attachSubscription up to the first await: the handlers are registered.
\* What the request has read of the job before may be out of date: a reader
\* that resumes has no pause in its snapshot.
Attach(r, k) ==
    /\ reader[r].pc = "idle"
    /\ \A q \in 1..(r - 1) : reader[q].pc # "idle"
    /\ LET defer == ~hasSubscriber /\ k = "initial" IN
       /\ IF on = {} THEN ResetBuffer(defer) ELSE UNCHANGED bufferVars
       /\ reader' = [reader EXCEPT ![r].pc = "check", ![r].kind = k,
                                   ![r].defer = defer]
    /\ on' = on \cup {r}
    /\ late' = IF \E i \in 1..received : log[i] = Done THEN late \cup {r} ELSE late
    /\ UNCHANGED <<generationVars, received, syncVars, runtimeVars, earlyVars,
                   conts, faultVars, stored>>

\* stillMatchesExpectedGeneration finds another generation or none; the second
\* time the buffer stays paused for the others.
Refuse(r) ==
    /\ reader[r].pc \in {"check", "recheck", "ready"}
    /\ reader[r].pc = "ready" => reader[r].kind = "resume"
    /\ ~Expected
    /\ DetachLocally({r} \cap on, [reader EXCEPT ![r].pc = "ended"])
    /\ abandoned' = IF reader[r].pc = "recheck"
                    THEN abandoned \cup {reader[r].gen} ELSE abandoned
    /\ UNCHANGED <<generationVars, received, syncVars, earlyVars, conts, faults,
                   storeVars>>

\* A request that was detached while it awaited something gives up.
GiveUp(r) ==
    /\ reader[r].pc \in {"check", "ready", "reconciled", "ended"}
    /\ r \notin on
    /\ Quit(r)
    /\ UNCHANGED <<generationVars, received, bufferVars, syncVars, runtimeVars,
                   earlyVars, conts, on, faultVars, storeVars>>

\* The same generation: the first reader takes the bootstrap on itself.
Check(r) ==
    /\ reader[r].pc = "check" /\ r \in on /\ Expected
    /\ IF hasSubscriber
       THEN /\ reader' = [reader EXCEPT ![r].pc = "ready", ![r].defer = FALSE]
            /\ UNCHANGED <<hasSubscriber, since>>
       ELSE /\ hasSubscriber' = TRUE /\ since' = emitted
            /\ reader' = [reader EXCEPT ![r].pc = "fence", ![r].gen = attachGen,
                                        ![r].waits = Range(buffered)]
    /\ UNCHANGED <<generationVars, received, bufferVars, syncVars, attachGen,
                   earlyVars, conts, on, faultVars, storeVars>>

\* waitForEarlyEventPublications
Fence(r) ==
    /\ reader[r].pc = "fence" /\ r \in on
    /\ Settled(reader[r].waits)
    /\ Goto(r, "recheck")
    /\ UNCHANGED <<generationVars, received, bufferVars, syncVars, runtimeVars,
                   earlyVars, conts, on, faultVars, storeVars>>

\* Faulty: nobody goes on with the bootstrap.
FenceForgotten(r) ==
    /\ reader[r].pc = "fence" /\ r \notin on
    /\ Quit(r)
    /\ UNCHANGED <<generationVars, received, bufferVars, syncVars, runtimeVars,
                   earlyVars, conts, on, faultVars, storeVars>>

\* The reader leaves meanwhile: the others need the rest of the bootstrap.
FenceDetached(r) ==
    /\ reader[r].pc = "fence" /\ r \notin on
    /\ Quit(r)
    /\ conts' = IF on = {} THEN conts
                ELSE conts \cup {[gen |-> reader[r].gen, waits |-> reader[r].waits,
                                  defer |-> reader[r].defer]}
    /\ UNCHANGED <<generationVars, received, bufferVars, syncVars, runtimeVars,
                   earlyVars, on, faultVars, storeVars>>

\* The read of the second check throws past every handler: the request stays
\* registered until its client closes it, and nobody ends the bootstrap.
RecheckThrows(r) ==
    /\ faults < MaxFaults /\ reader[r].pc = "recheck"
    /\ faults' = faults + 1
    /\ Goto(r, IF r \in on THEN "failed" ELSE "ended")
    /\ abandoned' = abandoned \cup {reader[r].gen}
    /\ UNCHANGED <<generationVars, received, bufferVars, syncVars, runtimeVars,
                   earlyVars, conts, on, storeVars>>

\* Faulty: the frontier is the last event replayed, or the counter.
ReplayedNextSeqShort ==
    LET N == {NumberOf(e) : e \in {d \in Range(buffered) :
                                      receipt[d] = "numbered"}}
    IN  IF N = {} THEN NoReplay ELSE Max(N)

ReplayedNextSeqCounter ==
    IF \E e \in Range(buffered) : receipt[e] = "numbered" THEN Counter ELSE NoReplay

\* The frontier a replay of the buffer establishes.
ReplayedNextSeq ==
    LET N == {NumberOf(e) : e \in {d \in Range(buffered) :
                                      receipt[d] = "numbered"}}
    IN  IF N = {} THEN NoReplay ELSE Max(N) + 1

\* After the bootstrap the buffer is closed and the transport synchronized.
CloseEarly(by, replay) ==
    /\ buffered' = <<>> /\ closed' = TRUE
    /\ conn' = Append(conn, Get)
    /\ syncs' = Append(syncs, [by |-> by, replay |-> replay, val |-> Unread])
    /\ UNCHANGED <<overflowed, skipped>>

\* History: which kind of replay a reader has been given.
Replayed(R, paused) ==
    [q \in Readers |->
        IF q \notin Early THEN R[q]
        ELSE [R[q] EXCEPT !.replay =
                CASE ~paused -> "open"
                  [] paused /\ ReplayedNextSeq = NoReplay -> "counter"
                  [] OTHER -> "frontier"]]

\* Replay es to every request that wants a replay, and become R.
Replay(R, es, paused) ==
    DetachLocally(Ended(Early, es), Handed(Replayed(R, paused), Early, es))

\* The 'created' of the metadata, if the job had them when it was read.
Fallbacks == {<<>>, <<Created>>}

\* The rest of the bootstrap.
Bootstrap(r) ==
    /\ reader[r].pc = "recheck" /\ Expected
    /\ Early # {} => Settled(Range(buffered))
    /\ \E es \in IF buffered # <<>> THEN {buffered} ELSE Fallbacks :
          Replay([reader EXCEPT ![r].pc = "sync", ![r].waits = {},
                                ![r].defer = FALSE, ![r].gen = 0],
                 es, deferred)
    /\ CloseEarly(r, IF Early = {} THEN NoReplay ELSE ReplayedNextSeq)
    /\ UNCHANGED <<job, emitted, approval, log, receipt, received, conts,
                   faultVars, storeVars>>

\* continueEarlyEventBootstrap: without a paused buffer what has a number has
\* been published, so only the rest is replayed.
Unpublished == {e \in Range(buffered) : receipt[e] # "numbered"}

Continue(c) ==
    /\ c \in conts
    /\ Settled(c.waits)
    /\ conts' = conts \ {c}
    /\ IF on = {} \/ attachGen # c.gen
       THEN UNCHANGED <<conn, bufferVars, syncVars, runtimeVars, earlyVars,
                        readerVars>>
       ELSE /\ \E es \in CASE buffered = <<>> -> Fallbacks
                           [] buffered # <<>> /\ c.defer -> {buffered}
                           [] OTHER -> Ascending(Unpublished) :
                  Replay(reader, es, deferred /\ c.defer)
            /\ CloseEarly(Nobody, IF c.defer /\ Early # {} THEN ReplayedNextSeq
                                                           ELSE NoReplay)
    /\ UNCHANGED <<job, emitted, approval, log, receipt, received, faultVars,
                   storeVars>>

(***************************************************************************)
(* After the bootstrap.                                                    *)
(***************************************************************************)

\* activateDelivery: the queue goes out, and a queued DONE ends it.
Activated(r) ==
    [reader[r] EXCEPT !.pc = "live", !.queue = <<>>,
                      !.got = @ \o reader[r].queue]

HasDone(r) == Done \in Range(reader[r].queue)

\* Faulty: the stored terminal event is not looked for.
StartLiveUnchecked(r) ==
    /\ reader[r].pc = "ready" /\ r \in on /\ reader[r].kind = "initial"
    /\ LET lost == overflowed /\ job # "complete" IN
       DetachLocally(IF lost \/ HasDone(r) THEN {r} ELSE {},
                     [reader EXCEPT ![r] = Activated(r)])
    /\ UNCHANGED <<generationVars, received, syncVars, earlyVars, conts,
                   faultVars, storeVars>>

\* The end of attachSubscription for a first view: what the overflow lost
\* cannot be made whole, so that the client is told to reconnect.
StartLive(r) ==
    /\ reader[r].pc = "ready" /\ r \in on /\ reader[r].kind = "initial"
    /\ LET lost == overflowed /\ job # "complete" IN
       DetachLocally(IF lost \/ HasDone(r) THEN {r} ELSE {},
                     [reader EXCEPT ![r] = [Activated(r) EXCEPT !.look = TRUE]])
    /\ UNCHANGED <<generationVars, received, syncVars, earlyVars, conts,
                   faultVars, storeVars>>

\* Faulty: what became durable after the snapshot is not added.
ReconcileBlindly(r) ==
    /\ reader[r].pc = "ready" /\ r \in on /\ reader[r].kind = "resume"
    /\ Expected
    /\ reader' = [reader EXCEPT ![r].pc = "reconciled", ![r].look = TRUE]
    /\ UNCHANGED <<generationVars, received, bufferVars, syncVars, runtimeVars,
                   earlyVars, conts, on, faultVars, storeVars>>

\* The end of attachSubscription for a reader that resumes, after which
\* subscribeWithResume reads the job again: a pause the snapshot missed is
\* added to the sync frame.
Reconcile(r) ==
    /\ reader[r].pc = "ready" /\ r \in on /\ reader[r].kind = "resume"
    /\ Expected
    /\ reader' = [reader EXCEPT ![r].pc = "reconciled", ![r].look = TRUE,
                                ![r].told = (job = "paused")]
    /\ UNCHANGED <<generationVars, received, bufferVars, syncVars, runtimeVars,
                   earlyVars, conts, on, faultVars, storeVars>>

\* The route has written the sync frame.
Activate(r) ==
    /\ reader[r].pc = "reconciled" /\ r \in on
    /\ DetachLocally(IF HasDone(r) THEN {r} ELSE {},
                     [reader EXCEPT ![r] = Activated(r)])
    /\ UNCHANGED <<generationVars, received, syncVars, earlyVars, conts,
                   faultVars, storeVars>>

\* deliverStoredTerminal: the final event of a job that has ended, and nothing
\* if there is no job.
TerminalStored == stored /\ job = "complete"

StoredTerminal(r) ==
    /\ reader[r].look
    /\ LET es == IF TerminalStored THEN <<Done>> ELSE <<>> IN
       DetachLocally(Ended({r}, es),
                     Handed([reader EXCEPT ![r].look = FALSE], {r}, es))
    /\ UNCHANGED <<generationVars, received, syncVars, earlyVars, conts,
                   faultVars, storeVars>>

-----------------------------------------------------------------------------

Transport ==
    Execute \/ (\E e \in Events : Settle(e)) \/ Receive \/ FlushTimeout
            \/ SyncReply \/ (\E c \in conts : Continue(c))

Request(r) ==
    \/ Refuse(r) \/ GiveUp(r) \/ Check(r) \/ Fence(r)
    \/ FenceDetached(r) \/ Bootstrap(r) \/ StartLive(r)
    \/ Reconcile(r) \/ Activate(r) \/ StoredTerminal(r)

Generation ==
    \/ \E e \in Events : EmitChunk(e) \/ EmitApproval(e)
    \/ Pause
    \/ \E status \in Statuses \ {"paused"} : End(status)
    \/ DeleteJob

Client(r) ==
    \/ \E k \in {"initial", "resume"} : Attach(r, k)
    \/ Leave(r)

Fault == Fail \/ SyncFail \/ \E r \in Readers : RecheckThrows(r)

Next == \/ Generation \/ Transport \/ Fault
        \/ \E r \in Readers : Request(r) \/ Client(r)

Spec == Init /\ [][Next]_vars

\* A request that has nothing to do before something else happens.
Waiting(r) ==
    /\ ~reader[r].look
    /\ reader[r].pc \notin {"check", "ready", "reconciled", "ended"}
    /\ reader[r].pc = "fence" => r \in on /\ ~Settled(reader[r].waits)
    /\ reader[r].pc = "recheck" =>
          Expected /\ Early # {} /\ ~Settled(Range(buffered))

\* Nothing is left to do but for the generation, the clients and the faults:
\* neither Transport nor a Request is enabled.  Every command is executed and
\* answered, every timer has fired, no receipt can be settled.
Quiet ==
    /\ conn = <<>> /\ syncs = <<>> /\ received = Len(log)
    /\ on = {} \/ deferred \/ pending = {}
    /\ \A e \in Awaited \cap Range(log) :
          receipt[e] = "open" => \E d \in 1..(e - 1) : receipt[d] = "open"
    /\ \A c \in conts : ~Settled(c.waits)
    /\ \A r \in Readers : Waiting(r)

-----------------------------------------------------------------------------

Requests ==
    [pc : Stages, kind : {"initial", "resume"}, defer : BOOLEAN,
     told : BOOLEAN, gen : 0..MaxRequests, waits : SUBSET Events,
     look : BOOLEAN, replay : {"none", "open", "counter", "frontier"},
     queue : Seq({Done} \cup Events), got : Seq({Done} \cup Events)]

\* The state is well formed.
TypeOK ==
    /\ job \in {"running", "paused", "complete", "replaced"} /\ stored \in BOOLEAN
    /\ emitted \in 0..(MaxChunks + 1) /\ approval \in 0..(MaxChunks + 1)
    /\ conn \in Seq({Done, Get} \cup Events) /\ log \in Seq({Done} \cup Events)
    /\ receipt \in [Events -> {"none", "open", "numbered", "failed"}]
    /\ received \in 0..Len(log)
    /\ nextSeq \in 0..Counter /\ pending \subseteq 0..(Counter - 1)
    /\ deferred \in BOOLEAN /\ skipped \in BOOLEAN
    /\ \A i \in DOMAIN syncs :
          syncs[i] \in [by : Readers \cup {Nobody}, replay : 0..NoReplay,
                        val : 0..Unread]
    /\ since \in 0..emitted
    /\ hasSubscriber \in BOOLEAN /\ attachGen \in 0..MaxRequests
    /\ abandoned \subseteq 0..MaxRequests
    /\ buffered \in Seq(Events) /\ Len(buffered) <= MaxEarly
    /\ closed \in BOOLEAN /\ overflowed \in BOOLEAN
    /\ conts \subseteq [gen : 0..MaxRequests, waits : SUBSET Events,
                        defer : BOOLEAN]
    /\ on \subseteq Readers
    /\ reader \in [Readers -> Requests]
    /\ faults \in 0..MaxFaults /\ late \subseteq Readers

\* What the onChunk of a request has been called with.
Chunks(r) == {reader[r].got[i] : i \in Called(r)}

\* However requests that subscribe and requests that resume meet, a replay under
\* the pause of deferSequenceDelivery and the transport together call onChunk at
\* most once for an event, and for those that were published in the order of
\* emission; a 'created' made up from the metadata of the job may come before its
\* place.
OnceWhenPaused ==
    \A r \in Readers : reader[r].replay # "open" =>
        \A i, j \in Called(r) : i < j =>
            LET d == reader[r].got[i]
                e == reader[r].got[j]
            IN  d # e /\ ({d, e} \subseteq Range(log) \ {Created} => d < e)

\* Buffered for r, or emitted since its attachment began, published, and still
\* not given to it.  What was emitted while nobody's bootstrap was completed is
\* neither.
Missing(r, e) ==
    /\ e <= emitted /\ e \notin Chunks(r) /\ receipt[e] # "failed"
    /\ e > since \/ receipt[e] # "none"

\* The frontier that syncReorderBuffer is given after a replay drops nothing: a
\* reader is given no event before an earlier one it lacks, and when nothing is
\* left to do a live reader lacks nothing, unless a command failed or the
\* generation was replaced.
NothingMissing ==
    faults = 0 => \A r \in Readers : reader[r].replay = "frontier" =>
        \A e \in Events : Missing(r, e) =>
            /\ \A d \in Chunks(r) : d < e
            /\ ~(Quiet /\ r \in on)

\* attachSubscription ends for every request, whoever leaves while the bootstrap
\* of another awaits something, and the pause of the transport with it: when
\* nothing is left to do, every request is live or gone and deliveryDeferred is
\* false, unless a bootstrap was abandoned.
AttachmentsSettle ==
    Quiet => /\ \A r \in Readers : reader[r].pc \in {"idle", "live", "failed", "gone"}
             /\ deferred => attachGen \in abandoned

\* DONE, deliverStoredTerminal or stillMatchesExpectedGeneration ends every
\* request of a generation that has ended, on time or late: nobody goes on
\* waiting but a request that attached after DONE had come and whose look for the
\* stored terminal event came after finishTerminalJob had deleted the job.
ReadersEnd ==
    Quiet /\ job \in {"complete", "replaced"} /\ attachGen \notin abandoned /\ ~skipped =>
        \A r \in on : reader[r].pc = "failed" \/ (r \in late /\ ~stored)

\* subscribeWithResume and the live stream together leave no gap for a pause: a
\* reader that resumed learns that the generation waits for an approval.
PauseIsSeen ==
    Quiet /\ job = "paused" /\ approval # 0 /\ ~skipped /\ attachGen \notin abandoned =>
        \A r \in on : reader[r].kind = "resume" /\ reader[r].pc = "live" =>
            \/ reader[r].told \/ approval \in Range(reader[r].got)
            \/ receipt[approval] = "failed"

=============================================================================
