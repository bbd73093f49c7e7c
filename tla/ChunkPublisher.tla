-------------------------- MODULE ChunkPublisher --------------------------
(***************************************************************************)
(* The producer half of RedisEventTransport (packages/api/src/stream/      *)
(* implementations/RedisEventTransport.ts) for one stream on one replica,  *)
(* with the parts of GenerationJobManager that decide when it publishes.   *)
(*                                                                         *)
(* Runs on a conversation are numbered 1, 2, ... (createdAt, which the     *)
(* creation script keeps increasing).  The replica coalesces deltas into a *)
(* batch, and sends every batch, event and status change over one Redis    *)
(* connection, which executes them in order.  PUBLISH_SEQ_LUA refuses an   *)
(* event whose generation is no longer the live one.                       *)
(***************************************************************************)
EXTENDS Integers, Sequences, FiniteSets

CONSTANTS
    MaxGen,        \* bound on the generations of the stream
    MaxEvents,     \* bound on the chunks emitted on this replica
    MaxCoalesced,  \* MAX_COALESCED_EVENTS: a full batch is sent at once
    MaxFailures,   \* bound on commands whose outcome the replica never learns
    MaxOutside,    \* bound on remote chunks and claims, and on expiries
    MaxTotal       \* bound on all of these together

ASSUME BoundsAssumption ==
    /\ MaxGen \in Nat \ {0}
    /\ MaxEvents \in Nat
    /\ MaxCoalesced \in Nat \ {0}
    /\ MaxFailures \in Nat
    /\ MaxOutside \in Nat
    /\ MaxTotal \in Nat

VARIABLES
    job,        \* the job hash: the generation that owns the stream, and
                \* whether its status is running or requires_action
    created,    \* the newest generation ever created
    epoch,      \* the retained generation-epoch marker, 0 when absent
    handoffs,   \* __replacedGenerations: predecessors not yet acknowledged
    counter,    \* the key stream:{id}:seq
    published,  \* every event sequenced so far
    conn,       \* commands sent and not yet settled, oldest first
    current,    \* generation of this replica's runtime, 0 when it has none
    stopped,    \* that runtime's abort controller has fired
    arriving,   \* generation this replica created and has yet to install
    batch,      \* pendingBatches entry
    emitted,    \* generation of each chunk emitted here, in order
    receipt,    \* what each chunk's publisher was told
    claim,      \* this replica's terminal claim on each generation
    mark,       \* history: chunks emitted before that claim drained the batch
    remote,     \* generations another replica has terminated, DONE not yet out
    failures,   \* commands lost so far
    outside     \* remote chunks and claims, and expiries so far

redisVars == <<job, created, epoch, handoffs, counter, published>>
emitVars  == <<emitted, receipt>>
runVars   == <<current, stopped, arriving>>
claimVars == <<claim, mark>>
outsideVars == <<remote, failures, outside>>
vars == <<redisVars, emitVars, runVars, claimVars, conn, batch, outsideVars>>

Gens   == 1..MaxGen
NoGen  == 0
Events == 1..MaxEvents
NoBatch == [gen |-> NoGen, evs |-> <<>>]
NoNext  == [kind |-> "none", gen |-> NoGen, by |-> NoGen]

\* A command: the events it carries, what is sent once it settles, and its
\* outcome as far as Redis ("sent", "ok", "fenced") and the network
\* ("failed") are concerned.  seq is the number of its first event, and by the
\* generation whose creation hands a predecessor off.
Command(kind, gen, evs, next) ==
    [kind |-> kind, gen |-> gen, evs |-> evs, next |-> next,
     by |-> NoGen, st |-> "sent", seq |-> 0]

\* One without events, sent for a generation.
Bare(kind, gen, by) == [Command(kind, gen, <<>>, NoNext) EXCEPT !.by = by]

Open == [st |-> "open", seq |-> 0]

Kinds    == {"chunk", "cas", "done", "replaced", "ack"}
Outcomes == {"sent", "ok", "fenced", "failed"}
Commands ==
    [kind : Kinds, gen : 0..MaxGen, evs : Seq(Events),
     next : [kind : Kinds \cup {"none"}, gen : 0..MaxGen, by : 0..MaxGen],
     by : 0..MaxGen, st : Outcomes, seq : Nat]
Entries  == [seq : Nat, kind : {"chunk", "done"}, gen : Gens, ev : 0..MaxEvents]
Receipts == [st : {"open", "ok", "fenced", "failed"}, seq : Nat]

TypeOK ==
    /\ job \in [gen : 0..MaxGen, active : BOOLEAN]
    /\ created \in 0..MaxGen
    /\ epoch \in 0..MaxGen
    /\ handoffs \subseteq Gens
    /\ counter \in Nat
    /\ published \subseteq Entries
    /\ conn \in Seq(Commands)
    /\ current \in 0..MaxGen
    /\ stopped \in BOOLEAN
    /\ arriving \in 0..MaxGen
    /\ batch \in [gen : 0..MaxGen, evs : Seq(Events)]
    /\ emitted \in Seq(Gens)
    /\ receipt \in Seq(Receipts)
    /\ Len(receipt) = Len(emitted) /\ Len(emitted) <= MaxEvents
    /\ claim \in [Gens -> {"none", "sent", "won", "over"}]
    /\ mark \in [Gens -> 0..MaxEvents]
    /\ remote \subseteq Gens
    /\ failures \in Nat
    /\ outside \in Nat

Init ==
    /\ job = [gen |-> NoGen, active |-> FALSE]
    /\ created = 0 /\ epoch = NoGen /\ handoffs = {} /\ remote = {}
    /\ counter = 0 /\ published = {} /\ conn = <<>> /\ batch = NoBatch
    /\ current = NoGen /\ stopped = FALSE /\ arriving = NoGen
    /\ emitted = <<>> /\ receipt = <<>> /\ failures = 0 /\ outside = 0
    /\ claim = [g \in Gens |-> "none"] /\ mark = [g \in Gens |-> 0]

Bounded == created + Len(emitted) + failures + outside < MaxTotal

(***************************************************************************)
(* The coalescing batch.                                                   *)
(***************************************************************************)

\* flushCoalescedChunks: the connection q with the batch behind it.
Flushed(q, next) ==
    IF batch = NoBatch THEN q
    ELSE Append(q, Command("chunk", batch.gen, batch.evs, next))

\* Faulty: a chunk that may not be coalesced overtakes the batch.
SendBarrierOvertakes(e) ==
    /\ conn' = Append(conn, Command("chunk", current, <<e>>, NoNext))
    /\ UNCHANGED batch

\* A chunk that may not be coalesced is a barrier: the batch goes first.
SendBarrier(e) ==
    /\ conn' = Append(Flushed(conn, NoNext),
                      Command("chunk", current, <<e>>, NoNext))
    /\ batch' = NoBatch

\* enqueueCoalescedChunk: a batch holds one generation and is sent when full.
Enqueue(e) ==
    LET same == batch.gen = current
        rest == IF same THEN conn ELSE Flushed(conn, NoNext)
        evs  == Append(IF same THEN batch.evs ELSE <<>>, e)
    IN IF Len(evs) >= MaxCoalesced
       THEN /\ conn' = Append(rest, Command("chunk", current, evs, NoNext))
            /\ batch' = NoBatch
       ELSE /\ conn' = rest
            /\ batch' = [gen |-> current, evs |-> evs]

\* emitChunk: only the current runtime emits, and not once it was stopped.
EmitChunk(coalesce) ==
    /\ current # NoGen /\ ~stopped
    /\ Len(emitted) < MaxEvents /\ Bounded
    /\ emitted' = Append(emitted, current)
    /\ receipt' = Append(receipt, Open)
    /\ IF coalesce THEN Enqueue(Len(emitted) + 1)
                   ELSE SendBarrier(Len(emitted) + 1)
    /\ UNCHANGED <<redisVars, runVars, claimVars, outsideVars>>

\* The timer of the batch.
FlushTimer ==
    /\ batch # NoBatch
    /\ conn' = Flushed(conn, NoNext)
    /\ batch' = NoBatch
    /\ UNCHANGED <<redisVars, emitVars, runVars, claimVars, outsideVars>>

\* Faulty: the whole batch is told the number of its first event.
ToldFirst(evs, st, first) ==
    [e \in DOMAIN receipt |->
        IF \E i \in DOMAIN evs : evs[i] = e
        THEN [st |-> st, seq |-> first] ELSE receipt[e]]

\* Event i of a frame gets the number of the frame plus i.
Told(evs, st, first) ==
    [e \in DOMAIN receipt |->
        IF \E i \in DOMAIN evs : evs[i] = e
        THEN [st |-> st,
              seq |-> first + (CHOOSE i \in DOMAIN evs : evs[i] = e) - 1]
        ELSE receipt[e]]

\* Faulty: the publishers of the dropped chunks are never told.
DiscardSilently ==
    /\ batch # NoBatch
    /\ job.gen = NoGen \/ current = NoGen
    /\ batch' = NoBatch
    /\ UNCHANGED <<redisVars, emitVars, runVars, claimVars, conn, outsideVars>>

\* discardCoalescedChunks, in the transport's cleanup() once the stream's job
\* is gone, or its runtime.
Discard ==
    /\ batch # NoBatch
    /\ job.gen = NoGen \/ current = NoGen
    /\ receipt' = Told(batch.evs, "failed", 1)
    /\ batch' = NoBatch
    /\ UNCHANGED <<redisVars, emitted, runVars, claimVars, conn, outsideVars>>

\* A flush that is awaited, and the command that follows it.
FlushThen(kind, gen, by) ==
    IF batch = NoBatch
    THEN /\ conn' = Append(conn, Bare(kind, gen, by))
         /\ UNCHANGED batch
    ELSE /\ conn' = Flushed(conn, [kind |-> kind, gen |-> gen, by |-> by])
         /\ batch' = NoBatch

(***************************************************************************)
(* Redis executes the commands of the connection in order.                 *)
(***************************************************************************)

\* One PUBLISH: the events take consecutive numbers.
Sequence(kind, gen, evs) ==
    /\ published' = published \cup
         {[seq |-> counter + i - 1, kind |-> kind, gen |-> gen, ev |-> evs[i]] :
            i \in DOMAIN evs}
    /\ counter' = counter + Len(evs)

Live(g) == job.gen = g /\ job.active

\* Faulty: the status is not checked.
AcceptsChunkAnyStatus(c) == job.gen = c.gen

\* PUBLISH_SEQ_LUA with requireActiveJob.
AcceptsChunk(c) == Live(c.gen)

\* PUBLISH_SEQ_LUA with allowRetainedEpoch: the owner, or, when the job hash
\* is gone, the generation of the retained or absent epoch marker.
AcceptsDone(g) ==
    \/ job.gen = g
    \/ job.gen = NoGen /\ epoch \in {NoGen, g}

\* PUBLISH_REPLACED_DONE_LUA: the replacement still carries the receipt.
AcceptsReplaced(c) == job.gen = c.by /\ c.gen \in handoffs

Executed(i, st) == conn' = [conn EXCEPT ![i].st = st]

Fenced(i) ==
    /\ Executed(i, "fenced")
    /\ UNCHANGED redisVars

ExecuteChunk(i) ==
    LET c == conn[i] IN
    IF AcceptsChunk(c)
    THEN /\ Sequence("chunk", c.gen, c.evs)
         /\ conn' = [conn EXCEPT ![i].st = "ok", ![i].seq = counter]
         /\ UNCHANGED <<job, created, epoch, handoffs>>
    ELSE Fenced(i)

ExecuteDone(i) ==
    LET c == conn[i] IN
    IF AcceptsDone(c.gen)
    THEN /\ Sequence("done", c.gen, <<0>>)
         /\ epoch' = IF job.gen = NoGen THEN c.gen ELSE epoch
         /\ Executed(i, "ok")
         /\ UNCHANGED <<job, created, handoffs>>
    ELSE Fenced(i)

ExecuteReplaced(i) ==
    LET c == conn[i] IN
    IF AcceptsReplaced(c)
    THEN /\ Sequence("done", c.gen, <<0>>)
         /\ Executed(i, "ok")
         /\ UNCHANGED <<job, created, epoch, handoffs>>
    ELSE Fenced(i)

\* JOB_CAS_LUA, from a live status to a terminal one.
ExecuteCas(i) ==
    LET c == conn[i] IN
    IF Live(c.gen)
    THEN /\ job' = [job EXCEPT !.active = FALSE]
         /\ epoch' = c.gen
         /\ Executed(i, "ok")
         /\ UNCHANGED <<created, handoffs, counter, published>>
    ELSE Fenced(i)

\* REPLACEMENT_RECEIPT_ACK_LUA.
ExecuteAck(i) ==
    LET c == conn[i] IN
    IF job.gen = c.by
    THEN /\ handoffs' = handoffs \ {c.gen}
         /\ Executed(i, "ok")
         /\ UNCHANGED <<job, created, epoch, counter, published>>
    ELSE Fenced(i)

Execute ==
    /\ \E i \in DOMAIN conn :
        /\ conn[i].st = "sent"
        /\ \A j \in 1..(i - 1) : conn[j].st # "sent"
        /\ \/ conn[i].kind = "chunk" /\ ExecuteChunk(i)
           \/ conn[i].kind = "done" /\ ExecuteDone(i)
           \/ conn[i].kind = "replaced" /\ ExecuteReplaced(i)
           \/ conn[i].kind = "cas" /\ ExecuteCas(i)
           \/ conn[i].kind = "ack" /\ ExecuteAck(i)
    /\ UNCHANGED <<emitVars, runVars, claimVars, batch, outsideVars>>

\* A command fails before Redis executes it, or its reply is lost.
Fail ==
    /\ failures < MaxFailures /\ Bounded
    /\ failures' = failures + 1
    /\ \E i \in DOMAIN conn :
        /\ conn[i].st # "failed"
        /\ \A j \in 1..(i - 1) : conn[j].st # "sent"
        /\ conn' = [conn EXCEPT ![i].st = "failed"]
    /\ UNCHANGED <<redisVars, emitVars, runVars, claimVars, batch, remote,
                   outside>>

(***************************************************************************)
(* Replies, in order.                                                      *)
(***************************************************************************)

\* The continuation of a flush, and the acknowledgement of a handed off DONE.
FollowUp(c) ==
    IF c.next.kind # "none"
    THEN Append(Tail(conn), Bare(c.next.kind, c.next.gen, c.next.by))
    ELSE IF c.kind = "replaced" /\ c.st = "ok"
    THEN Append(Tail(conn), Bare("ack", c.gen, c.by))
    ELSE Tail(conn)

\* A refused chunk proves that the generation lost the stream: its runtime is
\* retired (retireRuntimeAfterDurableFence).
ChunkReply(c) ==
    /\ receipt' = Told(c.evs, c.st, c.seq)
    /\ stopped' = (stopped \/ (c.st = "fenced" /\ c.gen = current))
    /\ UNCHANGED claim

\* A won claim of an aborted run stops it at once; the caller of a complete
\* or failed one goes on until finishTerminalJob.
CasReply(c) ==
    /\ claim' = [claim EXCEPT ![c.gen] = IF c.st = "ok" THEN "won" ELSE "over"]
    /\ stopped' \in {stopped, stopped \/ (c.st = "ok" /\ c.gen = current)}
    /\ UNCHANGED receipt

OtherReply == UNCHANGED <<receipt, stopped, claim>>

Reply ==
    /\ conn # <<>>
    /\ LET c == Head(conn) IN
        /\ c.st # "sent"
        /\ conn' = FollowUp(c)
        /\ \/ c.kind = "chunk" /\ ChunkReply(c)
           \/ c.kind = "cas" /\ CasReply(c)
           \/ c.kind \notin {"chunk", "cas"} /\ OtherReply
    /\ UNCHANGED <<redisVars, emitted, current, arriving, mark, batch,
                   outsideVars>>

(***************************************************************************)
(* Terminal claims of this replica.                                        *)
(***************************************************************************)

\* Faulty: the status changes without draining the batch first.
ClaimUndrained(g) ==
    /\ g <= created /\ claim[g] = "none"
    /\ claim' = [claim EXCEPT ![g] = "sent"]
    /\ mark' = [mark EXCEPT ![g] = Len(emitted)]
    /\ conn' = Append(conn, Command("cas", g, <<>>, NoNext))
    /\ UNCHANGED <<redisVars, emitVars, runVars, batch, outsideVars>>

\* claimTerminalJob and abortJob: drain the batch, then change the status.
Claim(g) ==
    /\ g <= created /\ claim[g] = "none"
    /\ claim' = [claim EXCEPT ![g] = "sent"]
    /\ mark' = [mark EXCEPT ![g] = Len(emitted)]
    /\ FlushThen("cas", g, NoGen)
    /\ UNCHANGED <<redisVars, emitVars, runVars, outsideVars>>

\* publishTerminalClaim and the error branch of finishTerminalJob: emitDone
\* and emitError drain the batch and publish.
PublishTerminal(g) ==
    /\ claim[g] = "won"
    /\ claim' = [claim EXCEPT ![g] = "over"]
    /\ mark' = [mark EXCEPT ![g] = 0]
    /\ FlushThen("done", g, NoGen)
    /\ UNCHANGED <<redisVars, emitVars, runVars, outsideVars>>

\* finishTerminalJob, and the cleanup of a runtime that was given up.
RemoveRuntime ==
    /\ current # NoGen
    /\ claim[current] = "over" \/ (stopped /\ ~Live(current))
    /\ stopped' = FALSE /\ current' = NoGen
    /\ UNCHANGED <<redisVars, emitVars, arriving, claimVars, conn, batch,
                   outsideVars>>

\* cleanup() reaps a runtime whose job hash is gone, stopped or not, and tells
\* its subscribers.
Reap ==
    /\ current # NoGen /\ job.gen = NoGen
    /\ stopped' = FALSE /\ current' = NoGen
    /\ FlushThen("done", current, NoGen)
    /\ UNCHANGED <<redisVars, emitVars, arriving, claimVars, outsideVars>>

(***************************************************************************)
(* Creation, replacement, and the other replicas.                          *)
(***************************************************************************)

\* JOB_CREATE_LUA: the job hash is replaced and the predecessor joins the
\* chain of receipts.
CreateJob(here) ==
    /\ created < MaxGen /\ (here => arriving = NoGen) /\ Bounded
    /\ created' = created + 1
    /\ job' = [gen |-> created + 1, active |-> TRUE]
    /\ epoch' = created + 1
    /\ handoffs' = IF job.gen = NoGen THEN {} ELSE handoffs \cup {job.gen}
    /\ arriving' = IF here THEN created + 1 ELSE arriving
    /\ UNCHANGED <<counter, published, emitVars, current, stopped, claimVars,
                   conn, batch, outsideVars>>

\* createJob goes on: the predecessor's local provider stops, the receipts are
\* handed off, and the new runtime is installed.
StopPredecessor ==
    /\ arriving # NoGen /\ current # NoGen /\ ~stopped
    /\ stopped' = TRUE
    /\ UNCHANGED <<redisVars, emitVars, current, arriving, claimVars, conn,
                   batch, outsideVars>>

HandingOff ==
    \E i \in DOMAIN conn :
        conn[i].kind \in {"replaced", "ack"} \/ conn[i].next.kind = "replaced"

\* Only a lost acknowledgement leaves a receipt behind.
InstallRuntime ==
    /\ arriving # NoGen /\ ~HandingOff
    /\ job.gen = arriving /\ failures = 0 => handoffs = {}
    /\ current' = arriving /\ stopped' = FALSE /\ arriving' = NoGen
    /\ UNCHANGED <<redisVars, emitVars, claimVars, conn, batch, outsideVars>>

\* A handoff failed, a shutdown began or another creation came first: this one is
\* given up before its runtime exists, and terminalizeUnexposedGeneration, a
\* Claim, has ended its job unless that failed too.
GiveUpArrival ==
    /\ arriving # NoGen /\ ~HandingOff
    /\ Live(arriving) => failures > 0
    /\ arriving' = NoGen
    /\ UNCHANGED <<redisVars, emitVars, current, stopped, claimVars, conn,
                   batch, outsideVars>>

\* notifyReplacedGeneration on this replica, before its runtime is installed:
\* emitReplacedDoneConfirmed drains the batch and publishes the predecessor's
\* DONE.
HandOff(p) ==
    /\ p \in handoffs /\ job.gen = arriving /\ ~HandingOff
    /\ FlushThen("replaced", p, job.gen)
    /\ UNCHANGED <<redisVars, emitVars, runVars, claimVars, outsideVars>>

\* The same on the replica that created the job, with its acknowledgement.
RemoteHandOff(p) ==
    /\ p \in handoffs /\ job.gen \notin {current, arriving}
    /\ handoffs' = handoffs \ {p}
    /\ Sequence("done", p, <<0>>)
    /\ UNCHANGED <<job, created, epoch, emitVars, runVars, claimVars, conn,
                   batch, outsideVars>>

\* The runtime of another replica publishes a chunk.
RemoteChunk ==
    /\ job.active /\ job.gen \notin {current, arriving}
    /\ outside < MaxOutside /\ Bounded
    /\ outside' = outside + 1
    /\ Sequence("chunk", job.gen, <<0>>)
    /\ UNCHANGED <<job, created, epoch, handoffs, emitVars, runVars, claimVars,
                   conn, batch, remote, failures>>

\* Another replica aborts or completes the live generation ...
RemoteClaim ==
    /\ job.active /\ outside < MaxOutside /\ Bounded
    /\ outside' = outside + 1
    /\ job' = [job EXCEPT !.active = FALSE]
    /\ epoch' = job.gen
    /\ remote' = remote \cup {job.gen}
    /\ UNCHANGED <<created, handoffs, counter, published, emitVars, runVars,
                   claimVars, conn, batch, failures>>

\* ... and publishes its DONE, unless it is refused by then.
RemoteDone(g) ==
    /\ g \in remote
    /\ remote' = remote \ {g}
    /\ IF AcceptsDone(g)
       THEN /\ Sequence("done", g, <<0>>)
            /\ epoch' = IF job.gen = NoGen THEN g ELSE epoch
       ELSE UNCHANGED <<epoch, counter, published>>
    /\ UNCHANGED <<job, created, handoffs, emitVars, runVars, claimVars, conn,
                   batch, failures, outside>>

\* The abort signal of another replica, or a runtime that is given up.
Stop ==
    /\ current # NoGen /\ ~stopped /\ ~Live(current)
    /\ stopped' = TRUE
    /\ UNCHANGED <<redisVars, emitVars, current, arriving, claimVars, conn,
                   batch, outsideVars>>

\* The job hash is deleted or expires, and later its epoch marker.
JobGone ==
    /\ job.gen # NoGen /\ outside < MaxOutside /\ Bounded
    /\ outside' = outside + 1
    /\ job' = [gen |-> NoGen, active |-> FALSE]
    /\ handoffs' = {}
    /\ UNCHANGED <<created, epoch, counter, published, emitVars, runVars,
                   claimVars, conn, batch, remote, failures>>

EpochGone ==
    /\ job.gen = NoGen /\ epoch # NoGen /\ outside < MaxOutside /\ Bounded
    /\ outside' = outside + 1
    /\ epoch' = NoGen
    /\ UNCHANGED <<job, created, handoffs, counter, published, emitVars,
                   runVars, claimVars, conn, batch, remote, failures>>

Produce    == (\E c \in BOOLEAN : EmitChunk(c)) \/ FlushTimer \/ Discard
Connection == Execute \/ Fail \/ Reply
Terminate  ==
    \/ \E g \in Gens : Claim(g) \/ PublishTerminal(g)
    \/ RemoveRuntime \/ Reap \/ Stop
Replace    ==
    \/ \E here \in BOOLEAN : CreateJob(here)
    \/ StopPredecessor \/ InstallRuntime \/ GiveUpArrival
    \/ \E p \in Gens : HandOff(p) \/ RemoteHandOff(p)
Others     ==
    \/ RemoteChunk \/ RemoteClaim \/ (\E g \in Gens : RemoteDone(g))
    \/ JobGone \/ EpochGone

Next == Produce \/ Connection \/ Terminate \/ Replace \/ Others

Spec == Init /\ [][Next]_vars

\* Node fires the batch timer, and a command is executed or fails, and settles.
Fairness == WF_vars(FlushTimer) /\ WF_vars(Execute) /\ WF_vars(Reply)

FairSpec == Spec /\ Fairness

(***************************************************************************)
(* Properties.                                                             *)
(***************************************************************************)

\* Chunks of other replicas have ev = 0.
Chunks == {p \in published : p.kind = "chunk"}
Dones  == {p \in published : p.kind = "done"}

\* Subscribers close on DONE, so no chunk of a generation may be sequenced
\* after it, whichever replica claimed, replaced or reaped the generation.
NoChunkAfterDone ==
    \A d \in Dones, c \in Chunks : c.gen = d.gen => c.seq < d.seq

\* Coalescing does not reorder: chunks are numbered in the order in which
\* they were emitted, each at most once, whatever was batched or lost.
EmissionOrder ==
    \A c, d \in Chunks :
        c.ev > 0 /\ c.ev <= d.ev => c.seq < d.seq \/ c = d

\* A receipt is what the replay frontier is computed from: a number is the
\* one the event was published under, and a refused event was not published.
ReceiptsAreTrue ==
    \A e \in DOMAIN receipt :
        /\ receipt[e].st = "ok" =>
             [seq |-> receipt[e].seq, kind |-> "chunk", gen |-> emitted[e],
              ev |-> e] \in published
        /\ receipt[e].st = "fenced" => \A c \in Chunks : c.ev # e

\* The chunks of a replaced generation never follow those of its replacement.
GenerationsInOrder ==
    \A c, d \in Chunks : c.seq < d.seq => c.gen <= d.gen

\* A reader that follows a stream sees each generation end once and for all:
\* neither its own chunks nor those of an earlier generation come after.
StreamIsFenced == NoChunkAfterDone /\ GenerationsInOrder

\* A terminal claim that wins has published, or lost to a failure, every chunk
\* emitted before it drained the batch: the generation's own end never refuses
\* the tail of its content.
TailSurvivesClaim ==
    \A g \in Gens : claim[g] = "won" =>
        \A e \in 1..mark[g] :
            emitted[e] = g => receipt[e].st \in {"ok", "failed"}

Waiting(e) == e \in DOMAIN receipt /\ receipt[e].st = "open"

\* The publisher of every chunk is told an outcome: batches are sent, dropped
\* or refused, but none is forgotten.
ReceiptsSettle == \A e \in Events : []<>~Waiting(e)

=============================================================================
