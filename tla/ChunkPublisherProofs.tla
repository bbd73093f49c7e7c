----------------------- MODULE ChunkPublisherProofs -----------------------
(***************************************************************************)
(* Proofs about ChunkPublisher for every value of its constants.           *)
(*                                                                         *)
(* The argument: a generation that is no longer live never becomes live    *)
(* again, because only JOB_CREATE_LUA makes one live and it takes a new    *)
(* number.  A DONE is sent, or owed, only for such a generation, while     *)
(* PUBLISH_SEQ_LUA numbers a chunk only for the live one, which is the     *)
(* newest; numbers only grow.                                              *)
(*                                                                         *)
(* The second half follows each chunk: until its publisher is told, it     *)
(* lies once in the connection or in the batch behind it, in the order of  *)
(* emission, and what is not executed comes after all that is numbered.    *)
(***************************************************************************)
EXTENDS ChunkPublisher, Functions, TLAPS

RedisType ==
    /\ job \in [gen : 0..MaxGen, active : BOOLEAN]
    /\ created \in 0..MaxGen
    /\ epoch \in 0..MaxGen
    /\ handoffs \subseteq Gens
    /\ counter \in Nat
    /\ published \subseteq Entries

BatchType == batch \in [gen : 0..MaxGen, evs : Seq(Events)]
ConnType  == conn \in Seq(Commands)

EmitType ==
    /\ emitted \in Seq(Gens)
    /\ receipt \in Seq(Receipts)
    /\ Len(receipt) = Len(emitted) /\ Len(emitted) <= MaxEvents

RunType ==
    /\ current \in 0..MaxGen
    /\ stopped \in BOOLEAN
    /\ arriving \in 0..MaxGen
    /\ claim \in [Gens -> {"none", "sent", "won", "over"}]
    /\ mark \in [Gens -> 0..MaxEvents]
    /\ remote \subseteq Gens
    /\ failures \in Nat
    /\ outside \in Nat

\* A generation that was created and has lost the stream or its live status.
Dead(g) == g \in 1..created /\ ~Live(g)

\* A DONE in flight, or to be sent by a flush in flight, is of a dead
\* generation, and so is the target of a terminal CAS that succeeded.
Sound(c) ==
    /\ c.kind = "done" => Dead(c.gen)
    /\ c.next.kind = "done" => Dead(c.next.gen)
    /\ c.kind = "cas" /\ c.st = "ok" => Dead(c.gen)

ConnInv == \A i \in DOMAIN conn : Sound(conn[i])

OwnerInv ==
    /\ job.active => job.gen # NoGen
    /\ job.gen # NoGen => job.gen = created
    /\ current <= created /\ arriving <= created
    /\ \A p \in handoffs : p < job.gen
    /\ \A g \in Gens : claim[g] = "won" => Dead(g)
    /\ \A g \in remote : Dead(g)

LogInv ==
    /\ \A p \in published : p.seq < counter /\ p.gen <= created
    /\ \A d \in Dones : Dead(d.gen)
    /\ NoChunkAfterDone
    /\ GenerationsInOrder

IInv == /\ RedisType /\ BatchType /\ ConnType /\ EmitType /\ RunType
        /\ ConnInv /\ OwnerInv /\ LogInv

USE DEF Gens, NoGen

(***************************************************************************)
(* Commands and the connection.                                            *)
(***************************************************************************)

Nexts == [kind : Kinds \cup {"none"}, gen : 0..MaxGen, by : 0..MaxGen]

LEMMA CommandIsTyped ==
    ASSUME NEW kind \in Kinds, NEW gen \in 0..MaxGen,
           NEW evs \in Seq(Events), NEW next \in Nexts
    PROVE  /\ Command(kind, gen, evs, next) \in Commands
           /\ Command(kind, gen, evs, next).kind = kind
           /\ Command(kind, gen, evs, next).gen = gen
           /\ Command(kind, gen, evs, next).next = next
           /\ Command(kind, gen, evs, next).st = "sent"
BY BoundsAssumption DEF Command, Commands, Nexts, Outcomes

\* A typed, sound queue stays so when a typed, sound command joins it.
Queue(q) == q \in Seq(Commands) /\ \A i \in DOMAIN q : Sound(q[i])

LEMMA AppendToQueue ==
    ASSUME NEW q, Queue(q), NEW c \in Commands, Sound(c)
    PROVE  Queue(Append(q, c))
BY DEF Queue

LEMMA TailOfQueue ==
    ASSUME NEW q, Queue(q), q # <<>>
    PROVE  Queue(Tail(q)) /\ Head(q) \in Commands /\ Sound(Head(q))
BY DEF Queue

LEMMA NoNextIsTyped == NoNext \in Nexts
BY BoundsAssumption DEF NoNext, Nexts

LEMMA EmptySequenceIsTyped == ASSUME NEW S PROVE <<>> \in Seq(S)
OBVIOUS

\* A command without events.
LEMMA PlainCommand ==
    ASSUME NEW kind \in Kinds, NEW gen \in 0..MaxGen, NEW by \in 0..MaxGen,
           NEW c, c = Bare(kind, gen, by)
    PROVE  /\ c \in Commands /\ c.kind = kind /\ c.gen = gen
           /\ c.next = NoNext /\ c.st = "sent" /\ c.evs = <<>>
<1>1. PICK evs \in Seq(Events) : evs = <<>>
    BY EmptySequenceIsTyped
<1>2. PICK x : x = Command(kind, gen, evs, NoNext)
    OBVIOUS
<1>3. /\ x \in Commands /\ x.kind = kind /\ x.gen = gen /\ x.next = NoNext
      /\ x.st = "sent"
    BY <1>2, CommandIsTyped, NoNextIsTyped
<1>4. x.evs = evs
    BY <1>2 DEF Command
<1>5. c = [x EXCEPT !.by = by]
    BY <1>1, <1>2 DEF Bare
<1> QED BY <1>1, <1>3, <1>4, <1>5 DEF Commands

LEMMA NoBatchIsTyped == NoBatch \in [gen : 0..MaxGen, evs : Seq(Events)]
<1>1. 0 \in 0..MaxGen /\ <<>> \in Seq(Events)
    BY BoundsAssumption
<1> QED BY <1>1 DEF NoBatch

LEMMA FlushedIsQueue ==
    ASSUME IInv, NEW q, Queue(q), NEW next \in Nexts,
           next.kind = "done" => Dead(next.gen)
    PROVE  Queue(Flushed(q, next))
<1>1. CASE batch = NoBatch
    BY <1>1 DEF Flushed
<1>2. CASE batch # NoBatch
    <2> DEFINE c == Command("chunk", batch.gen, batch.evs, next)
    <2>1. /\ c \in Commands /\ c.kind = "chunk" /\ c.next = next
        <3>1. current \in 0..MaxGen
            BY DEF IInv, RunType
        <3>2. batch.gen \in 0..MaxGen /\ batch.evs \in Seq(Events)
            BY DEF IInv, BatchType
        <3> QED BY <3>1, <3>2, CommandIsTyped DEF Kinds
    <2>2. Sound(c)
        BY <2>1 DEF Sound
    <2>3. Queue(Append(q, c))
        BY <2>1, <2>2, AppendToQueue
    <2> QED BY <1>2, <2>3 DEF Flushed
<1> QED BY <1>1, <1>2

LEMMA FlushThenIsQueue ==
    ASSUME IInv, NEW kind \in Kinds, NEW gen \in 0..MaxGen,
           NEW by \in 0..MaxGen, kind = "done" => Dead(gen), FlushThen(kind, gen, by)
    PROVE  Queue(conn') /\ BatchType'
<1>1. Queue(conn)
    BY DEF IInv, ConnType, ConnInv, Queue
<1>2. CASE batch = NoBatch
    <2>1. PICK c : c = Bare(kind, gen, by)
        OBVIOUS
    <2>1a. c \in Commands /\ c.kind = kind /\ c.gen = gen /\ c.next = NoNext
          /\ c.st = "sent"
        BY <2>1, PlainCommand
    <2>2. Sound(c)
        BY <2>1a DEF Sound, NoNext
    <2>3. Queue(Append(conn, c))
        BY <1>1, <2>1a, <2>2, AppendToQueue
    <2>4. conn' = Append(conn, c) /\ batch' = batch
        BY <1>2, <2>1 DEF FlushThen
    <2>5. BatchType'
        BY <2>4 DEF IInv, BatchType
    <2> QED BY <2>3, <2>4, <2>5
<1>3. CASE batch # NoBatch
    <2> DEFINE n == [kind |-> kind, gen |-> gen, by |-> by]
    <2>1. n \in Nexts /\ (n.kind = "done" => Dead(n.gen))
        BY DEF Nexts
    <2>2. Queue(Flushed(conn, n))
        BY <1>1, <2>1, FlushedIsQueue
    <2>3. conn' = Flushed(conn, n) /\ batch' = NoBatch
        BY <1>3 DEF FlushThen
    <2> QED BY <2>2, <2>3, NoBatchIsTyped DEF BatchType
<1> QED BY <1>2, <1>3

\* Marking commands of a queue as executed or failed.
LEMMA ExecutedIsQueue ==
    ASSUME Queue(conn), NEW i \in DOMAIN conn, NEW st \in Outcomes,
           NEW seq \in Nat,
           conn[i].kind = "cas" /\ st = "ok" => Dead(conn[i].gen)
    PROVE  /\ Queue([conn EXCEPT ![i].st = st])
           /\ Queue([conn EXCEPT ![i].st = st, ![i].seq = seq])
<1>1. conn \in Seq(Commands) /\ conn[i] \in Commands /\ Sound(conn[i])
    BY DEF Queue
<1> DEFINE c == [conn[i] EXCEPT !.st = st]
           d == [conn[i] EXCEPT !.st = st, !.seq = seq]
<1>2. c \in Commands /\ Sound(c) /\ d \in Commands /\ Sound(d)
    BY <1>1 DEF Commands, Sound
<1>3. Queue([conn EXCEPT ![i] = c]) /\ Queue([conn EXCEPT ![i] = d])
    BY <1>1, <1>2 DEF Queue
<1> QED BY <1>1, <1>3

(***************************************************************************)
(* What a step does to the generations and to the log.                     *)
(***************************************************************************)

\* A step that executes no command in Redis.
LEMMA LogUnchanged ==
    ASSUME IInv, UNCHANGED redisVars
    PROVE  /\ RedisType' /\ LogInv'
           /\ \A g : Dead(g)' <=> Dead(g)
<1>1. \A g : Dead(g)' <=> Dead(g)
    BY DEF Dead, Live, redisVars
<1>2. RedisType'
    BY DEF IInv, RedisType, redisVars
<1>3. LogInv'
    BY <1>1 DEF IInv, LogInv, redisVars, Dones, Chunks, NoChunkAfterDone,
                GenerationsInOrder
<1> QED BY <1>1, <1>2, <1>3

LEMMA ElementOfSeq ==
    ASSUME NEW S, NEW s \in Seq(S), NEW i \in DOMAIN s
    PROVE  i \in 1..Len(s) /\ s[i] \in S /\ Len(s) \in Nat
OBVIOUS

\* A DONE of a dead generation is numbered after everything else.
LEMMA SequencedDone ==
    ASSUME IInv, NEW g, Dead(g), Sequence("done", g, << 0 >>),
           UNCHANGED <<job, created>>
    PROVE  /\ counter' \in Nat /\ published' \subseteq Entries /\ LogInv'
           /\ \A h : Dead(h)' <=> Dead(h)
<1>1. \A h : Dead(h)' <=> Dead(h)
    BY DEF Dead, Live
<1>2. counter \in Nat /\ created \in 0..MaxGen /\ published \subseteq Entries
    BY DEF IInv, RedisType
<1>3. g \in 1..created
    BY DEF Dead
<1> DEFINE d == [seq |-> counter, kind |-> "done", gen |-> g, ev |-> 0]
<1>4. published' = published \cup {d} /\ counter' = counter + 1
    BY <1>2 DEF Sequence
<1>5. d \in Entries
    BY <1>2, <1>3, BoundsAssumption DEF Entries
<1>6. \A p \in published : p.seq < counter /\ p.gen <= created
    BY DEF IInv, LogInv
<1>7. \A p \in published' : p.seq < counter' /\ p.gen <= created'
    BY <1>2, <1>3, <1>4, <1>6 DEF Entries
<1>8. Chunks' = Chunks /\ Dones' = Dones \cup {d}
    BY <1>4 DEF Chunks, Dones
<1>9. NoChunkAfterDone'
    BY <1>6, <1>8 DEF IInv, LogInv, NoChunkAfterDone, Chunks
<1>10. GenerationsInOrder'
    BY <1>8 DEF IInv, LogInv, GenerationsInOrder
<1>11. \A e \in Dones' : Dead(e.gen)'
    BY <1>1, <1>8 DEF IInv, LogInv
<1>12. counter' \in Nat /\ published' \subseteq Entries
    BY <1>2, <1>4, <1>5
<1> QED BY <1>1, <1>7, <1>9, <1>10, <1>11, <1>12 DEF LogInv

\* Chunks are numbered for the live generation only, which is the newest and
\* has no DONE yet.
LEMMA SequencedChunks ==
    ASSUME IInv, NEW g, Live(g), NEW evs \in Seq(0..MaxEvents),
           Sequence("chunk", g, evs), UNCHANGED <<job, created>>
    PROVE  /\ counter' \in Nat /\ published' \subseteq Entries /\ LogInv'
           /\ \A h : Dead(h)' <=> Dead(h)
<1>1. \A h : Dead(h)' <=> Dead(h)
    BY DEF Dead, Live
<1>2. counter \in Nat /\ created \in 0..MaxGen /\ published \subseteq Entries
    BY DEF IInv, RedisType
<1>3. g = created /\ g \in 1..MaxGen
    BY <1>2 DEF IInv, OwnerInv, Live, RedisType
<1> DEFINE New == {[seq |-> counter + i - 1, kind |-> "chunk", gen |-> g,
                    ev |-> evs[i]] : i \in DOMAIN evs}
<1>4. published' = published \cup New /\ counter' = counter + Len(evs)
    BY DEF Sequence
<1>5. \A p \in New : /\ p \in Entries /\ p.kind = "chunk" /\ p.gen = g
                     /\ counter <= p.seq /\ p.seq < counter'
    <2> SUFFICES ASSUME NEW i \in DOMAIN evs
                 PROVE  LET p == [seq |-> counter + i - 1, kind |-> "chunk",
                                  gen |-> g, ev |-> evs[i]]
                        IN  /\ p \in Entries
                            /\ counter <= p.seq /\ p.seq < counter'
        OBVIOUS
    <2> HIDE DEF New
    <2>1. i \in 1..Len(evs) /\ evs[i] \in 0..MaxEvents /\ Len(evs) \in Nat
        BY ElementOfSeq
    <2>2. counter + i - 1 \in Nat /\ counter <= counter + i - 1
          /\ counter + i - 1 < counter'
        BY <1>2, <1>4, <2>1
    <2> QED BY <1>3, <2>1, <2>2 DEF Entries
<1> HIDE DEF New
<1>6. \A p \in published : p.seq < counter /\ p.gen <= created
    BY DEF IInv, LogInv
<1>7. counter' \in Nat /\ counter <= counter'
    BY <1>2, <1>4
<1>8. Chunks' = Chunks \cup New /\ Dones' = Dones
    BY <1>4, <1>5 DEF Chunks, Dones
<1>9. \A p \in published' : p.seq < counter' /\ p.gen <= created'
    BY <1>2, <1>3, <1>4, <1>5, <1>6, <1>7 DEF Entries
<1>10. \A d \in Dones : Dead(d.gen)
    BY DEF IInv, LogInv
<1>11. NoChunkAfterDone'
    <2>1. \A d \in Dones, c \in New : c.gen # d.gen
        BY <1>5, <1>10 DEF Dead
    <2> QED BY <1>8, <2>1 DEF IInv, LogInv, NoChunkAfterDone
<1>12. GenerationsInOrder'
    <2> SUFFICES ASSUME NEW c \in Chunks', NEW d \in Chunks', c.seq < d.seq
                 PROVE  c.gen <= d.gen
        BY DEF GenerationsInOrder
    <2>1. CASE d \in New
        <3>1. c.gen <= created
            BY <1>2, <1>3, <1>5, <1>6, <1>8 DEF Chunks
        <3> QED BY <1>3, <1>5, <2>1, <3>1
    <2>2. CASE d \in Chunks
        <3>1. d.seq < counter /\ d.seq \in Nat
            BY <1>2, <1>6, <2>2 DEF Chunks, Entries
        <3>2. c \in Chunks
            BY <1>2, <1>5, <1>8, <3>1 DEF Entries
        <3> QED BY <2>2, <3>2 DEF IInv, LogInv, GenerationsInOrder
    <2> QED BY <1>8, <2>1, <2>2
<1>13. published' \subseteq Entries
    BY <1>2, <1>4, <1>5
<1>14. \A e \in Dones' : Dead(e.gen)'
    BY <1>1, <1>8, <1>10
<1> QED BY <1>1, <1>7, <1>9, <1>11, <1>12, <1>13, <1>14 DEF LogInv

\* The connection under a step that keeps dead generations dead.
LEMMA QueueStays ==
    ASSUME Queue(conn'), \A g : Dead(g) => Dead(g)'
    PROVE  ConnType' /\ ConnInv'
BY DEF Queue, ConnType, ConnInv, Sound

LEMMA ConnIsQueue == IInv => Queue(conn)
BY DEF IInv, ConnType, ConnInv, Queue

LEMMA ToldIsTyped ==
    ASSUME receipt \in Seq(Receipts), NEW evs \in Seq(Events),
           NEW first \in Nat,
           NEW st \in {"open", "ok", "fenced", "failed"}
    PROVE  /\ Told(evs, st, first) \in Seq(Receipts)
           /\ Len(Told(evs, st, first)) = Len(receipt)
<1> DEFINE told(e) ==
        IF \E i \in DOMAIN evs : evs[i] = e
        THEN [st |-> st,
              seq |-> first + (CHOOSE i \in DOMAIN evs : evs[i] = e) - 1]
        ELSE receipt[e]
<1>1. \A e \in DOMAIN receipt : told(e) \in Receipts
    <2> TAKE e \in DOMAIN receipt
    <2>1. CASE \E i \in DOMAIN evs : evs[i] = e
        <3> DEFINE i == CHOOSE i \in DOMAIN evs : evs[i] = e
        <3>1. i \in DOMAIN evs
            BY <2>1
        <3> HIDE DEF i
        <3>2. i \in Nat \ {0}
            BY <3>1, ElementOfSeq
        <3>3. first + i - 1 \in Nat
            BY <3>2
        <3>4. [st |-> st, seq |-> first + i - 1] \in Receipts
            BY <3>3 DEF Receipts
        <3> QED BY <2>1, <3>4 DEF i
    <2>2. CASE ~\E i \in DOMAIN evs : evs[i] = e
        BY <2>2
    <2> QED BY <2>1, <2>2
<1>2. Told(evs, st, first) = [e \in 1..Len(receipt) |-> told(e)]
    BY DEF Told
<1> HIDE DEF told
<1>3. [e \in 1..Len(receipt) |-> told(e)] \in Seq(Receipts)
      /\ Len([e \in 1..Len(receipt) |-> told(e)]) = Len(receipt)
    BY <1>1
<1> QED BY <1>2, <1>3

(***************************************************************************)
(* The initial state.                                                      *)
(***************************************************************************)

LEMMA InitIInv == Init => IInv
<1> SUFFICES ASSUME Init PROVE IInv
    OBVIOUS
<1>1. RedisType
    BY BoundsAssumption DEF Init, RedisType
<1>2. BatchType
    BY NoBatchIsTyped DEF Init, BatchType
<1>3. ConnType /\ ConnInv
    BY EmptySequenceIsTyped DEF Init, ConnType, ConnInv
<1>4. EmitType
    <2>1. emitted = <<>> /\ receipt = <<>>
        BY DEF Init
    <2>2. emitted \in Seq(Gens) /\ receipt \in Seq(Receipts)
        BY <2>1, EmptySequenceIsTyped
    <2>3. Len(receipt) = 0 /\ Len(emitted) = 0
        BY <2>1
    <2> QED BY <2>2, <2>3, BoundsAssumption DEF EmitType
<1>5. RunType
    <2>1. 0 \in 0..MaxGen /\ 0 \in 0..MaxEvents /\ 0 \in Nat
        BY BoundsAssumption
    <2>2. claim \in [Gens -> {"none", "sent", "won", "over"}]
        BY DEF Init
    <2>3. mark \in [Gens -> 0..MaxEvents]
        BY <2>1 DEF Init
    <2> QED BY <2>1, <2>2, <2>3 DEF Init, RunType
<1>6. OwnerInv
    BY BoundsAssumption DEF Init, OwnerInv
<1>7. LogInv
    BY DEF Init, LogInv, Dones, Chunks, NoChunkAfterDone, GenerationsInOrder
<1> QED BY <1>1, <1>2, <1>3, <1>4, <1>5, <1>6, <1>7 DEF IInv

(***************************************************************************)
(* Steps of the replica: nothing is executed in Redis.                     *)
(***************************************************************************)

\* What is left to show of a step that executes no command.
LEMMA LocalStep ==
    ASSUME IInv, UNCHANGED <<redisVars, remote>>, Queue(conn'), BatchType',
           EmitType', RunType', current' <= created, arriving' <= created,
           \A g \in Gens : claim'[g] = "won" => Dead(g)
    PROVE  IInv'
<1>1. /\ RedisType' /\ LogInv'
      /\ \A g : Dead(g)' <=> Dead(g)
    BY LogUnchanged
<1>2. ConnType' /\ ConnInv'
    BY <1>1, QueueStays
<1>3. OwnerInv'
    BY <1>1 DEF IInv, OwnerInv, redisVars
<1> QED BY <1>1, <1>2, <1>3 DEF IInv

LEMMA EmitChunkStep == ASSUME IInv, NEW c \in BOOLEAN, EmitChunk(c) PROVE IInv'
<1> DEFINE e == Len(emitted) + 1
<1>1. /\ current \in 1..MaxGen /\ emitted \in Seq(1..MaxGen)
      /\ receipt \in Seq(Receipts) /\ Len(receipt) = Len(emitted)
      /\ Len(emitted) < MaxEvents
    BY DEF IInv, EmitType, RunType, EmitChunk
<1>2. e \in Events
    BY <1>1, BoundsAssumption DEF Events
<1>3. EmitType'
    <2>1. emitted' = Append(emitted, current) /\ receipt' = Append(receipt, Open)
        BY DEF EmitChunk
    <2>2. Open \in Receipts
        BY DEF Open, Receipts
    <2> QED BY <1>1, <2>1, <2>2, BoundsAssumption DEF EmitType
<1> DEFINE Frame(evs) == Command("chunk", current, evs, NoNext)
<1>4. ASSUME NEW evs \in Seq(Events), NEW q, Queue(q)
      PROVE  Queue(Append(q, Frame(evs)))
    <2>1. /\ Frame(evs) \in Commands /\ Frame(evs).kind = "chunk"
          /\ Frame(evs).next = NoNext
        BY <1>1, CommandIsTyped, NoNextIsTyped DEF Kinds
    <2>2. Sound(Frame(evs))
        BY <2>1 DEF Sound, NoNext
    <2> QED BY <1>4, <2>1, <2>2, AppendToQueue
<1>5. Queue(conn) /\ Queue(Flushed(conn, NoNext))
    BY ConnIsQueue, NoNextIsTyped, FlushedIsQueue DEF NoNext
<1>6. batch.evs \in Seq(Events) /\ batch.gen \in 0..MaxGen
    BY DEF IInv, BatchType
<1>7. Queue(conn') /\ BatchType'
    <2>1. CASE SendBarrier(e)
        <3>1. <<e>> \in Seq(Events)
            BY <1>2
        <3>2. Queue(Append(Flushed(conn, NoNext), Frame(<<e>>)))
            BY <1>4, <1>5, <3>1
        <3>3. conn' = Append(Flushed(conn, NoNext), Frame(<<e>>))
              /\ batch' = NoBatch
            BY <2>1 DEF SendBarrier
        <3> QED BY <3>2, <3>3, NoBatchIsTyped DEF BatchType
    <2>2. CASE Enqueue(e)
        <3> DEFINE same == batch.gen = current
                   rest == IF same THEN conn ELSE Flushed(conn, NoNext)
                   evs  == Append(IF same THEN batch.evs ELSE <<>>, e)
        <3>1. evs \in Seq(Events)
            BY <1>2, <1>6, EmptySequenceIsTyped
        <3>2. Queue(rest)
            BY <1>5
        <3> HIDE DEF rest, evs
        <3>3. CASE conn' = Append(rest, Frame(evs)) /\ batch' = NoBatch
            <4>1. Queue(Append(rest, Frame(evs)))
                BY <1>4, <3>1, <3>2
            <4> QED BY <3>3, <4>1, NoBatchIsTyped DEF BatchType
        <3>4. CASE conn' = rest /\ batch' = [gen |-> current, evs |-> evs]
            BY <1>1, <3>1, <3>2, <3>4 DEF BatchType
        <3> QED BY <2>2, <3>3, <3>4 DEF Enqueue, rest, evs
    <2> QED BY <2>1, <2>2 DEF EmitChunk
<1>8. RunType' /\ UNCHANGED <<redisVars, remote, runVars, claimVars>>
    BY DEF IInv, RunType, EmitChunk, runVars, claimVars, outsideVars
<1>9. /\ current' <= created /\ arriving' <= created
      /\ \A g \in Gens : claim'[g] = "won" => Dead(g)
    BY <1>8 DEF IInv, OwnerInv, runVars, claimVars
<1> QED BY <1>3, <1>7, <1>8, <1>9, LocalStep

LEMMA FlushTimerStep == ASSUME IInv, FlushTimer PROVE IInv'
<1>1. Queue(conn')
    BY ConnIsQueue, NoNextIsTyped, FlushedIsQueue DEF NoNext, FlushTimer
<1>2. BatchType'
    BY NoBatchIsTyped DEF FlushTimer, BatchType
<1>3. EmitType' /\ RunType'
    BY DEF FlushTimer, IInv, EmitType, RunType, emitVars, runVars, claimVars,
           outsideVars
<1>4. /\ UNCHANGED <<redisVars, remote>>
      /\ current' <= created /\ arriving' <= created
      /\ \A g \in Gens : claim'[g] = "won" => Dead(g)
    BY DEF FlushTimer, IInv, OwnerInv, runVars, claimVars, outsideVars
<1> QED BY <1>1, <1>2, <1>3, <1>4, LocalStep

LEMMA DiscardStep == ASSUME IInv, Discard PROVE IInv'
<1>1. receipt \in Seq(Receipts) /\ batch.evs \in Seq(Events)
    BY DEF IInv, EmitType, BatchType
<1>2. receipt' = Told(batch.evs, "failed", 1)
    BY DEF Discard
<1>3. receipt' \in Seq(Receipts) /\ Len(receipt') = Len(receipt)
    BY <1>1, <1>2, ToldIsTyped
<1>4. EmitType'
    BY <1>3 DEF IInv, EmitType, Discard
<1>5. Queue(conn') /\ BatchType'
    BY ConnIsQueue, NoBatchIsTyped DEF Discard, BatchType
<1>6. RunType'
    BY DEF Discard, IInv, RunType, runVars, claimVars, outsideVars
<1>7. /\ UNCHANGED <<redisVars, remote>>
      /\ current' <= created /\ arriving' <= created
      /\ \A g \in Gens : claim'[g] = "won" => Dead(g)
    BY DEF Discard, IInv, OwnerInv, runVars, claimVars, outsideVars
<1> QED BY <1>4, <1>5, <1>6, <1>7, LocalStep

LEMMA FailStep == ASSUME IInv, Fail PROVE IInv'
<1>1. PICK i \in DOMAIN conn : conn' = [conn EXCEPT ![i].st = "failed"]
    BY DEF Fail
<1>2. Queue(conn')
    BY <1>1, ConnIsQueue, ExecutedIsQueue DEF Outcomes
<1>3. BatchType' /\ EmitType' /\ RunType'
    BY DEF Fail, IInv, BatchType, EmitType, RunType, emitVars, runVars,
           claimVars
<1>4. /\ UNCHANGED <<redisVars, remote>>
      /\ current' <= created /\ arriving' <= created
      /\ \A g \in Gens : claim'[g] = "won" => Dead(g)
    BY DEF Fail, IInv, OwnerInv, runVars, claimVars
<1> QED BY <1>2, <1>3, <1>4, LocalStep

LEMMA ReplyStep == ASSUME IInv, Reply PROVE IInv'
<1> DEFINE c == Head(conn)
<1>1. Queue(Tail(conn)) /\ c \in Commands /\ Sound(c) /\ c.st # "sent"
    BY ConnIsQueue, TailOfQueue DEF Reply
<1>2. conn' = FollowUp(c) /\ batch' = batch /\ emitted' = emitted
      /\ UNCHANGED <<redisVars, remote>>
    BY DEF Reply, outsideVars
<1>3. \/ c.kind = "chunk" /\ ChunkReply(c)
      \/ c.kind = "cas" /\ CasReply(c)
      \/ OtherReply
    BY DEF Reply
<1> HIDE DEF c
<1>4. Queue(conn')
    <2>1. ASSUME NEW kind \in Kinds, NEW gen \in 0..MaxGen, NEW by \in 0..MaxGen,
                 kind = "done" => Dead(gen)
          PROVE  Queue(Append(Tail(conn), Bare(kind, gen, by)))
        <3>1. PICK d : d = Bare(kind, gen, by)
            OBVIOUS
        <3>4. d \in Commands /\ d.kind = kind /\ d.gen = gen /\ d.next = NoNext
              /\ d.st = "sent"
            BY <3>1, PlainCommand
        <3>5. Sound(d)
            BY <2>1, <3>4 DEF Sound, NoNext
        <3>6. Queue(Append(Tail(conn), d))
            BY <1>1, <3>4, <3>5, AppendToQueue
        <3> QED BY <3>1, <3>6
    <2>2. CASE c.next.kind # "none"
        <3>1. conn' = Append(Tail(conn),
                             Bare(c.next.kind, c.next.gen, c.next.by))
            BY <1>2, <2>2 DEF FollowUp
        <3>2. /\ c.next.kind \in Kinds /\ c.next.gen \in 0..MaxGen
              /\ c.next.by \in 0..MaxGen
            BY <1>1, <2>2 DEF Commands
        <3>3. c.next.kind = "done" => Dead(c.next.gen)
            BY <1>1 DEF Sound
        <3> QED BY <2>1, <3>1, <3>2, <3>3
    <2>3. CASE c.next.kind = "none" /\ c.kind = "replaced" /\ c.st = "ok"
        <3>1. conn' = Append(Tail(conn), Bare("ack", c.gen, c.by))
            BY <1>2, <2>3 DEF FollowUp
        <3>2. c.gen \in 0..MaxGen /\ c.by \in 0..MaxGen /\ "ack" \in Kinds
            BY <1>1 DEF Commands, Kinds
        <3> QED BY <2>1, <3>1, <3>2
    <2>4. CASE c.next.kind = "none" /\ ~(c.kind = "replaced" /\ c.st = "ok")
        BY <1>1, <1>2, <2>4 DEF FollowUp
    <2> QED BY <2>2, <2>3, <2>4
<1>5. BatchType'
    BY <1>2 DEF IInv, BatchType

<1>6. /\ EmitType' /\ RunType' /\ UNCHANGED <<current, arriving>>
      /\ \A g \in Gens : claim'[g] = "won" => Dead(g)
    <2>1. UNCHANGED <<current, arriving, mark, remote, failures, outside, emitted>>
        BY DEF Reply, outsideVars
    <2>2. c.st \in {"ok", "fenced", "failed"} /\ c.evs \in Seq(Events)
          /\ c.seq \in Nat /\ c.gen \in 0..MaxGen
        BY <1>1 DEF Commands, Outcomes
    <2>3. CASE c.kind = "chunk" /\ ChunkReply(c)
        <3>1. receipt' = Told(c.evs, c.st, c.seq) /\ claim' = claim
              /\ stopped' \in BOOLEAN
            BY <2>3 DEF ChunkReply, IInv, RunType
        <3>2. receipt' \in Seq(Receipts) /\ Len(receipt') = Len(receipt)
            BY <2>2, <3>1, ToldIsTyped DEF IInv, EmitType
        <3> QED BY <2>1, <3>1, <3>2
                DEF IInv, EmitType, RunType, OwnerInv
    <2>4. CASE c.kind = "cas" /\ CasReply(c)
        <3>1. /\ receipt' = receipt
              /\ claim' = [claim EXCEPT ![c.gen] = IF c.st = "ok" THEN "won"
                                                                 ELSE "over"]
              /\ stopped' \in BOOLEAN
            BY <2>4 DEF CasReply, IInv, RunType
        <3>2. claim \in [Gens -> {"none", "sent", "won", "over"}]
            BY DEF IInv, RunType
        <3>3. claim' \in [Gens -> {"none", "sent", "won", "over"}]
            BY <3>1, <3>2
        <3>4. \A g \in Gens : claim'[g] = "won" => Dead(g)
            BY <1>1, <2>4, <3>1, <3>2 DEF Sound, IInv, OwnerInv
        <3> QED BY <2>1, <3>1, <3>3, <3>4 DEF IInv, EmitType, RunType
    <2>5. CASE OtherReply
        BY <2>1, <2>5 DEF OtherReply, IInv, EmitType, RunType, OwnerInv
    <2> QED BY <1>3, <2>3, <2>4, <2>5
<1>7. current' <= created /\ arriving' <= created
    BY <1>6 DEF IInv, OwnerInv
<1> QED BY <1>2, <1>4, <1>5, <1>6, <1>7, LocalStep

\* Steps that queue a command behind the batch, and change the claims or the
\* runtime at most.
LEMMA FlushThenStep ==
    ASSUME IInv, NEW kind \in Kinds, NEW gen \in 0..MaxGen,
           NEW by \in 0..MaxGen, kind = "done" => Dead(gen), FlushThen(kind, gen, by),
           UNCHANGED <<redisVars, emitVars, outsideVars, arriving>>,
           current' \in {current, NoGen}, RunType', \A g \in Gens : claim'[g] = "won" => claim[g] = "won"
    PROVE  IInv'
<1>1. Queue(conn') /\ BatchType'
    BY FlushThenIsQueue
<1>2. EmitType'
    BY DEF IInv, EmitType, emitVars
<1>3. /\ UNCHANGED <<redisVars, remote>>
      /\ current' <= created /\ arriving' <= created
      /\ \A g \in Gens : claim'[g] = "won" => Dead(g)
    BY DEF IInv, OwnerInv, RedisType, outsideVars
<1> QED BY <1>1, <1>2, <1>3, LocalStep

LEMMA ClaimStep == ASSUME IInv, NEW g \in Gens, Claim(g) PROVE IInv'
<1>1. "cas" \in Kinds /\ g \in 0..MaxGen /\ NoGen \in 0..MaxGen
    BY BoundsAssumption DEF Kinds
<1>2. RunType'
    <2>1. claim' = [claim EXCEPT ![g] = "sent"]
          /\ mark' = [mark EXCEPT ![g] = Len(emitted)]
        BY DEF Claim
    <2>2. Len(emitted) \in 0..MaxEvents
        BY BoundsAssumption DEF IInv, EmitType
    <2>3. claim \in [Gens -> {"none", "sent", "won", "over"}]
          /\ mark \in [Gens -> 0..MaxEvents]
        BY DEF IInv, RunType
    <2>4. claim' \in [Gens -> {"none", "sent", "won", "over"}]
          /\ mark' \in [Gens -> 0..MaxEvents]
        BY <2>1, <2>2, <2>3
    <2> QED BY <2>4 DEF Claim, IInv, RunType, runVars, outsideVars
<1>3. \A h \in Gens : claim'[h] = "won" => claim[h] = "won"
    BY DEF Claim, IInv, RunType
<1> QED BY <1>1, <1>2, <1>3, FlushThenStep DEF Claim, runVars

LEMMA PublishTerminalStep ==
    ASSUME IInv, NEW g \in Gens, PublishTerminal(g) PROVE IInv'
<1>1. "done" \in Kinds /\ g \in 0..MaxGen /\ Dead(g) /\ NoGen \in 0..MaxGen
    BY BoundsAssumption DEF Kinds, PublishTerminal, IInv, OwnerInv
<1>2. RunType'
    <2>1. claim \in [Gens -> {"none", "sent", "won", "over"}]
          /\ mark \in [Gens -> 0..MaxEvents] /\ 0 \in 0..MaxEvents
        BY BoundsAssumption DEF IInv, RunType
    <2>2. claim' \in [Gens -> {"none", "sent", "won", "over"}]
          /\ mark' \in [Gens -> 0..MaxEvents]
        BY <2>1 DEF PublishTerminal
    <2> QED BY <2>2 DEF PublishTerminal, IInv, RunType, runVars, outsideVars
<1>3. \A h \in Gens : claim'[h] = "won" => claim[h] = "won"
    BY DEF PublishTerminal, IInv, RunType
<1> QED BY <1>1, <1>2, <1>3, FlushThenStep DEF PublishTerminal, runVars

LEMMA ReapStep == ASSUME IInv, Reap PROVE IInv'
<1>1. "done" \in Kinds /\ current \in 0..MaxGen /\ Dead(current) /\ NoGen \in 0..MaxGen
    BY BoundsAssumption DEF Kinds, Reap, IInv, OwnerInv, RunType, RedisType, Dead, Live
<1>2. RunType'
    BY <1>1 DEF Reap, IInv, RunType, claimVars, outsideVars
<1>3. \A h \in Gens : claim'[h] = "won" => claim[h] = "won"
    BY DEF Reap, claimVars
<1> QED BY <1>1, <1>2, <1>3, FlushThenStep DEF Reap

LEMMA HandOffStep == ASSUME IInv, NEW p \in Gens, HandOff(p) PROVE IInv'
<1>1. "replaced" \in Kinds /\ p \in 0..MaxGen /\ job.gen \in 0..MaxGen
    BY DEF Kinds, IInv, RedisType
<1>2. RunType'
    BY DEF HandOff, IInv, RunType, runVars, claimVars, outsideVars
<1>3. \A h \in Gens : claim'[h] = "won" => claim[h] = "won"
    BY DEF HandOff, claimVars
<1> QED BY <1>1, <1>2, <1>3, FlushThenStep DEF HandOff, runVars

\* Steps that only change which runtime the replica has.
LEMMA RuntimeStep ==
    ASSUME IInv, UNCHANGED <<redisVars, emitVars, claimVars, outsideVars, conn,
                             batch>>,
           stopped' \in BOOLEAN, arriving' \in {arriving, NoGen},
           current' \in {current, arriving, NoGen}
    PROVE  IInv'
<1>1. Queue(conn') /\ BatchType' /\ EmitType'
    BY ConnIsQueue DEF IInv, BatchType, EmitType, emitVars
<1>2. RunType'
    BY BoundsAssumption DEF IInv, RunType, claimVars, outsideVars
<1>3. /\ UNCHANGED <<redisVars, remote>>
      /\ \A g \in Gens : claim'[g] = "won" => Dead(g)
    BY DEF IInv, OwnerInv, claimVars, outsideVars
<1>4. current' <= created /\ arriving' <= created
    BY DEF IInv, OwnerInv, RunType, RedisType
<1> QED BY <1>1, <1>2, <1>3, <1>4, LocalStep

(***************************************************************************)
(* Commands executed in Redis.                                             *)
(***************************************************************************)

\* What is left to show of a step that changes no local state of the replica
\* but the outcome of a command.
LEMMA RedisStep ==
    ASSUME IInv, UNCHANGED <<emitVars, runVars, claimVars, batch, failures>>,
           RedisType', LogInv', Queue(conn'),
           remote' \subseteq Gens, outside' \in Nat,
           created <= created', \A g : Dead(g) => Dead(g)',
           job'.active => job'.gen # NoGen,
           job'.gen # NoGen => job'.gen = created',
           \A p \in handoffs' : p < job'.gen,
           \A g \in remote' : Dead(g)'
    PROVE  IInv'
<1>1. ConnType' /\ ConnInv'
    BY QueueStays
<1>2. BatchType' /\ EmitType' /\ RunType'
    BY DEF IInv, BatchType, EmitType, RunType, emitVars, runVars, claimVars
<1>3. current' <= created' /\ arriving' <= created'
    BY DEF IInv, OwnerInv, RunType, RedisType, runVars
<1>4. \A g \in Gens : claim'[g] = "won" => Dead(g)'
    BY DEF IInv, OwnerInv, claimVars
<1>5. OwnerInv'
    BY <1>3, <1>4 DEF OwnerInv
<1> QED BY <1>1, <1>2, <1>5 DEF IInv

LEMMA ExecuteStep == ASSUME IInv, Execute PROVE IInv'
<1>1. PICK i \in DOMAIN conn :
        /\ conn[i].st = "sent"
        /\ \/ conn[i].kind = "chunk" /\ ExecuteChunk(i)
           \/ conn[i].kind = "done" /\ ExecuteDone(i)
           \/ conn[i].kind = "replaced" /\ ExecuteReplaced(i)
           \/ conn[i].kind = "cas" /\ ExecuteCas(i)
           \/ conn[i].kind = "ack" /\ ExecuteAck(i)
    BY DEF Execute
<1> DEFINE c == conn[i]
<1>2. Queue(conn) /\ c \in Commands /\ Sound(c)
    BY ConnIsQueue DEF Queue
<1>3. /\ c.gen \in 0..MaxGen /\ c.evs \in Seq(Events)
      /\ c.kind = "done" => Dead(c.gen)
    BY <1>2 DEF Sound, Commands
<1>4. UNCHANGED <<emitVars, runVars, claimVars, batch, remote, failures, outside>>
    BY DEF Execute, outsideVars
<1>5. RedisType /\ OwnerInv /\ counter \in Nat /\ created \in 0..MaxGen
    BY DEF IInv, RedisType
<1> HIDE DEF c
<1>6. ASSUME UNCHANGED <<job, created>>, \A g : Dead(g)' <=> Dead(g), LogInv',
             counter' \in Nat, published' \subseteq Entries,
             epoch' \in 0..MaxGen, handoffs' \subseteq handoffs, Queue(conn')
      PROVE  IInv'
    <2>1. RedisType'
        BY <1>5, <1>6 DEF RedisType
    <2>2. /\ remote' \subseteq Gens /\ outside' \in Nat /\ created <= created'
          /\ \A g \in remote' : Dead(g)'
        BY <1>4, <1>5, <1>6 DEF IInv, RunType, OwnerInv
    <2>3. /\ job'.active => job'.gen # NoGen
          /\ job'.gen # NoGen => job'.gen = created'
          /\ \A p \in handoffs' : p < job'.gen
        BY <1>5, <1>6 DEF OwnerInv
    <2> QED BY <1>4, <1>6, <2>1, <2>2, <2>3, RedisStep
<1>7. ASSUME NEW st \in Outcomes, NEW seq \in Nat,
             c.kind = "cas" /\ st = "ok" => Dead(c.gen)
      PROVE  /\ Queue([conn EXCEPT ![i].st = st])
             /\ Queue([conn EXCEPT ![i].st = st, ![i].seq = seq])
    BY <1>2, <1>7, ExecutedIsQueue DEF c
<1>8. ASSUME Fenced(i) PROVE IInv'
    <2>1. Queue(conn')
        BY <1>5, <1>7, <1>8 DEF Fenced, Executed, Outcomes
    <2> QED BY <1>5, <1>6, <1>8, <2>1, LogUnchanged
            DEF Fenced, redisVars, RedisType
<1>9. ASSUME c.kind # "cas", Executed(i, "ok") PROVE Queue(conn')
    BY <1>5, <1>7, <1>9 DEF Executed, Outcomes
<1>10. ASSUME Dead(c.gen), Sequence("done", c.gen, << 0 >>), Queue(conn'),
              UNCHANGED <<job, created, handoffs>>, epoch' \in 0..MaxGen
       PROVE  IInv'
    <2>1. /\ counter' \in Nat /\ published' \subseteq Entries /\ LogInv'
          /\ \A h : Dead(h)' <=> Dead(h)
        BY <1>10, SequencedDone
    <2> QED BY <1>6, <1>10, <2>1
<1>11. CASE c.kind = "chunk" /\ ExecuteChunk(i)
    <2>1. CASE AcceptsChunk(c)
        <3>1. /\ Sequence("chunk", c.gen, c.evs)
              /\ conn' = [conn EXCEPT ![i].st = "ok", ![i].seq = counter]
              /\ UNCHANGED <<job, created, epoch, handoffs>>
            BY <1>11, <2>1 DEF ExecuteChunk, c
        <3>2. Queue(conn')
            BY <1>5, <1>7, <1>11, <3>1 DEF Outcomes
        <3>3. Live(c.gen)
            BY <2>1 DEF AcceptsChunk
        <3>4. c.evs \in Seq(0..MaxEvents)
            BY <1>3, BoundsAssumption DEF Events
        <3>5. /\ counter' \in Nat /\ published' \subseteq Entries /\ LogInv'
              /\ \A h : Dead(h)' <=> Dead(h)
            BY <3>1, <3>3, <3>4, SequencedChunks
        <3> QED BY <1>5, <1>6, <3>1, <3>2, <3>5 DEF RedisType
    <2> QED BY <1>8, <1>11, <2>1 DEF ExecuteChunk, c
<1>12. CASE c.kind = "done" /\ ExecuteDone(i)
    <2>1. CASE AcceptsDone(c.gen)
        <3>1. /\ Sequence("done", c.gen, << 0 >>) /\ Executed(i, "ok")
              /\ epoch' \in {epoch, c.gen}
              /\ UNCHANGED <<job, created, handoffs>>
            BY <1>12, <2>1 DEF ExecuteDone, c
        <3>2. epoch' \in 0..MaxGen
            BY <1>3, <1>5, <3>1 DEF RedisType
        <3> QED BY <1>3, <1>9, <1>10, <1>12, <3>1, <3>2
    <2> QED BY <1>8, <1>12, <2>1 DEF ExecuteDone, c
<1>13. CASE c.kind = "replaced" /\ ExecuteReplaced(i)
    <2>1. CASE AcceptsReplaced(c)
        <3>1. /\ Sequence("done", c.gen, << 0 >>) /\ Executed(i, "ok")
              /\ UNCHANGED <<job, created, epoch, handoffs>>
            BY <1>13, <2>1 DEF ExecuteReplaced, c
        <3>2. c.gen \in 1..MaxGen /\ c.gen < job.gen
            BY <1>5, <2>1 DEF AcceptsReplaced, RedisType, OwnerInv
        <3>3. Dead(c.gen)
            BY <1>5, <3>2 DEF Dead, Live, OwnerInv, RedisType
        <3> QED BY <1>5, <1>9, <1>10, <1>13, <3>1, <3>3 DEF RedisType
    <2> QED BY <1>8, <1>13, <2>1 DEF ExecuteReplaced, c
<1>14. CASE c.kind = "cas" /\ ExecuteCas(i)
    <2>1. CASE Live(c.gen)
        <3>1. /\ job' = [job EXCEPT !.active = FALSE] /\ epoch' = c.gen
              /\ Executed(i, "ok")
              /\ UNCHANGED <<created, handoffs, counter, published>>
            BY <1>14, <2>1 DEF ExecuteCas, c
        <3>2. job'.gen = job.gen /\ ~job'.active /\ job'.gen = c.gen
              /\ job' \in [gen : 0..MaxGen, active : BOOLEAN]
            BY <1>5, <2>1, <3>1 DEF RedisType, Live
        <3>3. \A g : Dead(g) => Dead(g)'
            BY <3>1, <3>2 DEF Dead, Live
        <3>4. \A g : g = c.gen => Dead(g)'
            BY <1>3, <1>5, <2>1, <3>1, <3>2 DEF Dead, Live, OwnerInv, RedisType
        <3>5. ConnType' /\ ConnInv'
            <4>1. PICK d : d = [c EXCEPT !.st = "ok"]
                OBVIOUS
            <4>2. d \in Commands /\ d.gen = c.gen /\ d.kind = c.kind
                  /\ d.next = c.next
                BY <1>2, <4>1 DEF Commands, Outcomes
            <4>3. conn' = [conn EXCEPT ![i] = d]
                BY <3>1, <4>1 DEF Executed, c
            <4>4. conn \in Seq(Commands) /\ \A j \in DOMAIN conn : Sound(conn[j])
                BY <1>2 DEF Queue
            <4>5. conn' \in Seq(Commands) /\ DOMAIN conn' = DOMAIN conn
                BY <4>2, <4>3, <4>4
            <4>6. ASSUME NEW j \in DOMAIN conn PROVE Sound(conn[j])'
                <5>1. CASE j = i
                    <6>1. conn'[j] = d
                        BY <4>3, <4>4, <5>1
                    <6>2. d.kind # "done" /\ Dead(d.gen)'
                        BY <1>14, <3>4, <4>2
                    <6>3. d.next.kind = "done" => Dead(d.next.gen)'
                        BY <1>2, <3>3, <4>2 DEF Sound
                    <6> QED BY <6>1, <6>2, <6>3 DEF Sound
                <5>2. CASE j # i
                    <6>1. conn'[j] = conn[j]
                        BY <4>3, <4>4, <5>2
                    <6> QED BY <3>3, <4>4, <6>1 DEF Sound
                <5> QED BY <5>1, <5>2
            <4> QED BY <4>5, <4>6 DEF ConnType, ConnInv
        <3>6. RedisType'
            BY <1>3, <1>5, <3>1, <3>2 DEF RedisType
        <3>7. LogInv'
            BY <3>1, <3>3 DEF IInv, LogInv, Dones, Chunks, NoChunkAfterDone,
                              GenerationsInOrder
        <3>8. OwnerInv'
            BY <1>4, <1>5, <3>1, <3>2, <3>3
            DEF OwnerInv, runVars, claimVars
        <3>9. BatchType' /\ EmitType' /\ RunType'
            BY <1>4 DEF IInv, BatchType, EmitType, RunType, emitVars, runVars,
                        claimVars
        <3> QED BY <3>5, <3>6, <3>7, <3>8, <3>9 DEF IInv
    <2> QED BY <1>8, <1>14, <2>1 DEF ExecuteCas, c
<1>15. CASE c.kind = "ack" /\ ExecuteAck(i)
    <2>1. CASE job.gen = c.by
        <3>1. /\ handoffs' = handoffs \ {c.gen} /\ Executed(i, "ok")
              /\ UNCHANGED <<job, created, epoch, counter, published>>
            BY <1>15, <2>1 DEF ExecuteAck, c
        <3>2. /\ \A g : Dead(g)' <=> Dead(g)
            BY <3>1 DEF Dead, Live
        <3>3. LogInv'
            BY <3>1, <3>2 DEF IInv, LogInv, Dones, Chunks, NoChunkAfterDone,
                              GenerationsInOrder
        <3> QED BY <1>5, <1>6, <1>9, <1>15, <3>1, <3>2, <3>3 DEF RedisType
    <2> QED BY <1>8, <1>15, <2>1 DEF ExecuteAck, c
<1> QED BY <1>1, <1>11, <1>12, <1>13, <1>14, <1>15 DEF c

(***************************************************************************)
(* Creation, and the other replicas.                                       *)
(***************************************************************************)

\* A step of Redis that the connection has no part in and that publishes
\* nothing.
LEMMA OutsideStep ==
    ASSUME IInv, UNCHANGED <<counter, published, emitVars, claimVars, conn,
                             batch, failures>>,
           created' \in created..MaxGen, epoch' \in 0..MaxGen,
           job' \in [gen : 0..MaxGen, active : BOOLEAN], handoffs' \subseteq Gens,
           current' = current, stopped' = stopped, arriving' \in 0..created',
           remote' \subseteq Gens, outside' \in Nat,
           \A g : Dead(g) => Dead(g)',
           job'.active => job'.gen # NoGen,
           job'.gen # NoGen => job'.gen = created',
           \A p \in handoffs' : p < job'.gen,
           \A g \in remote' : Dead(g)'
    PROVE  IInv'
<1>1. RedisType'
    BY DEF IInv, RedisType
<1>2. created' \in Nat /\ created \in Nat /\ created <= created'
    BY BoundsAssumption DEF IInv, RedisType
<1>3. LogInv'
    <2>1. \A p \in published : p.gen <= created'
        BY <1>2 DEF IInv, LogInv, RedisType, Entries
    <2> QED BY <2>1 DEF IInv, LogInv, Dones, Chunks, NoChunkAfterDone,
                        GenerationsInOrder
<1>4. Queue(conn')
    BY ConnIsQueue
<1>5. ConnType' /\ ConnInv'
    BY <1>4, QueueStays
<1>6. BatchType' /\ EmitType' /\ RunType'
    <2>1. BatchType' /\ EmitType'
        BY DEF IInv, BatchType, EmitType, emitVars
    <2>2. arriving' \in 0..MaxGen
        BY <1>2, BoundsAssumption DEF IInv, RedisType
    <2>3. RunType'
        BY <2>2 DEF IInv, RunType, claimVars
    <2> QED BY <2>1, <2>3
<1>7. OwnerInv'
    BY <1>2 DEF IInv, OwnerInv, RunType, claimVars
<1> QED BY <1>1, <1>3, <1>5, <1>6, <1>7 DEF IInv

LEMMA CreateJobStep == ASSUME IInv, NEW here \in BOOLEAN, CreateJob(here)
                       PROVE  IInv'
<1>1. /\ created \in 0..MaxGen /\ created' = created + 1 /\ created < MaxGen
      /\ job' = [gen |-> created', active |-> TRUE] /\ epoch' = created'
      /\ job \in [gen : 0..MaxGen, active : BOOLEAN]
    BY DEF CreateJob, IInv, RedisType
<1>2. \A p \in handoffs' : p \in Gens /\ p < job'.gen
    <2>1. CASE job.gen = NoGen
        BY <2>1 DEF CreateJob
    <2>2. CASE job.gen # NoGen
        <3>1. job.gen = created /\ \A p \in handoffs : p \in Gens /\ p < created
            BY <2>2 DEF IInv, OwnerInv, RedisType
        <3>2. handoffs' = handoffs \cup {created}
            BY <2>2, <3>1 DEF CreateJob
        <3> QED BY <1>1, <2>2, <3>1, <3>2, BoundsAssumption
    <2> QED BY <2>1, <2>2
<1>3. \A g : Dead(g) => Dead(g)'
    BY <1>1, BoundsAssumption DEF Dead, Live
<1>4. /\ arriving' \in 0..created' /\ outside' \in Nat
      /\ remote' \subseteq Gens
    BY <1>1, BoundsAssumption DEF CreateJob, IInv, OwnerInv, RunType, outsideVars
<1>5. \A g \in remote' : Dead(g)'
    BY <1>3 DEF CreateJob, IInv, OwnerInv, outsideVars
<1>6. /\ created' \in created..MaxGen /\ epoch' \in 0..MaxGen
      /\ job' \in [gen : 0..MaxGen, active : BOOLEAN] /\ job'.gen # NoGen
    BY <1>1, BoundsAssumption
<1>7. /\ UNCHANGED <<counter, published, emitVars, claimVars, conn, batch, failures>>
      /\ current' = current /\ stopped' = stopped
    BY DEF CreateJob, outsideVars
<1>8. /\ handoffs' \subseteq Gens /\ job'.gen = created'
      /\ \A p \in handoffs' : p < job'.gen
    BY <1>1, <1>2
<1> QED BY <1>3, <1>4, <1>5, <1>6, <1>7, <1>8, OutsideStep

LEMMA RemoteClaimStep == ASSUME IInv, RemoteClaim PROVE IInv'
<1>1. /\ job.gen \in 1..MaxGen /\ job.gen = created /\ created \in 0..MaxGen
      /\ job \in [gen : 0..MaxGen, active : BOOLEAN] /\ MaxGen \in Nat
    BY BoundsAssumption DEF RemoteClaim, IInv, OwnerInv, RedisType
<1>2. /\ job' = [job EXCEPT !.active = FALSE] /\ job'.gen = job.gen
      /\ ~job'.active /\ job' \in [gen : 0..MaxGen, active : BOOLEAN]
      /\ epoch' = job.gen /\ created' = created /\ handoffs' = handoffs
      /\ remote' = remote \cup {job.gen}
    BY <1>1 DEF RemoteClaim
<1>3. \A g : Dead(g) => Dead(g)'
    BY <1>2 DEF Dead, Live
<1>4. \A g \in remote' : g \in Gens /\ Dead(g)'
    BY <1>1, <1>2, <1>3 DEF IInv, OwnerInv, RunType, Dead, Live
<1>5. arriving \in 0..created /\ outside' \in Nat
    BY <1>1 DEF RemoteClaim, IInv, OwnerInv, RunType
<1>6. handoffs \subseteq Gens /\ \A p \in handoffs : p < job.gen
    BY DEF IInv, OwnerInv, RedisType
<1> QED BY <1>1, <1>2, <1>3, <1>4, <1>5, <1>6, OutsideStep
        DEF RemoteClaim, runVars

LEMMA JobGoneStep == ASSUME IInv, JobGone PROVE IInv'
<1>1. /\ created \in 0..MaxGen /\ epoch \in 0..MaxGen /\ MaxGen \in Nat
      /\ arriving \in 0..created /\ outside' \in Nat /\ remote \subseteq Gens
    BY BoundsAssumption DEF JobGone, IInv, OwnerInv, RedisType, RunType
<1>2. job' = [gen |-> NoGen, active |-> FALSE] /\ handoffs' = {}
    BY DEF JobGone
<1>3. \A g : Dead(g) => Dead(g)'
    BY <1>2 DEF JobGone, Dead, Live
<1>4. \A g \in remote : Dead(g)'
    BY <1>3 DEF IInv, OwnerInv
<1> QED BY <1>1, <1>2, <1>3, <1>4, OutsideStep DEF JobGone, runVars

LEMMA EpochGoneStep == ASSUME IInv, EpochGone PROVE IInv'
<1>1. /\ created \in 0..MaxGen /\ 0 \in 0..MaxGen /\ MaxGen \in Nat
      /\ arriving \in 0..created /\ outside' \in Nat /\ remote \subseteq Gens
      /\ job \in [gen : 0..MaxGen, active : BOOLEAN] /\ handoffs \subseteq Gens
    BY BoundsAssumption DEF EpochGone, IInv, OwnerInv, RedisType, RunType
<1>2. \A g : Dead(g) => Dead(g)'
    BY DEF EpochGone, Dead, Live
<1>3. /\ \A g \in remote : Dead(g)'
      /\ job.active => job.gen # NoGen
      /\ job.gen # NoGen => job.gen = created
      /\ \A p \in handoffs : p < job.gen
    BY <1>2 DEF IInv, OwnerInv
<1> QED BY <1>1, <1>2, <1>3, OutsideStep DEF EpochGone, runVars

\* A step of another replica that publishes.
LEMMA RemotePublication ==
    ASSUME IInv, UNCHANGED <<job, created, emitVars, runVars, claimVars, conn,
                             batch, failures>>,
           LogInv', counter' \in Nat, published' \subseteq Entries,
           epoch' \in 0..MaxGen, handoffs' \subseteq handoffs,
           remote' \subseteq remote, outside' \in Nat
    PROVE  IInv'
<1>1. \A g : Dead(g) => Dead(g)'
    BY DEF Dead, Live
<1>2. RedisType'
    BY DEF IInv, RedisType
<1>3. Queue(conn') /\ created <= created'
    BY ConnIsQueue, BoundsAssumption DEF IInv, RedisType
<1>4. /\ job'.active => job'.gen # NoGen
      /\ job'.gen # NoGen => job'.gen = created'
      /\ \A p \in handoffs' : p < job'.gen
      /\ \A g \in remote' : Dead(g)'
      /\ remote' \subseteq Gens
    BY <1>1 DEF IInv, OwnerInv, RunType
<1> QED BY <1>1, <1>2, <1>3, <1>4, RedisStep

LEMMA RemoteHandOffStep ==
    ASSUME IInv, NEW p \in Gens, RemoteHandOff(p) PROVE IInv'
<1>1. p < job.gen /\ job.gen = created /\ created \in 0..MaxGen
    BY BoundsAssumption DEF RemoteHandOff, IInv, OwnerInv, RedisType
<1>2. Dead(p)
    BY <1>1 DEF Dead, Live
<1>3. LogInv' /\ counter' \in Nat /\ published' \subseteq Entries
    BY <1>2, SequencedDone DEF RemoteHandOff
<1> QED BY <1>3, RemotePublication
        DEF RemoteHandOff, IInv, RedisType, RunType, outsideVars

LEMMA RemoteChunkStep == ASSUME IInv, RemoteChunk PROVE IInv'
<1>1. Live(job.gen)
    BY DEF RemoteChunk, Live
<1>2. PICK evs \in Seq(0..MaxEvents) : evs = << 0 >>
    <2>1. 0 \in 0..MaxEvents
        BY BoundsAssumption
    <2>2. << 0 >> \in Seq(0..MaxEvents)
        BY <2>1
    <2> QED BY <2>2
<1>3. LogInv' /\ counter' \in Nat /\ published' \subseteq Entries
    BY <1>1, <1>2, SequencedChunks DEF RemoteChunk
<1> QED BY <1>3, RemotePublication
        DEF RemoteChunk, IInv, RedisType, RunType

LEMMA RemoteDoneStep == ASSUME IInv, NEW g \in Gens, RemoteDone(g) PROVE IInv'
<1>1. Dead(g) /\ g \in remote
    BY DEF RemoteDone, IInv, OwnerInv
<1>2. CASE AcceptsDone(g)
    <2>1. LogInv' /\ counter' \in Nat /\ published' \subseteq Entries
        BY <1>1, <1>2, SequencedDone DEF RemoteDone
    <2>2. epoch' \in 0..MaxGen
        BY <1>2 DEF RemoteDone, IInv, RedisType
    <2> QED BY <2>1, <2>2, RemotePublication DEF RemoteDone, IInv, RunType
<1>3. CASE ~AcceptsDone(g)
    <2>1. UNCHANGED redisVars
        BY <1>3 DEF RemoteDone, redisVars
    <2>2. LogInv'
        BY <2>1, LogUnchanged
    <2> QED BY <2>1, <2>2, RemotePublication
            DEF RemoteDone, IInv, RedisType, RunType, redisVars
<1> QED BY <1>2, <1>3

(***************************************************************************)
(* The theorems.                                                           *)
(***************************************************************************)

LEMMA StepIInv == IInv /\ [Next]_vars => IInv'
<1> SUFFICES ASSUME IInv, [Next]_vars PROVE IInv'
    OBVIOUS
<1>1. CASE Produce
    BY <1>1, EmitChunkStep, FlushTimerStep, DiscardStep DEF Produce
<1>2. CASE Connection
    BY <1>2, ExecuteStep, FailStep, ReplyStep DEF Connection
<1>3. CASE Terminate
    <2>1. CASE RemoveRuntime
        BY <2>1, RuntimeStep DEF RemoveRuntime
    <2>2. CASE Stop
        BY <2>2, RuntimeStep DEF Stop
    <2> QED BY <1>3, <2>1, <2>2, ClaimStep, PublishTerminalStep, ReapStep
            DEF Terminate
<1>4. CASE Replace
    <2>1. CASE StopPredecessor
        BY <2>1, RuntimeStep DEF StopPredecessor
    <2>2. CASE InstallRuntime
        BY <2>2, RuntimeStep DEF InstallRuntime
    <2>3. CASE GiveUpArrival
        BY <2>3, RuntimeStep DEF GiveUpArrival, IInv, RunType
    <2> QED BY <1>4, <2>1, <2>2, <2>3, CreateJobStep, HandOffStep, RemoteHandOffStep
            DEF Replace
<1>5. CASE Others
    BY <1>5, RemoteChunkStep, RemoteClaimStep, RemoteDoneStep, JobGoneStep,
       EpochGoneStep DEF Others
<1>6. CASE UNCHANGED vars
    <2>1. Queue(conn') /\ BatchType' /\ EmitType' /\ RunType'
        BY <1>6, ConnIsQueue DEF vars, IInv, BatchType, EmitType, RunType,
               emitVars, runVars, claimVars, outsideVars
    <2>2. UNCHANGED <<redisVars, remote>>
        BY <1>6 DEF vars, outsideVars
    <2>3. /\ current' <= created /\ arriving' <= created
          /\ \A g \in Gens : claim'[g] = "won" => Dead(g)
        BY <1>6 DEF vars, runVars, claimVars, IInv, OwnerInv
    <2> QED BY <2>1, <2>2, <2>3, LocalStep
<1> QED BY <1>1, <1>2, <1>3, <1>4, <1>5, <1>6 DEF Next

\* The invariant of the publisher: types, ownership, and the order of the log.
THEOREM Invariance == Spec => []IInv
<1> QED BY InitIInv, StepIInv, PTL DEF Spec

\* Every variable keeps its type: the counter numbers from 0 and no command
\* or receipt leaves its range.
THEOREM TypeCorrect == Spec => []TypeOK
<1>1. IInv => TypeOK
    BY DEF IInv, RedisType, BatchType, ConnType, EmitType, RunType, TypeOK
<1> QED BY <1>1, Invariance, PTL

\* No chunk of a generation is numbered after a DONE of that generation,
\* whoever published it.
THEOREM NothingAfterDone == Spec => []NoChunkAfterDone
<1>1. IInv => NoChunkAfterDone
    BY DEF IInv, LogInv
<1> QED BY <1>1, Invariance, PTL

\* No chunk of a replaced generation is numbered after one of its replacement.
THEOREM GenerationsNeverMix == Spec => []GenerationsInOrder
<1>1. IInv => GenerationsInOrder
    BY DEF IInv, LogInv
<1> QED BY <1>1, Invariance, PTL

\* A reader that follows the stream sees each generation end once and for all.
THEOREM FencedStream == Spec => []StreamIsFenced
<1> QED BY NothingAfterDone, GenerationsNeverMix, PTL DEF StreamIsFenced

(***************************************************************************)
(* What becomes of each chunk.                                             *)
(*                                                                         *)
(* The chunks whose publishers were not told yet lie in the connection     *)
(* and in the batch behind it, each once, in the order of emission.        *)
(***************************************************************************)

Ascending(evs) == \A k, l \in DOMAIN evs : k < l => evs[k] < evs[l]
Below(s, t) == \A e \in Range(s), f \in Range(t) : e < f

\* Events evs of generation g that wait, with em emitted and rc told so far.
Waits(evs, g, em, rc) ==
    /\ Ascending(evs)
    /\ \A e \in Range(evs) :
          e \in DOMAIN em /\ em[e] = g /\ rc[e].st = "open"

\* The connection q and behind it the batch evs of generation g.
Line(q, g, evs, em, rc) ==
    /\ \A i \in DOMAIN q : /\ Waits(q[i].evs, q[i].gen, em, rc)
                           /\ q[i].kind # "chunk" => q[i].evs = <<>>
    /\ Waits(evs, g, em, rc)
    /\ \A i, j \in DOMAIN q : i < j => Below(q[i].evs, q[j].evs)
    /\ \A i \in DOMAIN q : Below(q[i].evs, evs)
    /\ \A e \in DOMAIN rc : rc[e].st = "open" =>
          \/ e \in Range(evs)
          \/ \E i \in DOMAIN q : e \in Range(q[i].evs)

\* Chunk e was emitted by g before its claim drained the batch.
Owed(e, g, em, mk) == e \in DOMAIN em /\ e <= mk[g] /\ em[e] = g

\* Behind a terminal CAS, or a flush that one follows, nothing that is owed
\* waits, and one that succeeded leaves nothing that is owed refused.
Drained(q, em, rc, mk, cl) ==
    \A i \in DOMAIN q :
        /\ q[i].kind = "cas" =>
              /\ q[i].gen \in Gens /\ cl[q[i].gen] # "none"
              /\ \A e \in DOMAIN em : Owed(e, q[i].gen, em, mk) =>
                    /\ rc[e].st = "open" => \E j \in DOMAIN q :
                          /\ j < i /\ e \in Range(q[j].evs)
                          /\ q[i].st = "ok" => q[j].st \in {"ok", "failed"}
                    /\ q[i].st = "ok" => rc[e].st # "fenced"
        /\ q[i].next.kind = "cas" =>
              /\ q[i].next.gen \in Gens /\ cl[q[i].next.gen] # "none"
              /\ \A e \in DOMAIN em :
                    Owed(e, q[i].next.gen, em, mk) /\ rc[e].st = "open" =>
                        \E j \in DOMAIN q : j <= i /\ e \in Range(q[j].evs)

\* The chunks of this replica in the log.
Named == {p \in Chunks : p.ev > 0}
Ahead(evs) == \A p \in Named, e \in Range(evs) : p.ev < e

\* What is not executed comes after everything in the log; an outcome that is
\* on its way is true, and a refusal final.
Truthful(c) ==
    /\ c.st = "sent" => Ahead(c.evs)
    /\ c.kind = "chunk" /\ c.st = "ok" => \A k \in DOMAIN c.evs :
          [seq |-> c.seq + k - 1, kind |-> "chunk", gen |-> c.gen,
           ev |-> c.evs[k]] \in published
    /\ c.kind = "chunk" /\ c.st = "fenced" => \A e \in Range(c.evs) :
          Dead(c.gen) /\ \A p \in Named : p.ev # e

ToldInv ==
    /\ ReceiptsAreTrue
    /\ \A e \in DOMAIN receipt : receipt[e].st = "fenced" => Dead(emitted[e])

NamedInv ==
    /\ EmissionOrder
    /\ \A p \in Named : p.ev \in DOMAIN emitted /\ emitted[p.ev] = p.gen
    /\ \A e \in DOMAIN emitted : emitted[e] <= created

ClaimInv == TailSurvivesClaim /\ \A g \in Gens : mark[g] <= Len(emitted)

Orderly(q, g, evs, em, rc, mk, cl) ==
    /\ Line(q, g, evs, em, rc)
    /\ Drained(q, em, rc, mk, cl)
    /\ Ahead(evs)
    /\ \A i \in DOMAIN q : Truthful(q[i])

CInv == /\ Orderly(conn, batch.gen, batch.evs, emitted, receipt, mark, claim)
        /\ ToldInv /\ NamedInv /\ ClaimInv

LEMMA RangeIsTyped ==
    ASSUME NEW S, NEW s \in Seq(S)
    PROVE  Range(s) \subseteq S
BY DEF Range

LEMMA EventsAreNumbers == ASSUME NEW s \in Seq(Events) PROVE Range(s) \subseteq Nat
<1>1. Range(s) \subseteq Events
    BY RangeIsTyped
<1> QED BY <1>1, BoundsAssumption DEF Events

LEMMA RangeOfAppend ==
    ASSUME NEW S, NEW s \in Seq(S), NEW e \in S
    PROVE  Range(Append(s, e)) = Range(s) \cup {e}
<1>1. /\ DOMAIN Append(s, e) = DOMAIN s \cup {Len(s) + 1}
      /\ Append(s, e)[Len(s) + 1] = e
      /\ \A i \in DOMAIN s : Append(s, e)[i] = s[i]
    OBVIOUS
<1> QED BY <1>1 DEF Range

LEMMA RangeOfEmpty == Range(<<>>) = {}
BY DEF Range

LEMMA CommandFields ==
    ASSUME NEW c \in Commands
    PROVE  /\ c.kind \in Kinds /\ c.gen \in 0..MaxGen /\ c.evs \in Seq(Events)
           /\ c.next.kind \in Kinds \cup {"none"} /\ c.next.gen \in 0..MaxGen
           /\ c.next.by \in 0..MaxGen /\ c.by \in 0..MaxGen
           /\ c.st \in Outcomes /\ c.seq \in Nat
           /\ Range(c.evs) \subseteq Nat
<1>1. c.evs \in Seq(Events)
    BY DEF Commands
<1>2. Range(c.evs) \subseteq Nat
    BY <1>1, EventsAreNumbers
<1>3. /\ c.kind \in Kinds /\ c.gen \in 0..MaxGen
      /\ c.next.kind \in Kinds \cup {"none"} /\ c.next.gen \in 0..MaxGen
      /\ c.next.by \in 0..MaxGen /\ c.by \in 0..MaxGen
      /\ c.st \in Outcomes /\ c.seq \in Nat
    BY DEF Commands
<1> QED BY <1>1, <1>2, <1>3

\* The places of a queue that a command joins.
LEMMA Joined ==
    ASSUME NEW q \in Seq(Commands), NEW c \in Commands
    PROVE  /\ Append(q, c) \in Seq(Commands) /\ Len(q) \in Nat
           /\ DOMAIN Append(q, c) = DOMAIN q \cup {Len(q) + 1}
           /\ Append(q, c)[Len(q) + 1] = c
           /\ \A i \in DOMAIN q : /\ Append(q, c)[i] = q[i]
                                  /\ i \in Nat /\ i < Len(q) + 1
                                  /\ q[i] \in Commands
OBVIOUS

\* The batch is sent.
LEMMA LineSends ==
    ASSUME NEW q \in Seq(Commands), NEW g, NEW evs \in Seq(Events), NEW em,
           NEW rc, Line(q, g, evs, em, rc), NEW c \in Commands,
           c.kind = "chunk", c.gen = g, c.evs = evs, NEW h
    PROVE  Line(Append(q, c), h, <<>>, em, rc)
<1> DEFINE r == Append(q, c)
           n == Len(q) + 1
<1>1. /\ DOMAIN r = DOMAIN q \cup {n} /\ r[n] = c
      /\ \A i \in DOMAIN q : r[i] = q[i] /\ i \in Nat /\ i < n
      /\ n \in Nat
    BY Joined
<1> HIDE DEF r, n
<1>2. \A i \in DOMAIN r : /\ Waits(r[i].evs, r[i].gen, em, rc)
                          /\ r[i].kind # "chunk" => r[i].evs = <<>>
    BY <1>1 DEF Line
<1>3. Waits(<<>>, h, em, rc)
    BY RangeOfEmpty DEF Waits, Ascending
<1>4. \A i, j \in DOMAIN r : i < j => Below(r[i].evs, r[j].evs)
    BY <1>1 DEF Line
<1>5. \A i \in DOMAIN r : Below(r[i].evs, <<>>)
    BY RangeOfEmpty DEF Below
<1>6. \A e \in DOMAIN rc : rc[e].st = "open" =>
          \E i \in DOMAIN r : e \in Range(r[i].evs)
    BY <1>1 DEF Line
<1> QED BY <1>2, <1>3, <1>4, <1>5, <1>6 DEF Line, r

\* A command that carries no event is sent.
LEMMA LinePasses ==
    ASSUME NEW q \in Seq(Commands), NEW g, NEW evs, NEW em, NEW rc,
           Line(q, g, evs, em, rc), NEW c \in Commands, c.evs = <<>>
    PROVE  Line(Append(q, c), g, evs, em, rc)
<1> DEFINE r == Append(q, c)
           n == Len(q) + 1
<1>1. /\ DOMAIN r = DOMAIN q \cup {n} /\ r[n] = c
      /\ \A i \in DOMAIN q : r[i] = q[i] /\ i \in Nat /\ i < n
      /\ n \in Nat
    BY Joined
<1> HIDE DEF r, n
<1>2. Waits(<<>>, c.gen, em, rc) /\ \A s : Below(<<>>, s) /\ Below(s, <<>>)
    BY RangeOfEmpty DEF Waits, Ascending, Below
<1>3. \A i \in DOMAIN r : /\ Waits(r[i].evs, r[i].gen, em, rc)
                          /\ r[i].kind # "chunk" => r[i].evs = <<>>
    BY <1>1, <1>2 DEF Line
<1>4. \A i, j \in DOMAIN r : i < j => Below(r[i].evs, r[j].evs)
    BY <1>1, <1>2 DEF Line
<1>5. \A i \in DOMAIN r : Below(r[i].evs, evs)
    BY <1>1, <1>2 DEF Line
<1> QED BY <1>1, <1>3, <1>4, <1>5 DEF Line, r

\* A chunk is emitted into the batch.
LEMMA LineGrows ==
    ASSUME NEW q \in Seq(Commands), NEW g, NEW evs \in Seq(Events),
           NEW em \in Seq(Gens), NEW rc \in Seq(Receipts), Len(rc) = Len(em),
           Len(em) + 1 \in Events,
           Line(q, g, evs, em, rc), NEW h \in Gens, evs = <<>> \/ g = h
    PROVE  Line(q, h, Append(evs, Len(em) + 1), Append(em, h), Append(rc, Open))
<1> DEFINE n == Len(em) + 1
           ev == Append(evs, n)
           ex == Append(em, h)
           rx == Append(rc, Open)
<1>1. /\ n \in Nat /\ n \in Events
      /\ DOMAIN ex = DOMAIN em \cup {n} /\ DOMAIN rx = DOMAIN rc \cup {n}
      /\ ex[n] = h /\ rx[n] = Open /\ DOMAIN rc = DOMAIN em
      /\ \A e \in DOMAIN em : ex[e] = em[e] /\ rx[e] = rc[e] /\ e \in Nat /\ e < n
    OBVIOUS
<1>2. Range(ev) = Range(evs) \cup {n}
    BY <1>1, RangeOfAppend
<1>3. /\ DOMAIN ev = DOMAIN evs \cup {Len(evs) + 1} /\ ev[Len(evs) + 1] = n
      /\ \A k \in DOMAIN evs : ev[k] = evs[k] /\ k \in Nat /\ k < Len(evs) + 1
      /\ Len(evs) \in Nat
    OBVIOUS
<1> HIDE DEF n, ev, ex, rx
<1>4. ASSUME NEW s, NEW f, Waits(s, f, em, rc)
      PROVE  Waits(s, f, ex, rx) /\ \A e \in Range(s) : e \in Nat /\ e < n
    BY <1>1, <1>4 DEF Waits
<1>5. Waits(ev, h, ex, rx)
    <2>1. Waits(evs, h, ex, rx) /\ \A e \in Range(evs) : e \in Nat /\ e < n
        <3>1. CASE evs = <<>>
            BY <3>1, RangeOfEmpty DEF Waits, Ascending
        <3>2. CASE g = h
            BY <1>4, <3>2 DEF Line
        <3> QED BY <3>1, <3>2
    <2>2. Ascending(ev)
        <3>1. \A k \in DOMAIN evs : evs[k] < n
            BY <2>1 DEF Range
        <3> QED BY <1>3, <2>1, <3>1 DEF Waits, Ascending
    <2> QED BY <1>1, <1>2, <2>1, <2>2 DEF Waits, Open
<1>6. \A i \in DOMAIN q : /\ Waits(q[i].evs, q[i].gen, ex, rx)
                          /\ q[i].kind # "chunk" => q[i].evs = <<>>
                          /\ Below(q[i].evs, ev)
    BY <1>2, <1>4 DEF Line, Below
<1>7. \A e \in DOMAIN rx : rx[e].st = "open" =>
          \/ e \in Range(ev)
          \/ \E i \in DOMAIN q : e \in Range(q[i].evs)
    BY <1>1, <1>2 DEF Line
<1> QED BY <1>5, <1>6, <1>7 DEF Line, n, ev, ex, rx

\* Outcomes do not matter to the line.
LEMMA LineIgnoresOutcomes ==
    ASSUME NEW q, NEW r, NEW g, NEW evs, NEW em, NEW rc,
           Line(q, g, evs, em, rc), DOMAIN r = DOMAIN q,
           \A i \in DOMAIN q : /\ r[i].evs = q[i].evs /\ r[i].gen = q[i].gen
                               /\ r[i].kind = q[i].kind
    PROVE  Line(r, g, evs, em, rc)
BY DEF Line

\* The publishers of events evs are told: receipts rx instead of rc.
Tells(evs, rc, rx) ==
    /\ DOMAIN rx = DOMAIN rc
    /\ \A e \in DOMAIN rc : IF e \in Range(evs) THEN rx[e].st # "open"
                                                ELSE rx[e] = rc[e]

LEMMA LineSettles ==
    ASSUME NEW q \in Seq(Commands), q # <<>>, NEW g, NEW evs \in Seq(Events),
           NEW em, NEW rc, NEW rx, Line(q, g, evs, em, rc), DOMAIN rc = DOMAIN em,
           Tells(Head(q).evs, rc, rx)
    PROVE  Line(Tail(q), g, evs, em, rx)
<1> DEFINE r == Tail(q)
<1>1. /\ DOMAIN q = 1..Len(q) /\ Len(q) \in Nat \ {0} /\ 1 \in DOMAIN q
      /\ q[1] = Head(q) /\ DOMAIN r = 1..(Len(q) - 1)
      /\ \A i \in DOMAIN r : i + 1 \in DOMAIN q /\ r[i] = q[i + 1] /\ 1 < i + 1
      /\ \A i \in DOMAIN q : q[i] \in Commands
    OBVIOUS
<1> HIDE DEF r
<1>2. ASSUME NEW s, NEW f, Waits(s, f, em, rc), Below(q[1].evs, s),
             Range(s) \subseteq Nat
      PROVE  Waits(s, f, em, rx)
    BY <1>1, <1>2 DEF Waits, Below, Tells
<1>3. Waits(evs, g, em, rx)
    <2>1. Range(evs) \subseteq Nat
        BY EventsAreNumbers
    <2>2. Waits(evs, g, em, rc) /\ Below(q[1].evs, evs)
        BY <1>1 DEF Line
    <2> QED BY <1>2, <2>1, <2>2
<1>4. \A i \in DOMAIN r : /\ Waits(r[i].evs, r[i].gen, em, rx)
                          /\ r[i].kind # "chunk" => r[i].evs = <<>>
                          /\ Below(r[i].evs, evs)
    <2> TAKE i \in DOMAIN r
    <2>1. Range(q[i + 1].evs) \subseteq Nat
        BY <1>1, CommandFields
    <2>2. Below(q[1].evs, q[i + 1].evs)
        BY <1>1 DEF Line
    <2> QED BY <1>1, <1>2, <2>1, <2>2 DEF Line
<1>5. \A i, j \in DOMAIN r : i < j => Below(r[i].evs, r[j].evs)
    BY <1>1 DEF Line
<1>6. \A e \in DOMAIN rx : rx[e].st = "open" =>
          \/ e \in Range(evs)
          \/ \E i \in DOMAIN r : e \in Range(r[i].evs)
    <2> SUFFICES ASSUME NEW e \in DOMAIN rx, rx[e].st = "open", e \notin Range(evs)
                 PROVE  \E i \in DOMAIN r : e \in Range(r[i].evs)
        OBVIOUS
    <2>1. e \notin Range(q[1].evs) /\ rc[e].st = "open" /\ e \in DOMAIN rc
        BY <1>1 DEF Tells
    <2>2. PICK j \in DOMAIN q : e \in Range(q[j].evs)
        BY <2>1 DEF Line
    <2>3. j - 1 \in DOMAIN r /\ r[j - 1] = q[j]
        BY <1>1, <2>1, <2>2
    <2> QED BY <2>2, <2>3
<1> QED BY <1>3, <1>4, <1>5, <1>6 DEF Line, r

\* The publishers of the batch are told.
LEMMA LineDrops ==
    ASSUME NEW q \in Seq(Commands), NEW g, NEW evs, NEW em, NEW rc, NEW rx,
           Line(q, g, evs, em, rc), DOMAIN rc = DOMAIN em, Tells(evs, rc, rx),
           Range(evs) \subseteq Nat, NEW h
    PROVE  Line(q, h, <<>>, em, rx)
<1>1. ASSUME NEW i \in DOMAIN q PROVE Waits(q[i].evs, q[i].gen, em, rx)
    <2>1. q[i] \in Commands
        OBVIOUS
    <2>2. Range(q[i].evs) \subseteq Nat
        BY <2>1, CommandFields
    <2>3. Below(q[i].evs, evs) /\ Waits(q[i].evs, q[i].gen, em, rc)
        BY DEF Line
    <2> QED BY <2>2, <2>3 DEF Waits, Below, Tells
<1>2. Waits(<<>>, h, em, rx) /\ \A s : Below(s, <<>>)
    BY RangeOfEmpty DEF Waits, Ascending, Below
<1>3. \A e \in DOMAIN rx : rx[e].st = "open" =>
          \E i \in DOMAIN q : e \in Range(q[i].evs)
    BY DEF Line, Tells
<1> QED BY <1>1, <1>2, <1>3 DEF Line

(***************************************************************************)
(* What is owed to a claim.                                                *)
(***************************************************************************)

\* A command is sent.
LEMMA DrainedSends ==
    ASSUME NEW q \in Seq(Commands), NEW em, NEW rc, NEW mk, NEW cl,
           Drained(q, em, rc, mk, cl), NEW c \in Commands, c.st = "sent",
           c.kind = "cas" =>
               /\ c.gen \in Gens /\ cl[c.gen] # "none"
               /\ \A e \in DOMAIN em :
                     Owed(e, c.gen, em, mk) /\ rc[e].st = "open" =>
                         \E j \in DOMAIN q : e \in Range(q[j].evs),
           c.next.kind = "cas" =>
               /\ c.next.gen \in Gens /\ cl[c.next.gen] # "none"
               /\ \A e \in DOMAIN em :
                     Owed(e, c.next.gen, em, mk) /\ rc[e].st = "open" =>
                         \/ e \in Range(c.evs)
                         \/ \E j \in DOMAIN q : e \in Range(q[j].evs)
    PROVE  Drained(Append(q, c), em, rc, mk, cl)
<1> DEFINE r == Append(q, c)
           n == Len(q) + 1
<1>1. /\ DOMAIN r = DOMAIN q \cup {n} /\ r[n] = c
      /\ \A i \in DOMAIN q : r[i] = q[i] /\ i \in Nat /\ i < n
      /\ n \in Nat
    BY Joined
<1> HIDE DEF r, n
<1>2. ASSUME NEW i \in DOMAIN r, r[i].kind = "cas"
      PROVE  /\ r[i].gen \in Gens /\ cl[r[i].gen] # "none"
             /\ \A e \in DOMAIN em : Owed(e, r[i].gen, em, mk) =>
                   /\ rc[e].st = "open" => \E j \in DOMAIN r :
                         /\ j < i /\ e \in Range(r[j].evs)
                         /\ r[i].st = "ok" => r[j].st \in {"ok", "failed"}
                   /\ r[i].st = "ok" => rc[e].st # "fenced"
    <2>1. CASE i = n
        BY <1>1, <1>2, <2>1
    <2>2. CASE i \in DOMAIN q
        BY <1>1, <1>2, <2>2 DEF Drained
    <2> QED BY <1>1, <2>1, <2>2
<1>3. ASSUME NEW i \in DOMAIN r, r[i].next.kind = "cas"
      PROVE  /\ r[i].next.gen \in Gens /\ cl[r[i].next.gen] # "none"
             /\ \A e \in DOMAIN em :
                   Owed(e, r[i].next.gen, em, mk) /\ rc[e].st = "open" =>
                       \E j \in DOMAIN r : j <= i /\ e \in Range(r[j].evs)
    <2>1. CASE i = n
        BY <1>1, <1>3, <2>1
    <2>2. CASE i \in DOMAIN q
        BY <1>1, <1>3, <2>2 DEF Drained
    <2> QED BY <1>1, <2>1, <2>2
<1> QED BY <1>2, <1>3 DEF Drained, r

\* A chunk is emitted.
LEMMA DrainedGrows ==
    ASSUME NEW q \in Seq(Commands), NEW em \in Seq(Gens),
           NEW rc \in Seq(Receipts), Len(rc) = Len(em), NEW mk, NEW cl,
           Drained(q, em, rc, mk, cl), NEW h \in Gens,
           \A g \in Gens : mk[g] \in Nat /\ mk[g] <= Len(em)
    PROVE  Drained(q, Append(em, h), Append(rc, Open), mk, cl)
<1> DEFINE n == Len(em) + 1
           ex == Append(em, h)
           rx == Append(rc, Open)
<1>1. /\ n \in Nat /\ DOMAIN ex = DOMAIN em \cup {n} /\ DOMAIN rc = DOMAIN em
      /\ \A e \in DOMAIN em : ex[e] = em[e] /\ rx[e] = rc[e]
    OBVIOUS
<1>2. \A g \in Gens : ~Owed(n, g, ex, mk)
    BY DEF Owed
<1> HIDE DEF n, ex, rx
<1>3. \A g \in Gens, e \in DOMAIN ex : Owed(e, g, ex, mk) =>
          e \in DOMAIN em /\ Owed(e, g, em, mk) /\ rx[e] = rc[e]
    BY <1>1, <1>2 DEF Owed
<1> QED BY <1>3 DEF Drained, ex, rx

\* Commands are executed or fail.
LEMMA DrainedExecutes ==
    ASSUME NEW q \in Seq(Commands), NEW r, NEW em, NEW rc, NEW mk, NEW cl,
           Drained(q, em, rc, mk, cl), DOMAIN r = DOMAIN q,
           \A i \in DOMAIN q :
               /\ r[i].evs = q[i].evs /\ r[i].gen = q[i].gen
               /\ r[i].kind = q[i].kind /\ r[i].next = q[i].next
               /\ q[i].st \in {"ok", "failed"} => r[i].st \in {"ok", "failed"},
           \A i \in DOMAIN q :
               r[i].kind = "cas" /\ r[i].st = "ok" /\ q[i].st # "ok" =>
                   \A e \in DOMAIN em : Owed(e, r[i].gen, em, mk) =>
                       /\ rc[e].st # "fenced"
                       /\ rc[e].st = "open" => \A j \in DOMAIN q :
                             j < i /\ e \in Range(q[j].evs) =>
                                 r[j].st \in {"ok", "failed"}
    PROVE  Drained(r, em, rc, mk, cl)
<1>1. ASSUME NEW i \in DOMAIN r, r[i].kind = "cas"
      PROVE  /\ r[i].gen \in Gens /\ cl[r[i].gen] # "none"
             /\ \A e \in DOMAIN em : Owed(e, r[i].gen, em, mk) =>
                   /\ rc[e].st = "open" => \E j \in DOMAIN r :
                         /\ j < i /\ e \in Range(r[j].evs)
                         /\ r[i].st = "ok" => r[j].st \in {"ok", "failed"}
                   /\ r[i].st = "ok" => rc[e].st # "fenced"
    <2>1. q[i].kind = "cas" /\ i \in DOMAIN q /\ r[i].gen = q[i].gen
        BY <1>1
    <2>2. r[i].gen \in Gens /\ cl[r[i].gen] # "none"
        BY <2>1 DEF Drained
    <2>3. ASSUME NEW e \in DOMAIN em, Owed(e, r[i].gen, em, mk), rc[e].st = "open"
          PROVE  \E j \in DOMAIN r :
                     /\ j < i /\ e \in Range(r[j].evs)
                     /\ r[i].st = "ok" => r[j].st \in {"ok", "failed"}
        <3>1. PICK j \in DOMAIN q :
                /\ j < i /\ e \in Range(q[j].evs)
                /\ q[i].st = "ok" => q[j].st \in {"ok", "failed"}
            BY <2>1, <2>3 DEF Drained
        <3>2. r[i].st = "ok" => r[j].st \in {"ok", "failed"}
            BY <1>1, <2>1, <2>3, <3>1
        <3> QED BY <3>1, <3>2
    <2>4. ASSUME NEW e \in DOMAIN em, Owed(e, r[i].gen, em, mk), r[i].st = "ok"
          PROVE  rc[e].st # "fenced"
        <3>1. CASE q[i].st = "ok"
            BY <2>1, <2>4, <3>1 DEF Drained
        <3>2. CASE q[i].st # "ok"
            BY <1>1, <2>4, <3>2
        <3> QED BY <3>1, <3>2
    <2> QED BY <2>2, <2>3, <2>4
<1>2. ASSUME NEW i \in DOMAIN r, r[i].next.kind = "cas"
      PROVE  /\ r[i].next.gen \in Gens /\ cl[r[i].next.gen] # "none"
             /\ \A e \in DOMAIN em :
                   Owed(e, r[i].next.gen, em, mk) /\ rc[e].st = "open" =>
                       \E j \in DOMAIN r : j <= i /\ e \in Range(r[j].evs)
    BY <1>2 DEF Drained
<1> QED BY <1>1, <1>2 DEF Drained

\* A reply is taken: nothing that was owed and is refused was carried by a
\* command that a successful CAS has behind it.
LEMMA DrainedSettles ==
    ASSUME NEW q \in Seq(Commands), q # <<>>, NEW g, NEW evs,
           NEW em, NEW rc, NEW rx, NEW mk, NEW cl,
           Line(q, g, evs, em, rc), DOMAIN rc = DOMAIN em,
           Drained(q, em, rc, mk, cl), Tells(Head(q).evs, rc, rx),
           Head(q).st # "fenced" =>
               \A e \in DOMAIN rc : rc[e].st = "open" => rx[e].st # "fenced"
    PROVE  Drained(Tail(q), em, rx, mk, cl)
<1> DEFINE r == Tail(q)
<1>1. /\ DOMAIN q = 1..Len(q) /\ Len(q) \in Nat \ {0} /\ 1 \in DOMAIN q
      /\ q[1] = Head(q) /\ DOMAIN r = 1..(Len(q) - 1)
      /\ \A i \in DOMAIN r : /\ i + 1 \in DOMAIN q /\ r[i] = q[i + 1]
                             /\ 1 < i + 1 /\ i \in Nat
      /\ \A i \in DOMAIN q : q[i] \in Commands /\ i \in Nat
    OBVIOUS
<1> HIDE DEF r
<1>2. \A e \in DOMAIN em : rx[e].st = "open" =>
          e \notin Range(q[1].evs) /\ rc[e].st = "open"
    BY <1>1 DEF Tells
<1>3. ASSUME NEW e \in DOMAIN em, NEW j \in DOMAIN q, e \in Range(q[j].evs),
             e \notin Range(q[1].evs)
      PROVE  j - 1 \in DOMAIN r /\ r[j - 1] = q[j]
    BY <1>1, <1>3
<1>4. ASSUME NEW i \in DOMAIN r, r[i].kind = "cas"
      PROVE  /\ r[i].gen \in Gens /\ cl[r[i].gen] # "none"
             /\ \A e \in DOMAIN em : Owed(e, r[i].gen, em, mk) =>
                   /\ rx[e].st = "open" => \E j \in DOMAIN r :
                         /\ j < i /\ e \in Range(r[j].evs)
                         /\ r[i].st = "ok" => r[j].st \in {"ok", "failed"}
                   /\ r[i].st = "ok" => rx[e].st # "fenced"
    <2>1. q[i + 1].kind = "cas" /\ i + 1 \in DOMAIN q /\ r[i] = q[i + 1]
        BY <1>1, <1>4
    <2>2. r[i].gen \in Gens /\ cl[r[i].gen] # "none"
        BY <2>1 DEF Drained
    <2>3. ASSUME NEW e \in DOMAIN em, Owed(e, r[i].gen, em, mk), rx[e].st = "open"
          PROVE  \E j \in DOMAIN r :
                     /\ j < i /\ e \in Range(r[j].evs)
                     /\ r[i].st = "ok" => r[j].st \in {"ok", "failed"}
        <3>1. PICK j \in DOMAIN q :
                /\ j < i + 1 /\ e \in Range(q[j].evs)
                /\ q[i + 1].st = "ok" => q[j].st \in {"ok", "failed"}
            BY <1>2, <2>1, <2>3 DEF Drained
        <3>2. j - 1 \in DOMAIN r /\ r[j - 1] = q[j] /\ j - 1 < i
            BY <1>1, <1>2, <1>3, <2>3, <3>1
        <3> QED BY <2>1, <3>1, <3>2
    <2>4. ASSUME NEW e \in DOMAIN em, Owed(e, r[i].gen, em, mk), r[i].st = "ok"
          PROVE  rx[e].st # "fenced"
        <3>1. CASE e \in Range(q[1].evs)
            <4>1. rc[e].st = "open"
                BY <1>1, <3>1 DEF Line, Waits
            <4>2. PICK j \in DOMAIN q :
                    /\ j < i + 1 /\ e \in Range(q[j].evs)
                    /\ q[j].st \in {"ok", "failed"}
                BY <2>1, <2>4, <4>1 DEF Drained
            <4>3. j = 1
                <5>1. e \in Nat
                    BY <1>1, <3>1, CommandFields
                <5>2. 1 < j => Below(q[1].evs, q[j].evs)
                    BY <1>1 DEF Line
                <5> QED BY <1>1, <3>1, <4>2, <5>1, <5>2 DEF Below
            <4> QED BY <1>1, <4>1, <4>2, <4>3
        <3>2. CASE e \notin Range(q[1].evs)
            BY <1>1, <2>1, <2>4, <3>2 DEF Drained, Tells
        <3> QED BY <3>1, <3>2
    <2> QED BY <2>2, <2>3, <2>4
<1>5. ASSUME NEW i \in DOMAIN r, r[i].next.kind = "cas"
      PROVE  /\ r[i].next.gen \in Gens /\ cl[r[i].next.gen] # "none"
             /\ \A e \in DOMAIN em :
                   Owed(e, r[i].next.gen, em, mk) /\ rx[e].st = "open" =>
                       \E j \in DOMAIN r : j <= i /\ e \in Range(r[j].evs)
    <2>1. q[i + 1].next.kind = "cas" /\ i + 1 \in DOMAIN q /\ r[i] = q[i + 1]
        BY <1>1, <1>5
    <2>2. r[i].next.gen \in Gens /\ cl[r[i].next.gen] # "none"
        BY <2>1 DEF Drained
    <2>3. ASSUME NEW e \in DOMAIN em, Owed(e, r[i].next.gen, em, mk),
                 rx[e].st = "open"
          PROVE  \E j \in DOMAIN r : j <= i /\ e \in Range(r[j].evs)
        <3>1. PICK j \in DOMAIN q : j <= i + 1 /\ e \in Range(q[j].evs)
            BY <1>2, <2>1, <2>3 DEF Drained
        <3>2. j - 1 \in DOMAIN r /\ r[j - 1] = q[j] /\ j - 1 <= i
            BY <1>1, <1>2, <1>3, <2>3, <3>1
        <3> QED BY <3>1, <3>2
    <2> QED BY <2>2, <2>3
<1> QED BY <1>4, <1>5 DEF Drained, r

\* Chunks are given up.
LEMMA DrainedDrops ==
    ASSUME NEW q, NEW em, NEW rc, NEW rx, NEW mk, NEW cl,
           Drained(q, em, rc, mk, cl),
           \A e \in DOMAIN em : rx[e] = rc[e] \/ rx[e].st = "failed"
    PROVE  Drained(q, em, rx, mk, cl)
<1>1. \A e \in DOMAIN em : /\ rx[e].st = "open" => rc[e].st = "open"
                           /\ rx[e].st = "fenced" => rc[e].st = "fenced"
    OBVIOUS
<1> QED BY <1>1 DEF Drained

\* A claim is made, or goes on.
LEMMA DrainedClaims ==
    ASSUME NEW q, NEW em \in Seq(Gens), NEW rc, NEW mk, NEW cl, NEW mx, NEW cx,
           Drained(q, em, rc, mk, cl),
           \A h \in Gens : cl[h] # "none" =>
               cx[h] # "none" /\ mx[h] \in Nat /\ mk[h] \in Nat /\ mx[h] <= mk[h]
    PROVE  Drained(q, em, rc, mx, cx)
<1>1. \A h \in Gens : cl[h] # "none" =>
          \A e \in DOMAIN em : Owed(e, h, em, mx) => Owed(e, h, em, mk)
    <2> TAKE h \in Gens
    <2> HAVE cl[h] # "none"
    <2> TAKE e \in DOMAIN em
    <2>1. e \in Nat
        OBVIOUS
    <2> QED BY <2>1 DEF Owed
<1> QED BY <1>1 DEF Drained

(***************************************************************************)
(* The line, what is owed and the outcomes together.                       *)
(***************************************************************************)

\* The batch is sent, and with a terminal CAS to follow nothing owed waits
\* behind it.
LEMMA OrderlySends ==
    ASSUME NEW q \in Seq(Commands), NEW g, NEW evs \in Seq(Events), NEW em,
           NEW rc, DOMAIN rc = DOMAIN em, NEW mk, NEW cl,
           Orderly(q, g, evs, em, rc, mk, cl),
           NEW c \in Commands, c.kind = "chunk", c.st = "sent",
           c.gen = g, c.evs = evs,
           c.next.kind = "cas" => c.next.gen \in Gens /\ cl[c.next.gen] # "none",
           NEW h
    PROVE  Orderly(Append(q, c), h, <<>>, em, rc, mk, cl)
<1>1. Line(Append(q, c), h, <<>>, em, rc)
    BY LineSends DEF Orderly
<1>2. \A e \in DOMAIN em : rc[e].st = "open" =>
          \/ e \in Range(c.evs)
          \/ \E j \in DOMAIN q : e \in Range(q[j].evs)
    BY DEF Orderly, Line
<1>3. Drained(Append(q, c), em, rc, mk, cl)
    BY <1>2, DrainedSends DEF Orderly
<1>4. Ahead(<<>>)
    BY RangeOfEmpty DEF Ahead
<1>5. Truthful(c)
    BY DEF Orderly, Truthful
<1>6. \A i \in DOMAIN Append(q, c) : Truthful(Append(q, c)[i])
    BY <1>5, Joined DEF Orderly
<1> QED BY <1>1, <1>3, <1>4, <1>6 DEF Orderly

\* A command that carries no event is sent; a terminal CAS behind an empty
\* batch.
LEMMA OrderlyPasses ==
    ASSUME NEW q \in Seq(Commands), NEW g, NEW evs, NEW em, NEW rc, NEW mk,
           NEW cl, Orderly(q, g, evs, em, rc, mk, cl), DOMAIN rc = DOMAIN em,
           NEW c \in Commands, c.st = "sent", c.evs = <<>>, c.next = NoNext,
           c.kind = "cas" =>
               /\ c.gen \in Gens /\ cl[c.gen] # "none"
               /\ \A e \in DOMAIN em :
                     Owed(e, c.gen, em, mk) /\ rc[e].st = "open" =>
                         \E j \in DOMAIN q : e \in Range(q[j].evs)
    PROVE  Orderly(Append(q, c), g, evs, em, rc, mk, cl)
<1>1. Line(Append(q, c), g, evs, em, rc)
    BY LinePasses DEF Orderly
<1>2. Drained(Append(q, c), em, rc, mk, cl)
    BY DrainedSends DEF Orderly, NoNext
<1>3. Truthful(c)
    BY RangeOfEmpty DEF Truthful, Ahead
<1>4. \A i \in DOMAIN Append(q, c) : Truthful(Append(q, c)[i])
    BY <1>3, Joined DEF Orderly
<1> QED BY <1>1, <1>2, <1>4 DEF Orderly

\* A chunk is emitted: its number is above all those in the log.
LEMMA OrderlyGrows ==
    ASSUME IInv, NamedInv, ClaimInv,
           NEW q \in Seq(Commands), NEW g, NEW evs \in Seq(Events),
           Orderly(q, g, evs, emitted, receipt, mark, claim),
           NEW h \in Gens, evs = <<>> \/ g = h, Len(emitted) < MaxEvents
    PROVE  Orderly(q, h, Append(evs, Len(emitted) + 1), Append(emitted, h),
                   Append(receipt, Open), mark, claim)
<1> DEFINE n == Len(emitted) + 1
<1>1. /\ emitted \in Seq(Gens) /\ receipt \in Seq(Receipts)
      /\ Len(receipt) = Len(emitted) /\ n \in Events
    BY BoundsAssumption DEF IInv, EmitType, Events
<1>2. Line(q, h, Append(evs, n), Append(emitted, h), Append(receipt, Open))
    BY <1>1, LineGrows DEF Orderly
<1>3. \A f \in Gens : mark[f] \in Nat /\ mark[f] <= Len(emitted)
    BY BoundsAssumption DEF IInv, RunType, ClaimInv
<1>4. Drained(q, Append(emitted, h), Append(receipt, Open), mark, claim)
    BY <1>1, <1>3, DrainedGrows DEF Orderly
<1>5. Ahead(Append(evs, n))
    <2>1. Range(Append(evs, n)) = Range(evs) \cup {n}
        BY <1>1, RangeOfAppend
    <2>2. \A p \in Named : p.ev < n
        BY <1>1 DEF NamedInv
    <2> QED BY <2>1, <2>2 DEF Ahead, Orderly
<1> QED BY <1>2, <1>4, <1>5 DEF Orderly

\* flushCoalescedChunks.
LEMMA OrderlyFlushes ==
    ASSUME IInv, NEW em, NEW rc, DOMAIN rc = DOMAIN em, NEW mk, NEW cl,
           Orderly(conn, batch.gen, batch.evs, em, rc, mk, cl),
           NEW next \in Nexts,
           next.kind = "cas" => next.gen \in Gens /\ cl[next.gen] # "none",
           NEW h
    PROVE  Orderly(Flushed(conn, next), h, <<>>, em, rc, mk, cl)
<1>1. conn \in Seq(Commands) /\ batch.gen \in 0..MaxGen
      /\ batch.evs \in Seq(Events) /\ current \in 0..MaxGen
    BY DEF IInv, ConnType, BatchType, RunType
<1>2. CASE batch = NoBatch
    <2>1. batch.evs = <<>> /\ Flushed(conn, next) = conn
        BY <1>2 DEF NoBatch, Flushed
    <2>2. Line(conn, h, <<>>, em, rc)
        <3>1. Waits(<<>>, h, em, rc)
            BY RangeOfEmpty DEF Waits, Ascending
        <3> QED BY <2>1, <3>1 DEF Orderly, Line
    <2> QED BY <2>1, <2>2 DEF Orderly
<1>3. CASE batch # NoBatch
    <2> DEFINE c == Command("chunk", batch.gen, batch.evs, next)
    <2>1. /\ c \in Commands /\ c.kind = "chunk" /\ c.gen = batch.gen
          /\ c.next = next /\ c.st = "sent"
        BY <1>1, CommandIsTyped DEF Kinds
    <2>2. c.evs = batch.evs
        BY DEF Command
    <2>3. Flushed(conn, next) = Append(conn, c)
        BY <1>3 DEF Flushed
    <2> HIDE DEF c
    <2> QED BY <1>1, <2>1, <2>2, <2>3, OrderlySends
<1> QED BY <1>2, <1>3

LEMMA FlushedIsTyped ==
    ASSUME IInv, NEW next \in Nexts
    PROVE  Flushed(conn, next) \in Seq(Commands)
<1>1. conn \in Seq(Commands) /\ batch.gen \in 0..MaxGen
      /\ batch.evs \in Seq(Events) /\ current \in 0..MaxGen
    BY DEF IInv, ConnType, BatchType, RunType
<1>2. Command("chunk", batch.gen, batch.evs, next) \in Commands
    BY <1>1, CommandIsTyped DEF Kinds
<1> QED BY <1>1, <1>2 DEF Flushed

(***************************************************************************)
(* Steps of the replica.                                                   *)
(***************************************************************************)

\* What is left to show of a step that executes no command.
LEMMA LocalOrder ==
    ASSUME UNCHANGED redisVars,
           Orderly(conn', batch'.gen, batch'.evs, emitted', receipt', mark', claim'),
           ToldInv', NamedInv', ClaimInv'
    PROVE  CInv'
<1>1. published' = published /\ job' = job /\ created' = created
    BY DEF redisVars
<1>2. /\ Line(conn', batch'.gen, batch'.evs, emitted', receipt')
      /\ Drained(conn', emitted', receipt', mark', claim')
      /\ Ahead(batch'.evs) /\ \A i \in DOMAIN conn' : Truthful(conn'[i])
    BY DEF Orderly
<1>3. Line(conn, batch.gen, batch.evs, emitted, receipt)'
    BY <1>2 DEF Line, Waits, Ascending
<1>4. Drained(conn, emitted, receipt, mark, claim)'
    BY <1>2 DEF Drained, Owed
<1>5. Ahead(batch.evs)'
    BY <1>1, <1>2 DEF Ahead, Named, Chunks
<1>6. \A i \in DOMAIN conn' : Truthful(conn[i])'
    BY <1>1, <1>2 DEF Truthful, Ahead, Named, Chunks, Dead, Live
<1> QED BY <1>3, <1>4, <1>5, <1>6 DEF CInv, Orderly

\* Receipts and the log when neither changes.
LEMMA ToldStays ==
    ASSUME ToldInv, NamedInv, UNCHANGED redisVars, UNCHANGED emitVars
    PROVE  ToldInv' /\ NamedInv'
<1>1. /\ published' = published /\ job' = job /\ created' = created
      /\ emitted' = emitted /\ receipt' = receipt
    BY DEF redisVars, emitVars
<1>2. ToldInv'
    BY <1>1 DEF ToldInv, ReceiptsAreTrue, Chunks, Dead, Live
<1>3. NamedInv'
    BY <1>1 DEF NamedInv, EmissionOrder, Named, Chunks
<1> QED BY <1>2, <1>3

LEMMA EmitChunkOrder == ASSUME IInv, CInv, NEW c \in BOOLEAN, EmitChunk(c)
                        PROVE  CInv'
<1> DEFINE e == Len(emitted) + 1
           em == Append(emitted, current)
           rc == Append(receipt, Open)
           Frame(evs) == Command("chunk", current, evs, NoNext)
<1>1. /\ current \in Gens /\ emitted \in Seq(Gens) /\ receipt \in Seq(Receipts)
      /\ Len(receipt) = Len(emitted) /\ Len(emitted) < MaxEvents
      /\ batch.evs \in Seq(Events) /\ conn \in Seq(Commands)
      /\ e \in Events /\ emitted' = em /\ receipt' = rc
    BY BoundsAssumption
    DEF IInv, EmitType, RunType, ConnType, BatchType, EmitChunk, Events
<1>2. /\ DOMAIN receipt = DOMAIN emitted /\ DOMAIN rc = DOMAIN em
      /\ DOMAIN em = DOMAIN emitted \cup {e} /\ e \notin DOMAIN emitted
      /\ em[e] = current /\ rc[e] = Open
      /\ \A x \in DOMAIN emitted : em[x] = emitted[x] /\ rc[x] = receipt[x]
    BY <1>1
<1>3. UNCHANGED redisVars /\ UNCHANGED claimVars
    BY DEF EmitChunk
<1>4. ToldInv' /\ NamedInv' /\ ClaimInv'
    <2>1. /\ published' = published /\ job' = job /\ created' = created
          /\ mark' = mark /\ claim' = claim
        BY <1>3 DEF redisVars, claimVars
    <2>2. ToldInv'
        BY <1>1, <1>2, <2>1
        DEF CInv, ToldInv, ReceiptsAreTrue, Chunks, Dead, Live, Open
    <2>3. NamedInv'
        <3>1. current <= created
            BY DEF IInv, OwnerInv
        <3> QED BY <1>1, <1>2, <2>1, <3>1
                DEF CInv, NamedInv, EmissionOrder, Named, Chunks
    <2>4. \A g \in Gens : mark[g] \in Nat /\ mark[g] <= Len(emitted)
        BY BoundsAssumption DEF IInv, RunType, CInv, ClaimInv
    <2>5. ClaimInv'
        <3>1. \A g \in Gens : 1..mark[g] \subseteq DOMAIN emitted
                              /\ mark[g] <= Len(em)
            BY <1>1, <2>4
        <3> QED BY <1>1, <1>2, <2>1, <3>1 DEF CInv, ClaimInv, TailSurvivesClaim
    <2> QED BY <2>2, <2>3, <2>5
<1> HIDE DEF em, rc, e
<1>5. ASSUME NEW q \in Seq(Commands), NEW evs \in Seq(Events),
             Orderly(q, current, evs, em, rc, mark, claim)
      PROVE  Orderly(Append(q, Frame(evs)), NoGen, <<>>, em, rc, mark, claim)
    <2>1. /\ Frame(evs) \in Commands /\ Frame(evs).kind = "chunk"
          /\ Frame(evs).gen = current /\ Frame(evs).next = NoNext
          /\ Frame(evs).st = "sent"
        BY <1>1, CommandIsTyped, NoNextIsTyped DEF Kinds
    <2>2. Frame(evs).evs = evs
        BY DEF Command
    <2>3. Frame(evs).next.kind # "cas"
        BY <2>1 DEF NoNext
    <2> HIDE DEF Frame
    <2> QED BY <1>2, <1>5, <2>1, <2>2, <2>3, OrderlySends
<1> HIDE DEF Frame
<1>6. ASSUME NEW q \in Seq(Commands), NEW g, NEW evs \in Seq(Events),
             Orderly(q, g, evs, emitted, receipt, mark, claim),
             evs = <<>> \/ g = current
      PROVE  Orderly(q, current, Append(evs, e), em, rc, mark, claim)
    BY <1>1, <1>6, OrderlyGrows DEF CInv, e, em, rc
<1>7. /\ Orderly(Flushed(conn, NoNext), NoGen, <<>>, emitted, receipt, mark,
                 claim)
      /\ Flushed(conn, NoNext) \in Seq(Commands)
    <2>1. NoNext \in Nexts /\ NoNext.kind # "cas"
        BY NoNextIsTyped DEF NoNext
    <2> QED BY <1>2, <2>1, OrderlyFlushes, FlushedIsTyped DEF CInv
<1>8. Orderly(conn', batch'.gen, batch'.evs, em, rc, mark, claim)
    <2>1. CASE SendBarrier(e)
        <3>1. Append(<<>>, e) = <<e>> /\ <<>> \in Seq(Events) /\ <<e>> \in Seq(Events)
            BY <1>1
        <3>2. Orderly(Flushed(conn, NoNext), current, <<e>>, em, rc, mark, claim)
            BY <1>6, <1>7, <3>1
        <3>3. Orderly(Append(Flushed(conn, NoNext), Frame(<<e>>)), NoGen, <<>>,
                      em, rc, mark, claim)
            BY <1>5, <1>7, <3>1, <3>2
        <3> QED BY <2>1, <3>3 DEF SendBarrier, NoBatch, Frame
    <2>2. CASE Enqueue(e)
        <3> DEFINE same == batch.gen = current
                   rest == IF same THEN conn ELSE Flushed(conn, NoNext)
                   evs  == Append(IF same THEN batch.evs ELSE <<>>, e)
        <3>1. /\ rest \in Seq(Commands) /\ evs \in Seq(Events)
              /\ Orderly(rest, current, evs, em, rc, mark, claim)
            <4>1. CASE same
                BY <1>1, <1>6, <4>1 DEF CInv
            <4>2. CASE ~same
                <5>1. <<>> \in Seq(Events)
                    OBVIOUS
                <5>2. Orderly(Flushed(conn, NoNext), current, Append(<<>>, e),
                              em, rc, mark, claim)
                    BY <1>6, <1>7, <5>1
                <5> QED BY <1>1, <1>7, <4>2, <5>1, <5>2
            <4> QED BY <4>1, <4>2
        <3>2. \/ /\ conn' = Append(rest, Frame(evs)) /\ batch' = NoBatch
              \/ conn' = rest /\ batch' = [gen |-> current, evs |-> evs]
            BY <2>2 DEF Enqueue, Frame
        <3> HIDE DEF rest, evs
        <3>3. CASE conn' = Append(rest, Frame(evs)) /\ batch' = NoBatch
            <4>1. Orderly(Append(rest, Frame(evs)), NoGen, <<>>, em, rc, mark, claim)
                BY <1>5, <3>1
            <4> QED BY <3>3, <4>1 DEF NoBatch
        <3>4. CASE conn' = rest /\ batch' = [gen |-> current, evs |-> evs]
            BY <3>1, <3>4
        <3> QED BY <3>2, <3>3, <3>4
    <2> QED BY <2>1, <2>2 DEF EmitChunk, e
<1> QED BY <1>1, <1>3, <1>4, <1>8, LocalOrder DEF claimVars

LEMMA FlushTimerOrder == ASSUME IInv, CInv, FlushTimer PROVE CInv'
<1>1. NoNext \in Nexts /\ NoNext.kind # "cas" /\ DOMAIN receipt = DOMAIN emitted
    BY NoNextIsTyped DEF NoNext, IInv, EmitType
<1>2. Orderly(Flushed(conn, NoNext), NoGen, <<>>, emitted, receipt, mark, claim)
    BY <1>1, OrderlyFlushes DEF CInv
<1>3. /\ conn' = Flushed(conn, NoNext) /\ batch' = NoBatch
      /\ UNCHANGED redisVars /\ UNCHANGED emitVars /\ UNCHANGED claimVars
    BY DEF FlushTimer
<1>4. ToldInv' /\ NamedInv'
    BY <1>3, ToldStays DEF CInv
<1>5. ClaimInv'
    BY <1>3 DEF CInv, ClaimInv, TailSurvivesClaim, emitVars, claimVars
<1> QED BY <1>2, <1>3, <1>4, <1>5, LocalOrder DEF emitVars, claimVars, NoBatch

LEMMA ToldTells ==
    ASSUME NEW evs, NEW st, st # "open", NEW first
    PROVE  /\ Tells(evs, receipt, Told(evs, st, first))
           /\ \A e \in DOMAIN receipt :
                 e \in Range(evs) => Told(evs, st, first)[e].st = st
BY DEF Tells, Told, Range

LEMMA ToldNumbers ==
    ASSUME NEW evs \in Seq(Events), Ascending(evs), NEW st, NEW first,
           NEW k \in DOMAIN evs, evs[k] \in DOMAIN receipt
    PROVE  Told(evs, st, first)[evs[k]] = [st |-> st, seq |-> first + k - 1]
<1>1. \A l \in DOMAIN evs : evs[l] = evs[k] => l = k
    <2> TAKE l \in DOMAIN evs
    <2>1. k \in Nat /\ l \in Nat
        OBVIOUS
    <2>2. evs[k] \in Nat /\ evs[l] \in Nat
        BY EventsAreNumbers DEF Range
    <2>3. k < l \/ l < k \/ l = k
        BY <2>1
    <2> QED BY <2>2, <2>3 DEF Ascending
<1>2. (CHOOSE i \in DOMAIN evs : evs[i] = evs[k]) = k
    BY <1>1
<1> QED BY <1>2 DEF Told

\* Steps that queue a command behind the batch.
LEMMA FlushThenOrder ==
    ASSUME IInv, CInv, NEW kind \in Kinds, NEW gen \in 0..MaxGen,
           NEW by \in 0..MaxGen, FlushThen(kind, gen, by), UNCHANGED redisVars, UNCHANGED emitVars,
           NEW mk, mk = mark', NEW cl, cl = claim',
           kind = "cas" => gen \in Gens /\ cl[gen] # "none",
           Drained(conn, emitted, receipt, mk, cl), ClaimInv'
    PROVE  CInv'
<1>1. /\ conn \in Seq(Commands) /\ DOMAIN receipt = DOMAIN emitted
      /\ emitted' = emitted /\ receipt' = receipt
    BY DEF IInv, ConnType, EmitType, emitVars
<1>2. ToldInv' /\ NamedInv'
    BY ToldStays DEF CInv
<1>3. Orderly(conn, batch.gen, batch.evs, emitted, receipt, mk, cl)
    BY DEF CInv, Orderly
<1>4. Orderly(conn', batch'.gen, batch'.evs, emitted, receipt, mk, cl)
    <2>1. CASE batch = NoBatch
        <3>1. PICK c : c = Bare(kind, gen, by)
            OBVIOUS
        <3>2. conn' = Append(conn, c) /\ batch' = batch
            BY <2>1, <3>1 DEF FlushThen
        <3>3. /\ c \in Commands /\ c.kind = kind /\ c.gen = gen
              /\ c.next = NoNext /\ c.st = "sent" /\ c.evs = <<>>
            BY <3>1, PlainCommand
        <3>4. batch.evs = <<>>
            BY <2>1 DEF NoBatch
        <3>5. \A e \in DOMAIN emitted : receipt[e].st = "open" =>
                  \E j \in DOMAIN conn : e \in Range(conn[j].evs)
            BY <1>1, <1>3, <3>4, RangeOfEmpty DEF Orderly, Line
        <3> QED BY <1>1, <1>3, <3>2, <3>3, <3>5, OrderlyPasses
    <2>2. CASE batch # NoBatch
        <3>1. PICK n : n = [kind |-> kind, gen |-> gen, by |-> by]
            OBVIOUS
        <3>2. n \in Nexts /\ (n.kind = "cas" => n.gen \in Gens /\ cl[n.gen] # "none")
            BY <3>1 DEF Nexts
        <3>3. Orderly(Flushed(conn, n), NoGen, <<>>, emitted, receipt, mk, cl)
            BY <1>1, <1>3, <3>2, OrderlyFlushes
        <3>4. conn' = Flushed(conn, n) /\ batch' = NoBatch
            BY <2>2, <3>1 DEF FlushThen
        <3> QED BY <3>3, <3>4 DEF NoBatch
    <2> QED BY <2>1, <2>2
<1> QED BY <1>1, <1>2, <1>4, LocalOrder

LEMMA ClaimOrder == ASSUME IInv, CInv, NEW g \in Gens, Claim(g) PROVE CInv'
<1>1. /\ emitted \in Seq(Gens) /\ Len(emitted) \in Nat
      /\ claim \in [Gens -> {"none", "sent", "won", "over"}]
      /\ mark \in [Gens -> Nat]
    BY BoundsAssumption DEF IInv, EmitType, RunType
<1>2. /\ claim' = [claim EXCEPT ![g] = "sent"] /\ claim[g] = "none"
      /\ mark' = [mark EXCEPT ![g] = Len(emitted)]
      /\ emitted' = emitted /\ receipt' = receipt
    BY DEF Claim, emitVars
<1>3. PICK mk, cl : mk = mark' /\ cl = claim'
    OBVIOUS
<1>4. Drained(conn, emitted, receipt, mk, cl)
    <2>1. \A h \in Gens : claim[h] # "none" =>
              /\ cl[h] # "none" /\ mk[h] \in Nat /\ mark[h] \in Nat
              /\ mk[h] <= mark[h]
        BY <1>1, <1>2, <1>3
    <2> QED BY <1>1, <2>1, DrainedClaims DEF CInv, Orderly
<1>5. ClaimInv'
    BY <1>1, <1>2 DEF CInv, ClaimInv, TailSurvivesClaim
<1>6. "cas" \in Kinds /\ g \in 0..MaxGen /\ cl[g] # "none"
    BY <1>1, <1>2, <1>3 DEF Kinds
<1>7. /\ FlushThen("cas", g, NoGen) /\ UNCHANGED redisVars /\ UNCHANGED emitVars
      /\ NoGen \in 0..MaxGen
    BY BoundsAssumption DEF Claim
<1> QED BY <1>3, <1>4, <1>5, <1>6, <1>7, FlushThenOrder

LEMMA PublishTerminalOrder ==
    ASSUME IInv, CInv, NEW g \in Gens, PublishTerminal(g) PROVE CInv'
<1>1. /\ emitted \in Seq(Gens) /\ Len(emitted) \in Nat
      /\ claim \in [Gens -> {"none", "sent", "won", "over"}]
      /\ mark \in [Gens -> Nat]
    BY BoundsAssumption DEF IInv, EmitType, RunType
<1>2. /\ claim' = [claim EXCEPT ![g] = "over"]
      /\ mark' = [mark EXCEPT ![g] = 0]
      /\ emitted' = emitted /\ receipt' = receipt
    BY DEF PublishTerminal, emitVars
<1>3. PICK mk, cl : mk = mark' /\ cl = claim'
    OBVIOUS
<1>4. Drained(conn, emitted, receipt, mk, cl)
    <2>1. \A h \in Gens : claim[h] # "none" =>
              /\ cl[h] # "none" /\ mk[h] \in Nat /\ mark[h] \in Nat
              /\ mk[h] <= mark[h]
        BY <1>1, <1>2, <1>3
    <2> QED BY <1>1, <2>1, DrainedClaims DEF CInv, Orderly
<1>5. ClaimInv'
    BY <1>1, <1>2 DEF CInv, ClaimInv, TailSurvivesClaim
<1>6. "done" \in Kinds /\ g \in 0..MaxGen
    BY DEF Kinds
<1>7. /\ FlushThen("done", g, NoGen) /\ UNCHANGED redisVars /\ UNCHANGED emitVars
      /\ NoGen \in 0..MaxGen
    BY BoundsAssumption DEF PublishTerminal
<1> QED BY <1>3, <1>4, <1>5, <1>6, <1>7, FlushThenOrder

\* A flush that is followed by a DONE, and leaves the claims alone.
LEMMA DoneOrder ==
    ASSUME IInv, CInv, NEW kind \in {"done", "replaced"}, NEW gen \in 0..MaxGen,
           NEW by \in 0..MaxGen, FlushThen(kind, gen, by), UNCHANGED redisVars,
           UNCHANGED emitVars, UNCHANGED claimVars
    PROVE  CInv'
<1>1. PICK mk, cl : mk = mark' /\ cl = claim'
    OBVIOUS
<1>2. Drained(conn, emitted, receipt, mk, cl)
    BY <1>1 DEF CInv, Orderly, claimVars
<1>3. ClaimInv'
    BY DEF CInv, ClaimInv, TailSurvivesClaim, claimVars, emitVars
<1>4. kind \in Kinds /\ kind # "cas"
    BY DEF Kinds
<1> QED BY <1>1, <1>2, <1>3, <1>4, FlushThenOrder

LEMMA ReapOrder == ASSUME IInv, CInv, Reap PROVE CInv'
<1>1. current \in 0..MaxGen /\ NoGen \in 0..MaxGen
    BY BoundsAssumption DEF IInv, RunType
<1> QED BY <1>1, DoneOrder DEF Reap

LEMMA HandOffOrder == ASSUME IInv, CInv, NEW p \in Gens, HandOff(p) PROVE CInv'
<1>1. p \in 0..MaxGen /\ job.gen \in 0..MaxGen
    BY DEF IInv, RedisType
<1> QED BY <1>1, DoneOrder DEF HandOff

LEMMA DiscardOrder == ASSUME IInv, CInv, Discard PROVE CInv'
<1>1. /\ receipt \in Seq(Receipts) /\ DOMAIN receipt = DOMAIN emitted
      /\ batch.evs \in Seq(Events) /\ conn \in Seq(Commands)
      /\ emitted \in Seq(Gens)
    BY DEF IInv, EmitType, BatchType, ConnType
<1>2. /\ receipt' = Told(batch.evs, "failed", 1) /\ emitted' = emitted
      /\ batch' = NoBatch /\ conn' = conn /\ mark' = mark /\ claim' = claim
      /\ UNCHANGED redisVars
    BY DEF Discard, claimVars
<1>3. /\ Tells(batch.evs, receipt, receipt')
      /\ \A e \in DOMAIN receipt :
            e \in Range(batch.evs) => receipt'[e].st = "failed"
    BY <1>2, ToldTells
<1>4. PICK rc : rc = receipt'
    OBVIOUS
<1>5. Line(conn, NoGen, <<>>, emitted, rc)
    BY <1>1, <1>3, <1>4, LineDrops, EventsAreNumbers DEF CInv, Orderly
<1>6. \A e \in DOMAIN receipt :
          /\ e \in DOMAIN rc
          /\ rc[e] = receipt[e] \/ rc[e].st = "failed"
    BY <1>3, <1>4 DEF Tells
<1>7. Drained(conn, emitted, rc, mark, claim)
    BY <1>1, <1>6, DrainedDrops DEF CInv, Orderly
<1>8. Ahead(<<>>)
    BY RangeOfEmpty DEF Ahead
<1>9. Orderly(conn', batch'.gen, batch'.evs, emitted', receipt', mark', claim')
    BY <1>2, <1>4, <1>5, <1>7, <1>8 DEF CInv, Orderly, NoBatch
<1>10. DOMAIN rc = DOMAIN receipt
    BY <1>3, <1>4 DEF Tells
<1>11. published' = published /\ job' = job /\ created' = created
    BY <1>2 DEF redisVars
<1>12. ToldInv'
    BY <1>2, <1>4, <1>6, <1>10, <1>11
    DEF CInv, ToldInv, ReceiptsAreTrue, Chunks, Dead, Live
<1>13. NamedInv'
    BY <1>2, <1>11 DEF CInv, NamedInv, EmissionOrder, Named, Chunks
<1>14. ClaimInv'
    <2>1. \A g \in Gens : mark[g] \in Nat /\ mark[g] <= Len(emitted)
        BY BoundsAssumption DEF IInv, RunType, CInv, ClaimInv
    <2>2. \A g \in Gens : \A e \in 1..mark[g] : e \in DOMAIN receipt
        BY <1>1, <2>1
    <2> QED BY <1>2, <1>4, <1>6, <2>2 DEF CInv, ClaimInv, TailSurvivesClaim
<1> QED BY <1>2, <1>9, <1>12, <1>13, <1>14, LocalOrder

LEMMA FailOrder == ASSUME IInv, CInv, Fail PROVE CInv'
<1>1. PICK i \in DOMAIN conn : conn' = [conn EXCEPT ![i].st = "failed"]
    BY DEF Fail
<1>2. /\ batch' = batch /\ emitted' = emitted /\ receipt' = receipt
      /\ mark' = mark /\ claim' = claim
      /\ UNCHANGED redisVars /\ UNCHANGED emitVars
    BY DEF Fail, emitVars, claimVars
<1>3. PICK q : q = conn'
    OBVIOUS
<1>4. /\ conn \in Seq(Commands) /\ DOMAIN q = DOMAIN conn
      /\ \A j \in DOMAIN conn :
            /\ q[j].evs = conn[j].evs /\ q[j].gen = conn[j].gen
            /\ q[j].kind = conn[j].kind /\ q[j].next = conn[j].next
            /\ q[j] = conn[j] \/ q[j].st = "failed"
    <2>1. conn \in Seq(Commands) /\ DOMAIN q = DOMAIN conn
        BY <1>1, <1>3 DEF IInv, ConnType
    <2>2. \A j \in DOMAIN conn : j # i => q[j] = conn[j]
        BY <1>1, <1>3, <2>1
    <2>3. q[i] = [conn[i] EXCEPT !.st = "failed"] /\ conn[i] \in Commands
        BY <1>1, <1>3, <2>1
    <2>4. /\ q[i].evs = conn[i].evs /\ q[i].gen = conn[i].gen
          /\ q[i].kind = conn[i].kind /\ q[i].next = conn[i].next
          /\ q[i].st = "failed"
        BY <2>3 DEF Commands
    <2> QED BY <2>1, <2>2, <2>4
<1>5. Line(q, batch.gen, batch.evs, emitted, receipt)
    BY <1>4, LineIgnoresOutcomes DEF CInv, Orderly
<1>6. Drained(q, emitted, receipt, mark, claim)
    BY <1>4, DrainedExecutes DEF CInv, Orderly
<1>7. \A j \in DOMAIN q : Truthful(q[j])
    BY <1>4 DEF CInv, Orderly, Truthful
<1>8. ToldInv' /\ NamedInv'
    BY <1>2, ToldStays DEF CInv
<1>9. ClaimInv'
    BY <1>2 DEF CInv, ClaimInv, TailSurvivesClaim
<1>10. Orderly(q, batch.gen, batch.evs, emitted, receipt, mark, claim)
    BY <1>5, <1>6, <1>7 DEF CInv, Orderly
<1> QED BY <1>2, <1>3, <1>8, <1>9, <1>10, LocalOrder

LEMMA ReplyOrder == ASSUME IInv, CInv, Reply PROVE CInv'
<1> DEFINE c == Head(conn)
           r == Tail(conn)
<1>1. /\ conn \in Seq(Commands) /\ conn # <<>> /\ c \in Commands
      /\ r \in Seq(Commands) /\ 1 \in DOMAIN conn /\ conn[1] = c
      /\ \A i \in DOMAIN r : i + 1 \in DOMAIN conn /\ r[i] = conn[i + 1]
      /\ \A i \in DOMAIN conn : i \in Nat \ {0}
    <2>1. conn \in Seq(Commands) /\ conn # <<>>
        BY DEF Reply, IInv, ConnType
    <2> QED BY <2>1
<1>2. /\ c.st \in {"ok", "fenced", "failed"} /\ c.evs \in Seq(Events)
      /\ c.seq \in Nat
    BY <1>1, CommandFields DEF Reply, Outcomes
<1>3. /\ conn' = FollowUp(c) /\ batch' = batch /\ emitted' = emitted
      /\ mark' = mark /\ UNCHANGED redisVars
    BY DEF Reply
<1>4. \/ c.kind = "chunk" /\ ChunkReply(c)
      \/ c.kind = "cas" /\ CasReply(c)
      \/ c.kind \notin {"chunk", "cas"} /\ OtherReply
    BY DEF Reply
<1>5. /\ receipt \in Seq(Receipts) /\ DOMAIN receipt = DOMAIN emitted
      /\ emitted \in Seq(Gens) /\ batch.evs \in Seq(Events)
      /\ claim \in [Gens -> {"none", "sent", "won", "over"}]
    BY DEF IInv, EmitType, BatchType, RunType
<1>6. /\ Line(conn, batch.gen, batch.evs, emitted, receipt)
      /\ Drained(conn, emitted, receipt, mark, claim)
      /\ Ahead(batch.evs) /\ \A i \in DOMAIN conn : Truthful(conn[i])
    BY DEF CInv, Orderly
<1>7. /\ Waits(c.evs, c.gen, emitted, receipt) /\ Truthful(c)
      /\ c.kind # "chunk" => c.evs = <<>>
    BY <1>1, <1>6 DEF Line
<1> HIDE DEF c, r
<1>8. PICK rc, cl : rc = receipt' /\ cl = claim'
    OBVIOUS
<1>9. /\ Tells(c.evs, receipt, rc)
      /\ \A e \in DOMAIN receipt :
            e \in Range(c.evs) => c.kind = "chunk" /\ rc[e].st = c.st
    <2>1. CASE c.kind = "chunk"
        <3>1. rc = Told(c.evs, c.st, c.seq)
            BY <1>4, <1>8, <2>1 DEF ChunkReply
        <3> QED BY <1>2, <2>1, <3>1, ToldTells
    <2>2. CASE c.kind # "chunk"
        <3>1. rc = receipt /\ c.evs = <<>>
            BY <1>4, <1>7, <1>8, <2>2 DEF CasReply, OtherReply
        <3> QED BY <3>1, RangeOfEmpty DEF Tells
    <2> QED BY <2>1, <2>2
<1>10. DOMAIN rc = DOMAIN receipt
       /\ \A e \in DOMAIN receipt : e \notin Range(c.evs) => rc[e] = receipt[e]
    BY <1>9 DEF Tells
<1>11. Line(r, batch.gen, batch.evs, emitted, rc)
    BY <1>1, <1>5, <1>6, <1>9, LineSettles DEF c, r
<1>12. Drained(r, emitted, rc, mark, claim)
    <2>1. c.st # "fenced" =>
              \A e \in DOMAIN receipt : receipt[e].st = "open" => rc[e].st # "fenced"
        BY <1>9, <1>10
    <2> QED BY <1>1, <1>5, <1>6, <1>9, <2>1, DrainedSettles DEF c, r
<1>13. \A h \in Gens : claim[h] # "none" => cl[h] # "none"
    BY <1>4, <1>5, <1>8 DEF ChunkReply, CasReply, OtherReply
<1>14. Drained(r, emitted, rc, mark, cl)
    <2>1. \A h \in Gens : mark[h] \in Nat /\ mark[h] <= mark[h]
        BY BoundsAssumption DEF IInv, RunType
    <2> QED BY <1>5, <1>12, <1>13, <2>1, DrainedClaims
<1>15. Orderly(r, batch.gen, batch.evs, emitted, rc, mark, cl)
    BY <1>1, <1>6, <1>11, <1>14 DEF Orderly
<1>16. Orderly(conn', batch'.gen, batch'.evs, emitted', receipt', mark', claim')
    <2>1. ASSUME NEW kind \in Kinds, NEW gen \in 0..MaxGen, NEW by \in 0..MaxGen,
                 kind = "cas" => c.next.kind = "cas" /\ gen = c.next.gen
          PROVE  Orderly(Append(r, Bare(kind, gen, by)), batch.gen, batch.evs,
                         emitted, rc, mark, cl)
        <3>1. PICK d : d = Bare(kind, gen, by)
            OBVIOUS
        <3>2. /\ d \in Commands /\ d.kind = kind /\ d.gen = gen
              /\ d.next = NoNext /\ d.st = "sent" /\ d.evs = <<>>
            BY <3>1, PlainCommand
        <3>3. ASSUME d.kind = "cas"
              PROVE  /\ d.gen \in Gens /\ cl[d.gen] # "none"
                     /\ \A e \in DOMAIN emitted :
                           Owed(e, d.gen, emitted, mark) => rc[e].st # "open"
            <4>1. conn[1].next.kind = "cas" /\ conn[1].next.gen = d.gen
                BY <1>1, <2>1, <3>2, <3>3
            <4>2. d.gen \in Gens /\ cl[d.gen] # "none"
                BY <1>1, <1>6, <1>13, <4>1 DEF Drained
            <4>3. ASSUME NEW e \in DOMAIN emitted, Owed(e, d.gen, emitted, mark),
                         rc[e].st = "open"
                  PROVE  FALSE
                <5>1. receipt[e].st = "open" /\ e \notin Range(c.evs)
                    BY <1>2, <1>5, <1>9, <1>10, <4>3
                <5>2. PICK j \in DOMAIN conn : j <= 1 /\ e \in Range(conn[j].evs)
                    BY <1>1, <1>6, <4>1, <4>3, <5>1 DEF Drained
                <5>3. j = 1
                    BY <1>1, <5>2
                <5> QED BY <1>1, <5>1, <5>2, <5>3
            <4> QED BY <4>2, <4>3
        <3> QED BY <1>1, <1>5, <1>10, <1>15, <3>1, <3>2, <3>3, OrderlyPasses
    <2>2. Orderly(FollowUp(c), batch.gen, batch.evs, emitted, rc, mark, cl)
        <3>1. CASE c.next.kind # "none"
            <4>1. /\ c.next.kind \in Kinds /\ c.next.gen \in 0..MaxGen
                  /\ c.next.by \in 0..MaxGen
                BY <1>1, <3>1, CommandFields
            <4> QED BY <2>1, <3>1, <4>1 DEF FollowUp, r
        <3>2. CASE c.next.kind = "none" /\ c.kind = "replaced" /\ c.st = "ok"
            <4>1. "ack" \in Kinds /\ c.gen \in 0..MaxGen /\ c.by \in 0..MaxGen
                BY <1>1, CommandFields DEF Kinds
            <4> QED BY <2>1, <3>2, <4>1 DEF FollowUp, r
        <3>3. CASE c.next.kind = "none" /\ ~(c.kind = "replaced" /\ c.st = "ok")
            BY <1>15, <3>3 DEF FollowUp, r
        <3> QED BY <3>1, <3>2, <3>3
    <2> QED BY <1>3, <1>8, <2>2
<1>17. published' = published /\ job' = job /\ created' = created
    BY <1>3 DEF redisVars
<1>18. ToldInv'
    <2>1. ASSUME NEW e \in DOMAIN rc
          PROVE  /\ rc[e].st = "ok" =>
                       [seq |-> rc[e].seq, kind |-> "chunk", gen |-> emitted[e],
                        ev |-> e] \in published
                 /\ rc[e].st = "fenced" => /\ Dead(emitted[e])
                                           /\ \A p \in Chunks : p.ev # e
        <3>1. CASE e \in Range(c.evs)
            <4>1. PICK k \in DOMAIN c.evs : c.evs[k] = e
                BY <3>1 DEF Range
            <4>2. c.kind = "chunk" /\ rc[e].st = c.st /\ emitted[e] = c.gen
                BY <1>7, <1>9, <1>10, <2>1, <3>1 DEF Waits
            <4>3. rc = Told(c.evs, c.st, c.seq)
                BY <1>4, <1>8, <4>2 DEF ChunkReply
            <4>4. rc[e] = [st |-> c.st, seq |-> c.seq + k - 1]
                BY <1>2, <1>7, <1>10, <2>1, <4>1, <4>3, ToldNumbers DEF Waits
            <4>5. rc[e].st = "ok" =>
                      [seq |-> rc[e].seq, kind |-> "chunk", gen |-> emitted[e],
                       ev |-> e] \in published
                BY <1>7, <4>1, <4>2, <4>4 DEF Truthful
            <4>6. ASSUME rc[e].st = "fenced"
                  PROVE  Dead(emitted[e]) /\ \A p \in Chunks : p.ev # e
                <5>1. Dead(emitted[e]) /\ \A p \in Named : p.ev # e
                    BY <1>7, <3>1, <4>2, <4>6 DEF Truthful
                <5>2. e > 0
                    BY <1>1, <1>5, <1>10, <2>1
                <5> QED BY <5>1, <5>2 DEF Named
            <4> QED BY <4>5, <4>6
        <3>2. CASE e \notin Range(c.evs)
            BY <1>10, <2>1, <3>2 DEF CInv, ToldInv, ReceiptsAreTrue
        <3> QED BY <3>1, <3>2
    <2> QED BY <1>3, <1>8, <1>17, <2>1
            DEF ToldInv, ReceiptsAreTrue, Chunks, Dead, Live
<1>19. NamedInv'
    BY <1>3, <1>17 DEF CInv, NamedInv, EmissionOrder, Named, Chunks
<1>20. ClaimInv'
    <2>1. \A g \in Gens : mark[g] \in Nat /\ mark[g] <= Len(emitted)
        BY BoundsAssumption DEF IInv, RunType, CInv, ClaimInv
    <2>2. ASSUME NEW g \in Gens, cl[g] = "won", NEW e \in 1..mark[g],
                 emitted[e] = g
          PROVE  rc[e].st \in {"ok", "failed"}
        <3>1. e \in DOMAIN emitted /\ e \in DOMAIN receipt
            BY <1>5, <2>1, <2>2
        <3>2. CASE claim[g] = "won"
            <4>1. receipt[e].st \in {"ok", "failed"}
                BY <2>2, <3>2 DEF CInv, ClaimInv, TailSurvivesClaim
            <4>2. e \notin Range(c.evs)
                BY <1>7, <4>1 DEF Waits
            <4> QED BY <1>10, <3>1, <4>1, <4>2
        <3>3. CASE claim[g] # "won"
            <4>1. /\ c.kind = "cas" /\ c.gen = g /\ c.st = "ok" /\ rc = receipt
                BY <1>4, <1>5, <1>8, <2>2, <3>3
                DEF ChunkReply, CasReply, OtherReply
            <4>2. Owed(e, g, emitted, mark)
                BY <2>1, <2>2, <3>1 DEF Owed
            <4>3. receipt[e].st # "fenced"
                BY <1>1, <1>6, <3>1, <4>1, <4>2 DEF Drained
            <4>4. receipt[e].st # "open"
                <5>1. \A j \in DOMAIN conn : ~(j < 1)
                    BY <1>1
                <5> QED BY <1>1, <1>6, <3>1, <4>1, <4>2, <5>1 DEF Drained
            <4>5. receipt[e].st \in {"open", "ok", "fenced", "failed"}
                <5>1. receipt[e] \in Receipts
                    BY <1>5, <3>1
                <5> QED BY <5>1 DEF Receipts
            <4> QED BY <4>1, <4>3, <4>4, <4>5
        <3> QED BY <3>2, <3>3
    <2> QED BY <1>3, <1>8, <2>1, <2>2 DEF ClaimInv, TailSurvivesClaim
<1> QED BY <1>3, <1>16, <1>18, <1>19, <1>20, LocalOrder

(***************************************************************************)
(* Steps of Redis.                                                         *)
(***************************************************************************)

\* A step that numbers no chunk of this replica, and may settle the outcome of
\* commands.
LEMMA QuietOrder ==
    ASSUME IInv, RedisType', CInv, UNCHANGED batch, UNCHANGED emitVars,
           UNCHANGED claimVars,
           \A g : Dead(g) => Dead(g)', created <= created',
           published \subseteq published', Named' = Named,
           DOMAIN conn' = DOMAIN conn,
           Line(conn', batch.gen, batch.evs, emitted, receipt),
           Drained(conn', emitted, receipt, mark, claim),
           \A i \in DOMAIN conn : conn'[i] = conn[i] \/ Truthful(conn'[i])
    PROVE  CInv'
<1>1. /\ batch' = batch /\ emitted' = emitted /\ receipt' = receipt
      /\ mark' = mark /\ claim' = claim
    BY DEF emitVars, claimVars
<1>2. Line(conn, batch.gen, batch.evs, emitted, receipt)'
    BY <1>1 DEF Line, Waits, Ascending
<1>3. Drained(conn, emitted, receipt, mark, claim)'
    BY <1>1 DEF Drained, Owed
<1>4. Ahead(batch.evs)'
    BY <1>1 DEF CInv, Orderly, Ahead
<1>5. ASSUME NEW i \in DOMAIN conn' PROVE Truthful(conn[i])'
    <2>1. Truthful(conn'[i])
        BY DEF CInv, Orderly
    <2>2. PICK c : c = conn'[i]
        OBVIOUS
    <2>3. Dead(c.gen) => Dead(c.gen)'
        OBVIOUS
    <2>4. Dead(c.gen)' => Dead(conn[i].gen)'
        BY <2>2 DEF Dead, Live
    <2> QED BY <2>1, <2>2, <2>3, <2>4 DEF Truthful, Ahead
<1>6. \A p \in Chunks' : p.ev > 0 => p \in Named
    BY DEF Named
<1>7. ToldInv'
    <2>1. \A e \in DOMAIN receipt : e \in Nat \ {0}
        BY DEF IInv, EmitType
    <2>2. ASSUME NEW e \in DOMAIN receipt, receipt[e].st = "fenced",
                 NEW p \in Chunks'
          PROVE  p.ev # e
        <3>1. CASE p \in Named
            <4>1. p \in Chunks
                BY <3>1 DEF Named
            <4> QED BY <2>2, <4>1 DEF CInv, ToldInv, ReceiptsAreTrue
        <3>2. CASE p \notin Named
            BY <1>6, <2>1, <3>2
        <3> QED BY <3>1, <3>2
    <2>3. ASSUME NEW e \in DOMAIN receipt, receipt[e].st = "fenced"
          PROVE  Dead(emitted[e])'
        <3>1. PICK g : g = emitted[e]
            OBVIOUS
        <3>2. Dead(g)'
            BY <2>3, <3>1 DEF CInv, ToldInv
        <3> QED BY <1>1, <3>1, <3>2 DEF Dead, Live
    <2> QED BY <1>1, <2>2, <2>3 DEF CInv, ToldInv, ReceiptsAreTrue
<1>8. NamedInv'
    <2>1. \A e \in DOMAIN emitted : emitted[e] <= created'
        <3>1. \A e \in DOMAIN emitted : emitted[e] \in Nat
            <4>1. emitted \in Seq(Gens)
                BY DEF IInv, EmitType
            <4>2. \A e \in DOMAIN emitted : emitted[e] \in Gens
                BY <4>1, ElementOfSeq
            <4> QED BY <4>2
        <3>2. created \in Nat /\ created' \in Nat
            BY BoundsAssumption DEF IInv, RedisType
        <3> QED BY <3>1, <3>2 DEF CInv, NamedInv
    <2>2. EmissionOrder'
        <3> SUFFICES ASSUME NEW p \in Chunks', NEW d \in Chunks',
                            p.ev > 0, p.ev <= d.ev
                     PROVE  p.seq < d.seq \/ p = d
            BY DEF EmissionOrder
        <3>1. p.ev \in Nat /\ d.ev \in Nat
            BY BoundsAssumption DEF RedisType, Chunks, Entries
        <3>2. p \in Chunks /\ d \in Chunks
            BY <1>6, <3>1 DEF Named
        <3> QED BY <3>2 DEF CInv, NamedInv, EmissionOrder
    <2> QED BY <1>1, <2>1, <2>2 DEF CInv, NamedInv
<1>9. ClaimInv'
    BY <1>1 DEF CInv, ClaimInv, TailSurvivesClaim
<1> QED BY <1>2, <1>3, <1>4, <1>5, <1>7, <1>8, <1>9 DEF CInv, Orderly

\* What other replicas publish, and every DONE, is no chunk of this replica.
LEMMA NothingNamed ==
    ASSUME NEW kind, NEW g, Sequence(kind, g, << 0 >>)
    PROVE  published \subseteq published' /\ Named' = Named
<1> DEFINE d == [seq |-> counter + 1 - 1, kind |-> kind, gen |-> g, ev |-> 0]
<1>1. published' = published \cup {d} /\ d.ev = 0
    BY DEF Sequence
<1> QED BY <1>1 DEF Named, Chunks

\* A step that the connection has no part in.
LEMMA OutsideOrder ==
    ASSUME IInv, RedisType', CInv, UNCHANGED <<batch, conn>>,
           UNCHANGED emitVars, UNCHANGED claimVars,
           \A g : Dead(g) => Dead(g)', created <= created',
           published \subseteq published', Named' = Named
    PROVE  CInv'
<1>1. /\ conn' = conn
      /\ Line(conn, batch.gen, batch.evs, emitted, receipt)
      /\ Drained(conn, emitted, receipt, mark, claim)
    BY DEF CInv, Orderly
<1> QED BY <1>1, QuietOrder

LEMMA CreateJobOrder ==
    ASSUME IInv, RedisType', CInv, NEW here \in BOOLEAN, CreateJob(here)
    PROVE  CInv'
<1>1. /\ created \in 0..MaxGen /\ created' = created + 1
      /\ job' = [gen |-> created', active |-> TRUE] /\ published' = published
    BY DEF CreateJob, IInv, RedisType
<1>2. \A g : Dead(g) => Dead(g)'
    BY <1>1, BoundsAssumption DEF Dead, Live
<1>3. Named' = Named /\ published \subseteq published' /\ created <= created'
    BY <1>1 DEF Named, Chunks
<1> QED BY <1>2, <1>3, OutsideOrder DEF CreateJob

\* Other steps of Redis that no command of the replica causes.
LEMMA OthersOrder ==
    ASSUME IInv, RedisType', CInv, Others PROVE CInv'
<1>1. created' = created /\ created <= created' /\ UNCHANGED <<batch, conn>>
      /\ UNCHANGED emitVars /\ UNCHANGED claimVars
    BY BoundsAssumption
    DEF Others, RemoteChunk, RemoteClaim, RemoteDone, JobGone, EpochGone,
        IInv, RedisType
<1>2. \A g : Dead(g) => Dead(g)'
    <2>1. CASE job' = job
        BY <1>1, <2>1 DEF Dead, Live
    <2>2. CASE RemoteClaim \/ JobGone
        <3>1. job' = [job EXCEPT !.active = FALSE]
              \/ job' = [gen |-> NoGen, active |-> FALSE]
            BY <2>2 DEF RemoteClaim, JobGone
        <3>2. ~job'.active
            BY <3>1 DEF IInv, RedisType
        <3> QED BY <1>1, <3>2 DEF Dead, Live
    <2> QED BY <2>1, <2>2 DEF Others, RemoteChunk, RemoteDone, EpochGone
<1>3. published \subseteq published' /\ Named' = Named
    <2>1. CASE published' = published
        BY <2>1 DEF Named, Chunks
    <2>2. CASE \E kind, g : Sequence(kind, g, << 0 >>)
        BY <2>2, NothingNamed
    <2> QED BY <2>1, <2>2
            DEF Others, RemoteChunk, RemoteClaim, RemoteDone, JobGone, EpochGone
<1> QED BY <1>1, <1>2, <1>3, OutsideOrder

LEMMA RemoteHandOffOrder ==
    ASSUME IInv, RedisType', CInv, NEW p \in Gens, RemoteHandOff(p) PROVE CInv'
<1>1. published \subseteq published' /\ Named' = Named
    BY NothingNamed DEF RemoteHandOff
<1>2. created' = created /\ created <= created' /\ \A g : Dead(g) => Dead(g)'
    BY BoundsAssumption DEF RemoteHandOff, Dead, Live, IInv, RedisType
<1> QED BY <1>1, <1>2, OutsideOrder DEF RemoteHandOff

\* Steps that only change which runtime the replica has.
LEMMA RuntimeOrder ==
    ASSUME CInv, UNCHANGED redisVars, UNCHANGED emitVars, UNCHANGED claimVars,
           UNCHANGED <<conn, batch>>
    PROVE  CInv'
<1>1. ToldInv' /\ NamedInv'
    BY ToldStays DEF CInv
<1>2. ClaimInv'
    BY DEF CInv, ClaimInv, TailSurvivesClaim, claimVars, emitVars
<1>3. Orderly(conn', batch'.gen, batch'.evs, emitted', receipt', mark', claim')
    BY DEF CInv, claimVars, emitVars
<1> QED BY <1>1, <1>2, <1>3, LocalOrder

(***************************************************************************)
(* Commands executed.                                                      *)
(***************************************************************************)

\* Command i is executed with outcome st, and nothing else changes in the queue.
Outcome(q, r, i, st) ==
    /\ DOMAIN r = DOMAIN q
    /\ \A j \in DOMAIN q : /\ r[j].evs = q[j].evs /\ r[j].gen = q[j].gen
                           /\ r[j].kind = q[j].kind /\ r[j].next = q[j].next
                           /\ j # i => r[j] = q[j]
    /\ r[i].st = st

LEMMA OutcomeIsSet ==
    ASSUME NEW q \in Seq(Commands), NEW i \in DOMAIN q, NEW r, NEW st, NEW c,
           c \in {[q[i] EXCEPT !.st = st], [q[i] EXCEPT !.st = st, !.seq = counter]},
           r = [q EXCEPT ![i] = c]
    PROVE  Outcome(q, r, i, st)
<1>1. q[i] \in Commands
    OBVIOUS
<1>2. /\ c.evs = q[i].evs /\ c.gen = q[i].gen /\ c.kind = q[i].kind
      /\ c.next = q[i].next /\ c.st = st
    BY <1>1 DEF Commands
<1>3. /\ DOMAIN r = DOMAIN q /\ r[i] = c
      /\ \A j \in DOMAIN q : j # i => r[j] = q[j]
    OBVIOUS
<1> QED BY <1>2, <1>3 DEF Outcome

\* A command that numbers no chunk of this replica: chunks that it carries are
\* refused for good, and a terminal CAS that it succeeds with finds nothing
\* that is owed refused or on its way to be.
LEMMA ExecutedOrder ==
    ASSUME IInv, RedisType', CInv, UNCHANGED batch, UNCHANGED emitVars,
           UNCHANGED claimVars,
           \A g : Dead(g) => Dead(g)', created <= created',
           published \subseteq published', Named' = Named,
           NEW i \in DOMAIN conn, conn[i].st = "sent",
           \A j \in 1..(i - 1) : conn[j].st # "sent",
           NEW st \in {"ok", "fenced"}, Outcome(conn, conn', i, st),
           conn[i].kind = "chunk" => st = "fenced" /\ ~Live(conn[i].gen),
           conn[i].kind = "cas" /\ st = "ok" => Live(conn[i].gen)
    PROVE  CInv'
<1>1. PICK q : q = conn'
    OBVIOUS
<1>2. /\ DOMAIN q = DOMAIN conn /\ q[i].st = st
      /\ \A j \in DOMAIN conn :
            /\ q[j].evs = conn[j].evs /\ q[j].gen = conn[j].gen
            /\ q[j].kind = conn[j].kind /\ q[j].next = conn[j].next
            /\ j # i => q[j] = conn[j]
    BY <1>1 DEF Outcome
<1>3. /\ conn \in Seq(Commands) /\ emitted \in Seq(Gens)
      /\ DOMAIN receipt = DOMAIN emitted
      /\ \A j \in DOMAIN conn : conn[j] \in Commands /\ j \in Nat \ {0}
    BY DEF IInv, ConnType, EmitType
<1>4. /\ Line(conn, batch.gen, batch.evs, emitted, receipt)
      /\ Drained(conn, emitted, receipt, mark, claim)
      /\ \A j \in DOMAIN conn : Truthful(conn[j])
    BY DEF CInv, Orderly
<1>5. Line(q, batch.gen, batch.evs, emitted, receipt)
    BY <1>2, <1>4, LineIgnoresOutcomes
<1>6. Drained(q, emitted, receipt, mark, claim)
    <2>1. ASSUME NEW k \in DOMAIN conn, q[k].kind = "cas", q[k].st = "ok",
                 conn[k].st # "ok",
                 NEW e \in DOMAIN emitted, Owed(e, q[k].gen, emitted, mark)
          PROVE  /\ receipt[e].st # "fenced"
                 /\ receipt[e].st = "open" => \A j \in DOMAIN conn :
                       j < k /\ e \in Range(conn[j].evs) =>
                           q[j].st \in {"ok", "failed"}
        <3>1. k = i /\ Live(emitted[e]) /\ conn[i].kind = "cas"
            BY <1>2, <2>1 DEF Owed
        <3>2. receipt[e].st # "fenced"
            BY <1>3, <3>1 DEF CInv, ToldInv, Dead
        <3>3. ASSUME NEW j \in DOMAIN conn, j < k, e \in Range(conn[j].evs)
              PROVE  q[j].st \in {"ok", "failed"}
            <4>1. q[j] = conn[j] /\ conn[j].st # "sent" /\ conn[j].st \in Outcomes
                BY <1>2, <1>3, <3>1, <3>3, CommandFields
            <4>2. conn[j].gen = emitted[e] /\ conn[j].kind = "chunk"
                BY <1>4, <3>3, RangeOfEmpty DEF Line, Waits
            <4>3. conn[j].st # "fenced"
                BY <1>4, <3>1, <3>3, <4>2 DEF Truthful, Dead
            <4> QED BY <4>1, <4>3 DEF Outcomes
        <3> QED BY <3>2, <3>3
    <2>2. \A j \in DOMAIN conn :
              conn[j].st \in {"ok", "failed"} => q[j].st \in {"ok", "failed"}
        BY <1>2
    <2> QED BY <1>2, <1>3, <1>4, <2>1, <2>2, DrainedExecutes
<1>7. Truthful(q[i])
    <2>1. ASSUME conn[i].kind = "chunk", NEW e \in Range(conn[i].evs)
          PROVE  Dead(conn[i].gen) /\ \A p \in Named : p.ev # e
        <3>1. e \in DOMAIN emitted /\ emitted[e] = conn[i].gen
            BY <1>4, <2>1 DEF Line, Waits
        <3>2. emitted[e] \in Gens /\ emitted[e] <= created /\ created \in Nat
            BY <1>3, <3>1, BoundsAssumption, ElementOfSeq
            DEF CInv, NamedInv, IInv, RedisType
        <3>3. conn[i].gen \in 1..created
            BY <3>1, <3>2
        <3>4. \A p \in Named : p.ev < e
            BY <1>4, <2>1 DEF Truthful, Ahead
        <3>5. e \in Nat /\ \A p \in Named : p.ev \in Nat
            BY <1>3, <2>1, CommandFields, BoundsAssumption
            DEF Named, Chunks, IInv, RedisType, Entries
        <3> QED BY <2>1, <3>3, <3>4, <3>5 DEF Dead
    <2>2. /\ q[i].evs = conn[i].evs /\ q[i].gen = conn[i].gen
          /\ q[i].kind = conn[i].kind
          /\ q[i].st # "sent" /\ (q[i].kind = "chunk" => q[i].st = "fenced")
        BY <1>2
    <2> QED BY <2>1, <2>2 DEF Truthful
<1>8. \A j \in DOMAIN conn : q[j] = conn[j] \/ Truthful(q[j])
    BY <1>2, <1>7
<1> QED BY <1>1, <1>2, <1>5, <1>6, <1>8, QuietOrder

\* A frame of chunks of the live generation is numbered.
LEMMA ChunksOrder ==
    ASSUME IInv, RedisType', CInv, UNCHANGED batch, UNCHANGED emitVars,
           UNCHANGED claimVars, UNCHANGED <<job, created>>,
           NEW i \in DOMAIN conn, conn[i].st = "sent", conn[i].kind = "chunk",
           \A j \in 1..(i - 1) : conn[j].st # "sent", Live(conn[i].gen),
           Outcome(conn, conn', i, "ok"), conn'[i].seq = counter,
           Sequence("chunk", conn[i].gen, conn[i].evs)
    PROVE  CInv'
<1>1. PICK q, c : q = conn' /\ c = conn[i]
    OBVIOUS
<1>2. /\ DOMAIN q = DOMAIN conn /\ q[i].st = "ok" /\ q[i].seq = counter
      /\ \A j \in DOMAIN conn :
            /\ q[j].evs = conn[j].evs /\ q[j].gen = conn[j].gen
            /\ q[j].kind = conn[j].kind /\ q[j].next = conn[j].next
            /\ j # i => q[j] = conn[j]
    BY <1>1 DEF Outcome
<1>3. /\ conn \in Seq(Commands) /\ emitted \in Seq(Gens)
      /\ DOMAIN receipt = DOMAIN emitted /\ counter \in Nat
      /\ \A j \in DOMAIN conn : conn[j] \in Commands /\ j \in Nat \ {0}
      /\ c \in Commands /\ published \subseteq Entries
    BY <1>1 DEF IInv, ConnType, EmitType, RedisType
<1>4. /\ batch' = batch /\ emitted' = emitted /\ receipt' = receipt
      /\ mark' = mark /\ claim' = claim /\ job' = job /\ created' = created
    BY DEF emitVars, claimVars
<1>5. /\ Line(conn, batch.gen, batch.evs, emitted, receipt)
      /\ Drained(conn, emitted, receipt, mark, claim)
      /\ Ahead(batch.evs) /\ \A j \in DOMAIN conn : Truthful(conn[j])
    BY DEF CInv, Orderly
<1>6. /\ Waits(c.evs, c.gen, emitted, receipt) /\ Ahead(c.evs)
      /\ c.evs \in Seq(Events) /\ Range(c.evs) \subseteq Nat \ {0}
    <2>1. Range(c.evs) \subseteq Events /\ c.evs \in Seq(Events)
        BY <1>3, CommandFields, RangeIsTyped
    <2>2. Range(c.evs) \subseteq Nat \ {0}
        BY <2>1, BoundsAssumption DEF Events
    <2> QED BY <1>1, <1>5, <2>1, <2>2 DEF Line, Truthful
<1> DEFINE Frame == {[seq |-> counter + k - 1, kind |-> "chunk", gen |-> c.gen,
                      ev |-> c.evs[k]] : k \in DOMAIN c.evs}
<1>7. published' = published \cup Frame
    BY <1>1 DEF Sequence
<1>8. \A p \in Frame : /\ p.kind = "chunk" /\ p.gen = c.gen
                       /\ p.ev \in Range(c.evs)
                       /\ \E k \in DOMAIN c.evs :
                             p.ev = c.evs[k] /\ p.seq = counter + k - 1
    BY DEF Range
<1>9. \A k \in DOMAIN c.evs : [seq |-> counter + k - 1, kind |-> "chunk",
                               gen |-> c.gen, ev |-> c.evs[k]] \in Frame
    OBVIOUS
<1> HIDE DEF Frame
<1>10. Named' = Named \cup Frame /\ Chunks' = Chunks \cup Frame
    <2>1. \A p \in Frame : p.ev > 0
        BY <1>6, <1>8
    <2> QED BY <1>7, <1>8, <2>1 DEF Named, Chunks
<1>11. \A s : Below(c.evs, s) /\ Ahead(s) => Ahead(s)'
    BY <1>8, <1>10 DEF Ahead, Below
<1>12. \A g : Dead(g)' <=> Dead(g)
    BY <1>4 DEF Dead, Live
<1>13. \A e \in DOMAIN emitted : Dead(emitted[e]) => \A p \in Frame : p.ev # e
    BY <1>1, <1>6, <1>8 DEF Waits, Dead
<1>14. Line(conn, batch.gen, batch.evs, emitted, receipt)'
    <2>1. Line(q, batch.gen, batch.evs, emitted, receipt)
        BY <1>2, <1>5, LineIgnoresOutcomes
    <2> QED BY <1>1, <1>4, <2>1 DEF Line, Waits, Ascending
<1>15. Drained(conn, emitted, receipt, mark, claim)'
    <2>1. \A j \in DOMAIN conn :
              conn[j].st \in {"ok", "failed"} => q[j].st \in {"ok", "failed"}
        BY <1>2
    <2>2. \A k \in DOMAIN conn : q[k].kind = "cas" => q[k].st = conn[k].st
        BY <1>1, <1>2
    <2>3. Drained(q, emitted, receipt, mark, claim)
        BY <1>2, <1>3, <1>5, <2>1, <2>2, DrainedExecutes
    <2> QED BY <1>1, <1>4, <2>3 DEF Drained, Owed
<1>16. Ahead(batch.evs)'
    <2>1. Below(c.evs, batch.evs)
        BY <1>1, <1>5 DEF Line
    <2>2. PICK s : s = batch.evs
        OBVIOUS
    <2>3. Ahead(s)'
        BY <1>5, <1>11, <2>1, <2>2
    <2> QED BY <1>4, <2>2, <2>3 DEF Ahead
<1>17. ASSUME NEW j \in DOMAIN conn' PROVE Truthful(conn[j])'
    <2>1. j \in DOMAIN conn
        BY <1>1, <1>2
    <2>2. PICK d : d = q[j]
        OBVIOUS
    <2>3. Truthful(d)'
        <3>1. CASE j = i
            <4>1. d.kind = "chunk" /\ d.st = "ok" /\ d.seq = counter
                  /\ d.gen = c.gen /\ d.evs = c.evs
                BY <1>1, <1>2, <2>2, <3>1
            <4>2. \A k \in DOMAIN c.evs : [seq |-> counter + k - 1,
                      kind |-> "chunk", gen |-> c.gen, ev |-> c.evs[k]]
                          \in published'
                BY <1>7, <1>9
            <4> QED BY <4>1, <4>2 DEF Truthful
        <3>2. CASE j # i
            <4>1. d = conn[j] /\ Truthful(d)
                BY <1>2, <1>5, <2>1, <2>2, <3>2
            <4>2. d.st = "sent" => Ahead(d.evs)'
                <5>1. SUFFICES ASSUME d.st = "sent" PROVE Ahead(d.evs)'
                    OBVIOUS
                <5>2. i < j
                    BY <1>3, <2>1, <3>2, <4>1, <5>1
                <5>3. Below(c.evs, d.evs)
                    BY <1>1, <1>5, <2>1, <4>1, <5>2 DEF Line
                <5>4. Ahead(d.evs)
                    BY <4>1, <5>1 DEF Truthful
                <5> QED BY <1>11, <5>3, <5>4
            <4>3. d.kind = "chunk" /\ d.st = "ok" => \A k \in DOMAIN d.evs :
                      [seq |-> d.seq + k - 1, kind |-> "chunk",
                       gen |-> d.gen, ev |-> d.evs[k]] \in published'
                BY <1>7, <4>1 DEF Truthful
            <4>4. ASSUME d.kind = "chunk", d.st = "fenced", NEW e \in Range(d.evs)
                  PROVE  Dead(d.gen)' /\ \A p \in Named' : p.ev # e
                <5>1. Dead(d.gen) /\ \A p \in Named : p.ev # e
                    BY <4>1, <4>4 DEF Truthful
                <5>2. e \in DOMAIN emitted /\ emitted[e] = d.gen
                    BY <1>5, <2>1, <4>1, <4>4 DEF Line, Waits
                <5> QED BY <1>10, <1>12, <1>13, <5>1, <5>2
            <4> QED BY <4>2, <4>3, <4>4 DEF Truthful
        <3> QED BY <3>1, <3>2
    <2> QED BY <1>1, <2>2, <2>3 DEF Truthful, Ahead, Dead, Live
<1>18. ToldInv'
    <2>1. ASSUME NEW e \in DOMAIN receipt
          PROVE  /\ receipt[e].st = "ok" =>
                       [seq |-> receipt[e].seq, kind |-> "chunk",
                        gen |-> emitted[e], ev |-> e] \in published'
                 /\ receipt[e].st = "fenced" =>
                       Dead(emitted[e]) /\ \A p \in Chunks' : p.ev # e
        BY <1>3, <1>7, <1>10, <1>13 DEF CInv, ToldInv, ReceiptsAreTrue
    <2> QED BY <1>4, <2>1 DEF ToldInv, ReceiptsAreTrue, Dead, Live
<1>19. NamedInv'
    <2>1. \A p \in Named' : p.ev \in DOMAIN emitted /\ emitted[p.ev] = p.gen
        BY <1>6, <1>8, <1>10 DEF CInv, NamedInv, Waits
    <2>2. EmissionOrder'
        <3> SUFFICES ASSUME NEW p \in Chunks', NEW d \in Chunks',
                            p.ev > 0, p.ev <= d.ev
                     PROVE  p.seq < d.seq \/ p = d
            BY DEF EmissionOrder
        <3>1. \A x \in Chunks : x.ev \in Nat /\ x.seq \in Nat /\ x.seq < counter
            BY <1>3, BoundsAssumption DEF Chunks, Entries, IInv, LogInv
        <3>2. CASE p \in Chunks /\ d \in Chunks
            BY <3>2 DEF CInv, NamedInv, EmissionOrder
        <3>3. CASE p \in Chunks /\ d \in Frame
            <4>1. PICK k \in DOMAIN c.evs : d.seq = counter + k - 1
                BY <1>8, <3>3
            <4>2. k \in Nat \ {0}
                BY <1>6
            <4> QED BY <1>3, <3>1, <3>3, <4>1, <4>2
        <3>4. CASE p \in Frame /\ d \in Chunks
            <4>1. p.ev \in Range(c.evs) /\ p.ev \in Nat /\ d.ev \in Nat
                BY <1>6, <1>8, <3>1, <3>4
            <4>2. d \in Named
                BY <3>4, <4>1 DEF Named
            <4>3. d.ev < p.ev
                BY <1>6, <4>1, <4>2 DEF Ahead
            <4> QED BY <4>1, <4>3
        <3>5. CASE p \in Frame /\ d \in Frame
            <4>1. PICK k \in DOMAIN c.evs :
                    p = [seq |-> counter + k - 1, kind |-> "chunk",
                         gen |-> c.gen, ev |-> c.evs[k]]
                BY <3>5 DEF Frame
            <4>2. PICK l \in DOMAIN c.evs :
                    d = [seq |-> counter + l - 1, kind |-> "chunk",
                         gen |-> c.gen, ev |-> c.evs[l]]
                BY <3>5 DEF Frame
            <4>3. k \in Nat /\ l \in Nat /\ c.evs[k] \in Nat /\ c.evs[l] \in Nat
                BY <1>6 DEF Range
            <4>4. c.evs[k] <= c.evs[l]
                BY <4>1, <4>2
            <4>5. k <= l
                BY <1>6, <4>3, <4>4 DEF Waits, Ascending
            <4>6. CASE k = l
                BY <4>1, <4>2, <4>6
            <4>7. CASE k < l
                BY <1>3, <4>1, <4>2, <4>3, <4>7
            <4> QED BY <4>3, <4>5, <4>6, <4>7
        <3> QED BY <1>10, <3>2, <3>3, <3>4, <3>5
    <2> QED BY <1>4, <2>1, <2>2 DEF CInv, NamedInv
<1>20. ClaimInv'
    BY <1>4 DEF CInv, ClaimInv, TailSurvivesClaim
<1> QED BY <1>14, <1>15, <1>16, <1>17, <1>18, <1>19, <1>20 DEF CInv, Orderly

LEMMA ExecuteOrder == ASSUME IInv, RedisType', CInv, Execute PROVE CInv'
<1>1. PICK i \in DOMAIN conn :
        /\ conn[i].st = "sent"
        /\ \A j \in 1..(i - 1) : conn[j].st # "sent"
        /\ \/ conn[i].kind = "chunk" /\ ExecuteChunk(i)
           \/ conn[i].kind = "done" /\ ExecuteDone(i)
           \/ conn[i].kind = "replaced" /\ ExecuteReplaced(i)
           \/ conn[i].kind = "cas" /\ ExecuteCas(i)
           \/ conn[i].kind = "ack" /\ ExecuteAck(i)
    BY DEF Execute
<1>2. UNCHANGED batch /\ UNCHANGED emitVars /\ UNCHANGED claimVars
    BY DEF Execute
<1>3. /\ conn \in Seq(Commands) /\ created \in Nat
      /\ job \in [gen : 0..MaxGen, active : BOOLEAN]
    BY BoundsAssumption DEF IInv, ConnType, RedisType
<1>4. ASSUME UNCHANGED created, \A g : Dead(g) => Dead(g)',
             published \subseteq published', Named' = Named,
             NEW st \in {"ok", "fenced"}, Executed(i, st),
             conn[i].kind = "chunk" => st = "fenced" /\ ~Live(conn[i].gen),
             conn[i].kind = "cas" /\ st = "ok" => Live(conn[i].gen)
      PROVE  CInv'
    <2>1. Outcome(conn, conn', i, st)
        <3>1. PICK d : d = [conn[i] EXCEPT !.st = st]
            OBVIOUS
        <3>2. conn' = [conn EXCEPT ![i] = d]
            BY <1>4, <3>1 DEF Executed
        <3> QED BY <1>3, <3>1, <3>2, OutcomeIsSet
    <2>2. created <= created'
        BY <1>3, <1>4
    <2> QED BY <1>1, <1>2, <1>4, <2>1, <2>2, ExecutedOrder
<1>5. ASSUME Fenced(i), conn[i].kind = "chunk" => ~Live(conn[i].gen)
      PROVE  CInv'
    <2>1. /\ UNCHANGED created /\ published' = published
          /\ \A g : Dead(g) => Dead(g)'
        BY <1>5 DEF Fenced, redisVars, Dead, Live
    <2>2. Named' = Named
        BY <2>1 DEF Named, Chunks
    <2> QED BY <1>4, <1>5, <2>1, <2>2 DEF Fenced
<1>6. ASSUME conn[i].kind \in {"done", "replaced", "ack"}, Executed(i, "ok"),
             UNCHANGED <<job, created>>,
             \/ published' = published
             \/ Sequence("done", conn[i].gen, << 0 >>)
      PROVE  CInv'
    <2>1. published \subseteq published' /\ Named' = Named
        <3>1. CASE published' = published
            BY <3>1 DEF Named, Chunks
        <3>2. CASE Sequence("done", conn[i].gen, << 0 >>)
            BY <3>2, NothingNamed
        <3> QED BY <1>6, <3>1, <3>2
    <2>2. \A g : Dead(g) => Dead(g)'
        BY <1>6 DEF Dead, Live
    <2> QED BY <1>4, <1>6, <2>1, <2>2
<1>7. CASE conn[i].kind = "chunk" /\ ExecuteChunk(i)
    <2>1. CASE AcceptsChunk(conn[i])
        <3>1. /\ Sequence("chunk", conn[i].gen, conn[i].evs)
              /\ conn' = [conn EXCEPT ![i].st = "ok", ![i].seq = counter]
              /\ UNCHANGED <<job, created>> /\ Live(conn[i].gen)
            BY <1>7, <2>1 DEF ExecuteChunk, AcceptsChunk
        <3>2. PICK d : d = [conn[i] EXCEPT !.st = "ok", !.seq = counter]
            OBVIOUS
        <3>3. conn' = [conn EXCEPT ![i] = d]
            BY <3>1, <3>2
        <3>4. conn[i] \in Commands /\ conn'[i] = d
            BY <1>3, <3>3
        <3>5. d.seq = counter
            BY <3>2, <3>4 DEF Commands
        <3>6. Outcome(conn, conn', i, "ok")
            BY <1>3, <3>2, <3>3, OutcomeIsSet
        <3> QED BY <1>1, <1>2, <1>7, <3>1, <3>4, <3>5, <3>6, ChunksOrder
    <2>2. CASE ~AcceptsChunk(conn[i])
        BY <1>5, <1>7, <2>2 DEF ExecuteChunk, AcceptsChunk
    <2> QED BY <2>1, <2>2
<1>8. CASE conn[i].kind = "done" /\ ExecuteDone(i)
    BY <1>5, <1>6, <1>8 DEF ExecuteDone
<1>9. CASE conn[i].kind = "replaced" /\ ExecuteReplaced(i)
    BY <1>5, <1>6, <1>9 DEF ExecuteReplaced
<1>10. CASE conn[i].kind = "cas" /\ ExecuteCas(i)
    <2>1. CASE Live(conn[i].gen)
        <3>1. /\ job' = [job EXCEPT !.active = FALSE] /\ created' = created
              /\ published' = published /\ Executed(i, "ok")
            BY <1>10, <2>1 DEF ExecuteCas
        <3>2. \A g : Dead(g) => Dead(g)'
            BY <1>3, <3>1 DEF Dead, Live
        <3>3. Named' = Named
            BY <3>1 DEF Named, Chunks
        <3> QED BY <1>4, <1>10, <2>1, <3>1, <3>2, <3>3
    <2>2. CASE ~Live(conn[i].gen)
        BY <1>5, <1>10, <2>2 DEF ExecuteCas
    <2> QED BY <2>1, <2>2
<1>11. CASE conn[i].kind = "ack" /\ ExecuteAck(i)
    BY <1>5, <1>6, <1>11 DEF ExecuteAck
<1> QED BY <1>1, <1>7, <1>8, <1>9, <1>10, <1>11

(***************************************************************************)
(* The theorems about each chunk.                                          *)
(***************************************************************************)

LEMMA InitCInv == Init => CInv
<1> SUFFICES ASSUME Init PROVE CInv
    OBVIOUS
<1>1. /\ conn = <<>> /\ batch.evs = <<>> /\ emitted = <<>> /\ receipt = <<>>
      /\ published = {}
    BY DEF Init, NoBatch
<1>2. Line(conn, batch.gen, batch.evs, emitted, receipt)
    BY <1>1, RangeOfEmpty DEF Line, Waits, Ascending, Below
<1>3. Drained(conn, emitted, receipt, mark, claim)
    BY <1>1 DEF Drained
<1>4. Ahead(batch.evs) /\ \A i \in DOMAIN conn : Truthful(conn[i])
    BY <1>1, RangeOfEmpty DEF Ahead
<1>5. ToldInv /\ NamedInv
    BY <1>1 DEF ToldInv, NamedInv, ReceiptsAreTrue, EmissionOrder, Named, Chunks
<1>6. ClaimInv
    BY <1>1 DEF Init, ClaimInv, TailSurvivesClaim
<1> QED BY <1>2, <1>3, <1>4, <1>5, <1>6 DEF CInv, Orderly

LEMMA StepCInv == IInv /\ CInv /\ [Next]_vars => CInv'
<1> SUFFICES ASSUME IInv, CInv, [Next]_vars PROVE CInv'
    OBVIOUS
<1>1. RedisType'
    BY StepIInv DEF IInv
<1>2. CASE Produce
    BY <1>2, EmitChunkOrder, FlushTimerOrder, DiscardOrder DEF Produce
<1>3. CASE Connection
    BY <1>1, <1>3, ExecuteOrder, FailOrder, ReplyOrder DEF Connection
<1>4. CASE Terminate
    <2>1. CASE RemoveRuntime
        BY <2>1, RuntimeOrder DEF RemoveRuntime
    <2>2. CASE Stop
        BY <2>2, RuntimeOrder DEF Stop
    <2> QED BY <1>4, <2>1, <2>2, ClaimOrder, PublishTerminalOrder, ReapOrder
            DEF Terminate
<1>5. CASE Replace
    <2>1. CASE StopPredecessor
        BY <2>1, RuntimeOrder DEF StopPredecessor
    <2>2. CASE InstallRuntime
        BY <2>2, RuntimeOrder DEF InstallRuntime
    <2>3. CASE GiveUpArrival
        BY <2>3, RuntimeOrder DEF GiveUpArrival
    <2> QED BY <1>1, <1>5, <2>1, <2>2, <2>3, CreateJobOrder, HandOffOrder,
               RemoteHandOffOrder DEF Replace
<1>6. CASE Others
    BY <1>1, <1>6, OthersOrder
<1>7. CASE UNCHANGED vars
    BY <1>7, RuntimeOrder DEF vars
<1> QED BY <1>2, <1>3, <1>4, <1>5, <1>6, <1>7 DEF Next

\* The invariant of the chunks on their way, and of what was told of them.
THEOREM ChunksInOrder == Spec => []CInv
<1> QED BY InitCInv, StepCInv, Invariance, PTL DEF Spec

\* Coalescing does not reorder: chunks are numbered in the order of their
\* emission, each at most once, whatever was batched, refused or lost.
THEOREM NumberedAsEmitted == Spec => []EmissionOrder
<1>1. CInv => EmissionOrder
    BY DEF CInv, NamedInv
<1> QED BY <1>1, ChunksInOrder, PTL

\* A publisher that was told a number has its event in the log under that
\* number, and an event whose publisher was told of a refusal never is.
THEOREM ReceiptsHold == Spec => []ReceiptsAreTrue
<1>1. CInv => ReceiptsAreTrue
    BY DEF CInv, ToldInv
<1> QED BY <1>1, ChunksInOrder, PTL

\* A terminal claim that wins has every chunk emitted before it in the log, or
\* lost to a failure: the end of a generation does not refuse its own tail.
THEOREM TailIsPublished == Spec => []TailSurvivesClaim
<1>1. CInv => TailSurvivesClaim
    BY DEF CInv, ClaimInv
<1> QED BY <1>1, ChunksInOrder, PTL

=============================================================================
