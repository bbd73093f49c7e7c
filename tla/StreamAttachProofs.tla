------------------------- MODULE StreamAttachProofs -------------------------
(***************************************************************************)
(* Proofs about StreamAttach, for every bound and every number of requests.*)
(* The invariant has four parts, each proved from the ones before it:      *)
(* Core (types, the stream, the stages of the requests), Settling (nobody  *)
(* waits for what nobody brings about), Delivery (nothing is handed out    *)
(* twice or late) and Arrival (nothing is passed over).  A step is first   *)
(* reduced to its effect (Emits, Flushes, Becomes, ReplayStep, ...), and   *)
(* the parts are shown of the effects.                                     *)
(***************************************************************************)
EXTENDS StreamAttach, FiniteSetTheorems, WellFoundedInduction, TLAPS

(***************************************************************************)
(* The vocabulary of the invariant, and sequences.                         *)
(***************************************************************************)

Frames   == Events \cup {Done}
Commands == Frames \cup {Get}
Tasks    == [gen : 0..MaxRequests, waits : SUBSET Events, defer : BOOLEAN]
SyncCalls == [by : Readers \cup {Nobody}, replay : 0..NoReplay, val : 0..Unread]

InSeq(x, s) == \E i \in 1..Len(s) : s[i] = x
InLog(x)    == InSeq(x, log)
InConn(x)   == InSeq(x, conn)
Ascends(s)  == \A i, j \in 1..Len(s) : i < j => s[i] < s[j]

GenerationTypes ==
    /\ job \in {"running", "paused", "complete", "replaced"}
    /\ emitted \in 0..(MaxChunks + 1) /\ approval \in 0..(MaxChunks + 1)
    /\ conn \in Seq(Commands) /\ log \in Seq(Frames)
    /\ receipt \in [Events -> {"none", "open", "numbered", "failed"}]
TransportTypes ==
    /\ received \in 0..Len(log)
    /\ nextSeq \in 0..Counter
    /\ pending \subseteq nextSeq..(FirstSeq + received - 1)
    /\ pending \subseteq FirstSeq..(FirstSeq + received - 1)
    /\ deferred \in BOOLEAN
    /\ deferred => nextSeq = 0
SyncTypes ==
    /\ syncs \in Seq(SyncCalls)
    /\ skipped \in BOOLEAN
RuntimeTypes ==
    /\ since \in 0..emitted
    /\ hasSubscriber \in BOOLEAN
    /\ attachGen \in 0..MaxRequests
    /\ abandoned \subseteq 0..MaxRequests
    /\ faults \in 0..MaxFaults
EarlyTypes ==
    /\ buffered \in Seq(Events) /\ Len(buffered) <= MaxEarly
    /\ closed \in BOOLEAN /\ overflowed \in BOOLEAN
    /\ conts \subseteq Tasks
ReaderTypes == on \subseteq Readers /\ reader \in [Readers -> Requests]

Types == /\ GenerationTypes /\ TransportTypes /\ SyncTypes /\ RuntimeTypes
         /\ EarlyTypes /\ ReaderTypes

(***************************************************************************)
(* The stream: frames go from conn to log in the order of their emission.  *)
(***************************************************************************)

ConnAscends ==
    \A i, j \in 1..Len(conn) : i < j /\ conn[i] # Get /\ conn[j] # Get => conn[i] < conn[j]
LogBeforeConn ==
    \A i \in 1..Len(log), j \in 1..Len(conn) : conn[j] # Get => log[i] < conn[j]
EmittedIs(e) ==
    /\ InLog(e) \/ InConn(e) \/ receipt[e] # "none" => e <= emitted
    /\ e <= emitted => InLog(e) \/ InConn(e) \/ receipt[e] = "failed"
    /\ receipt[e] = "failed" => ~InLog(e) /\ ~InConn(e)
    /\ receipt[e] = "numbered" => InLog(e)
EmittedAre == \A e \in Events : EmittedIs(e)
DoneIs == InLog(Done) \/ InConn(Done) <=> job \in {"complete", "replaced"}
ApprovalIs == approval # 0 => approval = emitted /\ job # "running"
FaultsAre == faults = 0 => job # "replaced" /\ \A e \in Events : receipt[e] # "failed"
LogLong == Len(log) <= Done /\ \A i \in 1..Len(log) : log[i] >= i

Stream == /\ Ascends(log) /\ LogLong /\ ConnAscends /\ LogBeforeConn /\ EmittedAre
          /\ DoneIs /\ ApprovalIs /\ FaultsAre

(***************************************************************************)
(* Sequences.                                                              *)
(***************************************************************************)

LEMMA InAppend ==
    ASSUME NEW S, NEW s \in Seq(S), NEW y \in S, NEW x
    PROVE  InSeq(x, Append(s, y)) <=> InSeq(x, s) \/ x = y
<1>1. Len(Append(s, y)) = Len(s) + 1 /\ Len(s) \in Nat
      /\ \A i \in 1..Len(s) : Append(s, y)[i] = s[i]
      /\ Append(s, y)[Len(s) + 1] = y
  OBVIOUS
<1> QED
  BY <1>1 DEF InSeq

LEMMA InTail ==
    ASSUME NEW S, NEW s \in Seq(S), s # <<>>, NEW x
    PROVE  InSeq(x, s) <=> InSeq(x, Tail(s)) \/ x = Head(s)
<1>1. Len(Tail(s)) = Len(s) - 1 /\ Len(s) \in Nat \ {0} /\ Head(s) = s[1]
      /\ \A i \in 1..Len(Tail(s)) : Tail(s)[i] = s[i + 1]
  OBVIOUS
<1>2. ASSUME InSeq(x, s) PROVE InSeq(x, Tail(s)) \/ x = Head(s)
  <2>1. PICK i \in 1..Len(s) : s[i] = x
    BY <1>2 DEF InSeq
  <2>2. CASE i = 1
    BY <2>1, <2>2, <1>1
  <2>3. CASE i # 1
    <3>1. i - 1 \in 1..Len(Tail(s)) /\ Tail(s)[i - 1] = x
      BY <2>1, <2>3, <1>1
    <3> QED
      BY <3>1 DEF InSeq
  <2> QED
    BY <2>2, <2>3
<1>3. ASSUME InSeq(x, Tail(s)) \/ x = Head(s) PROVE InSeq(x, s)
  <2>1. CASE InSeq(x, Tail(s))
    <3>1. PICK i \in 1..Len(Tail(s)) : Tail(s)[i] = x
      BY <2>1 DEF InSeq
    <3>2. i + 1 \in 1..Len(s) /\ s[i + 1] = x
      BY <3>1, <1>1
    <3> QED
      BY <3>2 DEF InSeq
  <2>2. CASE x = Head(s)
    BY <2>2, <1>1 DEF InSeq
  <2> QED
    BY <1>3, <2>1, <2>2
<1> QED
  BY <1>2, <1>3

LEMMA InConcat ==
    ASSUME NEW S, NEW s \in Seq(S), NEW t \in Seq(S), NEW x
    PROVE  InSeq(x, s \o t) <=> InSeq(x, s) \/ InSeq(x, t)
<1>1. Len(s \o t) = Len(s) + Len(t) /\ Len(s) \in Nat /\ Len(t) \in Nat
      /\ \A i \in 1..Len(s) : (s \o t)[i] = s[i]
      /\ \A j \in 1..Len(t) : (s \o t)[Len(s) + j] = t[j]
  OBVIOUS
<1>2. ASSUME InSeq(x, s \o t) PROVE InSeq(x, s) \/ InSeq(x, t)
  <2>1. PICK i \in 1..(Len(s) + Len(t)) : (s \o t)[i] = x
    BY <1>1, <1>2 DEF InSeq
  <2>2. CASE i <= Len(s)
    BY <1>1, <2>1, <2>2 DEF InSeq
  <2>3. CASE ~(i <= Len(s))
    <3>1. i - Len(s) \in 1..Len(t) /\ (s \o t)[Len(s) + (i - Len(s))] = x
      BY <1>1, <2>1, <2>3
    <3> QED
      BY <1>1, <3>1 DEF InSeq
  <2> QED
    BY <2>2, <2>3
<1>3. ASSUME InSeq(x, s) PROVE InSeq(x, s \o t)
  BY <1>1, <1>3 DEF InSeq
<1>4. ASSUME InSeq(x, t) PROVE InSeq(x, s \o t)
  <2>1. PICK i \in 1..Len(t) : t[i] = x
    BY <1>4 DEF InSeq
  <2>2. Len(s) + i \in 1..Len(s \o t) /\ (s \o t)[Len(s) + i] = x
    BY <1>1, <2>1
  <2> QED
    BY <2>2 DEF InSeq
<1> QED
  BY <1>2, <1>3, <1>4

LEMMA InRange ==
    ASSUME NEW S, NEW s \in Seq(S), NEW x
    PROVE  x \in Range(s) <=> InSeq(x, s)
BY DEF Range, InSeq

LEMMA Empty == \A x : ~InSeq(x, <<>>)
BY DEF InSeq

(***************************************************************************)
(* Handing events to readers, and readers that leave.                      *)
(***************************************************************************)

Shape(r) ==
    /\ r \in on => reader[r].pc \in {"check", "fence", "recheck", "sync", "ready",
                                     "reconciled", "live", "failed"}
    /\ reader[r].pc = "live" => r \in on /\ reader[r].queue = <<>>
    /\ reader[r].pc = "idle" => reader[r] = Fresh
    /\ r \in on /\ reader[r].pc # "live" => reader[r].got = <<>>
    /\ r \notin on => reader[r].queue = <<>>
    /\ reader[r].look => r \in on /\ reader[r].pc \in {"reconciled", "live"}
    /\ reader[r].pc = "reconciled" => reader[r].kind = "resume"
    /\ reader[r].pc = "failed" => faults > 0
    /\ reader[r].replay # "none" => reader[r].kind = "initial"
    /\ reader[r].pc = "live" => ~InSeq(Done, reader[r].got)
Shapes == \A r \in Readers : Shape(r)

\* What a reader has been handed: to its handler, or into its queue.
Seen(r) == IF reader[r].pc = "live" THEN reader[r].got ELSE reader[r].queue

\* The runtime after readers have left: the last one ends the attachment.
RuntimeFollows ==
    /\ since' = since
    /\ on # {} /\ on' = {} => hasSubscriber' = FALSE /\ attachGen' = attachGen + 1
    /\ ~(on # {} /\ on' = {}) => hasSubscriber' = hasSubscriber /\ attachGen' = attachGen

\* Requests that differ from the readers in neither what they were handed nor
\* whether they are live.
Likewise(R) ==
    /\ R \in [Readers -> Requests]
    /\ \A r \in Readers : /\ R[r].got = reader[r].got /\ R[r].queue = reader[r].queue
                          /\ R[r].pc = "live" <=> reader[r].pc = "live"

\* The readers that hear events handed to T.
Hears(T, r) == r \in T /\ ~InSeq(Done, Seen(r))

\* The events es are handed to the readers T, while the requests become R.
Handing(R, T, es) ==
    /\ on' \subseteq on
    /\ \A r \in Readers :
          /\ reader'[r].kind = R[r].kind /\ reader'[r].told = R[r].told
          /\ reader'[r].gen = R[r].gen /\ reader'[r].waits = R[r].waits
          /\ reader'[r].defer = R[r].defer /\ reader'[r].replay = R[r].replay
          /\ r \in on \ on' => /\ reader[r].pc = "live" /\ InSeq(Done, es)
                               /\ reader'[r].pc = "ended" /\ ~reader'[r].look
                               /\ reader'[r].queue = <<>>
                               /\ reader'[r].got = Seen(r) \o es /\ Hears(T, r)
          /\ r \notin on \/ r \in on' => reader'[r].pc = R[r].pc /\ reader'[r].look = R[r].look
          /\ r \notin on => reader'[r] = R[r]
          /\ r \in on' => /\ Hears(T, r) => Seen(r)' = Seen(r) \o es
                          /\ ~Hears(T, r) => Seen(r)' = Seen(r)
          /\ r \in on' => /\ reader[r].pc = "live" => /\ reader'[r].queue = <<>>
                                                      /\ Hears(T, r) => ~InSeq(Done, es)
                          /\ reader[r].pc # "live" => reader'[r].got = <<>>

LEMMA GoneOf ==
    ASSUME NEW d \in Requests
    PROVE  /\ Gone(d) \in Requests
           /\ Gone(d).pc = IF d.pc \in {"live", "failed"} THEN "ended" ELSE d.pc
           /\ Gone(d).queue = <<>> /\ Gone(d).look = FALSE /\ Gone(d).got = d.got
           /\ Gone(d).kind = d.kind /\ Gone(d).told = d.told /\ Gone(d).gen = d.gen
           /\ Gone(d).waits = d.waits /\ Gone(d).defer = d.defer
           /\ Gone(d).replay = d.replay
<1>1. <<>> \in Seq({Done} \cup Events)
  OBVIOUS
<1>2. CASE d.pc \in {"live", "failed"}
  <2>1. Gone(d) = [d EXCEPT !.pc = "ended", !.queue = <<>>, !.look = FALSE]
    BY <1>2 DEF Gone, Requests
  <2> QED
    BY <1>1, <1>2, <2>1 DEF Requests, Stages
<1>3. CASE d.pc \notin {"live", "failed"}
  <2>1. Gone(d) = [d EXCEPT !.queue = <<>>, !.look = FALSE]
    BY <1>3 DEF Gone, Requests
  <2> QED
    BY <1>1, <1>3, <2>1 DEF Requests, Stages
<1> QED
  BY <1>2, <1>3

LEMMA HandingDelivers ==
    ASSUME ReaderTypes, Shapes, NEW R, Likewise(R), NEW T, NEW es \in Seq(Frames),
           Detach(Ended(T, es), Handed(R, T, es))
    PROVE  ReaderTypes' /\ RuntimeFollows /\ Handing(R, T, es)
<1> DEFINE H == Handed(R, T, es)
           L == Ended(T, es)
<1>1. \A r \in Readers : r \in Open(T) <=> r \in T \cap on /\ ~InSeq(Done, reader[r].queue)
  <2>1. \A r \in Readers : Done \in Range(reader[r].queue) <=> InSeq(Done, reader[r].queue)
    BY InRange DEF ReaderTypes, Requests
  <2> QED
    BY <2>1 DEF Open, ReaderTypes
<1>2. \A r \in Readers : r \in on => (r \in Open(T) <=> Hears(T, r))
  BY <1>1, Empty DEF Hears, Seen, Shapes, Shape
<1>3. L \subseteq {r \in Open(T) : reader[r].pc = "live"} /\ L \subseteq on /\ L \subseteq Readers
  BY DEF Ended, Active, Open, ReaderTypes
<1>4. \A r \in Readers : /\ r \in Open(T) /\ reader[r].pc = "live" => (r \in L <=> InSeq(Done, es))
                         /\ r \in L => InSeq(Done, es)
  <2>1. Done \in Range(es) <=> InSeq(Done, es)
    BY InRange
  <2> QED
    BY <2>1 DEF Ended, Active, Open
<1>5. on' = on \ L
  BY DEF Detach
<1>6. RuntimeFollows
  BY DEF Detach, RuntimeFollows, runtimeVars
<1>7. H \in [Readers -> Requests]
  <2>1. \A r \in Readers : R[r] \in Requests /\ R[r].queue \o es \in Seq({Done} \cup Events)
                           /\ R[r].got \o es \in Seq({Done} \cup Events)
    BY DEF Likewise, Requests, Frames
  <2>2. \A r \in Readers : [R[r] EXCEPT !.got = @ \o es] \in Requests
                           /\ [R[r] EXCEPT !.queue = @ \o es] \in Requests
    BY <2>1 DEF Requests
  <2> QED
    BY <2>1, <2>2 DEF Handed
<1>8. \A r \in Readers :
        /\ r \in Open(T) /\ reader[r].pc = "live" => H[r] = [R[r] EXCEPT !.got = @ \o es]
        /\ r \in Open(T) /\ reader[r].pc # "live" => H[r] = [R[r] EXCEPT !.queue = @ \o es]
        /\ r \notin Open(T) => H[r] = R[r]
  BY DEF Handed, Active, Open
<1>9. \A r \in Readers :
        /\ H[r].kind = R[r].kind /\ H[r].told = R[r].told
        /\ H[r].gen = R[r].gen /\ H[r].waits = R[r].waits
        /\ H[r].defer = R[r].defer /\ H[r].replay = R[r].replay
        /\ H[r].pc = R[r].pc /\ H[r].look = R[r].look
        /\ H[r].got = IF r \in Open(T) /\ reader[r].pc = "live" THEN reader[r].got \o es ELSE reader[r].got
        /\ H[r].queue = IF r \in Open(T) /\ reader[r].pc # "live" THEN reader[r].queue \o es ELSE reader[r].queue
  <2>1. TAKE r \in Readers
  <2>2. R[r] \in Requests /\ R[r].got = reader[r].got /\ R[r].queue = reader[r].queue
    BY DEF Likewise
  <2>3. CASE r \in Open(T) /\ reader[r].pc = "live"
    <3>1. H[r] = [R[r] EXCEPT !.got = R[r].got \o es]
      BY <2>2, <2>3, <1>8
    <3> QED
      BY <2>2, <2>3, <3>1 DEF Requests
  <2>4. CASE r \in Open(T) /\ reader[r].pc # "live"
    <3>1. H[r] = [R[r] EXCEPT !.queue = R[r].queue \o es]
      BY <2>2, <2>4, <1>8
    <3> QED
      BY <2>2, <2>4, <3>1 DEF Requests
  <2>5. CASE r \notin Open(T)
    BY <2>2, <2>5, <1>8
  <2> QED
    BY <2>3, <2>4, <2>5
<1>10. reader' = [r \in Readers |-> IF r \in L THEN Gone(H[r]) ELSE H[r]]
  BY DEF Detach
<1>11. \A r \in Readers : Gone(H[r]) \in Requests
  <2>1. \A r \in Readers : H[r] \in Requests
    BY <1>7
  <2>2. <<>> \in Seq({Done} \cup Events)
    OBVIOUS
  <2> QED
    BY <2>1, <2>2, GoneOf
<1>12. ReaderTypes'
  <2>1. reader' \in [Readers -> Requests]
    BY <1>7, <1>10, <1>11
  <2> QED
    BY <1>5, <2>1 DEF ReaderTypes
<1>13. \A r \in Readers : r \notin L => reader'[r] = H[r]
  BY <1>10
<1>14. \A r \in L :
          /\ reader'[r].kind = R[r].kind /\ reader'[r].told = R[r].told
          /\ reader'[r].gen = R[r].gen /\ reader'[r].waits = R[r].waits
          /\ reader'[r].defer = R[r].defer /\ reader'[r].replay = R[r].replay
          /\ reader'[r].pc = "ended" /\ reader'[r].look = FALSE
          /\ reader'[r].queue = <<>> /\ reader'[r].got = reader[r].got \o es
  <2> TAKE r \in L
  <2>1. r \in Readers /\ r \in Open(T) /\ reader[r].pc = "live"
    BY <1>3
  <2>2. reader'[r] = Gone(H[r]) /\ H[r].pc = "live" /\ H[r] \in Requests
    BY <2>1, <1>7, <1>9, <1>10 DEF Likewise
  <2> HIDE DEF H
  <2>3. /\ Gone(H[r]).pc = "ended"
        /\ Gone(H[r]).queue = <<>> /\ Gone(H[r]).look = FALSE /\ Gone(H[r]).got = H[r].got
        /\ Gone(H[r]).kind = H[r].kind /\ Gone(H[r]).told = H[r].told
        /\ Gone(H[r]).gen = H[r].gen /\ Gone(H[r]).waits = H[r].waits
        /\ Gone(H[r]).defer = H[r].defer /\ Gone(H[r]).replay = H[r].replay
    BY <2>2, GoneOf
  <2>4. H[r].got = reader[r].got \o es
    BY <2>1, <1>9
  <2> QED
    BY <2>1, <2>2, <2>3, <2>4, <1>9
<1>15. ASSUME NEW r \in Readers PROVE
          /\ reader'[r].kind = R[r].kind /\ reader'[r].told = R[r].told
          /\ reader'[r].gen = R[r].gen /\ reader'[r].waits = R[r].waits
          /\ reader'[r].defer = R[r].defer /\ reader'[r].replay = R[r].replay
  BY <1>9, <1>13, <1>14
<1>16. ASSUME NEW r \in Readers, r \in on \ on'
       PROVE  /\ reader[r].pc = "live" /\ InSeq(Done, es)
              /\ reader'[r].pc = "ended" /\ ~reader'[r].look
              /\ reader'[r].queue = <<>>
              /\ reader'[r].got = Seen(r) \o es /\ Hears(T, r)
  <2>1. r \in L
    BY <1>5, <1>16
  <2> QED
    BY <2>1, <1>2, <1>3, <1>4, <1>14 DEF Seen
<1>17. ASSUME NEW r \in Readers, r \notin on \/ r \in on'
       PROVE  reader'[r].pc = R[r].pc /\ reader'[r].look = R[r].look
  BY <1>3, <1>5, <1>9, <1>13, <1>17
<1>18. ASSUME NEW r \in Readers, r \notin on PROVE reader'[r] = R[r]
  BY <1>3, <1>8, <1>13, <1>18 DEF Open
<1>19. ASSUME NEW r \in Readers, r \in on'
       PROVE  /\ Hears(T, r) => Seen(r)' = Seen(r) \o es
              /\ ~Hears(T, r) => Seen(r)' = Seen(r)
              /\ reader[r].pc = "live" => /\ reader'[r].queue = <<>>
                                          /\ Hears(T, r) => ~InSeq(Done, es)
              /\ reader[r].pc # "live" => reader'[r].got = <<>>
  <2>1. r \notin L /\ r \in on /\ reader'[r] = H[r]
    BY <1>5, <1>13, <1>19
  <2>2. r \in Open(T) <=> Hears(T, r)
    BY <1>2, <2>1
  <2>3. reader'[r].pc = "live" <=> reader[r].pc = "live"
    BY <2>1, <1>9 DEF Likewise
  <2>4. /\ reader'[r].got = IF r \in Open(T) /\ reader[r].pc = "live" THEN reader[r].got \o es ELSE reader[r].got
        /\ reader'[r].queue = IF r \in Open(T) /\ reader[r].pc # "live" THEN reader[r].queue \o es ELSE reader[r].queue
    BY <2>1, <1>9
  <2>5. CASE reader[r].pc = "live"
    BY <2>1, <2>2, <2>3, <2>4, <2>5, <1>4 DEF Seen, Shapes, Shape
  <2>6. CASE reader[r].pc # "live"
    BY <2>1, <2>2, <2>3, <2>4, <2>6 DEF Seen, Shapes, Shape
  <2> QED
    BY <2>5, <2>6
<1>20. on' \subseteq on
  BY <1>5
<1>21. Handing(R, T, es)
  BY <1>15, <1>16, <1>17, <1>18, <1>19, <1>20 DEF Handing
<1> QED
  BY <1>6, <1>12, <1>21

(***************************************************************************)
(* What the reorder buffer of the transport does in a step: handleMessage, *)
(* the flush timer, and the two outcomes of syncReorderBuffer.             *)
(***************************************************************************)

SyncsBy ==
    /\ \A r \in Readers : reader[r].pc = "sync" => \E i \in 1..Len(syncs) : syncs[i].by = r
    /\ \A i \in 1..Len(syncs) : syncs[i].by # Nobody => reader[syncs[i].by].pc = "sync"
    /\ \A i, j \in 1..Len(syncs) : i # j /\ syncs[i].by = syncs[j].by => syncs[i].by = Nobody

Resets(defer) == nextSeq' = 0 /\ pending' = {} /\ deferred' = defer

\* es lists the events whose numbers are in P and below m.
Flushed(P, m, es) ==
    /\ es \in Seq(Frames) /\ Ascends(es)
    /\ \A x : InSeq(x, es) <=> \E s \in P : s < m /\ x = log[s - FirstSeq + 1]

\* The requests when a sync is answered, or when none is.
Woken(pops) == IF pops THEN Resumed ELSE reader

\* The buffer holds P, hands out what is below m, and keeps the rest.
FlushStep(pops, P, m, es) ==
    /\ Flushed(P, m, es) /\ m \in Nat
    /\ Handing(Woken(pops), on, es) /\ RuntimeFollows
    /\ on' = {} => Resets(FALSE)
    /\ on' # {} => nextSeq' = m /\ pending' = {s \in P : s >= m} /\ deferred' = FALSE

\* The frontier a replay has established.
Replays == syncs # <<>> /\ Head(syncs).replay # NoReplay

\* Neither the buffer nor the sync that comes next puts s behind.
Ahead(s) == /\ ~deferred => nextSeq <= s
            /\ Replays => Head(syncs).replay <= s

Pops(pops) == IF pops THEN syncs # <<>> /\ syncs' = Tail(syncs) ELSE syncs' = syncs

\* What a flush takes into account and where it stops.
Flushes(pops, P, m, es) ==
    /\ on # {} /\ FlushStep(pops, P, m, es)
    /\ P \subseteq pending \cup {FirstSeq + received}
    /\ \A s \in P : /\ FirstSeq <= s /\ s < FirstSeq + received'
                    /\ ~deferred => nextSeq <= s
                    /\ pops /\ Replays => Head(syncs).replay <= s
    /\ \A s \in pending : Ahead(s) => s \in P
    /\ received' = received + 1 => FirstSeq + received \in P
    /\ ~deferred => nextSeq <= m
    /\ pops /\ Replays => Head(syncs).replay <= m
    /\ (pops /\ ~Replays => ~skipped') =>
          \A s \in Nat : s >= FirstSeq + received' /\ Ahead(s) => m <= s
    /\ m <= Counter
    /\ deferred => pops
    /\ received' \in {received, received + 1} /\ received' <= Len(log)

Ignores ==
    /\ received' = received + 1 /\ received' <= Len(log)
    /\ on = {} \/ (~deferred /\ FirstSeq + received < nextSeq)
    /\ UNCHANGED <<bufferVars, readerVars, runtimeVars, syncs>>
Holds ==
    /\ received' = received + 1 /\ received' <= Len(log)
    /\ on # {} /\ (deferred \/ FirstSeq + received > nextSeq)
    /\ pending' = pending \cup {FirstSeq + received}
    /\ UNCHANGED <<nextSeq, deferred, readerVars, runtimeVars, syncs>>
Skips ==
    /\ syncs # <<>> /\ syncs' = Tail(syncs)
    /\ on = {} \/ ~deferred
    /\ on' = on /\ reader' = Resumed
    /\ UNCHANGED <<bufferVars, runtimeVars, received>>

TransportStep ==
    /\ \/ Ignores \/ Holds \/ Skips
       \/ \E pops \in BOOLEAN, P \in SUBSET Nat, m \in Nat, es \in Seq(Frames) :
             Flushes(pops, P, m, es) /\ Pops(pops)
    /\ UNCHANGED <<generationVars, earlyVars, conts, abandoned>>
    /\ skipped => skipped'
    /\ faults' \in {faults, faults + 1} /\ faults' \in 0..MaxFaults
    /\ skipped' \in BOOLEAN

LEMMA ResumedIs ==
    ASSUME ReaderTypes, SyncTypes, SyncsBy, syncs # <<>>
    PROVE  /\ Likewise(Resumed)
           /\ \A r \in Readers :
                 /\ Resumed[r].kind = reader[r].kind /\ Resumed[r].told = reader[r].told
                 /\ Resumed[r].gen = reader[r].gen /\ Resumed[r].waits = reader[r].waits
                 /\ Resumed[r].defer = reader[r].defer /\ Resumed[r].replay = reader[r].replay
                 /\ Resumed[r].look = reader[r].look
                 /\ Resumed[r].got = reader[r].got /\ Resumed[r].queue = reader[r].queue
                 /\ Resumed[r].pc = IF Head(syncs).by = r THEN "ready" ELSE reader[r].pc
                 /\ Head(syncs).by = r => reader[r].pc = "sync"
                 /\ Head(syncs).by # r => Resumed[r] = reader[r]
<1>1. Head(syncs) = syncs[1] /\ 1 \in 1..Len(syncs)
  BY DEF SyncTypes
<1>2. ASSUME NEW r \in Readers
      PROVE  /\ Resumed[r] \in Requests
             /\ Resumed[r].kind = reader[r].kind /\ Resumed[r].told = reader[r].told
             /\ Resumed[r].gen = reader[r].gen /\ Resumed[r].waits = reader[r].waits
             /\ Resumed[r].defer = reader[r].defer /\ Resumed[r].replay = reader[r].replay
             /\ Resumed[r].look = reader[r].look
             /\ Resumed[r].got = reader[r].got /\ Resumed[r].queue = reader[r].queue
             /\ Resumed[r].pc = IF Head(syncs).by = r THEN "ready" ELSE reader[r].pc
             /\ Head(syncs).by = r => reader[r].pc = "sync"
             /\ Head(syncs).by # r => Resumed[r] = reader[r]
  <2>1. reader[r] \in Requests
    BY DEF ReaderTypes
  <2>2. CASE Head(syncs).by = r
    <3>1. Resumed[r] = [reader[r] EXCEPT !.pc = "ready"]
      BY <2>2 DEF Resumed
    <3>2. r # Nobody
      BY DEF Readers, Nobody
    <3>3. reader[r].pc = "sync"
      BY <1>1, <2>2, <3>2 DEF SyncsBy
    <3> QED
      BY <2>1, <2>2, <3>1, <3>3 DEF Requests, Stages
  <2>3. CASE Head(syncs).by # r
    <3>1. Resumed[r] = reader[r]
      BY <2>3 DEF Resumed
    <3> QED
      BY <2>1, <2>3, <3>1
  <2> QED
    BY <2>2, <2>3
<1>3. Likewise(Resumed)
  <2>1. Resumed \in [Readers -> Requests]
    BY <1>2 DEF Resumed
  <2> QED
    BY <1>2, <2>1 DEF Likewise
<1> QED
  BY <1>2, <1>3

LEMMA EventsOfAre ==
    ASSUME GenerationTypes, BoundsAssumption, NEW k \in Nat, NEW n \in [1..k -> Nat],
           \A i \in 1..k : n[i] >= FirstSeq /\ n[i] - FirstSeq + 1 \in 1..Len(log),
           \A i, j \in 1..k : i < j => n[i] < n[j], Ascends(log)
    PROVE  /\ EventsOf(n) \in Seq(Frames) /\ Len(EventsOf(n)) = k
           /\ Ascends(EventsOf(n))
           /\ \A x : InSeq(x, EventsOf(n)) <=> \E i \in 1..k : x = log[n[i] - FirstSeq + 1]
<1>1. \A i \in 1..k : log[n[i] - FirstSeq + 1] \in Frames
  BY DEF GenerationTypes
<1>2. EventsOf(n) = [i \in 1..k |-> log[n[i] - FirstSeq + 1]]
  BY DEF EventsOf
<1>3. EventsOf(n) \in [1..k -> Frames]
  BY <1>1, <1>2
<1>4. EventsOf(n) \in Seq(Frames) /\ Len(EventsOf(n)) = k
  BY <1>3
<1>5. \A i \in 1..k : EventsOf(n)[i] = log[n[i] - FirstSeq + 1]
  BY <1>2
<1>6. \A i, j \in 1..k : i < j => EventsOf(n)[i] < EventsOf(n)[j]
  <2>1. TAKE i, j \in 1..k
  <2>2. HAVE i < j
  <2>3. n[i] - FirstSeq + 1 < n[j] - FirstSeq + 1
    BY <2>2 DEF BoundsAssumption
  <2> QED
    BY <2>3, <1>5 DEF Ascends
<1> QED
  BY <1>4, <1>5, <1>6 DEF Ascends, InSeq

LEMMA HandingWakes ==
    ASSUME ReaderTypes, Shapes, SyncTypes, SyncsBy, NEW pops \in BOOLEAN,
           pops => syncs # <<>>
    PROVE  Likewise(Woken(pops))
BY ResumedIs DEF Woken, Likewise, ReaderTypes

Before == BoundsAssumption /\ Types /\ Stream /\ Shapes /\ SyncsBy

LEMMA FlushFromFlushes ==
    ASSUME Before, NEW pops \in BOOLEAN, pops => syncs # <<>>,
           NEW n \in Nat, NEW P, NEW k \in Nat, received' = k,
           P \subseteq n..(FirstSeq + k - 1),
           P \subseteq FirstSeq..(FirstSeq + k - 1), k <= Len(log), log' = log,
           FlushFrom(Woken(pops), n, P)
    PROVE  ReaderTypes' /\ \E m \in Nat, es \in Seq(Frames) :
              /\ FlushStep(pops, P, m, es) /\ n <= m /\ m <= Counter
              /\ m = n \/ m <= FirstSeq + k
              /\ n \in P => n < m
<1>1. PICK m \in n..Counter :
        /\ n..(m - 1) \subseteq P /\ m \notin P
        /\ LET es == EventsOf([i \in 1..(m - n) |-> n + i - 1]) IN
           Detach(Ended(on, es), Handed(Woken(pops), on, es))
        /\ IF on' = {}
           THEN ResetBuffer(FALSE)
           ELSE nextSeq' = m /\ pending' = P \ (n..(m - 1)) /\ deferred' = FALSE
  BY DEF FlushFrom
<1> DEFINE num == [i \in 1..(m - n) |-> n + i - 1]
           es == EventsOf(num)
<1>2. m \in Nat /\ FirstSeq \in Nat /\ Len(log) \in Nat /\ m - n \in Nat /\ m <= Counter
  BY DEF Before, Types, GenerationTypes, Counter, BoundsAssumption
<1>20. \A s \in P : s \in Nat /\ n <= s /\ FirstSeq <= s /\ s < FirstSeq + k
  <2>1. TAKE s \in P
  <2>2. s \in n..(FirstSeq + k - 1) /\ s \in FirstSeq..(FirstSeq + k - 1)
    OBVIOUS
  <2> QED
    BY <2>2, <1>2
<1>3. \A i \in 1..(m - n) : num[i] \in n..(m - 1) /\ num[i] \in P
  BY <1>1, <1>2
<1>4. num \in [1..(m - n) -> Nat]
  BY <1>2, <1>3
<1>5. \A i \in 1..(m - n) : num[i] >= FirstSeq /\ num[i] - FirstSeq + 1 \in 1..Len(log)
  <2> HIDE DEF num
  <2>1. TAKE i \in 1..(m - n)
  <2>2. num[i] \in P
    BY <1>3
  <2>3. num[i] \in Nat /\ FirstSeq <= num[i] /\ num[i] < FirstSeq + k
    BY <2>2, <1>20
  <2> QED
    BY <2>3, <1>2
<1>6. \A i, j \in 1..(m - n) : i < j => num[i] < num[j]
  BY <1>2
<1>7. /\ es \in Seq(Frames) /\ Ascends(es)
      /\ \A x : InSeq(x, es) <=> \E i \in 1..(m - n) : x = log[num[i] - FirstSeq + 1]
  <2> HIDE DEF num
  <2> QED
    BY <1>2, <1>4, <1>5, <1>6, EventsOfAre DEF Before, Types, Stream
<1>8. \A s \in P : s < m <=> s \in n..(m - 1)
  BY <1>2, <1>20
<1>9. \A s \in n..(m - 1) : s - n + 1 \in 1..(m - n) /\ num[s - n + 1] = s
  BY <1>2
<1>10. Flushed(P, m, es)
  <2>1. ASSUME NEW x, InSeq(x, es) PROVE \E s \in P : s < m /\ x = log[s - FirstSeq + 1]
    <3>1. PICK i \in 1..(m - n) : x = log[num[i] - FirstSeq + 1]
      BY <1>7, <2>1
    <3>2. num[i] \in P /\ num[i] < m
      <4> HIDE DEF num
      <4>1. num[i] \in P /\ num[i] \in n..(m - 1)
        BY <1>3
      <4> QED
        BY <4>1, <1>2
    <3> QED
      BY <3>1, <3>2
  <2>2. ASSUME NEW s \in P, s < m PROVE InSeq(log[s - FirstSeq + 1], es)
    <3>1. s \in n..(m - 1)
      BY <1>8, <2>2
    <3>2. s - n + 1 \in 1..(m - n) /\ num[s - n + 1] = s
      BY <3>1, <1>9
    <3> HIDE DEF num
    <3> QED
      BY <3>2, <1>7
  <2> QED
    BY <1>7, <2>1, <2>2 DEF Flushed
<1>11. Likewise(Woken(pops))
  BY HandingWakes DEF Before, Types
<1>12. ReaderTypes' /\ RuntimeFollows /\ Handing(Woken(pops), on, es)
  <2>1. Detach(Ended(on, es), Handed(Woken(pops), on, es))
    BY <1>1
  <2> HIDE DEF es
  <2> QED
    BY <2>1, <1>7, <1>11, HandingDelivers DEF Before, Types
<1>13. P \ (n..(m - 1)) = {s \in P : s >= m}
  <2>1. \A s \in P : s >= m <=> ~(s < m)
    BY <1>2, <1>20
  <2> QED
    BY <2>1, <1>8
<1>14. m = n \/ m <= FirstSeq + k
  <2>1. CASE m # n
    <3>1. m - 1 \in n..(m - 1)
      BY <1>2, <2>1
    <3>2. m - 1 \in P
      BY <3>1, <1>1
    <3> QED
      BY <3>2, <1>2, <1>20
  <2> QED
    BY <2>1
<1>15. n \in P => n < m
  BY <1>1, <1>2
<1>16. FlushStep(pops, P, m, es)
  <2> HIDE DEF es
  <2> QED
    BY <1>1, <1>2, <1>10, <1>12, <1>13 DEF FlushStep, ResetBuffer, Resets
<1> HIDE DEF es
<1> QED
  BY <1>2, <1>7, <1>12, <1>14, <1>15, <1>16

LEMMA ReceiveEffect ==
    ASSUME Before, Receive
    PROVE  TransportStep /\ ReaderTypes'
<1> USE DEF BoundsAssumption
<1>1. FirstSeq \in Nat /\ received \in Nat /\ Len(log) \in Nat /\ received + 1 <= Len(log)
      /\ nextSeq \in Nat
  BY DEF Before, Types, TransportTypes, GenerationTypes, Receive
<1>2. /\ UNCHANGED <<generationVars, earlyVars, conts, abandoned>> /\ UNCHANGED syncs
      /\ faults' = faults /\ skipped' = skipped /\ received' = received + 1 /\ log' = log
  BY DEF Receive, syncVars, faultVars, generationVars
<1>3. CASE on = {} \/ (~deferred /\ FirstSeq + received < nextSeq)
  <2>1. UNCHANGED <<bufferVars, readerVars, runtimeVars>>
    BY <1>3 DEF Receive
  <2>2. Ignores
    BY <1>1, <1>2, <1>3, <2>1 DEF Ignores
  <2>3. ReaderTypes'
    BY <2>1 DEF ReaderTypes, readerVars, Before, Types
  <2> QED
    BY <1>2, <2>2, <2>3 DEF TransportStep, Before, Types, RuntimeTypes, SyncTypes
<1>4. CASE ~(on = {} \/ (~deferred /\ FirstSeq + received < nextSeq)) /\ (deferred \/ FirstSeq + received > nextSeq)
  <2>1. HoldEvent(FirstSeq + received) /\ UNCHANGED <<readerVars, runtimeVars>>
    BY <1>4 DEF Receive
  <2>2. Holds
    BY <1>1, <1>2, <1>4, <2>1 DEF Holds, HoldEvent
  <2>3. ReaderTypes'
    BY <2>1 DEF ReaderTypes, readerVars, Before, Types
  <2> QED
    BY <1>2, <2>2, <2>3 DEF TransportStep, Before, Types, RuntimeTypes, SyncTypes
<1>5. CASE ~(on = {} \/ (~deferred /\ FirstSeq + received < nextSeq)) /\ ~(deferred \/ FirstSeq + received > nextSeq)
  <2> DEFINE s == FirstSeq + received
             P == pending \cup {s}
  <2>1. s = nextSeq /\ ~deferred /\ on # {}
    BY <1>1, <1>5
  <2>2. FlushFrom(Woken(FALSE), s, P)
    BY <1>5 DEF Receive, Woken
  <2>3. pending \subseteq nextSeq..(FirstSeq + received - 1)
    BY DEF Before, Types, TransportTypes
  <2>4. P \subseteq s..(FirstSeq + (received + 1) - 1) /\ s \in Nat
    BY <1>1, <1>2, <2>1, <2>3
  <2>5. P \subseteq FirstSeq..(FirstSeq + (received + 1) - 1)
    BY <1>1, <2>4
  <2>6. ReaderTypes' /\ \E m \in Nat, es \in Seq(Frames) :
              /\ FlushStep(FALSE, P, m, es) /\ s <= m /\ m <= Counter
              /\ m = s \/ m <= FirstSeq + (received + 1)
              /\ s \in P => s < m
    <3> HIDE DEF P, s
    <3>1. received + 1 \in Nat
      BY <1>1
    <3> QED
      BY <3>1, <1>1, <1>2, <2>2, <2>4, <2>5, FlushFromFlushes
  <2>7. PICK m \in Nat, es \in Seq(Frames) :
              /\ FlushStep(FALSE, P, m, es) /\ s <= m /\ m <= Counter
              /\ m = s \/ m <= FirstSeq + (received + 1)
              /\ s \in P => s < m
    BY <2>6
  <2>8. Flushes(FALSE, P, m, es)
    <3>1. \A k \in P : FirstSeq <= k /\ k < FirstSeq + received' /\ nextSeq <= k
      BY <1>1, <1>2, <2>1, <2>4
    <3>2. \A k \in Nat : k >= FirstSeq + received' => m <= k
      BY <1>1, <1>2, <2>7
    <3> QED
      BY <1>1, <1>2, <2>1, <2>7, <3>1, <3>2 DEF Flushes
  <2>9. P \in SUBSET Nat
    BY <2>4, <1>1, <1>2
  <2> HIDE DEF P, s
  <2>10. Pops(FALSE)
    BY <1>2 DEF Pops
  <2> QED
    BY <1>2, <2>6, <2>8, <2>9, <2>10 DEF TransportStep, Before, Types, RuntimeTypes, SyncTypes
<1> QED
  BY <1>3, <1>4, <1>5

LEMMA AscendingIs ==
    ASSUME NEW lo \in Nat, NEW hi \in Nat, NEW P, P \subseteq lo..(hi - 1), P # {},
           NEW n \in Ascending(P)
    PROVE  /\ Cardinality(P) \in Nat \ {0}
           /\ n \in [1..Cardinality(P) -> P] /\ Len(n) = Cardinality(P)
           /\ \A s \in P : \E i \in 1..Cardinality(P) : n[i] = s
           /\ \A i, j \in 1..Cardinality(P) : i < j => n[i] < n[j]
           /\ n[Len(n)] \in P /\ \A s \in P : s <= n[Len(n)]
<1>1. IsFiniteSet(P)
  <2>1. IsFiniteSet(lo..(hi - 1))
    BY FS_Interval
  <2> QED
    BY <2>1, FS_Subset
<1>2. Cardinality(P) \in Nat \ {0}
  BY <1>1, FS_CardinalityType, FS_EmptySet
<1>3. n \in [1..Cardinality(P) -> P]
  BY DEF Ascending
<1>4. n \in Seq(P) /\ Len(n) = Cardinality(P) /\ DOMAIN n = 1..Cardinality(P)
  BY <1>2, <1>3
<1>5. /\ \A s \in P : \E i \in 1..Cardinality(P) : n[i] = s
      /\ \A i, j \in 1..Cardinality(P) : i < j => n[i] < n[j]
  BY <1>4 DEF Ascending
<1>6. \A s \in P : s \in Nat
  OBVIOUS
<1>7. ASSUME NEW s \in P PROVE s <= n[Cardinality(P)]
  <2>1. PICK i \in 1..Cardinality(P) : n[i] = s
    BY <1>5
  <2>2. n[Cardinality(P)] \in Nat
    <3>1. n[Cardinality(P)] \in P
      BY <1>2, <1>3
    <3> QED
      BY <3>1, <1>6
  <2>3. i < Cardinality(P) => n[i] < n[Cardinality(P)]
    BY <1>2, <1>5
  <2> QED
    BY <1>2, <1>6, <2>1, <2>2, <2>3
<1> QED
  BY <1>2, <1>3, <1>4, <1>5, <1>7

LEMMA FlushTimeoutEffect ==
    ASSUME Before, FlushTimeout
    PROVE  TransportStep /\ ReaderTypes'
<1>1. FirstSeq \in Nat /\ received \in Nat /\ Len(log) \in Nat /\ received <= Len(log)
      /\ nextSeq \in Nat
  BY DEF Before, Types, TransportTypes, GenerationTypes, BoundsAssumption
<1>2. /\ UNCHANGED <<generationVars, earlyVars, conts, abandoned>> /\ UNCHANGED syncs
      /\ faults' = faults /\ skipped' = skipped /\ received' = received /\ log' = log
  BY DEF FlushTimeout, syncVars, faultVars, generationVars
<1>3. on # {} /\ ~deferred /\ pending # {}
  BY DEF FlushTimeout
<1>4. PICK n \in Ascending(pending) :
          /\ Detach(Ended(on, EventsOf(n)), Handed(reader, on, EventsOf(n)))
          /\ IF on' = {}
             THEN ResetBuffer(FALSE)
             ELSE /\ nextSeq' = n[Len(n)] + 1 /\ pending' = {}
                  /\ UNCHANGED deferred
  BY DEF FlushTimeout
<1> DEFINE k == Cardinality(pending)
           es == EventsOf(n)
           m == n[Len(n)] + 1
<1>5. pending \subseteq FirstSeq..(FirstSeq + received - 1)
      /\ pending \subseteq nextSeq..(FirstSeq + received - 1)
  BY DEF Before, Types, TransportTypes
<1>6. FirstSeq + received \in Nat
  BY <1>1
<1>7. /\ k \in Nat \ {0}
      /\ n \in [1..k -> pending] /\ Len(n) = k
      /\ \A s \in pending : \E i \in 1..k : n[i] = s
      /\ \A i, j \in 1..k : i < j => n[i] < n[j]
      /\ n[Len(n)] \in pending /\ \A s \in pending : s <= n[Len(n)]
  <2>1. PICK hi \in Nat : hi = FirstSeq + received
    BY <1>6
  <2>3. pending \subseteq FirstSeq..(hi - 1)
    BY <1>1, <1>5, <2>1
  <2>2. \A lo, up \in Nat : \A P : P \subseteq lo..(up - 1) /\ P # {} /\ n \in Ascending(P) =>
           /\ Cardinality(P) \in Nat \ {0}
           /\ n \in [1..Cardinality(P) -> P] /\ Len(n) = Cardinality(P)
           /\ \A s \in P : \E i \in 1..Cardinality(P) : n[i] = s
           /\ \A i, j \in 1..Cardinality(P) : i < j => n[i] < n[j]
           /\ n[Len(n)] \in P /\ \A s \in P : s <= n[Len(n)]
    BY AscendingIs
  <2> QED
    BY <1>1, <1>3, <2>2, <2>3
<1> HIDE DEF k
<1>17. \A s \in pending : s \in Nat /\ FirstSeq <= s /\ s < FirstSeq + received /\ nextSeq <= s
  BY <1>1, <1>5
<1>8. \A s \in pending : /\ s \in Nat /\ FirstSeq <= s /\ s < FirstSeq + received /\ nextSeq <= s
                         /\ s < m /\ s - FirstSeq + 1 \in 1..Len(log)
  <2>1. n[Len(n)] \in Nat
    BY <1>7, <1>17
  <2> QED
    BY <1>1, <1>17, <1>7, <2>1
<1>9. m \in Nat /\ m <= FirstSeq + received /\ nextSeq <= m /\ m <= Counter
  BY <1>1, <1>7, <1>8 DEF Counter
<1>10. /\ es \in Seq(Frames) /\ Ascends(es)
       /\ \A x : InSeq(x, es) <=> \E i \in 1..k : x = log[n[i] - FirstSeq + 1]
  <2>1. n \in [1..k -> Nat] /\ \A i \in 1..k : n[i] >= FirstSeq /\ n[i] - FirstSeq + 1 \in 1..Len(log)
    <3>1. \A i \in 1..k : n[i] \in pending
      BY <1>7
    <3> QED
      BY <3>1, <1>7, <1>8
  <2>2. k \in Nat /\ \A i, j \in 1..k : i < j => n[i] < n[j]
    BY <1>7
  <2> QED
    BY <2>1, <2>2, EventsOfAre DEF Before, Types, Stream
<1>11. Flushed(pending, m, es)
  <2> HIDE DEF es
  <2>1. \A x : InSeq(x, es) <=> \E s \in pending : x = log[s - FirstSeq + 1]
    BY <1>7, <1>10
  <2> QED
    BY <1>8, <1>10, <2>1 DEF Flushed
<1>12. Likewise(reader)
  BY DEF Likewise, Before, Types, ReaderTypes
<1> HIDE DEF es
<1>13. ReaderTypes' /\ RuntimeFollows /\ Handing(reader, on, es)
  <2>1. Detach(Ended(on, es), Handed(reader, on, es))
    BY <1>4 DEF es
  <2> QED
    BY <2>1, <1>10, <1>12, HandingDelivers DEF Before, Types
<1>14. FlushStep(FALSE, pending, m, es)
  <2>1. {s \in pending : s >= m} = {}
    BY <1>8, <1>9
  <2> QED
    BY <1>3, <1>4, <1>9, <1>11, <1>13, <2>1 DEF FlushStep, ResetBuffer, Resets, Woken
<1> HIDE DEF m
<1>15. Flushes(FALSE, pending, m, es)
  <2>1. \A s \in Nat : s >= FirstSeq + received' => m <= s
    BY <1>1, <1>2, <1>9
  <2>2. received' # received + 1
    BY <1>1, <1>2
  <2> QED
    BY <1>1, <1>2, <1>3, <1>8, <1>9, <1>14, <2>1, <2>2 DEF Flushes
<1>16. pending \in SUBSET Nat /\ Pops(FALSE)
  BY <1>2, <1>8 DEF Pops
<1> QED
  BY <1>2, <1>9, <1>10, <1>13, <1>15, <1>16 DEF TransportStep, Before, Types, RuntimeTypes, SyncTypes

\* What both outcomes of a sync have in common when the buffer is flushed.
LEMMA SyncFlushes ==
    ASSUME Before, on # {}, syncs # <<>>, received' = received, log' = log,
           NEW n \in Nat, FlushFrom(Resumed, n, Unreplayed(Head(syncs).replay)),
           n >= nextSeq, Replays => n >= Head(syncs).replay,
           \A s \in Unreplayed(Head(syncs).replay) : n <= s,
           (~Replays => ~skipped') =>
               \A s \in Nat : s >= FirstSeq + received /\ Ahead(s) => n <= s
    PROVE  /\ ReaderTypes'
           /\ \E P \in SUBSET Nat, m \in Nat, es \in Seq(Frames) : Flushes(TRUE, P, m, es)
<1> DEFINE P == Unreplayed(Head(syncs).replay)
<1>1. FirstSeq \in Nat /\ received \in Nat /\ Len(log) \in Nat /\ received <= Len(log)
      /\ nextSeq \in Nat
  BY DEF Before, Types, TransportTypes, GenerationTypes, BoundsAssumption
<1>2. pending \subseteq FirstSeq..(FirstSeq + received - 1)
      /\ pending \subseteq nextSeq..(FirstSeq + received - 1)
  BY DEF Before, Types, TransportTypes
<1>3. \A s \in pending : s \in Nat /\ FirstSeq <= s /\ s < FirstSeq + received /\ nextSeq <= s
  BY <1>1, <1>2
<1>4. Head(syncs).replay \in Nat
  <2>1. syncs[1] \in SyncCalls /\ Head(syncs) = syncs[1]
    BY DEF Before, Types, SyncTypes
  <2> QED
    BY <2>1 DEF SyncCalls
<1>5. P \subseteq pending /\ (Replays => \A s \in P : Head(syncs).replay <= s)
      /\ \A s \in pending : (Replays => Head(syncs).replay <= s) => s \in P
  BY <1>3, <1>4 DEF Unreplayed, Replays
<1>6. P \subseteq n..(FirstSeq + received - 1) /\ P \subseteq FirstSeq..(FirstSeq + received - 1)
  BY <1>1, <1>3, <1>5
<1>7. FlushFrom(Woken(TRUE), n, P)
  BY DEF Woken
<1> HIDE DEF P
<1>8. ReaderTypes' /\ \E m \in Nat, es \in Seq(Frames) :
              /\ FlushStep(TRUE, P, m, es) /\ n <= m /\ m <= Counter
              /\ m = n \/ m <= FirstSeq + received
              /\ n \in P => n < m
  BY <1>1, <1>6, <1>7, FlushFromFlushes
<1>9. PICK m \in Nat, es \in Seq(Frames) :
              /\ FlushStep(TRUE, P, m, es) /\ n <= m /\ m <= Counter
              /\ m = n \/ m <= FirstSeq + received
  BY <1>8
<1>10. Flushes(TRUE, P, m, es)
  <2>1. (~Replays => ~skipped') =>
            \A s \in Nat : s >= FirstSeq + received' /\ Ahead(s) => m <= s
    BY <1>1, <1>9
  <2>2. received' # received + 1
    BY <1>1
  <2>3. nextSeq <= m /\ (Replays => Head(syncs).replay <= m)
    BY <1>1, <1>4, <1>9
  <2>4. \A s \in P : /\ FirstSeq <= s /\ s < FirstSeq + received' /\ nextSeq <= s
                     /\ Replays => Head(syncs).replay <= s
    BY <1>3, <1>5
  <2>5. \A s \in pending : Ahead(s) => s \in P
    BY <1>5 DEF Ahead
  <2> QED
    BY <1>1, <1>5, <1>9, <2>1, <2>2, <2>3, <2>4, <2>5 DEF Flushes
<1>11. P \in SUBSET Nat
  BY <1>3, <1>5
<1> QED
  BY <1>8, <1>10, <1>11

LEMMA PopSkips ==
    ASSUME Before, syncs # <<>>, syncs' = Tail(syncs), received' = received,
           on = {} \/ ~deferred, Detach({}, Resumed), UNCHANGED bufferVars
    PROVE  Skips /\ ReaderTypes'
<1>1. reader' = [r \in Readers |-> Resumed[r]] /\ on' = on
  BY DEF Detach
<1>2. Likewise(Resumed)
  BY ResumedIs DEF Before, Types
<1>3. reader' = Resumed
  BY <1>1, <1>2 DEF Likewise
<1>4. UNCHANGED runtimeVars
  BY <1>1 DEF Detach
<1> QED
  BY <1>1, <1>2, <1>3, <1>4 DEF Skips, ReaderTypes, Before, Types, Likewise

LEMMA SyncReplyEffect ==
    ASSUME Before, SyncReply
    PROVE  TransportStep /\ ReaderTypes'
<1>1. FirstSeq \in Nat /\ received \in Nat /\ Len(log) \in Nat /\ received <= Len(log)
      /\ nextSeq \in Nat /\ skipped \in BOOLEAN
  BY DEF Before, Types, TransportTypes, GenerationTypes, BoundsAssumption, SyncTypes
<1>2. /\ UNCHANGED <<generationVars, earlyVars, conts, abandoned>> /\ syncs' = Tail(syncs)
      /\ faults' = faults /\ received' = received /\ log' = log /\ syncs # <<>>
  BY DEF SyncReply, faultVars, generationVars
<1>3. skipped' \in BOOLEAN /\ (skipped => skipped')
      /\ (~skipped' => \/ on = {} \/ Replays
                       \/ ~(Head(syncs).val > FirstSeq + received))
  BY <1>1, <1>2 DEF SyncReply, Replays
<1>4. syncs[1] \in SyncCalls /\ Head(syncs) = syncs[1]
  BY <1>2 DEF Before, Types, SyncTypes
<1>5. Head(syncs).replay \in Nat /\ Head(syncs).val \in Nat
  BY <1>4 DEF SyncCalls
<1>6. CASE on = {}
  <2>1. Detach({}, Resumed) /\ UNCHANGED bufferVars
    BY <1>6 DEF SyncReply
  <2>2. Skips /\ ReaderTypes'
    BY <1>2, <1>6, <2>1, PopSkips
  <2> QED
    BY <1>2, <1>3, <2>2 DEF TransportStep, Before, Types, RuntimeTypes
<1>7. CASE on # {}
  <2> DEFINE P == Unreplayed(Head(syncs).replay)
             ceiling == IF Replays THEN Head(syncs).replay ELSE Head(syncs).val
  <2>1. PICK s \in P \cup {ceiling} :
            /\ \A t \in P \cup {ceiling} : s <= t
            /\ FlushFrom(Resumed, Larger(nextSeq, s), P)
    BY <1>2, <1>7 DEF SyncReply, Replays
  <2>2. \A t \in pending : t \in Nat /\ nextSeq <= t
    BY <1>1 DEF Before, Types, TransportTypes
  <2>3. P \subseteq pending /\ (Replays => \A t \in P : Head(syncs).replay <= t)
    BY <1>5, <2>2 DEF Unreplayed, Replays
  <2>4. ceiling \in Nat
    BY <1>5
  <2>5. s \in Nat /\ s <= ceiling /\ \A t \in P : s <= t
    BY <2>1, <2>2, <2>3, <2>4
  <2> DEFINE n == Larger(nextSeq, s)
  <2>6. n \in Nat /\ n >= nextSeq /\ n >= s /\ (n = nextSeq \/ n = s)
    BY <1>1, <2>5 DEF Larger
  <2>7. Replays => s >= Head(syncs).replay
    BY <1>5, <2>1, <2>3
  <2>8. Replays => n >= Head(syncs).replay
    BY <1>5, <2>5, <2>6, <2>7
  <2>9. \A t \in P : n <= t
    BY <2>2, <2>3, <2>5, <2>6
  <2>10. ASSUME ~Replays => ~skipped', NEW t \in Nat, t >= FirstSeq + received, Ahead(t)
         PROVE  n <= t
    <3>1. nextSeq <= t
      <4>1. deferred => nextSeq = 0
        BY DEF Before, Types, TransportTypes
      <4> QED
        BY <1>1, <2>10, <4>1 DEF Ahead
    <3>2. ceiling <= t
      BY <1>1, <1>3, <1>5, <1>7, <2>10 DEF Ahead
    <3> QED
      BY <1>1, <2>4, <2>5, <2>6, <3>1, <3>2
  <2> HIDE DEF n
  <2>11. FlushFrom(Resumed, n, P)
    BY <2>1 DEF n
  <2>12. /\ ReaderTypes'
         /\ \E Q \in SUBSET Nat, m \in Nat, es \in Seq(Frames) : Flushes(TRUE, Q, m, es)
    BY <1>2, <1>7, <2>6, <2>8, <2>9, <2>10, <2>11, SyncFlushes
  <2>13. Pops(TRUE)
    BY <1>2 DEF Pops
  <2> QED
    BY <1>2, <1>3, <2>12, <2>13 DEF TransportStep, Before, Types, RuntimeTypes
<1> QED
  BY <1>6, <1>7

LEMMA SyncFailEffect ==
    ASSUME Before, SyncFail
    PROVE  TransportStep /\ ReaderTypes'
<1>1. FirstSeq \in Nat /\ received \in Nat /\ Len(log) \in Nat /\ received <= Len(log)
      /\ nextSeq \in Nat /\ skipped \in BOOLEAN
  BY DEF Before, Types, TransportTypes, GenerationTypes, BoundsAssumption, SyncTypes
<1>2. /\ UNCHANGED <<generationVars, earlyVars, conts, abandoned>> /\ syncs' = Tail(syncs)
      /\ received' = received /\ log' = log /\ syncs # <<>>
      /\ skipped' = skipped
  BY DEF SyncFail, generationVars
<1>3. faults' = faults + 1 /\ faults' \in 0..MaxFaults
  <2>1. faults \in 0..MaxFaults /\ faults < MaxFaults /\ MaxFaults \in Nat
    BY DEF SyncFail, Before, Types, RuntimeTypes, BoundsAssumption
  <2> QED
    BY <2>1 DEF SyncFail
<1>4. syncs[1] \in SyncCalls /\ Head(syncs) = syncs[1]
  BY <1>2 DEF Before, Types, SyncTypes
<1>5. Head(syncs).replay \in Nat /\ Head(syncs).val \in Nat
  BY <1>4 DEF SyncCalls
<1>6. CASE on = {} \/ ~deferred
  <2>1. Detach({}, Resumed) /\ UNCHANGED bufferVars
    BY <1>6 DEF SyncFail
  <2>2. Skips /\ ReaderTypes'
    BY <1>2, <1>6, <2>1, PopSkips
  <2> QED
    BY <1>1, <1>2, <1>3, <2>2 DEF TransportStep
<1>7. CASE ~(on = {} \/ ~deferred)
  <2> DEFINE P == Unreplayed(Head(syncs).replay)
             s == IF Replays THEN Head(syncs).replay ELSE 0
  <2>1. FlushFrom(Resumed, Larger(nextSeq, s), P)
    BY <1>2, <1>7 DEF SyncFail, Replays
  <2>2. \A t \in pending : t \in Nat
    BY <1>1 DEF Before, Types, TransportTypes
  <2>3. P \subseteq pending /\ (Replays => \A t \in P : Head(syncs).replay <= t)
    BY <1>5, <2>2 DEF Unreplayed, Replays
  <2>4. nextSeq = 0
    BY <1>7 DEF Before, Types, TransportTypes
  <2> DEFINE n == Larger(nextSeq, s)
  <2>5. n \in Nat /\ n = s /\ n >= nextSeq
    BY <1>5, <2>4 DEF Larger
  <2>6. Replays => n >= Head(syncs).replay
    BY <1>5, <2>5
  <2>7. \A t \in P : n <= t
    BY <2>2, <2>3, <2>5
  <2>8. ASSUME NEW t \in Nat, Ahead(t) PROVE n <= t
    BY <2>5, <2>8 DEF Ahead
  <2> HIDE DEF n, s
  <2>9. FlushFrom(Resumed, n, P)
    BY <2>1 DEF n
  <2>10. /\ ReaderTypes'
         /\ \E Q \in SUBSET Nat, m \in Nat, es \in Seq(Frames) : Flushes(TRUE, Q, m, es)
    BY <1>2, <1>7, <2>5, <2>6, <2>7, <2>8, <2>9, SyncFlushes
  <2>11. Pops(TRUE)
    BY <1>2 DEF Pops
  <2> QED
    BY <1>1, <1>2, <1>3, <2>10, <2>11 DEF TransportStep
<1> QED
  BY <1>6, <1>7

(***************************************************************************)
(* What a request does in a step: one lemma per handler.                   *)
(***************************************************************************)

\* The request r after a step that concerns only it.
Becomes(r, pc, kind, defer, told, gen, waits, look, replay, queue, got) ==
    /\ reader'[r].pc = pc /\ reader'[r].kind = kind /\ reader'[r].defer = defer
    /\ reader'[r].told = told /\ reader'[r].gen = gen /\ reader'[r].waits = waits
    /\ reader'[r].look = look /\ reader'[r].replay = replay
    /\ reader'[r].queue = queue /\ reader'[r].got = got

Alone(r) ==
    /\ reader' \in [Readers -> Requests] /\ on' \subseteq Readers
    /\ \A q \in Readers : q # r => reader'[q] = reader[q] /\ (q \in on' <=> q \in on)
    /\ UNCHANGED <<generationVars, received, syncVars, earlyVars>>

\* r may leave, and with the last reader the buffer is reset.
Parts(r) ==
    /\ on' = on \/ on' = on \ {r}
    /\ RuntimeFollows
    /\ on' = {} => Resets(FALSE)
    /\ on' # {} => UNCHANGED bufferVars
    /\ conts' = conts /\ faults' = faults

Stays(r) == on' = on /\ UNCHANGED bufferVars

LEMMA FreshIs == Fresh \in Requests
<1>1. <<>> \in Seq({Done} \cup Events) /\ 0 \in 0..MaxRequests
  BY BoundsAssumption
<1> QED
  BY <1>1 DEF Fresh, Requests, Stages

LEMMA PartsSuffices ==
    ASSUME ReaderTypes, NEW r \in Readers, NEW L, L \subseteq {r} \cap on, NEW d \in Requests,
           NEW R, R = [reader EXCEPT ![r] = d], DetachLocally(L, R),
           UNCHANGED <<conts, faults>>,
           UNCHANGED <<generationVars, received, syncVars, earlyVars>>
    PROVE  Alone(r) /\ Parts(r) /\ on' = on \ L
           /\ reader'[r] = IF r \in L THEN Gone(d) ELSE d
<1>1. R \in [Readers -> Requests] /\ R[r] = d /\ \A q \in Readers : q # r => R[q] = reader[q]
  BY DEF ReaderTypes
<1>2. reader' = [q \in Readers |-> IF q \in L THEN Gone(R[q]) ELSE R[q]] /\ on' = on \ L
  BY DEF DetachLocally, Detach
<1>3. Gone(d) \in Requests
  BY GoneOf
<1>4. \A q \in Readers : q # r => reader'[q] = reader[q]
  BY <1>1, <1>2
<1>5. reader'[r] = IF r \in L THEN Gone(d) ELSE d
  BY <1>1, <1>2
<1>6. reader' \in [Readers -> Requests]
  <2>1. \A q \in Readers : reader'[q] \in Requests
    BY <1>1, <1>3, <1>4, <1>5
  <2> QED
    BY <2>1, <1>2
<1>7. on' = on \/ on' = on \ {r}
  BY <1>2
<1>8. RuntimeFollows
  BY DEF DetachLocally, Detach, RuntimeFollows, runtimeVars
<1>9. /\ on' = {} => Resets(FALSE)
      /\ on' # {} => UNCHANGED bufferVars
  BY DEF DetachLocally, ResetBuffer, Resets
<1> QED
  BY <1>2, <1>4, <1>5, <1>6, <1>7, <1>8, <1>9 DEF Alone, Parts, ReaderTypes

LEMMA LeaveEffect ==
    ASSUME Before, NEW r \in Readers, Leave(r)
    PROVE  /\ Alone(r) /\ Parts(r) /\ r \in on /\ on' = on \ {r} /\ UNCHANGED abandoned
           /\ Becomes(r, IF reader[r].pc \in {"fence", "recheck", "sync"} THEN reader[r].pc
                                                                         ELSE "gone",
                      "initial", reader[r].defer, FALSE, reader[r].gen, reader[r].waits,
                      FALSE, "none", <<>>, <<>>)
<1>1. r \in on /\ on' = on \ {r} /\ reader[r] \in Requests /\ on \subseteq Readers
  BY DEF Leave, Before, Types, ReaderTypes
<1>2. reader' = [reader EXCEPT ![r] = Departed(reader[r])]
  BY DEF Leave
<1>3. /\ Departed(reader[r]) \in Requests
      /\ Departed(reader[r]).pc = IF reader[r].pc \in {"fence", "recheck", "sync"}
                                  THEN reader[r].pc ELSE "gone"
      /\ Departed(reader[r]).kind = "initial" /\ Departed(reader[r]).defer = reader[r].defer
      /\ Departed(reader[r]).told = FALSE /\ Departed(reader[r]).gen = reader[r].gen
      /\ Departed(reader[r]).waits = reader[r].waits /\ Departed(reader[r]).look = FALSE
      /\ Departed(reader[r]).replay = "none" /\ Departed(reader[r]).queue = <<>>
      /\ Departed(reader[r]).got = <<>>
  <2>1. <<>> \in Seq({Done} \cup Events)
    OBVIOUS
  <2> QED
    BY <1>1, <2>1 DEF Departed, Fresh, Requests, Stages
<1>4. reader'[r] = Departed(reader[r]) /\ reader' \in [Readers -> Requests]
      /\ \A q \in Readers : q # r => reader'[q] = reader[q]
  BY <1>2, <1>3 DEF Before, Types, ReaderTypes
<1>5. RuntimeFollows
  BY <1>1 DEF Leave, RuntimeFollows, runtimeVars
<1>6. Parts(r)
  BY <1>1, <1>5 DEF Parts, Leave, ResetBuffer, Resets, faultVars, bufferVars, runtimeVars
<1>7. Alone(r)
  BY <1>1, <1>4 DEF Alone, Leave
<1>8. UNCHANGED abandoned
  BY DEF Leave, faultVars
<1>9. Becomes(r, IF reader[r].pc \in {"fence", "recheck", "sync"} THEN reader[r].pc
                                                                         ELSE "gone",
                      "initial", reader[r].defer, FALSE, reader[r].gen, reader[r].waits,
                      FALSE, "none", <<>>, <<>>)
  BY <1>3, <1>4 DEF Becomes
<1> QED
  BY <1>1, <1>6, <1>7, <1>8, <1>9

LEMMA AttachEffect ==
    ASSUME Before, NEW r \in Readers, NEW k \in {"initial", "resume"}, Attach(r, k)
    PROVE  /\ Alone(r) /\ r \notin on /\ on' = on \cup {r} /\ reader[r].pc = "idle"
           /\ \A q \in 1..(r - 1) : reader[q].pc # "idle"
           /\ on = {} => Resets(~hasSubscriber /\ k = "initial")
           /\ on # {} => UNCHANGED bufferVars
           /\ UNCHANGED <<runtimeVars, conts, faultVars>>
           /\ r \in late' \/ \A i \in 1..received : log[i] # Done
           /\ Becomes(r, "check", k, ~hasSubscriber /\ k = "initial", FALSE, 0, {},
                      FALSE, "none", <<>>, <<>>)
<1>1. reader[r].pc = "idle" /\ \A q \in 1..(r - 1) : reader[q].pc # "idle"
  BY DEF Attach
<1>2. reader[r] = Fresh /\ r \notin on
  BY <1>1 DEF Before, Shapes, Shape
<1> DEFINE defer == ~hasSubscriber /\ k = "initial"
<1>3. defer \in BOOLEAN
  OBVIOUS
<1>4. reader' = [reader EXCEPT ![r].pc = "check", ![r].kind = k, ![r].defer = defer]
  BY DEF Attach
<1>5. /\ on = {} => ResetBuffer(defer)
      /\ on # {} => UNCHANGED bufferVars
  BY DEF Attach
<1> HIDE DEF defer
<1>6. Fresh \in Requests
  BY FreshIs
<1>7. reader' \in [Readers -> Requests] /\ \A q \in Readers : q # r => reader'[q] = reader[q]
  BY <1>2, <1>3, <1>4, <1>6 DEF Before, Types, ReaderTypes, Requests, Stages
<1>8. Becomes(r, "check", k, defer, FALSE, 0, {}, FALSE, "none", <<>>, <<>>)
  <2>1. reader'[r] = [reader[r] EXCEPT !.pc = "check", !.kind = k, !.defer = defer]
    BY <1>4 DEF Before, Types, ReaderTypes
  <2> QED
    BY <1>2, <2>1 DEF Becomes, Fresh
<1>9. Alone(r) /\ on' = on \cup {r}
  BY <1>7 DEF Attach, Alone, Before, Types, ReaderTypes
<1> QED
  BY <1>1, <1>2, <1>5, <1>8, <1>9 DEF Attach, ResetBuffer, Resets, defer

LEMMA RefuseEffect ==
    ASSUME Before, NEW r \in Readers, Refuse(r)
    PROVE  /\ Alone(r) /\ Parts(r) /\ on' = on \ {r} /\ ~Expected
           /\ reader[r].pc \in {"check", "recheck", "ready"}
           /\ reader[r].pc = "ready" => reader[r].kind = "resume"
           /\ abandoned' = IF reader[r].pc = "recheck"
                           THEN abandoned \cup {reader[r].gen} ELSE abandoned
           /\ Becomes(r, "ended", reader[r].kind, reader[r].defer, reader[r].told,
                      reader[r].gen, reader[r].waits, FALSE, reader[r].replay, <<>>,
                      reader[r].got)
<1> DEFINE d == [reader[r] EXCEPT !.pc = "ended"]
           R == [reader EXCEPT ![r].pc = "ended"]
<1>1. reader[r] \in Requests
  BY DEF Before, Types, ReaderTypes
<1>2. /\ d \in Requests /\ d.pc = "ended" /\ d.kind = reader[r].kind /\ d.defer = reader[r].defer
      /\ d.told = reader[r].told /\ d.gen = reader[r].gen /\ d.waits = reader[r].waits
      /\ d.look = reader[r].look /\ d.replay = reader[r].replay
      /\ d.queue = reader[r].queue /\ d.got = reader[r].got
  BY <1>1 DEF Requests, Stages
<1>3. R = [reader EXCEPT ![r] = d]
  BY DEF Before, Types, ReaderTypes
<1>4. DetachLocally({r} \cap on, R)
  BY DEF Refuse
<1>5. UNCHANGED <<conts, faults>> /\ UNCHANGED <<generationVars, received, syncVars, earlyVars>>
  BY DEF Refuse
<1> HIDE DEF d, R
<1>6. Alone(r) /\ Parts(r) /\ on' = on \ ({r} \cap on)
           /\ reader'[r] = IF r \in {r} \cap on THEN Gone(d) ELSE d
  <2>1. ReaderTypes /\ d \in Requests /\ {r} \cap on \subseteq {r} \cap on
    BY <1>2 DEF Before, Types
  <2> QED
    BY <1>3, <1>4, <1>5, <2>1, PartsSuffices
<1>7. /\ Gone(d).pc = "ended" /\ Gone(d).kind = d.kind /\ Gone(d).defer = d.defer
      /\ Gone(d).told = d.told /\ Gone(d).gen = d.gen /\ Gone(d).waits = d.waits
      /\ Gone(d).look = FALSE /\ Gone(d).replay = d.replay
      /\ Gone(d).queue = <<>> /\ Gone(d).got = d.got
  BY <1>2, GoneOf
<1>8. reader[r].pc \in {"check", "recheck", "ready"} /\ ~Expected
      /\ (reader[r].pc = "ready" => reader[r].kind = "resume")
  BY DEF Refuse
<1>9. ~reader[r].look
  BY <1>8 DEF Before, Shapes, Shape
<1>10. reader[r].look = FALSE
  BY <1>1, <1>9 DEF Requests
<1>11. r \notin on => reader[r].queue = <<>>
  BY DEF Before, Shapes, Shape
<1>12. CASE r \in on
  BY <1>2, <1>6, <1>7, <1>8, <1>12 DEF Becomes, Refuse
<1>13. CASE r \notin on
  BY <1>2, <1>6, <1>8, <1>10, <1>11, <1>13 DEF Becomes, Refuse
<1> QED
  BY <1>12, <1>13

LEMMA GiveUpEffect ==
    ASSUME Before, NEW r \in Readers, GiveUp(r) \/ FenceDetached(r)
    PROVE  /\ Alone(r) /\ Stays(r) /\ r \notin on /\ UNCHANGED <<runtimeVars, faultVars>>
           /\ GiveUp(r) => conts' = conts /\ reader[r].pc \in {"check", "ready", "reconciled", "ended"}
           /\ FenceDetached(r) => /\ reader[r].pc = "fence"
                                  /\ conts' = IF on = {} THEN conts
                                     ELSE conts \cup {[gen |-> reader[r].gen,
                                           waits |-> reader[r].waits,
                                           defer |-> reader[r].defer]}
           /\ Becomes(r, "gone", "initial", FALSE, FALSE, 0, {}, FALSE, "none", <<>>, <<>>)
<1>1. reader' = [reader EXCEPT ![r] = [Fresh EXCEPT !.pc = "gone"]] /\ r \notin on
  BY DEF GiveUp, FenceDetached, Quit
<1>2. [Fresh EXCEPT !.pc = "gone"] \in Requests
  BY FreshIs DEF Requests, Stages
<1>3. reader' \in [Readers -> Requests] /\ reader'[r] = [Fresh EXCEPT !.pc = "gone"]
      /\ \A q \in Readers : q # r => reader'[q] = reader[q]
  BY <1>1, <1>2 DEF Before, Types, ReaderTypes
<1>4. Becomes(r, "gone", "initial", FALSE, FALSE, 0, {}, FALSE, "none", <<>>, <<>>)
  BY <1>3 DEF Becomes, Fresh
<1>5. on' = on /\ UNCHANGED bufferVars /\ UNCHANGED <<generationVars, received, syncVars, earlyVars>>
      /\ UNCHANGED <<runtimeVars, faultVars>>
  BY DEF GiveUp, FenceDetached
<1>6. Alone(r) /\ Stays(r)
  BY <1>3, <1>5 DEF Alone, Stays, Before, Types, ReaderTypes
<1> QED
  BY <1>1, <1>4, <1>5, <1>6 DEF GiveUp, FenceDetached

LEMMA CheckEffect ==
    ASSUME Before, NEW r \in Readers, Check(r)
    PROVE  /\ Alone(r) /\ Stays(r) /\ r \in on /\ reader[r].pc = "check" /\ job # "replaced"
           /\ UNCHANGED <<conts, faultVars, attachGen>>
           /\ \/ /\ hasSubscriber /\ UNCHANGED <<hasSubscriber, since>>
                 /\ Becomes(r, "ready", reader[r].kind, FALSE, reader[r].told, reader[r].gen,
                            reader[r].waits, reader[r].look, reader[r].replay,
                            reader[r].queue, reader[r].got)
              \/ /\ ~hasSubscriber /\ hasSubscriber' = TRUE /\ since' = emitted
                 /\ Becomes(r, "fence", reader[r].kind, reader[r].defer, reader[r].told,
                            attachGen, Range(buffered), reader[r].look, reader[r].replay,
                            reader[r].queue, reader[r].got)
<1>1. reader[r] \in Requests /\ attachGen \in 0..MaxRequests /\ Range(buffered) \subseteq Events
  BY DEF Before, Types, ReaderTypes, RuntimeTypes, EarlyTypes, Range
<1>2. on' = on /\ UNCHANGED bufferVars /\ UNCHANGED <<generationVars, received, syncVars, earlyVars>>
      /\ UNCHANGED <<conts, faultVars, attachGen>> /\ r \in on /\ reader[r].pc = "check"
      /\ job # "replaced"
  BY DEF Check, Expected
<1>3. CASE hasSubscriber
  <2>1. reader' = [reader EXCEPT ![r].pc = "ready", ![r].defer = FALSE]
        /\ UNCHANGED <<hasSubscriber, since>>
    BY <1>3 DEF Check
  <2>2. reader' \in [Readers -> Requests] /\ \A q \in Readers : q # r => reader'[q] = reader[q]
    BY <1>1, <2>1 DEF Before, Types, ReaderTypes, Requests, Stages
  <2>3. Becomes(r, "ready", reader[r].kind, FALSE, reader[r].told, reader[r].gen,
                            reader[r].waits, reader[r].look, reader[r].replay,
                            reader[r].queue, reader[r].got)
    BY <1>1, <2>1 DEF Before, Types, ReaderTypes, Requests, Becomes
  <2> QED
    BY <1>2, <1>3, <2>1, <2>2, <2>3 DEF Alone, Stays, Before, Types, ReaderTypes
<1>4. CASE ~hasSubscriber
  <2>1. reader' = [reader EXCEPT ![r].pc = "fence", ![r].gen = attachGen,
                                        ![r].waits = Range(buffered)]
        /\ hasSubscriber' = TRUE /\ since' = emitted
    BY <1>4 DEF Check
  <2>2. reader' \in [Readers -> Requests] /\ \A q \in Readers : q # r => reader'[q] = reader[q]
    BY <1>1, <2>1 DEF Before, Types, ReaderTypes, Requests, Stages
  <2>3. Becomes(r, "fence", reader[r].kind, reader[r].defer, reader[r].told,
                            attachGen, Range(buffered), reader[r].look, reader[r].replay,
                            reader[r].queue, reader[r].got)
    BY <1>1, <2>1 DEF Before, Types, ReaderTypes, Requests, Becomes
  <2> QED
    BY <1>2, <1>4, <2>1, <2>2, <2>3 DEF Alone, Stays, Before, Types, ReaderTypes
<1> QED
  BY <1>3, <1>4

LEMMA FenceEffect ==
    ASSUME Before, NEW r \in Readers, Fence(r) \/ RecheckThrows(r)
    PROVE  /\ Alone(r) /\ Stays(r) /\ UNCHANGED <<runtimeVars, conts>>
           /\ Fence(r) => /\ r \in on /\ reader[r].pc = "fence" /\ Settled(reader[r].waits)
                          /\ UNCHANGED faultVars /\ reader'[r].pc = "recheck"
           /\ RecheckThrows(r) => /\ reader[r].pc = "recheck"
                                  /\ faults' = faults + 1 /\ faults' \in 0..MaxFaults
                                  /\ abandoned' = abandoned \cup {reader[r].gen}
                                  /\ reader'[r].pc = IF r \in on THEN "failed" ELSE "ended"
           /\ Becomes(r, reader'[r].pc, reader[r].kind, reader[r].defer, reader[r].told,
                      reader[r].gen, reader[r].waits, reader[r].look, reader[r].replay,
                      reader[r].queue, reader[r].got)
<1>1. reader[r] \in Requests
  BY DEF Before, Types, ReaderTypes
<1>2. on' = on /\ UNCHANGED bufferVars /\ UNCHANGED <<generationVars, received, syncVars, earlyVars>>
      /\ UNCHANGED <<runtimeVars, conts>>
  BY DEF Fence, RecheckThrows
<1>3. \E p \in Stages : /\ reader' = [reader EXCEPT ![r].pc = p]
                        /\ Fence(r) => p = "recheck"
                        /\ RecheckThrows(r) => p = IF r \in on THEN "failed" ELSE "ended"
  <2>1. ~(Fence(r) /\ RecheckThrows(r))
    BY DEF Fence, RecheckThrows
  <2> QED
    BY <2>1 DEF Fence, RecheckThrows, Goto, Stages
<1>4. PICK p \in Stages : /\ reader' = [reader EXCEPT ![r].pc = p]
                          /\ Fence(r) => p = "recheck"
                          /\ RecheckThrows(r) => p = IF r \in on THEN "failed" ELSE "ended"
  BY <1>3
<1>5. reader' \in [Readers -> Requests] /\ \A q \in Readers : q # r => reader'[q] = reader[q]
  BY <1>1, <1>4 DEF Before, Types, ReaderTypes, Requests
<1>6. reader'[r].pc = p
      /\ Becomes(r, p, reader[r].kind, reader[r].defer, reader[r].told,
                      reader[r].gen, reader[r].waits, reader[r].look, reader[r].replay,
                      reader[r].queue, reader[r].got)
  BY <1>1, <1>4 DEF Before, Types, ReaderTypes, Requests, Becomes
<1>7. RecheckThrows(r) => faults' = faults + 1 /\ faults' \in 0..MaxFaults
  <2>1. faults \in 0..MaxFaults /\ MaxFaults \in Nat
    BY BoundsAssumption DEF Before, Types, RuntimeTypes, BoundsAssumption
  <2> QED
    BY <2>1 DEF RecheckThrows
<1>8. Alone(r) /\ Stays(r)
  BY <1>2, <1>5 DEF Alone, Stays, Before, Types, ReaderTypes
<1>9. /\ Fence(r) => r \in on /\ reader[r].pc = "fence" /\ Settled(reader[r].waits) /\ UNCHANGED faultVars
      /\ RecheckThrows(r) => reader[r].pc = "recheck" /\ abandoned' = abandoned \cup {reader[r].gen}
  BY DEF Fence, RecheckThrows
<1> QED
  BY <1>2, <1>4, <1>6, <1>7, <1>8, <1>9

LEMMA ReconcileEffect ==
    ASSUME Before, NEW r \in Readers, Reconcile(r)
    PROVE  /\ Alone(r) /\ Stays(r) /\ UNCHANGED <<runtimeVars, conts, faultVars>>
           /\ r \in on /\ reader[r].pc = "ready" /\ reader[r].kind = "resume" /\ job # "replaced"
           /\ Becomes(r, "reconciled", reader[r].kind, reader[r].defer, (job = "paused"),
                      reader[r].gen, reader[r].waits, TRUE, reader[r].replay,
                      reader[r].queue, reader[r].got)
<1>1. reader[r] \in Requests
  BY DEF Before, Types, ReaderTypes
<1>2. on' = on /\ UNCHANGED bufferVars /\ UNCHANGED <<generationVars, received, syncVars, earlyVars>>
      /\ UNCHANGED <<runtimeVars, conts, faultVars>>
      /\ r \in on /\ reader[r].pc = "ready" /\ reader[r].kind = "resume" /\ job # "replaced"
  BY DEF Reconcile, Expected
<1>3. PICK t \in BOOLEAN : t = (job = "paused")
  OBVIOUS
<1>4. reader' = [reader EXCEPT ![r].pc = "reconciled", ![r].look = TRUE,
                                ![r].told = t]
  BY <1>3 DEF Reconcile
<1>5. reader' \in [Readers -> Requests] /\ \A q \in Readers : q # r => reader'[q] = reader[q]
  BY <1>1, <1>4 DEF Before, Types, ReaderTypes, Requests, Stages
<1>6. Becomes(r, "reconciled", reader[r].kind, reader[r].defer, t,
                      reader[r].gen, reader[r].waits, TRUE, reader[r].replay,
                      reader[r].queue, reader[r].got)
  BY <1>1, <1>4 DEF Before, Types, ReaderTypes, Requests, Becomes
<1>7. Alone(r) /\ Stays(r)
  BY <1>2, <1>5 DEF Alone, Stays, Before, Types, ReaderTypes
<1> QED
  BY <1>2, <1>3, <1>6, <1>7

\* activateDelivery of a reader whose handler has not been called.
LEMMA ActivatedIs ==
    ASSUME Before, NEW r \in on, reader[r].pc # "live"
    PROVE  /\ r \in Readers /\ Activated(r) \in Requests /\ Activated(r).pc = "live"
           /\ Activated(r).kind = reader[r].kind
           /\ Activated(r).defer = reader[r].defer /\ Activated(r).told = reader[r].told
           /\ Activated(r).gen = reader[r].gen /\ Activated(r).waits = reader[r].waits
           /\ Activated(r).look = reader[r].look /\ Activated(r).replay = reader[r].replay
           /\ Activated(r).queue = <<>> /\ Activated(r).got = reader[r].queue
           /\ HasDone(r) <=> InSeq(Done, reader[r].queue)
<1>1. reader[r] \in Requests /\ r \in Readers
  BY DEF Before, Types, ReaderTypes
<1>2. reader[r].queue \in Seq({Done} \cup Events) /\ reader[r].got = <<>>
  BY <1>1 DEF Before, Shapes, Shape, Requests
<1>3. <<>> \o reader[r].queue = reader[r].queue
  BY <1>2
<1>4. Activated(r) = [reader[r] EXCEPT !.pc = "live", !.queue = <<>>, !.got = reader[r].queue]
  BY <1>2, <1>3 DEF Activated
<1>5. HasDone(r) <=> InSeq(Done, reader[r].queue)
  BY <1>2, InRange DEF HasDone
<1>6. <<>> \in Seq({Done} \cup Events)
  OBVIOUS
<1> QED
  BY <1>1, <1>2, <1>4, <1>5, <1>6 DEF Requests, Stages

\* The reader goes live, or is ended at once.
LEMMA GoesLive ==
    ASSUME Before, NEW r \in on, reader[r].pc \notin {"live", "failed"},
           NEW ends \in BOOLEAN, NEW look \in BOOLEAN,
           NEW d, d = [Activated(r) EXCEPT !.look = look],
           DetachLocally(IF ends THEN {r} ELSE {}, [reader EXCEPT ![r] = d]),
           UNCHANGED <<conts, faults>>,
           UNCHANGED <<generationVars, received, syncVars, earlyVars>>
    PROVE  /\ Alone(r) /\ Parts(r) /\ on' = IF ends THEN on \ {r} ELSE on
           /\ Becomes(r, IF ends THEN "ended" ELSE "live", reader[r].kind, reader[r].defer,
                      reader[r].told, reader[r].gen, reader[r].waits, look /\ ~ends,
                      reader[r].replay, <<>>, reader[r].queue)
<1>1. /\ r \in Readers /\ Activated(r) \in Requests /\ Activated(r).pc = "live"
      /\ Activated(r).kind = reader[r].kind
      /\ Activated(r).defer = reader[r].defer /\ Activated(r).told = reader[r].told
      /\ Activated(r).gen = reader[r].gen /\ Activated(r).waits = reader[r].waits
      /\ Activated(r).replay = reader[r].replay
      /\ Activated(r).queue = <<>> /\ Activated(r).got = reader[r].queue
  BY ActivatedIs
<1>2. /\ d \in Requests /\ d.pc = "live" /\ d.kind = reader[r].kind
      /\ d.defer = reader[r].defer /\ d.told = reader[r].told
      /\ d.gen = reader[r].gen /\ d.waits = reader[r].waits
      /\ d.look = look /\ d.replay = reader[r].replay
      /\ d.queue = <<>> /\ d.got = reader[r].queue
  BY <1>1 DEF Requests
<1> DEFINE L == IF ends THEN {r} ELSE {}
           R == [reader EXCEPT ![r] = d]
<1>3. R = [reader EXCEPT ![r] = d] /\ DetachLocally(L, R) /\ L \subseteq {r} \cap on
      /\ (r \in L <=> ends)
  OBVIOUS
<1>8. UNCHANGED <<conts, faults>> /\ UNCHANGED <<generationVars, received, syncVars, earlyVars>>
  OBVIOUS
<1> HIDE DEF L, R
<1>4. /\ Alone(r) /\ Parts(r) /\ on' = on \ L
      /\ reader'[r] = IF r \in L THEN Gone(d) ELSE d
  <2>1. ReaderTypes /\ r \in Readers /\ d \in Requests
    BY <1>1, <1>2 DEF Before, Types
  <2>2. R = [reader EXCEPT ![r] = d] /\ DetachLocally(L, R) /\ L \subseteq {r} \cap on
    BY <1>3
  <2> QED
    BY ONLY <1>8, <2>1, <2>2, PartsSuffices
<1>5. /\ Gone(d).pc = "ended" /\ Gone(d).kind = d.kind /\ Gone(d).defer = d.defer
      /\ Gone(d).told = d.told /\ Gone(d).gen = d.gen /\ Gone(d).waits = d.waits
      /\ Gone(d).look = FALSE /\ Gone(d).replay = d.replay
      /\ Gone(d).queue = <<>> /\ Gone(d).got = d.got
  BY <1>2, GoneOf
<1>6. CASE ends
  BY <1>2, <1>3, <1>4, <1>5, <1>6 DEF Becomes, L
<1>7. CASE ~ends
  BY <1>2, <1>3, <1>4, <1>7 DEF Becomes, L
<1> QED
  BY <1>6, <1>7

LEMMA StartLiveEffect ==
    ASSUME Before, NEW r \in Readers, StartLive(r)
    PROVE  /\ Alone(r) /\ Parts(r) /\ UNCHANGED abandoned
           /\ r \in on /\ reader[r].pc = "ready" /\ reader[r].kind = "initial"
           /\ \E ends \in BOOLEAN :
                 /\ on' = IF ends THEN on \ {r} ELSE on
                 /\ InSeq(Done, reader[r].queue) => ends
                 /\ Becomes(r, IF ends THEN "ended" ELSE "live", reader[r].kind, reader[r].defer,
                            reader[r].told, reader[r].gen, reader[r].waits, ~ends,
                            reader[r].replay, <<>>, reader[r].queue)
<1>1. /\ r \in on /\ reader[r].pc = "ready" /\ reader[r].kind = "initial" /\ UNCHANGED abandoned
      /\ UNCHANGED <<conts, faults>> /\ UNCHANGED <<generationVars, received, syncVars, earlyVars>>
  BY DEF StartLive, faultVars
<1>2. PICK ends \in BOOLEAN : ends = ((overflowed /\ job # "complete") \/ HasDone(r))
  OBVIOUS
<1> DEFINE d == [Activated(r) EXCEPT !.look = TRUE]
<1>3. DetachLocally(IF ends THEN {r} ELSE {}, [reader EXCEPT ![r] = d])
  BY <1>2 DEF StartLive
<1>4. d = [Activated(r) EXCEPT !.look = TRUE]
  OBVIOUS
<1> HIDE DEF d
<1>5. /\ Alone(r) /\ Parts(r) /\ on' = IF ends THEN on \ {r} ELSE on
      /\ Becomes(r, IF ends THEN "ended" ELSE "live", reader[r].kind, reader[r].defer,
                      reader[r].told, reader[r].gen, reader[r].waits, TRUE /\ ~ends,
                      reader[r].replay, <<>>, reader[r].queue)
  BY <1>1, <1>3, <1>4, GoesLive
<1>6. InSeq(Done, reader[r].queue) => ends
  BY <1>1, <1>2, ActivatedIs
<1> QED
  BY <1>1, <1>5, <1>6

LEMMA ActivateEffect ==
    ASSUME Before, NEW r \in Readers, Activate(r)
    PROVE  /\ Alone(r) /\ Parts(r) /\ UNCHANGED abandoned
           /\ r \in on /\ reader[r].pc = "reconciled"
           /\ \E ends \in BOOLEAN :
                 /\ on' = IF ends THEN on \ {r} ELSE on
                 /\ ends <=> InSeq(Done, reader[r].queue)
                 /\ Becomes(r, IF ends THEN "ended" ELSE "live", reader[r].kind, reader[r].defer,
                            reader[r].told, reader[r].gen, reader[r].waits,
                            reader[r].look /\ ~ends,
                            reader[r].replay, <<>>, reader[r].queue)
<1>1. /\ r \in on /\ reader[r].pc = "reconciled" /\ UNCHANGED abandoned
      /\ UNCHANGED <<conts, faults>> /\ UNCHANGED <<generationVars, received, syncVars, earlyVars>>
  BY DEF Activate, faultVars
<1>2. PICK ends \in BOOLEAN : ends <=> HasDone(r)
  BY DEF HasDone
<1> DEFINE d == Activated(r)
<1>3. DetachLocally(IF ends THEN {r} ELSE {}, [reader EXCEPT ![r] = d])
  BY <1>2 DEF Activate
<1>4. d = [Activated(r) EXCEPT !.look = reader[r].look] /\ reader[r].look \in BOOLEAN
  <2>1. Activated(r) \in Requests /\ Activated(r).look = reader[r].look
    BY <1>1, ActivatedIs
  <2> QED
    BY <2>1 DEF Requests
<1> HIDE DEF d
<1>5. /\ Alone(r) /\ Parts(r) /\ on' = IF ends THEN on \ {r} ELSE on
      /\ Becomes(r, IF ends THEN "ended" ELSE "live", reader[r].kind, reader[r].defer,
                      reader[r].told, reader[r].gen, reader[r].waits, reader[r].look /\ ~ends,
                      reader[r].replay, <<>>, reader[r].queue)
  BY <1>1, <1>3, <1>4, GoesLive
<1>6. ends <=> InSeq(Done, reader[r].queue)
  BY <1>1, <1>2, ActivatedIs
<1> QED
  BY <1>1, <1>5, <1>6

LEMMA StoredTerminalEffect ==
    ASSUME Before, NEW r \in Readers, StoredTerminal(r)
    PROVE  /\ Alone(r) /\ Parts(r) /\ UNCHANGED abandoned
           /\ r \in on /\ reader[r].look
           /\ \/ /\ TerminalStored /\ reader[r].pc = "live" /\ on' = on \ {r}
                 /\ Becomes(r, "ended", reader[r].kind, reader[r].defer, reader[r].told,
                            reader[r].gen, reader[r].waits, FALSE, reader[r].replay, <<>>,
                            reader[r].got \o <<Done>>)
              \/ /\ TerminalStored /\ reader[r].pc = "reconciled" /\ on' = on
                 /\ ~InSeq(Done, reader[r].queue)
                 /\ Becomes(r, reader[r].pc, reader[r].kind, reader[r].defer, reader[r].told,
                            reader[r].gen, reader[r].waits, FALSE, reader[r].replay,
                            reader[r].queue \o <<Done>>, reader[r].got)
              \/ /\ TerminalStored => InSeq(Done, reader[r].queue)
                 /\ on' = on
                 /\ Becomes(r, reader[r].pc, reader[r].kind, reader[r].defer, reader[r].told,
                            reader[r].gen, reader[r].waits, FALSE, reader[r].replay,
                            reader[r].queue, reader[r].got)
<1> DEFINE es == IF TerminalStored THEN <<Done>> ELSE <<>>
           d == [reader[r] EXCEPT !.look = FALSE]
           R == [reader EXCEPT ![r].look = FALSE]
           H == Handed(R, {r}, es)
           L == Ended({r}, es)
<1>1. /\ reader[r] \in Requests /\ reader[r].look /\ r \in on
      /\ reader[r].pc \in {"reconciled", "live"}
      /\ reader[r].queue \in Seq(Frames) /\ reader[r].got \in Seq(Frames)
      /\ reader[r].pc = "live" => reader[r].queue = <<>>
      /\ UNCHANGED <<conts, faults>> /\ UNCHANGED <<generationVars, received, syncVars, earlyVars>>
      /\ UNCHANGED abandoned
      /\ DetachLocally(L, H)
  BY DEF StoredTerminal, Before, Types, ReaderTypes, Shapes, Shape, Requests, Frames, faultVars
<1>2. /\ d \in Requests /\ d.pc = reader[r].pc /\ d.kind = reader[r].kind /\ d.defer = reader[r].defer
      /\ d.told = reader[r].told /\ d.gen = reader[r].gen /\ d.waits = reader[r].waits
      /\ d.look = FALSE /\ d.replay = reader[r].replay
      /\ d.queue = reader[r].queue /\ d.got = reader[r].got
  BY <1>1 DEF Requests
<1>3. R = [reader EXCEPT ![r] = d]
  BY DEF Before, Types, ReaderTypes
<1>4. es \in Seq(Frames) /\ (Done \in Range(es) <=> TerminalStored)
  <2>1. <<Done>> \in Seq(Frames) /\ <<>> \in Seq(Frames)
    BY DEF Frames
  <2>2. InSeq(Done, <<Done>>) /\ ~InSeq(Done, <<>>)
    BY DEF InSeq
  <2> QED
    BY <2>1, <2>2, InRange
<1> DEFINE open == ~InSeq(Done, reader[r].queue)
<1>5. r \in Open({r}) <=> open
  BY <1>1, InRange DEF Open
<1>6. Open({r}) \subseteq {r}
  BY DEF Open
<1>7. r \in Active <=> reader[r].pc = "live"
  BY <1>1 DEF Active
<1> DEFINE h == IF ~open THEN d
                ELSE IF reader[r].pc = "live" THEN [d EXCEPT !.got = d.got \o es]
                ELSE [d EXCEPT !.queue = d.queue \o es]
<1>8. h \in Requests
  <2>1. d.got \o es \in Seq({Done} \cup Events) /\ d.queue \o es \in Seq({Done} \cup Events)
    BY <1>1, <1>2, <1>4 DEF Frames
  <2> HIDE DEF d, es
  <2> QED
    BY <1>2, <2>1 DEF Requests
<1>9. H = [reader EXCEPT ![r] = h]
  <2>1. R[r] = d /\ \A q \in Readers : q # r => R[q] = reader[q]
    BY <1>3 DEF Before, Types, ReaderTypes
  <2> HIDE DEF es, d, R
  <2>2. H = [q \in Readers |-> IF q = r THEN h ELSE reader[q]]
    <3>1. ASSUME NEW q \in Readers, q # r PROVE H[q] = reader[q]
      BY <1>6, <2>1, <3>1 DEF Handed
    <3>2. H[r] = h
      <4>1. CASE ~open
        BY <1>5, <2>1, <4>1 DEF Handed
      <4>2. CASE open /\ reader[r].pc = "live"
        BY <1>5, <1>7, <2>1, <4>2 DEF Handed
      <4>3. CASE open /\ reader[r].pc # "live"
        BY <1>5, <1>7, <2>1, <4>3 DEF Handed
      <4> QED
        BY <4>1, <4>2, <4>3
    <3>3. H = [q \in Readers |-> H[q]]
      BY DEF Handed
    <3> HIDE DEF H, h
    <3> QED
      BY <3>1, <3>2, <3>3
  <2> HIDE DEF H, h
  <2> QED
    BY <2>2 DEF Before, Types, ReaderTypes
<1>10. L \subseteq {r} \cap on /\ (r \in L <=> open /\ reader[r].pc = "live" /\ TerminalStored)
  BY <1>1, <1>4, <1>5, <1>6, <1>7 DEF Ended
<1> HIDE DEF H, L, h
<1>11. /\ Alone(r) /\ Parts(r) /\ on' = on \ L
       /\ reader'[r] = IF r \in L THEN Gone(h) ELSE h
  <2>1. ReaderTypes
    BY DEF Before, Types
  <2>2. UNCHANGED <<conts, faults>> /\ UNCHANGED <<generationVars, received, syncVars, earlyVars>>
        /\ DetachLocally(L, H)
    BY <1>1
  <2> QED
    BY ONLY r \in Readers, <1>8, <1>9, <1>10, <2>1, <2>2, PartsSuffices
<1>12. reader[r].pc = "live" => open
  BY <1>1, Empty
<1>13. CASE TerminalStored /\ reader[r].pc = "live"
  <2>1. h = [d EXCEPT !.got = reader[r].got \o <<Done>>]
    BY <1>2, <1>12, <1>13 DEF h
  <2>2. /\ h.pc = "live" /\ h.kind = d.kind /\ h.defer = d.defer /\ h.told = d.told /\ h.gen = d.gen
        /\ h.waits = d.waits /\ h.replay = d.replay /\ h.got = reader[r].got \o <<Done>>
    BY <1>2, <1>13, <2>1 DEF Requests
  <2>3. reader'[r] = Gone(h) /\ on' = on \ {r}
    BY <1>10, <1>11, <1>12, <1>13
  <2>4. /\ Gone(h).pc = "ended" /\ Gone(h).kind = h.kind /\ Gone(h).defer = h.defer
        /\ Gone(h).told = h.told /\ Gone(h).gen = h.gen /\ Gone(h).waits = h.waits
        /\ Gone(h).look = FALSE /\ Gone(h).replay = h.replay
        /\ Gone(h).queue = <<>> /\ Gone(h).got = h.got
    BY <1>8, <2>2, GoneOf
  <2> QED
    BY <1>1, <1>2, <1>11, <1>13, <2>2, <2>3, <2>4 DEF Becomes
<1>14. CASE TerminalStored /\ reader[r].pc # "live" /\ open
  <2>1. h = [d EXCEPT !.queue = reader[r].queue \o <<Done>>]
    BY <1>2, <1>14 DEF h
  <2>2. /\ h.pc = d.pc /\ h.kind = d.kind /\ h.defer = d.defer /\ h.told = d.told /\ h.gen = d.gen
        /\ h.waits = d.waits /\ h.replay = d.replay /\ h.queue = reader[r].queue \o <<Done>>
        /\ h.look = d.look /\ h.got = d.got
    BY <1>2, <2>1 DEF Requests
  <2>3. reader'[r] = h /\ on' = on
    BY <1>10, <1>11, <1>14
  <2> QED
    BY <1>1, <1>2, <1>11, <1>14, <2>2, <2>3 DEF Becomes
<1>15. CASE ~TerminalStored \/ ~open
  <2>1. /\ h.pc = d.pc /\ h.kind = d.kind /\ h.defer = d.defer /\ h.told = d.told /\ h.gen = d.gen
        /\ h.waits = d.waits /\ h.replay = d.replay /\ h.queue = d.queue
        /\ h.look = d.look /\ h.got = d.got
    <3>1. CASE ~open
      BY <3>1 DEF h
    <3>2. CASE open /\ ~TerminalStored
      <4>1. d.got \o es = d.got /\ d.queue \o es = d.queue
        BY <1>1, <1>2, <3>2
      <4> HIDE DEF d, es
      <4> QED
        BY <1>2, <3>2, <4>1 DEF h, Requests
    <3> QED
      BY <1>15, <3>1, <3>2
  <2>2. reader'[r] = h /\ on' = on
    BY <1>10, <1>11, <1>15
  <2> QED
    BY <1>1, <1>2, <1>11, <1>15, <2>1, <2>2 DEF Becomes
<1> QED
  BY <1>13, <1>14, <1>15

(***************************************************************************)
(* The rest of a bootstrap: the frontier of the replay, Bootstrap and      *)
(* Continue.                                                               *)
(***************************************************************************)

Smaller == {p \in Nat \X Nat : p[1] < p[2]}

LEMMA SmallerIsWellFounded == IsWellFoundedOn(Smaller, Nat)
BY NatLessThanWellFounded DEF OpToRel, Smaller

\* A nonempty set of numbers has a least one.
LEMMA LeastOf ==
    ASSUME NEW S, S \subseteq Nat, S # {}
    PROVE  \E m \in S : \A c \in S : m <= c
<1>1. PICK x \in S : \A y \in S : ~(<<y, x>> \in Smaller)
  BY SmallerIsWellFounded, WFMin
<1>2. \A y \in S : ~(y < x)
  BY <1>1 DEF Smaller
<1> QED
  BY <1>2

\* A nonempty set of numbers below a bound has a greatest one.
LEMMA LargestOf ==
    ASSUME NEW n \in Nat, NEW S, \A c \in S : c \in Nat /\ c <= n, S # {}
    PROVE  Max(S) \in S /\ \A c \in S : Max(S) >= c
<1>1. PICK T : T = {n - c : c \in S}
  OBVIOUS
<1>2. T \subseteq Nat /\ T # {}
  BY <1>1
<1>3. PICK x \in T : \A c \in T : x <= c
  BY <1>2, LeastOf
<1>4. PICK m \in S : x = n - m
  BY <1>1
<1>5. ASSUME NEW c \in S PROVE m >= c
  <2>1. n - c \in T
    BY <1>1
  <2>2. n - m <= n - c
    BY <1>3, <1>4, <2>1
  <2> QED
    BY <2>2
<1> QED
  BY <1>5 DEF Max

Numbered == {i \in 1..Len(log) : InSeq(log[i], buffered) /\ receipt[log[i]] = "numbered"}

\* The frontier is one past the last event that was replayed with a number.
FrontierIs(s) ==
    \/ s = NoReplay /\ Numbered = {}
    \/ \E i \in Numbered : s = FirstSeq + i /\ \A k \in Numbered : k <= i

LEMMA NumberIs ==
    ASSUME BoundsAssumption, GenerationTypes, Ascends(log), NEW i \in 1..Len(log)
    PROVE  NumberOf(log[i]) = FirstSeq + i - 1
<1>1. \A k \in 1..Len(log) : log[k] = log[i] => k = i
  BY DEF Ascends, GenerationTypes, Frames, Events, Done, BoundsAssumption
<1>2. \A k \in DOMAIN log : log[k] = log[i] <=> k = i
  BY <1>1 DEF GenerationTypes
<1>3. i \in DOMAIN log
  BY DEF GenerationTypes
<1>4. (CHOOSE k \in DOMAIN log : log[k] = log[i]) = i
  BY <1>2, <1>3
<1> QED
  BY <1>4 DEF NumberOf

LEMMA ReplayedNextSeqIs ==
    ASSUME BoundsAssumption, GenerationTypes, EarlyTypes, Stream
    PROVE  FrontierIs(ReplayedNextSeq) /\ ReplayedNextSeq \in 0..NoReplay
<1> DEFINE N == {NumberOf(e) : e \in {d \in Range(buffered) : receipt[d] = "numbered"}}
<1>1. Range(buffered) \subseteq Events /\ \A e : e \in Range(buffered) <=> InSeq(e, buffered)
  BY InRange DEF EarlyTypes, Range
<1>2. \A e \in Events : receipt[e] = "numbered" => \E i \in 1..Len(log) : log[i] = e
  BY DEF Stream, EmittedAre, EmittedIs, InLog, InSeq
<1>3. N = {FirstSeq + i - 1 : i \in Numbered}
  <2>1. ASSUME NEW i \in Numbered PROVE FirstSeq + i - 1 \in N
    <3>1. i \in 1..Len(log) /\ log[i] \in Range(buffered) /\ receipt[log[i]] = "numbered"
      BY <1>1 DEF Numbered
    <3>2. NumberOf(log[i]) = FirstSeq + i - 1
      BY <3>1, NumberIs DEF Stream
    <3> QED
      BY <3>1, <3>2
  <2>2. ASSUME NEW e \in Range(buffered), receipt[e] = "numbered"
        PROVE  \E i \in Numbered : NumberOf(e) = FirstSeq + i - 1
    <3>1. PICK i \in 1..Len(log) : log[i] = e
      BY <1>1, <1>2, <2>2
    <3>2. i \in Numbered
      BY <1>1, <2>2, <3>1 DEF Numbered
    <3>3. NumberOf(log[i]) = FirstSeq + i - 1
      BY NumberIs DEF Stream
    <3> QED
      BY <3>1, <3>2, <3>3
  <2> QED
    BY <2>1, <2>2
<1>4. FirstSeq \in Nat /\ Len(log) \in Nat /\ Len(log) <= MaxChunks + 2 /\ MaxChunks \in Nat
      /\ NoReplay = FirstSeq + MaxChunks + 3
  BY DEF BoundsAssumption, GenerationTypes, Stream, LogLong, Done, NoReplay
<1>5. Numbered \subseteq 1..Len(log)
  BY DEF Numbered
<1>6. ReplayedNextSeq = IF N = {} THEN NoReplay ELSE Max(N) + 1
  BY DEF ReplayedNextSeq
<1> HIDE DEF N
<1>7. CASE N = {}
  <2>1. Numbered = {}
    BY <1>3, <1>7
  <2> QED
    BY <1>4, <1>6, <1>7, <2>1 DEF FrontierIs
<1>8. CASE N # {}
  <2>1. PICK n \in Nat : n = FirstSeq + Len(log)
    BY <1>4
  <2>2. \A c \in N : c \in Nat /\ c <= n
    <3>1. \A i \in Numbered : FirstSeq + i - 1 \in Nat /\ FirstSeq + i - 1 <= n
      BY <1>4, <1>5, <2>1
    <3> QED
      BY <1>3, <3>1
  <2>3. Max(N) \in N /\ \A c \in N : Max(N) >= c
    BY <1>8, <2>2, LargestOf
  <2>4. PICK i \in Numbered : Max(N) = FirstSeq + i - 1
    BY <1>3, <2>3
  <2>5. \A k \in Numbered : k <= i
    <3>1. TAKE k \in Numbered
    <3>2. FirstSeq + k - 1 \in N
      BY <1>3
    <3>3. FirstSeq + i - 1 >= FirstSeq + k - 1
      BY <2>3, <2>4, <3>2
    <3> QED
      BY <1>4, <1>5, <3>3
  <2>6. ReplayedNextSeq = FirstSeq + i /\ i \in 1..Len(log)
    BY <1>4, <1>5, <1>6, <1>8, <2>4
  <2> QED
    BY <1>4, <2>5, <2>6 DEF FrontierIs
<1> QED
  BY <1>7, <1>8

\* The kind of the replay that a reader is given.
Kind(paused) == CASE ~paused -> "open"
                  [] paused /\ ReplayedNextSeq = NoReplay -> "counter"
                  [] OTHER -> "frontier"

\* The rest of a bootstrap replays es; r awaits the sync.
ReplayStep(r, es, paused) ==
    /\ on' = on /\ UNCHANGED runtimeVars
    /\ on = {} => Resets(FALSE)
    /\ on # {} => UNCHANGED bufferVars
    /\ \A q \in Readers :
          /\ reader'[q].kind = reader[q].kind /\ reader'[q].told = reader[q].told
          /\ reader'[q].look = reader[q].look
          /\ reader'[q].replay = IF q \in Early THEN Kind(paused) ELSE reader[q].replay
          /\ q # r => /\ reader'[q].pc = reader[q].pc /\ reader'[q].gen = reader[q].gen
                      /\ reader'[q].waits = reader[q].waits /\ reader'[q].defer = reader[q].defer
          /\ q = r => /\ reader'[q].pc = "sync" /\ reader'[q].gen = 0
                      /\ reader'[q].waits = {} /\ ~reader'[q].defer
          /\ q \in on => /\ Hears(Early, q) => Seen(q)' = Seen(q) \o es
                         /\ ~Hears(Early, q) => Seen(q)' = Seen(q)
                         /\ reader[q].pc = "live" => reader'[q].queue = <<>>
                         /\ reader[q].pc # "live" => reader'[q].got = <<>>
          /\ q \notin on => reader'[q].got = reader[q].got /\ reader'[q].queue = reader[q].queue

LEMMA ReplaySteps ==
    ASSUME Before, NEW r \in Readers \cup {Nobody}, NEW R \in [Readers -> Requests],
           NEW es \in Seq(Events), NEW paused \in BOOLEAN,
           Replay(R, es, paused),
           r \in Readers => /\ reader[r].pc # "live" /\ R[r].pc = "sync" /\ R[r].gen = 0
                            /\ R[r].waits = {} /\ ~R[r].defer,
           \A q \in Readers :
              /\ R[q].kind = reader[q].kind /\ R[q].told = reader[q].told
              /\ R[q].look = reader[q].look /\ R[q].replay = reader[q].replay
              /\ R[q].got = reader[q].got /\ R[q].queue = reader[q].queue
              /\ q # r => /\ R[q].pc = reader[q].pc /\ R[q].gen = reader[q].gen
                          /\ R[q].waits = reader[q].waits /\ R[q].defer = reader[q].defer
    PROVE  ReaderTypes' /\ ReplayStep(r, es, paused)
<1> DEFINE S == Replayed(R, paused)
<1>1. es \in Seq(Frames) /\ ~InSeq(Done, es)
  <2>1. \A i \in 1..Len(es) : es[i] \in Events /\ es[i] \in Frames
    BY DEF Frames
  <2>2. Done \notin Events
    BY BoundsAssumption DEF BoundsAssumption, Done, Events
  <2> QED
    BY <2>1, <2>2 DEF InSeq
<1>2. Kind(paused) \in {"none", "open", "counter", "frontier"}
  BY DEF Kind
<1>3. \A q \in Readers : S[q] = IF q \notin Early THEN R[q] ELSE [R[q] EXCEPT !.replay = Kind(paused)]
  BY DEF Replayed, Kind
<1>4. \A q \in Readers :
        /\ S[q] \in Requests
        /\ S[q].kind = R[q].kind /\ S[q].told = R[q].told /\ S[q].gen = R[q].gen
        /\ S[q].waits = R[q].waits /\ S[q].defer = R[q].defer /\ S[q].look = R[q].look
        /\ S[q].pc = R[q].pc /\ S[q].got = R[q].got /\ S[q].queue = R[q].queue
        /\ S[q].replay = IF q \in Early THEN Kind(paused) ELSE R[q].replay
  <2> HIDE DEF S
  <2> TAKE q \in Readers
  <2>1. R[q] \in Requests
    OBVIOUS
  <2>2. CASE q \in Early
    <3>1. S[q] = [R[q] EXCEPT !.replay = Kind(paused)]
      BY <1>3, <2>2
    <3> QED
      BY <1>2, <2>1, <2>2, <3>1 DEF Requests
  <2>3. CASE q \notin Early
    BY <1>3, <2>1, <2>3
  <2> QED
    BY <2>2, <2>3
<1>5. S \in [Readers -> Requests]
  BY <1>4 DEF Replayed
<1>6. DetachLocally(Ended(Early, es), Handed(S, Early, es))
  BY DEF Replay
<1> HIDE DEF S
<1>7. \A q \in Readers : S[q].pc = "live" <=> reader[q].pc = "live"
  <2> TAKE q \in Readers
  <2>1. CASE q = r
    BY <1>4, <2>1
  <2>2. CASE q # r
    BY <1>4, <2>2
  <2> QED
    BY <2>1, <2>2
<1>8. Likewise(S)
  BY <1>4, <1>5, <1>7 DEF Likewise
<1>9. ReaderTypes' /\ RuntimeFollows /\ Handing(S, Early, es)
  BY <1>1, <1>6, <1>8, HandingDelivers DEF DetachLocally, Before, Types
<1>10. on' = on
  <2>1. \A q \in on \ on' : FALSE
    BY <1>1, <1>9 DEF Handing, Before, Types, ReaderTypes
  <2> QED
    BY <1>9, <2>1 DEF Handing
<1>11. UNCHANGED runtimeVars
  BY <1>9, <1>10 DEF RuntimeFollows, runtimeVars
<1>12. /\ on = {} => Resets(FALSE)
       /\ on # {} => UNCHANGED bufferVars
  BY <1>6, <1>10 DEF DetachLocally, ResetBuffer, Resets
<1>13. ASSUME NEW q \in Readers
       PROVE
          /\ reader'[q].kind = reader[q].kind /\ reader'[q].told = reader[q].told
          /\ reader'[q].look = reader[q].look
          /\ reader'[q].replay = IF q \in Early THEN Kind(paused) ELSE reader[q].replay
          /\ q # r => /\ reader'[q].pc = reader[q].pc /\ reader'[q].gen = reader[q].gen
                      /\ reader'[q].waits = reader[q].waits /\ reader'[q].defer = reader[q].defer
          /\ q = r => /\ reader'[q].pc = "sync" /\ reader'[q].gen = 0
                      /\ reader'[q].waits = {} /\ ~reader'[q].defer
  BY <1>4, <1>9, <1>10 DEF Handing
<1>14. ASSUME NEW q \in Readers
       PROVE
          /\ q \in on => /\ Hears(Early, q) => Seen(q)' = Seen(q) \o es
                         /\ ~Hears(Early, q) => Seen(q)' = Seen(q)
                         /\ reader[q].pc = "live" => reader'[q].queue = <<>>
                         /\ reader[q].pc # "live" => reader'[q].got = <<>>
          /\ q \notin on => reader'[q].got = reader[q].got /\ reader'[q].queue = reader[q].queue
  BY <1>4, <1>9, <1>10 DEF Handing
<1> QED
  BY <1>9, <1>10, <1>11, <1>12, <1>13, <1>14 DEF ReplayStep

\* The early buffer is closed and a sync is on its way.
Closes(r, replay) ==
    /\ buffered' = <<>> /\ closed' = TRUE /\ overflowed' = overflowed
    /\ conn' = Append(conn, Get) /\ skipped' = skipped
    /\ syncs' = Append(syncs, [by |-> r, replay |-> replay, val |-> Unread])
    /\ replay \in 0..NoReplay
    /\ UNCHANGED <<job, emitted, approval, log, receipt, received, faultVars>>

LEMMA FallbacksAre == \A es \in Fallbacks : es \in Seq(Events) /\ es \in {<<>>, <<Created>>}
<1>1. Created \in Events
  BY BoundsAssumption DEF Created, Events, BoundsAssumption
<1>2. <<Created>> \in Seq(Events) /\ <<>> \in Seq(Events)
  BY <1>1
<1> QED
  BY <1>2 DEF Fallbacks

LEMMA BootstrapEffect ==
    ASSUME Before, NEW r \in Readers, Bootstrap(r)
    PROVE  /\ ReaderTypes'
           /\ reader[r].pc = "recheck" /\ job # "replaced" /\ conts' = conts
           /\ Early # {} => Settled(Range(buffered))
           /\ Closes(r, IF Early = {} THEN NoReplay ELSE ReplayedNextSeq)
           /\ \E es \in Seq(Events) :
                 /\ ReplayStep(r, es, deferred)
                 /\ buffered # <<>> => es = buffered
                 /\ buffered = <<>> => es \in {<<>>, <<Created>>}
<1> DEFINE d == [reader[r] EXCEPT !.pc = "sync", !.waits = {}, !.defer = FALSE, !.gen = 0]
           R == [reader EXCEPT ![r].pc = "sync", ![r].waits = {},
                                ![r].defer = FALSE, ![r].gen = 0]
<1>1. reader[r] \in Requests /\ reader[r].pc = "recheck" /\ 0 \in 0..MaxRequests
  BY BoundsAssumption DEF Before, Types, ReaderTypes, Bootstrap, BoundsAssumption
<1>2. /\ d \in Requests /\ d.pc = "sync" /\ d.kind = reader[r].kind /\ d.defer = FALSE
      /\ d.told = reader[r].told /\ d.gen = 0 /\ d.waits = {}
      /\ d.look = reader[r].look /\ d.replay = reader[r].replay
      /\ d.queue = reader[r].queue /\ d.got = reader[r].got
  BY <1>1 DEF Requests, Stages
<1>3. R = [reader EXCEPT ![r] = d]
  BY DEF Before, Types, ReaderTypes
<1>4. PICK es \in IF buffered # <<>> THEN {buffered} ELSE Fallbacks : Replay(R, es, deferred)
  BY DEF Bootstrap
<1>5. es \in Seq(Events) /\ (buffered # <<>> => es = buffered)
      /\ (buffered = <<>> => es \in {<<>>, <<Created>>})
  BY <1>4, FallbacksAre DEF Before, Types, EarlyTypes
<1>6. deferred \in BOOLEAN
  BY DEF Before, Types, TransportTypes
<1> HIDE DEF d
<1>7. R \in [Readers -> Requests] /\ R[r] = d /\ \A q \in Readers : q # r => R[q] = reader[q]
  BY <1>2, <1>3 DEF Before, Types, ReaderTypes
<1> HIDE DEF R
<1>8. ASSUME NEW q \in Readers
      PROVE  /\ R[q].kind = reader[q].kind /\ R[q].told = reader[q].told
             /\ R[q].look = reader[q].look /\ R[q].replay = reader[q].replay
             /\ R[q].got = reader[q].got /\ R[q].queue = reader[q].queue
             /\ q # r => /\ R[q].pc = reader[q].pc /\ R[q].gen = reader[q].gen
                         /\ R[q].waits = reader[q].waits /\ R[q].defer = reader[q].defer
  <2>1. CASE q = r
    BY <1>2, <1>7, <2>1
  <2>2. CASE q # r
    BY <1>7, <2>2
  <2> QED
    BY <2>1, <2>2
<1>9. /\ reader[r].pc # "live" /\ R[r].pc = "sync" /\ R[r].gen = 0
      /\ R[r].waits = {} /\ ~R[r].defer /\ r \in Readers \cup {Nobody}
  BY <1>1, <1>2, <1>7
<1>10. ReaderTypes' /\ ReplayStep(r, es, deferred)
  BY <1>4, <1>5, <1>6, <1>7, <1>8, <1>9, ReplaySteps
<1>11. (IF Early = {} THEN NoReplay ELSE ReplayedNextSeq) \in 0..NoReplay
  <2>1. ReplayedNextSeq \in 0..NoReplay
    BY ReplayedNextSeqIs DEF Before, Types
  <2>2. NoReplay \in 0..NoReplay
    BY BoundsAssumption DEF NoReplay, BoundsAssumption
  <2> QED
    BY <2>1, <2>2
<1>12. Closes(r, IF Early = {} THEN NoReplay ELSE ReplayedNextSeq)
  BY <1>11 DEF Bootstrap, CloseEarly, Closes
<1>13. /\ job # "replaced" /\ conts' = conts
       /\ Early # {} => Settled(Range(buffered))
  BY DEF Bootstrap, Expected
<1> QED
  BY <1>1, <1>5, <1>10, <1>12, <1>13

LEMMA UnpublishedIs ==
    ASSUME Before, NEW es \in Ascending(Unpublished)
    PROVE  /\ es \in Seq(Events) /\ Ascends(es)
           /\ \A x : InSeq(x, es) <=> InSeq(x, buffered) /\ receipt[x] # "numbered"
<1>1. Unpublished \subseteq Events /\ \A x : x \in Unpublished <=> InSeq(x, buffered) /\ receipt[x] # "numbered"
  BY InRange DEF Unpublished, Before, Types, EarlyTypes, Range
<1>2. IsFiniteSet(Unpublished)
  <2>1. IsFiniteSet(Events)
    BY FS_Interval, BoundsAssumption DEF Events, BoundsAssumption
  <2> QED
    BY <1>1, <2>1, FS_Subset
<1>3. Cardinality(Unpublished) \in Nat
  BY <1>2, FS_CardinalityType
<1>4. /\ es \in [1..Cardinality(Unpublished) -> Unpublished]
      /\ \A s \in Unpublished : \E i \in DOMAIN es : es[i] = s
      /\ \A i, j \in DOMAIN es : i < j => es[i] < es[j]
  BY DEF Ascending
<1>5. es \in Seq(Unpublished) /\ DOMAIN es = 1..Len(es)
  BY <1>3, <1>4
<1>6. es \in Seq(Events)
  BY <1>1, <1>5
<1>7. \A x : InSeq(x, es) <=> x \in Unpublished
  BY <1>4, <1>5 DEF InSeq
<1> QED
  BY <1>1, <1>4, <1>5, <1>6, <1>7 DEF Ascends

ContinuesWith(c) ==
    \E es \in Seq(Events), paused \in BOOLEAN :
       /\ paused = (deferred /\ c.defer)
       /\ ReplayStep(Nobody, es, paused)
       /\ \/ buffered = <<>> /\ es \in {<<>>, <<Created>>}
          \/ buffered # <<>> /\ c.defer /\ es = buffered
          \/ buffered # <<>> /\ ~c.defer /\ Ascends(es)
             /\ \A x : InSeq(x, es) <=> InSeq(x, buffered) /\ receipt[x] # "numbered"

LEMMA ContinueEffect ==
    ASSUME Before, NEW c \in conts, Continue(c)
    PROVE  /\ ReaderTypes' /\ Settled(c.waits) /\ conts' = conts \ {c}
           /\ \/ /\ on = {} \/ attachGen # c.gen
                 /\ UNCHANGED <<generationVars, received, bufferVars, syncVars, runtimeVars,
                                earlyVars, readerVars, faultVars>>
              \/ /\ on # {} /\ attachGen = c.gen
                 /\ Closes(Nobody, IF c.defer /\ Early # {} THEN ReplayedNextSeq ELSE NoReplay)
                 /\ ContinuesWith(c)
<1>1. Settled(c.waits) /\ conts' = conts \ {c}
      /\ UNCHANGED <<job, emitted, approval, log, receipt, received, faultVars>>
  BY DEF Continue
<1>2. CASE on = {} \/ attachGen # c.gen
  <2>1. UNCHANGED <<conn, bufferVars, syncVars, runtimeVars, earlyVars, readerVars>>
    BY <1>2 DEF Continue
  <2>2. ReaderTypes'
    BY <2>1 DEF ReaderTypes, readerVars, Before, Types
  <2> QED
    BY <1>1, <1>2, <2>1, <2>2 DEF generationVars
<1>3. CASE ~(on = {} \/ attachGen # c.gen)
  <2>1. PICK es \in CASE buffered = <<>> -> Fallbacks
                      [] buffered # <<>> /\ c.defer -> {buffered}
                      [] OTHER -> Ascending(Unpublished) :
                  Replay(reader, es, deferred /\ c.defer)
    BY <1>3 DEF Continue
  <2>2. PICK paused \in BOOLEAN : paused = (deferred /\ c.defer)
    OBVIOUS
  <2>3. c.defer \in BOOLEAN
    BY DEF Before, Types, EarlyTypes, Tasks
  <2>4. /\ es \in Seq(Events)
        /\ \/ buffered = <<>> /\ es \in {<<>>, <<Created>>}
           \/ buffered # <<>> /\ c.defer /\ es = buffered
           \/ buffered # <<>> /\ ~c.defer /\ Ascends(es)
              /\ \A x : InSeq(x, es) <=> InSeq(x, buffered) /\ receipt[x] # "numbered"
    <3>1. CASE buffered = <<>>
      BY <2>1, <3>1, FallbacksAre
    <3>2. CASE buffered # <<>> /\ c.defer
      BY <2>1, <3>2 DEF Before, Types, EarlyTypes
    <3>3. CASE buffered # <<>> /\ ~c.defer
      <4>1. es \in Ascending(Unpublished)
        BY <2>1, <3>3
      <4> QED
        BY <3>3, <4>1, UnpublishedIs
    <3> QED
      BY <2>3, <3>1, <3>2, <3>3
  <2>5. ReaderTypes' /\ ReplayStep(Nobody, es, paused)
    <3>1. Replay(reader, es, paused) /\ Nobody \notin Readers
      BY <2>1, <2>2 DEF Nobody, Readers
    <3>2. reader \in [Readers -> Requests]
      BY DEF Before, Types, ReaderTypes
    <3> QED
      BY <2>4, <3>1, <3>2, ReplaySteps
  <2>6. ContinuesWith(c)
    BY <2>2, <2>4, <2>5 DEF ContinuesWith
  <2>7. (IF c.defer /\ Early # {} THEN ReplayedNextSeq ELSE NoReplay) \in 0..NoReplay
    <3>1. ReplayedNextSeq \in 0..NoReplay
      BY ReplayedNextSeqIs DEF Before, Types
    <3>2. NoReplay \in 0..NoReplay
      BY BoundsAssumption DEF NoReplay, BoundsAssumption
    <3> QED
      BY <3>1, <3>2
  <2>8. Closes(Nobody, IF c.defer /\ Early # {} THEN ReplayedNextSeq ELSE NoReplay)
    BY <1>1, <1>3, <2>7 DEF Continue, CloseEarly, Closes
  <2> QED
    BY <1>1, <1>3, <2>5, <2>6, <2>8
<1> QED
  BY <1>2, <1>3

(***************************************************************************)
(* What the generation and Redis do in a step.                             *)
(***************************************************************************)

\* The generation moves on, or Redis executes something.
GenerationStep ==
    \/ \E e \in Events : EmitChunk(e) \/ EmitApproval(e) \/ Settle(e)
    \/ Pause \/ (\E status \in Statuses \ {"paused"} : End(status))
    \/ Execute \/ Fail
TransportActions == Receive \/ FlushTimeout \/ SyncReply \/ SyncFail
RequestStep(r) ==
    \/ Leave(r) \/ (\E k \in {"initial", "resume"} : Attach(r, k)) \/ Refuse(r)
    \/ GiveUp(r) \/ Check(r) \/ Fence(r) \/ FenceDetached(r) \/ RecheckThrows(r)
    \/ StartLive(r) \/ Reconcile(r) \/ Activate(r) \/ StoredTerminal(r)

\* Nothing happens but to the job hash.
Rests == /\ UNCHANGED <<generationVars, received, bufferVars, syncVars, runtimeVars, earlyVars,
                       readerVars, faultVars>>
         /\ conts' = conts

LEMMA NextIs ==
    ASSUME [Next]_vars
    PROVE  \/ GenerationStep \/ TransportActions
           \/ \E r \in Readers : RequestStep(r) \/ Bootstrap(r)
           \/ \E c \in conts : Continue(c)
           \/ Rests
<1>1. CASE Next
  <2>1. DeleteJob => Rests
    BY DEF DeleteJob, Rests
  <2> QED
    BY <1>1, <2>1 DEF Next, Generation, Transport, Fault, Request, Client, GenerationStep,
       TransportActions, RequestStep
<1>2. CASE UNCHANGED vars
  BY <1>2 DEF vars, Rests
<1> QED
  BY <1>1, <1>2

\* What the generation and Redis leave alone.
Aside == UNCHANGED <<received, bufferVars, runtimeVars, conts, readerVars, abandoned, skipped>>

Emits(e) ==
    /\ e \in Events /\ e = emitted + 1 /\ emitted' = e
    /\ conn' = Append(conn, e) /\ log' = log /\ syncs' = syncs
    /\ job \in {"running", "paused"} /\ job' = job /\ faults' = faults
    /\ \/ job = "running" /\ e <= MaxChunks /\ approval' = approval
       \/ job = "paused" /\ approval = 0 /\ approval' = e
    /\ \/ (hasSubscriber \/ closed) /\ UNCHANGED <<earlyVars, receipt>>
       \/ /\ ~hasSubscriber /\ ~closed
          /\ buffered' = <<>> /\ closed' = TRUE /\ overflowed' = TRUE /\ receipt' = receipt
       \/ /\ ~hasSubscriber /\ ~closed /\ Len(buffered) < MaxEarly
          /\ buffered' = Append(buffered, e) /\ closed' = closed /\ overflowed' = overflowed
          /\ receipt' = [receipt EXCEPT ![e] = "open"]

Settles(e) ==
    /\ e \in Events /\ receipt[e] = "open" /\ InLog(e)
    /\ \A d \in 1..(e - 1) : receipt[d] # "open"
    /\ receipt' = [receipt EXCEPT ![e] = "numbered"]
    /\ UNCHANGED <<job, emitted, approval, conn, log, syncs, earlyVars, faults>>

Pauses == /\ job = "running" /\ emitted > 0 /\ job' = "paused"
          /\ UNCHANGED <<emitted, approval, conn, log, receipt, syncs, earlyVars, faults>>

Ends == /\ job \in {"running", "paused"} /\ job' \in {"complete", "replaced"}
        /\ conn' = Append(conn, Done)
        /\ faults' \in {faults, faults + 1} /\ faults' \in 0..MaxFaults
        /\ job' = "replaced" => faults' = faults + 1
        /\ UNCHANGED <<emitted, approval, log, receipt, syncs, earlyVars>>

Shifts == conn # <<>> /\ conn' = Tail(conn) /\ UNCHANGED <<job, emitted, approval, earlyVars>>

Reads(i) ==
    /\ Shifts /\ Head(conn) = Get /\ UNCHANGED <<log, receipt, faults>>
    /\ i \in 1..Len(syncs) /\ syncs[i].val = Unread
    /\ \A j \in 1..(i - 1) : syncs[j].val # Unread
    /\ syncs' = [syncs EXCEPT ![i].val = Counter]

Drops == /\ Shifts /\ Head(conn) \in Events /\ UNCHANGED <<log, syncs>>
         /\ receipt' = [receipt EXCEPT ![Head(conn)] = "failed"]
         /\ faults' \in {faults, faults + 1} /\ faults' \in 0..MaxFaults
         /\ faults' # 0

Publishes == /\ Shifts /\ Head(conn) \in Frames /\ log' = Append(log, Head(conn))
             /\ Head(conn) \in Events => job # "replaced"
             /\ UNCHANGED <<receipt, syncs, faults>>

LEMMA GenerationEffect ==
    ASSUME BoundsAssumption, Types, Stream, GenerationStep
    PROVE  /\ Aside
           /\ \/ \E e \in Events : Emits(e) \/ Settles(e)
              \/ Pauses \/ Ends \/ (\E i \in 1..Len(syncs) : Reads(i)) \/ Drops \/ Publishes
<1>1. faults \in Nat /\ MaxFaults \in Nat /\ faults <= MaxFaults /\ conn \in Seq(Commands)
      /\ log \in Seq(Frames) /\ syncs \in Seq(SyncCalls)
      /\ Len(buffered) \in Nat /\ MaxEarly \in Nat
  BY DEF Types, RuntimeTypes, BoundsAssumption, GenerationTypes, SyncTypes, EarlyTypes
<1>2. ASSUME NEW e \in Events, EmitChunk(e) \/ EmitApproval(e)
      PROVE  Aside /\ Emits(e)
  <2>1. Emit(e)
    BY <1>2 DEF EmitChunk, EmitApproval
  <2>2. \/ job = "running" /\ e <= MaxChunks /\ approval' = approval
        \/ job = "paused" /\ approval = 0 /\ approval' = e
    BY <1>2 DEF EmitChunk, EmitApproval
  <2>3. \/ (hasSubscriber \/ closed) /\ UNCHANGED <<earlyVars, receipt>>
        \/ /\ ~hasSubscriber /\ ~closed
           /\ buffered' = <<>> /\ closed' = TRUE /\ overflowed' = TRUE /\ receipt' = receipt
        \/ /\ ~hasSubscriber /\ ~closed /\ Len(buffered) < MaxEarly
           /\ buffered' = Append(buffered, e) /\ closed' = closed /\ overflowed' = overflowed
           /\ receipt' = [receipt EXCEPT ![e] = "open"]
    BY <1>1, <2>1 DEF Emit, BufferEarlyEvent
  <2>4. Aside
    BY <2>1 DEF Emit, Aside, syncVars, faultVars
  <2>5. /\ e \in Events /\ e = emitted + 1 /\ emitted' = e
        /\ conn' = Append(conn, e) /\ log' = log /\ syncs' = syncs
        /\ job' = job /\ faults' = faults
    BY <2>1 DEF Emit, syncVars, faultVars
  <2> QED
    BY <2>2, <2>3, <2>4, <2>5 DEF Emits
<1>3. ASSUME NEW e \in Events, Settle(e) PROVE Aside /\ Settles(e)
  <2>1. e \in Range(log) <=> InLog(e)
    BY <1>1, InRange DEF InLog
  <2> QED
    BY <1>3, <2>1 DEF Settle, Settles, Aside, faultVars, syncVars
<1>4. ASSUME Pause PROVE Aside /\ Pauses
  BY <1>4 DEF Pause, Pauses, Aside, faultVars, syncVars
<1>5. ASSUME NEW status \in Statuses \ {"paused"}, End(status) PROVE Aside /\ Ends
  <2>1. status \in {"complete", "replaced"}
    BY DEF BoundsAssumption
  <2>2. /\ faults' \in {faults, faults + 1} /\ faults' \in 0..MaxFaults
        /\ status = "replaced" => faults' = faults + 1
    BY <1>1, <1>5, <2>1 DEF End
  <2> QED
    BY <1>5, <2>1, <2>2 DEF End, Ends, Aside, syncVars
<1>6. ASSUME Execute PROVE Aside /\ ((\E i \in 1..Len(syncs) : Reads(i)) \/ Drops \/ Publishes)
  <2>1. Aside /\ Shifts /\ faults' = faults
    BY <1>6 DEF Execute, Aside, Shifts, faultVars
  <2>2. Head(conn) \in Commands
    BY <1>1, <2>1 DEF Shifts
  <2>3. Get \notin Events /\ Get \notin Frames
    BY DEF Get, Events, Frames, Done, BoundsAssumption
  <2>4. CASE Head(conn) = Get
    <3>1. PICK i \in DOMAIN syncs :
             /\ syncs[i].val = Unread
             /\ \A j \in 1..(i - 1) : syncs[j].val # Unread
             /\ syncs' = [syncs EXCEPT ![i].val = Counter]
      BY <1>6, <2>3, <2>4 DEF Execute
    <3>2. UNCHANGED <<log, receipt>>
      BY <1>6, <2>3, <2>4 DEF Execute
    <3>3. i \in 1..Len(syncs)
      BY <1>1
    <3>4. Reads(i)
      BY <2>1, <2>4, <3>1, <3>2, <3>3 DEF Reads
    <3> QED
      BY <2>1, <3>3, <3>4
  <2>5. CASE Head(conn) \in Events /\ job = "replaced"
    <3>1. receipt' = [receipt EXCEPT ![Head(conn)] = "failed"] /\ UNCHANGED <<log, syncs>>
      BY <1>6, <2>3, <2>5 DEF Execute
    <3>2. faults # 0
      BY <2>5 DEF Stream, FaultsAre
    <3> QED
      BY <1>1, <2>1, <2>5, <3>1, <3>2 DEF Drops
  <2>6. CASE Head(conn) # Get /\ ~(Head(conn) \in Events /\ job = "replaced")
    <3>1. log' = Append(log, Head(conn)) /\ UNCHANGED <<receipt, syncs>>
      BY <1>6, <2>6 DEF Execute
    <3> QED
      BY <2>1, <2>2, <2>6, <3>1 DEF Publishes, Commands
  <2> QED
    BY <2>3, <2>4, <2>5, <2>6
<1>7. ASSUME Fail PROVE Aside /\ Drops
  <2>1. faults' \in 0..MaxFaults /\ faults' = faults + 1 /\ faults' # 0
    BY <1>1, <1>7 DEF Fail
  <2> QED
    BY <1>7, <2>1 DEF Fail, Drops, Aside, Shifts, syncVars
<1> QED
  BY <1>2, <1>3, <1>4, <1>5, <1>6, <1>7 DEF GenerationStep

(***************************************************************************)
(* The stream keeps its order.                                             *)
(***************************************************************************)

LEMMA FrameNumbers ==
    ASSUME BoundsAssumption
    PROVE  /\ Frames \subseteq Nat /\ Events \subseteq Nat /\ Done \in Nat
           /\ Get \notin Frames /\ Done \notin Events /\ \A e \in Events : e < Done /\ e >= 1
           /\ Events \subseteq Frames /\ Done \in Frames /\ \A x \in Frames : x <= Done /\ x >= 1
           /\ Created \in Events
BY DEF BoundsAssumption, Frames, Events, Done, Get, Created

\* A command is sent behind the others.
LEMMA AppendKeeps ==
    ASSUME BoundsAssumption, conn \in Seq(Commands), log \in Seq(Frames),
           ConnAscends, LogBeforeConn,
           NEW x \in Commands, conn' = Append(conn, x), log' = log,
           x # Get => \A y \in Frames : InLog(y) \/ InConn(y) => y < x
    PROVE  ConnAscends' /\ LogBeforeConn'
<1>1. /\ Len(conn) \in Nat /\ Len(conn') = Len(conn) + 1 /\ conn'[Len(conn) + 1] = x
      /\ \A i \in 1..Len(conn) : conn'[i] = conn[i] /\ conn[i] \in Commands
  OBVIOUS
<1>2. ASSUME NEW i \in 1..Len(conn'), NEW j \in 1..Len(conn'), i < j, conn'[i] # Get, conn'[j] # Get
      PROVE  conn'[i] < conn'[j]
  <2>1. i \in 1..Len(conn)
    BY <1>1, <1>2
  <2>2. CASE j \in 1..Len(conn)
    BY <1>1, <1>2, <2>1, <2>2 DEF ConnAscends
  <2>3. CASE j = Len(conn) + 1
    <3>1. conn[i] \in Frames /\ InConn(conn[i])
      BY <1>1, <1>2, <2>1 DEF InConn, InSeq, Commands
    <3> QED
      BY <1>1, <1>2, <2>1, <2>3, <3>1
  <2> QED
    BY <1>1, <2>2, <2>3
<1>3. ASSUME NEW i \in 1..Len(log), NEW j \in 1..Len(conn'), conn'[j] # Get
      PROVE  log[i] < conn'[j]
  <2>1. CASE j \in 1..Len(conn)
    BY <1>1, <1>3, <2>1 DEF LogBeforeConn
  <2>2. CASE j = Len(conn) + 1
    <3>1. log[i] \in Frames /\ InLog(log[i])
      BY DEF InLog, InSeq
    <3> QED
      BY <1>1, <1>3, <2>2, <3>1
  <2> QED
    BY <1>1, <2>1, <2>2
<1> QED
  BY <1>2, <1>3 DEF ConnAscends, LogBeforeConn

\* The oldest command leaves the connection.
LEMMA TailKeeps ==
    ASSUME BoundsAssumption, conn \in Seq(Commands), log \in Seq(Frames),
           ConnAscends, LogBeforeConn, conn # <<>>, conn' = Tail(conn),
           log' = log \/ (Head(conn) \in Frames /\ log' = Append(log, Head(conn)))
    PROVE  ConnAscends' /\ LogBeforeConn'
<1>1. /\ Len(conn) \in Nat \ {0} /\ Len(conn') = Len(conn) - 1 /\ conn[1] = Head(conn)
      /\ \A i \in 1..Len(conn') : i + 1 \in 1..Len(conn) /\ conn'[i] = conn[i + 1] /\ i \in 1..Len(conn)
  OBVIOUS
<1>2. ASSUME NEW i \in 1..Len(conn'), NEW j \in 1..Len(conn'), i < j, conn'[i] # Get, conn'[j] # Get
      PROVE  conn'[i] < conn'[j]
  <2>1. i + 1 \in 1..Len(conn) /\ j + 1 \in 1..Len(conn) /\ i + 1 < j + 1
        /\ conn'[i] = conn[i + 1] /\ conn'[j] = conn[j + 1]
    BY <1>1, <1>2
  <2> QED
    BY <1>2, <2>1 DEF ConnAscends
<1>3. ASSUME NEW i \in 1..Len(log'), NEW j \in 1..Len(conn'), conn'[j] # Get
      PROVE  log'[i] < conn'[j]
  <2>1. j + 1 \in 1..Len(conn) /\ conn'[j] = conn[j + 1] /\ 1 < j + 1 /\ 1 \in 1..Len(conn)
    BY <1>1
  <2>2. CASE i \in 1..Len(log) /\ log'[i] = log[i]
    BY <1>3, <2>1, <2>2 DEF LogBeforeConn
  <2>3. CASE ~(i \in 1..Len(log) /\ log'[i] = log[i])
    <3>1. Head(conn) \in Frames /\ log'[i] = Head(conn)
      <4>1. log' # log
        BY <2>3
      <4>2. Head(conn) \in Frames /\ log' = Append(log, Head(conn))
        BY <4>1
      <4>3. i \in 1..(Len(log) + 1) /\ Len(log) \in Nat
            /\ \A k \in 1..Len(log) : log'[k] = log[k]
            /\ log'[Len(log) + 1] = Head(conn)
        BY <4>2
      <4> QED
        BY <2>3, <4>2, <4>3
    <3>2. conn[1] # Get
      BY <1>1, <3>1, FrameNumbers
    <3> QED
      BY <1>1, <1>3, <2>1, <3>1, <3>2 DEF ConnAscends
  <2> QED
    BY <2>2, <2>3
<1> QED
  BY <1>2, <1>3 DEF ConnAscends, LogBeforeConn

LEMMA PublishKeeps ==
    ASSUME BoundsAssumption, conn \in Seq(Commands), log \in Seq(Frames),
           Ascends(log), LogLong, LogBeforeConn, Publishes
    PROVE  Ascends(log)' /\ LogLong' /\ log' \in Seq(Frames)
<1>1. /\ Len(log) \in Nat /\ log' = Append(log, Head(conn)) /\ Head(conn) \in Frames
      /\ conn # <<>>
  BY DEF Publishes, Shifts
<1>2. /\ Len(log') = Len(log) + 1 /\ log'[Len(log) + 1] = Head(conn) /\ log' \in Seq(Frames)
      /\ \A i \in 1..Len(log) : log'[i] = log[i] /\ log[i] \in Frames
  BY <1>1
<1>3. \A i \in 1..Len(log) : log[i] < Head(conn)
  <2>1. 1 \in 1..Len(conn) /\ conn[1] = Head(conn)
    BY <1>1
  <2>2. conn[1] # Get
    BY <1>1, <2>1, FrameNumbers
  <2> QED
    BY <2>1, <2>2 DEF LogBeforeConn
<1>4. Ascends(log)'
  <2>1. ASSUME NEW i \in 1..Len(log'), NEW j \in 1..Len(log'), i < j PROVE log'[i] < log'[j]
    <3>1. i \in 1..Len(log)
      BY <1>1, <1>2, <2>1
    <3>2. CASE j \in 1..Len(log)
      BY <1>2, <2>1, <3>1, <3>2 DEF Ascends
    <3>3. CASE j = Len(log) + 1
      BY <1>2, <1>3, <3>1, <3>3
    <3> QED
      BY <1>1, <1>2, <3>2, <3>3
  <2> QED
    BY <2>1 DEF Ascends
<1>5. Head(conn) >= Len(log) + 1
  <2>1. CASE Len(log) = 0
    BY <1>1, <2>1, FrameNumbers
  <2>2. CASE Len(log) # 0
    <3>1. Len(log) \in 1..Len(log)
      BY <1>1, <2>2
    <3>2. log[Len(log)] >= Len(log) /\ log[Len(log)] < Head(conn) /\ log[Len(log)] \in Nat
          /\ Head(conn) \in Nat
      BY <1>1, <1>2, <1>3, <3>1, FrameNumbers DEF LogLong
    <3> QED
      BY <1>1, <3>2
  <2> QED
    BY <2>1, <2>2
<1>6. LogLong'
  <2>1. Head(conn) <= Done /\ Head(conn) \in Nat /\ Done \in Nat
    BY <1>1, FrameNumbers
  <2>2. Len(log') <= Done' /\ Done' = Done
    BY <1>1, <1>2, <1>5, <2>1 DEF Done
  <2>3. \A i \in 1..Len(log') : log'[i] >= i
    <3>1. TAKE i \in 1..Len(log')
    <3>2. CASE i \in 1..Len(log)
      BY <1>2, <3>2 DEF LogLong
    <3>3. CASE i = Len(log) + 1
      BY <1>2, <1>5, <3>3
    <3> QED
      BY <1>1, <1>2, <3>2, <3>3
  <2> QED
    BY <2>2, <2>3 DEF LogLong
<1> QED
  BY <1>2, <1>4, <1>6

LEMMA CommandsMove ==
    ASSUME conn \in Seq(Commands), log \in Seq(Frames)
    PROVE  /\ \A x \in Commands : conn' = Append(conn, x) =>
                 \A y : InSeq(y, conn') <=> InConn(y) \/ y = x
           /\ conn # <<>> /\ conn' = Tail(conn) =>
                 \A y : InConn(y) <=> InSeq(y, conn') \/ y = Head(conn)
           /\ \A x \in Frames : log' = Append(log, x) =>
                 \A y : InSeq(y, log') <=> InLog(y) \/ y = x
<1>1. ASSUME NEW x \in Commands, conn' = Append(conn, x), NEW y
      PROVE  InSeq(y, conn') <=> InConn(y) \/ y = x
  <2>1. InSeq(y, Append(conn, x)) <=> InSeq(y, conn) \/ y = x
    BY InAppend
  <2> QED
    BY <1>1, <2>1 DEF InConn
<1>2. ASSUME conn # <<>>, conn' = Tail(conn), NEW y
      PROVE  InConn(y) <=> InSeq(y, conn') \/ y = Head(conn)
  <2>1. InSeq(y, conn) <=> InSeq(y, Tail(conn)) \/ y = Head(conn)
    BY <1>2, InTail
  <2> QED
    BY <1>2, <2>1 DEF InConn
<1>3. ASSUME NEW x \in Frames, log' = Append(log, x), NEW y
      PROVE  InSeq(y, log') <=> InLog(y) \/ y = x
  <2>1. InSeq(y, Append(log, x)) <=> InSeq(y, log) \/ y = x
    BY InAppend
  <2> QED
    BY <1>3, <2>1 DEF InLog
<1> QED
  BY <1>1, <1>2, <1>3

\* What has been executed is neither to be executed nor executed again.
LEMMA HeadIsNew ==
    ASSUME BoundsAssumption, conn \in Seq(Commands), log \in Seq(Frames),
           ConnAscends, LogBeforeConn, conn # <<>>, Head(conn) \in Frames
    PROVE  ~InLog(Head(conn)) /\ ~InSeq(Head(conn), Tail(conn)) /\ InConn(Head(conn))
<1>1. 1 \in 1..Len(conn) /\ conn[1] = Head(conn) /\ conn[1] # Get /\ Head(conn) \in Nat
  BY FrameNumbers
<1>2. ~InLog(Head(conn))
  <2>1. \A i \in 1..Len(log) : log[i] < Head(conn)
    BY <1>1 DEF LogBeforeConn
  <2> QED
    BY <1>1, <2>1 DEF InLog, InSeq
<1>3. ~InSeq(Head(conn), Tail(conn))
  <2>1. SUFFICES ASSUME NEW i \in 1..Len(Tail(conn)), Tail(conn)[i] = Head(conn) PROVE FALSE
    BY DEF InSeq
  <2>2. i + 1 \in 1..Len(conn) /\ conn[i + 1] = Head(conn) /\ 1 < i + 1
    BY <2>1
  <2>3. conn[1] < conn[i + 1]
    BY <1>1, <2>2 DEF ConnAscends
  <2> QED
    BY <1>1, <2>2, <2>3
<1> QED
  BY <1>1, <1>2, <1>3 DEF InConn, InSeq

LEMMA EmitsStream ==
    ASSUME BoundsAssumption, Types, Stream, NEW e \in Events, Emits(e)
    PROVE  GenerationTypes' /\ Stream'
<1> USE DEF GenerationTypes
<1>1. /\ conn \in Seq(Commands) /\ log \in Seq(Frames) /\ e \in Commands /\ e \in Nat
      /\ emitted \in 0..(MaxChunks + 1) /\ receipt \in [Events -> {"none", "open", "numbered", "failed"}]
      /\ e \in Frames /\ e # Done /\ e # Get /\ emitted \in Nat
  BY FrameNumbers DEF Types, Commands, BoundsAssumption
<1>2. /\ conn' = Append(conn, e) /\ log' = log /\ emitted' = e /\ e = emitted + 1
      /\ job' = job /\ faults' = faults /\ job \in {"running", "paused"}
  BY DEF Emits
<1>3. /\ \A y : InSeq(y, conn') <=> InConn(y) \/ y = e
      /\ \A y : InSeq(y, log') <=> InLog(y)
  BY <1>1, <1>2, CommandsMove DEF InLog
<1>4. receipt' = receipt \/ receipt' = [receipt EXCEPT ![e] = "open"]
  BY DEF Emits, earlyVars
<1>5. GenerationTypes'
  <2>1. receipt' \in [Events -> {"none", "open", "numbered", "failed"}]
    BY <1>1, <1>4
  <2>2. conn' \in Seq(Commands) /\ log' \in Seq(Frames)
    BY <1>1, <1>2
  <2>3. emitted' \in 0..(MaxChunks + 1) /\ approval' \in 0..(MaxChunks + 1)
    BY <1>2 DEF Emits, Types, Events, BoundsAssumption
  <2>4. job' \in {"running", "paused", "complete", "replaced"}
    BY <1>2
  <2> QED
    BY <2>1, <2>2, <2>3, <2>4
<1>6. \A y \in Frames : InLog(y) \/ InConn(y) => y < e
  <2>1. TAKE y \in Frames
  <2>2. CASE y = Done
    BY <1>2, <2>2 DEF Stream, DoneIs
  <2>3. CASE y \in Events
    <3>1. InLog(y) \/ InConn(y) => y <= emitted
      BY <2>3 DEF Stream, EmittedAre, EmittedIs
    <3> QED
      BY <1>1, <1>2, <2>3, <3>1, FrameNumbers
  <2> QED
    BY <2>2, <2>3 DEF Frames
<1>7. ConnAscends' /\ LogBeforeConn'
  BY <1>1, <1>2, <1>6, AppendKeeps DEF Stream
<1>8. EmittedAre'
  <2>1. SUFFICES ASSUME NEW d \in Events PROVE EmittedIs(d)'
    BY DEF EmittedAre, Events
  <2>2. d \in Events /\ d \in Nat
    BY FrameNumbers DEF Events
  <2>3. /\ InLog(d) \/ InConn(d) \/ receipt[d] # "none" => d <= emitted
        /\ d <= emitted => InLog(d) \/ InConn(d) \/ receipt[d] = "failed"
        /\ receipt[d] = "failed" => ~InLog(d) /\ ~InConn(d)
        /\ receipt[d] = "numbered" => InLog(d)
    BY <2>2 DEF Stream, EmittedAre, EmittedIs
  <2>4. InLog(d)' <=> InLog(d)
    BY <1>3 DEF InLog
  <2>5. InConn(d)' <=> InConn(d) \/ d = e
    BY <1>3 DEF InConn
  <2>6. CASE d = e
    <3>1. ~(d <= emitted)
      BY <1>1, <1>2, <2>6
    <3>2. receipt'[d] \in {"none", "open"}
      BY <1>1, <1>4, <2>3, <2>6, <3>1
    <3> QED
      BY <1>1, <1>2, <2>3, <2>4, <2>5, <2>6, <3>1, <3>2 DEF EmittedIs
  <2>7. CASE d # e
    <3>1. receipt'[d] = receipt[d] /\ (d <= emitted' <=> d <= emitted)
      BY <1>1, <1>2, <1>4, <2>2, <2>7
    <3> QED
      BY <2>3, <2>4, <2>5, <2>7, <3>1 DEF EmittedIs
  <2> QED
    BY <2>6, <2>7
<1>9. DoneIs'
  <2>1. Done' = Done
    BY DEF Done
  <2> QED
    BY <1>1, <1>2, <1>3, <2>1 DEF Stream, DoneIs, InLog, InConn
<1>10. ApprovalIs'
  BY <1>1, <1>2 DEF Emits, Stream, ApprovalIs
<1>11. FaultsAre'
  <2>1. \A d \in Events : receipt'[d] = "failed" => receipt[d] = "failed"
    BY <1>1, <1>4
  <2>2. Events' = Events
    BY DEF Events
  <2> QED
    BY <1>2, <2>1, <2>2 DEF Stream, FaultsAre
<1>12. Ascends(log)' /\ LogLong'
  BY <1>2 DEF Stream, Ascends, LogLong, Done
<1> QED
  BY <1>5, <1>7, <1>8, <1>9, <1>10, <1>11, <1>12 DEF Stream

LEMMA SettlesStream ==
    ASSUME BoundsAssumption, Types, Stream, NEW e \in Events, Settles(e)
    PROVE  GenerationTypes' /\ Stream'
<1>1. receipt' = [receipt EXCEPT ![e] = "numbered"] /\ receipt[e] = "open" /\ InLog(e)
      /\ receipt \in [Events -> {"none", "open", "numbered", "failed"}]
      /\ UNCHANGED <<job, emitted, approval, conn, log, faults>>
  BY DEF Settles, Types, GenerationTypes
<1>2. GenerationTypes'
  BY <1>1 DEF Types, GenerationTypes, Commands, Frames, Events, Done, Get
<1>3. Ascends(log)' /\ LogLong' /\ ConnAscends' /\ LogBeforeConn' /\ ApprovalIs' /\ DoneIs'
  BY <1>1 DEF Stream, Ascends, LogLong, ConnAscends, LogBeforeConn, ApprovalIs, DoneIs, Done, Get,
              InLog, InConn, InSeq
<1>4. EmittedAre' /\ FaultsAre'
  <2>1. \A d \in Events : receipt'[d] = IF d = e THEN "numbered" ELSE receipt[d]
    BY <1>1
  <2>2. \A d : (InLog(d)' <=> InLog(d)) /\ (InConn(d)' <=> InConn(d))
    BY <1>1 DEF InLog, InConn, InSeq
  <2>3. Events' = Events
    BY DEF Events
  <2> QED
    BY <1>1, <2>1, <2>2, <2>3 DEF Stream, EmittedAre, EmittedIs, FaultsAre
<1> QED
  BY <1>2, <1>3, <1>4 DEF Stream

LEMMA EndsStream ==
    ASSUME BoundsAssumption, Types, Stream, Ends \/ Pauses
    PROVE  GenerationTypes' /\ Stream'
<1>1. /\ conn \in Seq(Commands) /\ log \in Seq(Frames) /\ Done \in Commands
      /\ UNCHANGED <<emitted, approval, log, receipt>>
      /\ \/ conn' = conn /\ job = "running" /\ job' = "paused" /\ faults' = faults
         \/ /\ conn' = Append(conn, Done) /\ job \in {"running", "paused"}
            /\ job' \in {"complete", "replaced"} /\ faults' \in {faults, faults + 1}
            /\ job' = "replaced" => faults' = faults + 1
      /\ faults \in Nat
  BY FrameNumbers DEF Types, GenerationTypes, Commands, Ends, Pauses, RuntimeTypes, BoundsAssumption
<1>2. GenerationTypes'
  <2>1. conn' \in Seq(Commands)
    BY <1>1
  <2> QED
    BY <1>1, <2>1 DEF Types, GenerationTypes, Commands, Frames, Events, Done, Get
<1>3. Done # Get
  BY FrameNumbers
<1>4. \A y : InSeq(y, conn') <=> InConn(y) \/ (y = Done /\ job' \in {"complete", "replaced"})
  <2>1. CASE conn' = conn /\ job' = "paused"
    BY <2>1 DEF InConn
  <2>2. CASE conn' = Append(conn, Done) /\ job' \in {"complete", "replaced"}
    BY <1>1, <2>2, CommandsMove
  <2> QED
    BY <1>1, <2>1, <2>2
<1>5. ConnAscends' /\ LogBeforeConn'
  <2>1. CASE conn' = conn
    BY <1>1, <2>1 DEF Stream, ConnAscends, LogBeforeConn, Get
  <2>2. CASE conn' = Append(conn, Done) /\ job \in {"running", "paused"}
    <3>1. \A y \in Frames : InLog(y) \/ InConn(y) => y < Done
      <4>1. \A y \in Frames : y = Done \/ y \in Events
        BY DEF Frames
      <4> QED
        BY <2>2, <4>1, FrameNumbers DEF Stream, DoneIs
    <3> QED
      BY <1>1, <2>2, <3>1, AppendKeeps DEF Stream
  <2> QED
    BY <1>1, <2>1, <2>2
<1>6. \A d \in Events : (InLog(d)' <=> InLog(d)) /\ (InConn(d)' <=> InConn(d))
  <2>1. \A d \in Events : d # Done
    BY FrameNumbers
  <2> QED
    BY <1>1, <1>4, <2>1 DEF InLog, InConn
<1>7. EmittedAre'
  <2>1. Events' = Events
    BY DEF Events
  <2> QED
    BY <1>1, <1>6, <2>1 DEF Stream, EmittedAre, EmittedIs
<1>8. DoneIs'
  <2>1. Done' = Done /\ (InConn(Done)' <=> InConn(Done) \/ job' \in {"complete", "replaced"})
        /\ (InLog(Done)' <=> InLog(Done))
    BY <1>1, <1>4 DEF Done, InConn, InLog
  <2> QED
    BY <1>1, <2>1 DEF Stream, DoneIs
<1>9. ApprovalIs' /\ FaultsAre'
  <2>1. Events' = Events
    BY DEF Events
  <2> QED
    BY <1>1, <2>1 DEF Stream, ApprovalIs, FaultsAre
<1>10. Ascends(log)' /\ LogLong'
  BY <1>1 DEF Stream, Ascends, LogLong, Done
<1> QED
  BY <1>2, <1>5, <1>7, <1>8, <1>9, <1>10 DEF Stream

LEMMA ShiftsStream ==
    ASSUME BoundsAssumption, Types, Stream,
           Drops \/ Publishes \/ \E i \in 1..Len(syncs) : Reads(i)
    PROVE  GenerationTypes' /\ Stream'
<1> DEFINE h == Head(conn)
<1>1. /\ conn \in Seq(Commands) /\ log \in Seq(Frames) /\ conn # <<>> /\ conn' = Tail(conn)
      /\ receipt \in [Events -> {"none", "open", "numbered", "failed"}]
      /\ UNCHANGED <<job, emitted, approval>>
      /\ \/ h = Get /\ log' = log /\ receipt' = receipt /\ faults' = faults
         \/ /\ h \in Events /\ log' = log /\ receipt' = [receipt EXCEPT ![h] = "failed"]
            /\ faults' # 0
         \/ h \in Frames /\ log' = Append(log, h) /\ receipt' = receipt /\ faults' = faults
  BY DEF Types, GenerationTypes, Drops, Publishes, Reads, Shifts
<1> HIDE DEF h
<1>2. /\ \A y : InConn(y) <=> InSeq(y, conn') \/ y = h
      /\ h \in Frames /\ log' = Append(log, h) => \A y : InSeq(y, log') <=> InLog(y) \/ y = h
      /\ log' = log => \A y : InSeq(y, log') <=> InLog(y)
      /\ h \in Frames => ~InLog(h) /\ ~InSeq(h, conn') /\ InConn(h)
  <2>1. h \in Frames => ~InLog(h) /\ ~InSeq(h, conn') /\ InConn(h)
    BY <1>1, HeadIsNew DEF Stream, h
  <2> QED
    BY <1>1, <2>1, CommandsMove DEF h, InLog
<1>3. h \in Events => h \in Frames /\ h # Get /\ h # Done
  BY FrameNumbers
<1>4. ConnAscends' /\ LogBeforeConn'
  BY <1>1, TailKeeps DEF Stream, h
<1>5. Ascends(log)' /\ LogLong' /\ log' \in Seq(Frames)
  <2>1. CASE log' = log
    BY <1>1, <2>1 DEF Stream, Ascends, LogLong, Done
  <2>2. CASE Publishes
    BY <1>1, <2>2, PublishKeeps DEF Stream
  <2> QED
    BY <2>1, <2>2 DEF Drops, Reads
<1>6. GenerationTypes'
  <2>1. conn' \in Seq(Commands) /\ receipt' \in [Events -> {"none", "open", "numbered", "failed"}]
    BY <1>1
  <2> QED
    BY <1>1, <1>5, <2>1 DEF Types, GenerationTypes, Commands, Frames, Events, Done, Get
<1>7. EmittedAre'
  <2>1. SUFFICES ASSUME NEW d \in Events PROVE EmittedIs(d)'
    BY DEF EmittedAre, Events
  <2>2. d \in Events /\ d # Get
    BY FrameNumbers DEF Events
  <2>3. /\ InLog(d) \/ InConn(d) \/ receipt[d] # "none" => d <= emitted
        /\ d <= emitted => InLog(d) \/ InConn(d) \/ receipt[d] = "failed"
        /\ receipt[d] = "failed" => ~InLog(d) /\ ~InConn(d)
        /\ receipt[d] = "numbered" => InLog(d)
    BY <2>2 DEF Stream, EmittedAre, EmittedIs
  <2>4. CASE h = Get /\ log' = log /\ receipt' = receipt
    BY <1>1, <1>2, <2>2, <2>3, <2>4 DEF EmittedIs, InLog, InConn
  <2>5. CASE h \in Frames /\ log' = Append(log, h) /\ receipt' = receipt
    <3>1. (InLog(d)' <=> InLog(d) \/ d = h) /\ (InConn(d) <=> InConn(d)' \/ d = h)
      BY <1>2, <2>5 DEF InLog, InConn
    <3> QED
      BY <1>1, <1>2, <2>3, <2>5, <3>1 DEF EmittedIs, InConn, InLog
  <2>6. CASE h \in Events /\ log' = log /\ receipt' = [receipt EXCEPT ![h] = "failed"]
    <3>1. (InLog(d)' <=> InLog(d)) /\ (InConn(d) <=> InConn(d)' \/ d = h)
      BY <1>2, <2>6 DEF InLog, InConn
    <3>2. receipt'[d] = IF d = h THEN "failed" ELSE receipt[d]
      BY <1>1, <2>2, <2>6
    <3> QED
      BY <1>1, <1>2, <1>3, <2>3, <2>6, <3>1, <3>2 DEF EmittedIs, InConn, InLog
  <2> QED
    BY <1>1, <2>4, <2>5, <2>6
<1>8. DoneIs'
  <2>1. Done' = Done /\ Done # Get
    BY FrameNumbers DEF Done
  <2>2. InLog(Done) \/ InConn(Done) <=> InSeq(Done, log') \/ InSeq(Done, conn')
    BY <1>1, <1>2, <1>3, <2>1
  <2> QED
    BY <1>1, <2>1, <2>2 DEF Stream, DoneIs, InLog, InConn
<1>9. ApprovalIs' /\ FaultsAre'
  <2>1. Events' = Events
    BY DEF Events
  <2> QED
    BY <1>1, <2>1 DEF Stream, ApprovalIs, FaultsAre
<1> QED
  BY <1>4, <1>5, <1>6, <1>7, <1>8, <1>9 DEF Stream

\* A GET is sent.
LEMMA ClosesStream ==
    ASSUME BoundsAssumption, Types, Stream, NEW r, NEW replay, Closes(r, replay)
    PROVE  GenerationTypes' /\ Stream'
<1>1. /\ conn \in Seq(Commands) /\ log \in Seq(Frames) /\ Get \in Commands
      /\ conn' = Append(conn, Get)
      /\ UNCHANGED <<job, emitted, approval, log, receipt, faults>>
  BY DEF Types, GenerationTypes, Closes, Commands, faultVars
<1>2. ConnAscends' /\ LogBeforeConn'
  BY <1>1, AppendKeeps DEF Stream
<1>3. \A y \in Frames : (InLog(y)' <=> InLog(y)) /\ (InConn(y)' <=> InConn(y))
  <2>1. \A y : InSeq(y, conn') <=> InConn(y) \/ y = Get
    BY <1>1, CommandsMove
  <2>2. \A y \in Frames : y # Get
    BY FrameNumbers
  <2> QED
    BY <1>1, <2>1, <2>2 DEF InLog, InConn
<1>4. GenerationTypes'
  <2>1. conn' \in Seq(Commands)
    BY <1>1
  <2> QED
    BY <1>1, <2>1 DEF Types, GenerationTypes, Commands, Frames, Events, Done, Get
<1>5. EmittedAre' /\ DoneIs'
  <2>1. Events' = Events /\ Done' = Done /\ Events \subseteq Frames /\ Done \in Frames
    BY FrameNumbers DEF Events, Done
  <2> QED
    BY <1>1, <1>3, <2>1 DEF Stream, EmittedAre, EmittedIs, DoneIs
<1>6. Ascends(log)' /\ LogLong' /\ ApprovalIs' /\ FaultsAre'
  BY <1>1 DEF Stream, Ascends, LogLong, Done, ApprovalIs, FaultsAre, Events
<1> QED
  BY <1>2, <1>4, <1>5, <1>6 DEF Stream

(***************************************************************************)
(* The invariant Core: types, the order of the stream, what each stage of  *)
(* a request has, whose sync is in flight.  It is kept by the transport,   *)
(***************************************************************************)

\* The attachment, counted with the one that readers are registered for.
Attached == attachGen + (IF on = {} THEN 0 ELSE 1)
InTurn == /\ \A r \in Readers : r <= Attached => reader[r].pc # "idle"
          /\ Attached <= MaxRequests

Core == Types /\ Stream /\ Shapes /\ SyncsBy /\ InTurn

LEMMA CoreIsBefore == BoundsAssumption /\ Core => Before
BY DEF Core, Before

\* Request q awaits the sync that is answered, if one is.
Awaits(q) == syncs' # syncs /\ syncs # <<>> /\ Head(syncs).by = q

\* The readers before and after a step of the transport.
Carried ==
    /\ on' \subseteq on /\ RuntimeFollows
    /\ \/ syncs' = syncs
       \/ syncs # <<>> /\ syncs' = Tail(syncs)
    /\ \A r \in Readers :
          /\ reader'[r].kind = reader[r].kind /\ reader'[r].told = reader[r].told
          /\ reader'[r].gen = reader[r].gen /\ reader'[r].waits = reader[r].waits
          /\ reader'[r].defer = reader[r].defer /\ reader'[r].replay = reader[r].replay
          /\ Awaits(r) => reader[r].pc = "sync"
          /\ r \in on \ on' => /\ reader[r].pc = "live" /\ reader'[r].pc = "ended"
                               /\ ~reader'[r].look /\ reader'[r].queue = <<>>
          /\ r \notin on \/ r \in on' =>
                /\ reader'[r].pc = IF Awaits(r) THEN "ready" ELSE reader[r].pc
                /\ reader'[r].look = reader[r].look
          /\ r \notin on => /\ reader'[r].got = reader[r].got
                            /\ reader'[r].queue = reader[r].queue
          /\ r \in on' => /\ reader[r].pc = "live" =>
                                reader'[r].queue = <<>> /\ ~InSeq(Done, reader'[r].got)
                          /\ reader[r].pc # "live" => reader'[r].got = <<>>

LEMMA TailDiffers ==
    ASSUME NEW S, NEW s \in Seq(S), s # <<>>
    PROVE  Tail(s) # s
<1>1. Len(Tail(s)) = Len(s) - 1 /\ Len(s) \in Nat
  OBVIOUS
<1>3. \A n \in Nat : n - 1 # n
  OBVIOUS
<1>2. Len(Tail(s)) # Len(s)
  BY ONLY <1>1, <1>3
<1> QED
  BY <1>2

\* What the effect of a step of the transport says about its readers.
LEMMA TransportCarries ==
    ASSUME Before, TransportStep, ReaderTypes'
    PROVE  Carried
<1> USE DEF Shapes, Shape
<1>1. SyncTypes /\ SyncsBy /\ ReaderTypes /\ Shapes
  BY DEF Before, Types
<1>2. ASSUME Ignores \/ Holds PROVE Carried
  BY <1>1, <1>2 DEF Ignores, Holds, Carried, Awaits, readerVars, runtimeVars, RuntimeFollows
<1>3. ASSUME Skips PROVE Carried
  <2>1. syncs # <<>> /\ syncs' = Tail(syncs) /\ syncs' # syncs /\ reader' = Resumed /\ on' = on
        /\ UNCHANGED runtimeVars
    BY <1>1, <1>3, TailDiffers DEF Skips, SyncTypes
  <2>2. \A r \in Readers :
                 /\ Resumed[r].kind = reader[r].kind /\ Resumed[r].told = reader[r].told
                 /\ Resumed[r].gen = reader[r].gen /\ Resumed[r].waits = reader[r].waits
                 /\ Resumed[r].defer = reader[r].defer /\ Resumed[r].replay = reader[r].replay
                 /\ Resumed[r].look = reader[r].look
                 /\ Resumed[r].got = reader[r].got /\ Resumed[r].queue = reader[r].queue
                 /\ Resumed[r].pc = IF Head(syncs).by = r THEN "ready" ELSE reader[r].pc
                 /\ Head(syncs).by = r => reader[r].pc = "sync"
    BY <1>1, <2>1, ResumedIs
  <2> QED
    BY <1>1, <2>1, <2>2 DEF Carried, Awaits, RuntimeFollows, runtimeVars
<1>4. ASSUME NEW pops \in BOOLEAN, NEW P, NEW m, NEW es \in Seq(Frames),
             Flushes(pops, P, m, es), Pops(pops)
      PROVE  Carried
  <2> DEFINE R == Woken(pops)
  <2>1. Handing(R, on, es) /\ RuntimeFollows
    BY <1>4 DEF Flushes, FlushStep
  <2>2. \/ pops /\ syncs # <<>> /\ syncs' = Tail(syncs) /\ syncs' # syncs /\ R = Resumed
        \/ ~pops /\ syncs' = syncs /\ R = reader
    BY <1>1, <1>4, TailDiffers DEF Pops, Woken, SyncTypes
  <2>3. \A r \in Readers :
          /\ R[r].kind = reader[r].kind /\ R[r].told = reader[r].told
          /\ R[r].gen = reader[r].gen /\ R[r].waits = reader[r].waits
          /\ R[r].defer = reader[r].defer /\ R[r].replay = reader[r].replay
          /\ R[r].look = reader[r].look
          /\ R[r].got = reader[r].got /\ R[r].queue = reader[r].queue
          /\ R[r].pc = IF Awaits(r) THEN "ready" ELSE reader[r].pc
          /\ Awaits(r) => reader[r].pc = "sync"
    <3> HIDE DEF R
    <3>1. CASE R = reader /\ syncs' = syncs
      BY <3>1 DEF Awaits
    <3>2. CASE R = Resumed /\ syncs # <<>> /\ syncs' # syncs
      BY <1>1, <3>2, ResumedIs DEF Awaits
    <3> QED
      BY <2>2, <3>1, <3>2
  <2> HIDE DEF R
  <2>4. ASSUME NEW r \in Readers, r \in on'
        PROVE  /\ reader[r].pc = "live" =>
                                reader'[r].queue = <<>> /\ ~InSeq(Done, reader'[r].got)
               /\ reader[r].pc # "live" => reader'[r].got = <<>>
    <3>1. r \in on /\ reader'[r].pc = R[r].pc
      BY <2>1, <2>4 DEF Handing
    <3>2. CASE reader[r].pc = "live"
      <4>1. R[r].pc = "live" /\ ~InSeq(Done, Seen(r)) /\ Seen(r) = reader[r].got
            /\ Seen(r)' = reader'[r].got /\ reader[r].got \in Seq(Frames)
        <5>1. R[r].pc = "live" /\ reader'[r].pc = "live"
          BY <2>3, <3>1, <3>2
        <5>2. Shape(r) /\ reader[r] \in Requests
          BY <1>1 DEF ReaderTypes
        <5>3. ~InSeq(Done, reader[r].got) /\ reader[r].got \in Seq(Frames)
          BY <3>2, <5>2 DEF Requests, Frames
        <5> QED
          BY <3>2, <5>1, <5>3 DEF Seen
      <4>2. Hears(on, r) /\ ~InSeq(Done, es)
        BY <2>1, <2>4, <3>1, <3>2, <4>1 DEF Hears, Handing
      <4>3. reader'[r].got = reader[r].got \o es
        BY <2>1, <2>4, <4>1, <4>2 DEF Handing
      <4>4. ~InSeq(Done, reader'[r].got)
        BY <4>1, <4>2, <4>3, InConcat
      <4> QED
        BY <2>1, <2>4, <3>2, <4>4 DEF Handing
    <3>3. CASE reader[r].pc # "live"
      BY <2>1, <2>4, <3>3 DEF Handing
    <3> QED
      BY <3>2, <3>3
  <2>5. ASSUME NEW r \in Readers
        PROVE  /\ reader'[r].kind = reader[r].kind /\ reader'[r].told = reader[r].told
               /\ reader'[r].gen = reader[r].gen /\ reader'[r].waits = reader[r].waits
               /\ reader'[r].defer = reader[r].defer /\ reader'[r].replay = reader[r].replay
               /\ Awaits(r) => reader[r].pc = "sync"
               /\ r \in on \ on' => /\ reader[r].pc = "live" /\ reader'[r].pc = "ended"
                                    /\ ~reader'[r].look /\ reader'[r].queue = <<>>
               /\ r \notin on \/ r \in on' =>
                     /\ reader'[r].pc = IF Awaits(r) THEN "ready" ELSE reader[r].pc
                     /\ reader'[r].look = reader[r].look
               /\ r \notin on => /\ reader'[r].got = reader[r].got
                                 /\ reader'[r].queue = reader[r].queue
    <3>1. /\ reader'[r].kind = R[r].kind /\ reader'[r].told = R[r].told
          /\ reader'[r].gen = R[r].gen /\ reader'[r].waits = R[r].waits
          /\ reader'[r].defer = R[r].defer /\ reader'[r].replay = R[r].replay
          /\ r \in on \ on' => /\ reader[r].pc = "live" /\ reader'[r].pc = "ended"
                                    /\ ~reader'[r].look /\ reader'[r].queue = <<>>
          /\ r \notin on \/ r \in on' => reader'[r].pc = R[r].pc /\ reader'[r].look = R[r].look
          /\ r \notin on => reader'[r] = R[r]
      BY <2>1 DEF Handing
    <3> QED
      BY <2>3, <3>1
  <2>6. on' \subseteq on
    BY <2>1 DEF Handing
  <2> QED
    BY <2>1, <2>2, <2>4, <2>5, <2>6 DEF Carried
<1> QED
  BY <1>2, <1>3, <1>4 DEF TransportStep

\* A reader that leaves counts for the attachment that ends.
LEMMA FollowsInTurn ==
    ASSUME BoundsAssumption, RuntimeTypes, InTurn, RuntimeFollows, on' \subseteq on,
           \A r \in Readers : reader[r].pc # "idle" => reader'[r].pc # "idle"
    PROVE  /\ attachGen' \in 0..MaxRequests /\ InTurn'
           /\ hasSubscriber' \in BOOLEAN /\ since' = since
<1>1. attachGen \in Nat /\ MaxRequests \in Nat /\ Attached <= MaxRequests
  BY DEF RuntimeTypes, InTurn, BoundsAssumption
<1>2. Attached' = Attached /\ attachGen' \in 0..MaxRequests
  BY <1>1 DEF RuntimeFollows, Attached
<1>3. InTurn'
  <2>1. Readers' = Readers
    BY DEF Readers
  <2> QED
    BY <1>2, <2>1 DEF InTurn
<1>4. hasSubscriber' \in BOOLEAN /\ since' = since
  BY DEF RuntimeFollows, RuntimeTypes
<1> QED
  BY <1>2, <1>3, <1>4

LEMMA SameRequest ==
    ASSUME NEW c \in Requests, NEW d \in Requests,
           c.pc = d.pc, c.kind = d.kind, c.defer = d.defer, c.told = d.told, c.gen = d.gen,
           c.waits = d.waits, c.look = d.look, c.replay = d.replay, c.queue = d.queue,
           c.got = d.got
    PROVE  c = d
BY DEF Requests

LEMMA CarriedShapes ==
    ASSUME Before, Carried, ReaderTypes', faults' >= faults, faults \in Nat, faults' \in Nat
    PROVE  Shapes'
<1> SUFFICES ASSUME NEW r \in Readers PROVE Shape(r)'
  BY DEF Shapes, Readers
<1>1. Shape(r)
  BY DEF Before, Shapes
<1>2. on' \subseteq on /\ reader'[r].kind = reader[r].kind /\ reader'[r].replay = reader[r].replay
      /\ (Awaits(r) => reader[r].pc = "sync")
  BY DEF Carried
<1>3. CASE r \in on'
  <2>1. /\ reader'[r].pc = IF Awaits(r) THEN "ready" ELSE reader[r].pc
        /\ reader'[r].look = reader[r].look
        /\ reader[r].pc = "live" => reader'[r].queue = <<>> /\ ~InSeq(Done, reader'[r].got)
        /\ reader[r].pc # "live" => reader'[r].got = <<>>
    BY <1>3 DEF Carried
  <2>2. InSeq(Done, reader[r].got)' <=> InSeq(Done, reader'[r].got)
    BY DEF InSeq, Done
  <2> QED
    BY <1>1, <1>2, <1>3, <2>1, <2>2 DEF Shape
<1>4. CASE r \in on \ on'
  BY <1>1, <1>2, <1>4 DEF Shape, Carried
<1>5. CASE r \notin on
  <2>1. /\ reader'[r].pc = IF Awaits(r) THEN "ready" ELSE reader[r].pc
        /\ reader'[r].look = reader[r].look
        /\ reader'[r].got = reader[r].got /\ reader'[r].queue = reader[r].queue
        /\ r \notin on' /\ reader'[r].told = reader[r].told /\ reader'[r].gen = reader[r].gen
        /\ reader'[r].waits = reader[r].waits /\ reader'[r].defer = reader[r].defer
    BY <1>5 DEF Carried
  <2>2. reader'[r].pc = "idle" => reader'[r] = Fresh
    <3>1. SUFFICES ASSUME reader'[r].pc = "idle" PROVE reader'[r] = Fresh
      OBVIOUS
    <3>2. reader[r] = Fresh
      BY <1>1, <2>1, <3>1 DEF Shape
    <3>3. reader'[r] \in Requests /\ reader[r] \in Requests
      BY DEF ReaderTypes, Requests, Events, Readers, Done, Before, Types
    <3>4. reader'[r].pc = reader[r].pc
      BY <1>2, <2>1, <3>1, <3>2
    <3> QED
      BY <1>2, <2>1, <3>2, <3>3, <3>4, SameRequest
  <2> QED
    BY <1>1, <1>2, <1>5, <2>1, <2>2 DEF Shape, Fresh
<1> QED
  BY <1>2, <1>3, <1>4, <1>5

LEMMA TransportTypesKept ==
    ASSUME BoundsAssumption, Types, Stream, TransportStep
    PROVE  TransportTypes'
<1>1. FirstSeq \in Nat /\ received \in Nat /\ Len(log) \in Nat /\ received <= Len(log)
      /\ nextSeq \in Nat /\ nextSeq <= FirstSeq + Len(log) /\ log' = log
      /\ pending \subseteq nextSeq..(FirstSeq + received - 1)
      /\ pending \subseteq FirstSeq..(FirstSeq + received - 1)
      /\ deferred \in BOOLEAN /\ (deferred => nextSeq = 0)
  BY DEF Types, TransportTypes, GenerationTypes, BoundsAssumption, TransportStep, generationVars, Counter
<1>2. \A s \in pending : s \in Nat /\ nextSeq <= s /\ FirstSeq <= s /\ s < FirstSeq + received
  BY <1>1
<1> DEFINE Ok(k, n, P, d) ==
        /\ k \in 0..Len(log)
        /\ n \in 0..(FirstSeq + Len(log))
        /\ P \subseteq n..(FirstSeq + k - 1)
        /\ P \subseteq FirstSeq..(FirstSeq + k - 1)
        /\ d \in BOOLEAN
        /\ d => n = 0
<1>3. ASSUME NEW k \in Nat, k <= Len(log), NEW n \in Nat, n <= FirstSeq + Len(log), NEW P,
             \A s \in P : s \in Nat /\ n <= s /\ FirstSeq <= s /\ s < FirstSeq + k,
             NEW d \in BOOLEAN, d => n = 0
      PROVE  Ok(k, n, P, d)
  BY <1>1, <1>3
<1>4. ASSUME Ok(received', nextSeq', pending', deferred') PROVE TransportTypes'
  <2>1. Counter' = FirstSeq + Len(log)
    BY <1>1 DEF Counter
  <2> QED
    BY <1>1, <1>4, <2>1 DEF TransportTypes
<1>5. CASE Ignores
  <2>1. received' = received + 1 /\ received + 1 \in Nat /\ received + 1 <= Len(log)
        /\ nextSeq' = nextSeq /\ pending' = pending /\ deferred' = deferred
    BY <1>1, <1>5 DEF Ignores, bufferVars
  <2>2. \A s \in pending : s < FirstSeq + (received + 1)
    BY <1>1, <1>2
  <2>3. Ok(received + 1, nextSeq, pending, deferred)
    BY <1>1, <1>2, <1>3, <2>1, <2>2
  <2> HIDE DEF Ok
  <2> QED
    BY <1>4, <2>1, <2>3
<1>6. CASE Holds
  <2>1. received' = received + 1 /\ received + 1 \in Nat /\ received + 1 <= Len(log)
        /\ nextSeq' = nextSeq /\ pending' = pending \cup {FirstSeq + received} /\ deferred' = deferred
        /\ (deferred \/ FirstSeq + received > nextSeq)
    BY <1>1, <1>6 DEF Holds
  <2>2. \A s \in pending' : s \in Nat /\ nextSeq <= s /\ FirstSeq <= s /\ s < FirstSeq + (received + 1)
    BY <1>1, <1>2, <2>1
  <2>3. Ok(received + 1, nextSeq, pending', deferred)
    BY <1>1, <1>3, <2>1, <2>2
  <2> HIDE DEF Ok
  <2> QED
    BY <1>4, <2>1, <2>3
<1>7. CASE Skips
  <2>1. received' = received /\ nextSeq' = nextSeq /\ pending' = pending /\ deferred' = deferred
    BY <1>7 DEF Skips, bufferVars
  <2>3. Ok(received, nextSeq, pending, deferred)
    BY <1>1, <1>2, <1>3
  <2> HIDE DEF Ok
  <2> QED
    BY <1>4, <2>1, <2>3
<1>8. ASSUME NEW pops, NEW P \in SUBSET Nat, NEW m \in Nat, NEW es, Flushes(pops, P, m, es)
      PROVE  TransportTypes'
  <2>1. PICK k \in Nat : k = received' /\ k <= Len(log)
    BY <1>1, <1>8 DEF Flushes
  <2>2. \A s \in P : FirstSeq <= s /\ s < FirstSeq + k
    BY <1>8, <2>1 DEF Flushes
  <2>3. m <= FirstSeq + Len(log)
    BY <1>8 DEF Flushes, Counter
  <2>4. CASE on' = {}
    <3>1. nextSeq' = 0 /\ pending' = {} /\ deferred' = FALSE
      BY <1>8, <2>4 DEF Flushes, FlushStep, Resets
    <3>2. Ok(k, 0, {}, FALSE)
      BY <1>1, <1>3, <2>1
    <3> HIDE DEF Ok
    <3> QED
      BY <1>4, <2>1, <3>1, <3>2
  <2>5. CASE on' # {}
    <3>1. nextSeq' = m /\ pending' = {s \in P : s >= m} /\ deferred' = FALSE
      BY <1>8, <2>5 DEF Flushes, FlushStep
    <3>3. PICK Q : Q = {s \in P : s >= m}
      OBVIOUS
    <3>4. \A s \in Q : s \in Nat /\ m <= s /\ FirstSeq <= s /\ s < FirstSeq + k
      BY <2>2, <3>3
    <3>5. Ok(k, m, Q, FALSE)
      BY <1>3, <2>1, <2>3, <3>4
    <3>2. Ok(k, m, {s \in P : s >= m}, FALSE)
      BY <3>3, <3>5
    <3> HIDE DEF Ok
    <3> QED
      BY <1>4, <2>1, <3>1, <3>2
  <2> QED
    BY <2>4, <2>5
<1> QED
  BY <1>5, <1>6, <1>7, <1>8 DEF TransportStep

LEMMA SyncsByKept ==
    ASSUME BoundsAssumption, SyncTypes, SyncsBy,
           \/ syncs' = syncs
           \/ syncs # <<>> /\ syncs' = Tail(syncs),
           \A r \in Readers : reader'[r].pc = "sync" <=> reader[r].pc = "sync" /\ ~Awaits(r)
    PROVE  SyncsBy' /\ syncs' \in Seq(SyncCalls)
<1>1. CASE syncs' = syncs
  <2>1. \A r \in Readers : reader'[r].pc = "sync" <=> reader[r].pc = "sync"
    BY <1>1 DEF Awaits
  <2>2. \A i \in 1..Len(syncs) : syncs[i].by # Nobody => syncs[i].by \in Readers
    <3>1. \A i \in 1..Len(syncs) : syncs[i] \in SyncCalls
      BY DEF SyncTypes
    <3> QED
      BY <3>1 DEF SyncCalls
  <2> QED
    BY <1>1, <2>1, <2>2 DEF SyncsBy, SyncTypes, Readers, Nobody
<1>2. CASE syncs # <<>> /\ syncs' = Tail(syncs)
  <2>1. /\ Len(syncs) \in Nat \ {0} /\ Len(syncs') = Len(syncs) - 1 /\ Head(syncs) = syncs[1]
        /\ \A i \in 1..Len(syncs') : i + 1 \in 1..Len(syncs) /\ syncs'[i] = syncs[i + 1]
        /\ syncs' \in Seq(SyncCalls) /\ 1 \in 1..Len(syncs)
    BY <1>2 DEF SyncTypes
  <2>2. syncs' # syncs
    BY <1>2, TailDiffers DEF SyncTypes
  <2>3. \A r \in Readers : Awaits(r) <=> syncs[1].by = r
    BY <1>2, <2>1, <2>2 DEF Awaits
  <2>4. ASSUME NEW r \in Readers, reader'[r].pc = "sync"
        PROVE  \E i \in 1..Len(syncs') : syncs'[i].by = r
    <3>1. reader[r].pc = "sync" /\ syncs[1].by # r
      BY <2>3, <2>4
    <3>2. PICK i \in 1..Len(syncs) : syncs[i].by = r
      BY <3>1 DEF SyncsBy
    <3>3. i # 1 /\ i - 1 \in 1..Len(syncs') /\ syncs'[i - 1] = syncs[(i - 1) + 1] /\ (i - 1) + 1 = i
      BY <2>1, <3>1, <3>2
    <3> QED
      BY <3>2, <3>3
  <2>5. ASSUME NEW i \in 1..Len(syncs'), syncs'[i].by # Nobody
        PROVE  reader'[syncs'[i].by].pc = "sync"
    <3>1. i + 1 \in 1..Len(syncs) /\ syncs'[i] = syncs[i + 1] /\ i + 1 # 1
      BY <2>1
    <3>2. syncs[i + 1].by \in Readers /\ reader[syncs[i + 1].by].pc = "sync"
      <4>1. syncs[i + 1] \in SyncCalls /\ syncs[i + 1].by # Nobody
        BY <2>5, <3>1 DEF SyncTypes
      <4> QED
        BY <3>1, <4>1 DEF SyncsBy, SyncCalls
    <3>3. syncs[1].by # syncs[i + 1].by
      BY <2>1, <2>5, <3>1 DEF SyncsBy
    <3> QED
      BY <2>3, <3>1, <3>2, <3>3
  <2>6. ASSUME NEW i \in 1..Len(syncs'), NEW j \in 1..Len(syncs'), i # j, syncs'[i].by = syncs'[j].by
        PROVE  syncs'[i].by = Nobody
    <3>1. i + 1 \in 1..Len(syncs) /\ j + 1 \in 1..Len(syncs) /\ i + 1 # j + 1
          /\ syncs'[i] = syncs[i + 1] /\ syncs'[j] = syncs[j + 1]
      BY <2>1, <2>6
    <3> QED
      BY <2>6, <3>1 DEF SyncsBy
  <2> QED
    BY <2>1, <2>4, <2>5, <2>6 DEF SyncsBy, Readers, Nobody
<1> QED
  BY <1>1, <1>2

LEMMA TransportCore ==
    ASSUME BoundsAssumption, Core, TransportActions
    PROVE  Core' /\ TransportStep /\ Carried
<1>1. Before
  BY CoreIsBefore
<1>2. TransportStep /\ ReaderTypes'
  BY <1>1, ReceiveEffect, FlushTimeoutEffect, SyncReplyEffect, SyncFailEffect DEF TransportActions
<1>3. Carried
  BY <1>1, <1>2, TransportCarries
<1>4. faults \in Nat /\ faults' \in Nat /\ faults' >= faults /\ faults' \in 0..MaxFaults
      /\ (faults' = 0 => faults = 0)
  BY <1>2 DEF Core, Types, RuntimeTypes, TransportStep, BoundsAssumption
<1>5. Shapes'
  BY <1>1, <1>2, <1>3, <1>4, CarriedShapes
<1>6. \A r \in Readers : /\ reader[r].pc # "idle" => reader'[r].pc # "idle"
                         /\ reader'[r].pc = "sync" <=> reader[r].pc = "sync" /\ ~Awaits(r)
  BY <1>3 DEF Carried
<1>7. /\ attachGen' \in 0..MaxRequests /\ InTurn'
      /\ hasSubscriber' \in BOOLEAN /\ since' = since
  BY <1>3, <1>6, FollowsInTurn DEF Carried, Core, Types
<1>8. SyncsBy' /\ syncs' \in Seq(SyncCalls)
  BY <1>3, <1>6, SyncsByKept DEF Carried, Core, Types
<1>9. TransportTypes'
  BY <1>2, TransportTypesKept DEF Core, Types
<1>10. GenerationTypes' /\ Stream'
  <2>1. UNCHANGED generationVars
    BY <1>2 DEF TransportStep
  <2>2. GenerationTypes'
    BY <2>1 DEF generationVars, Core, Types, GenerationTypes, Commands, Frames, Events, Done, Get
  <2>3. \A d : (InLog(d)' <=> InLog(d)) /\ (InConn(d)' <=> InConn(d))
    BY <2>1 DEF InLog, InConn, InSeq, generationVars
  <2>4. Ascends(log)' /\ LogLong' /\ ConnAscends' /\ LogBeforeConn' /\ ApprovalIs' /\ DoneIs'
    BY <2>1, <2>3 DEF Core, Stream, Ascends, LogLong, ConnAscends, LogBeforeConn, ApprovalIs,
                      DoneIs, Done, Get, generationVars
  <2>5. EmittedAre'
    BY <2>1, <2>3 DEF Core, Stream, EmittedAre, EmittedIs, Events, generationVars
  <2>6. FaultsAre'
    BY <1>4, <2>1 DEF Core, Stream, FaultsAre, Events, generationVars
  <2> QED
    BY <2>2, <2>4, <2>5, <2>6 DEF Stream
<1>11. SyncTypes' /\ RuntimeTypes' /\ EarlyTypes'
  <2>1. SyncTypes'
    BY <1>2, <1>8 DEF SyncTypes, TransportStep, SyncCalls, Readers, Nobody, NoReplay, Unread
  <2>2. RuntimeTypes'
    BY <1>2, <1>4, <1>7 DEF TransportStep, Core, Types, RuntimeTypes, generationVars
  <2>3. EarlyTypes'
    BY <1>2 DEF TransportStep, Core, Types, EarlyTypes, Tasks, Events, earlyVars
  <2> QED
    BY <2>1, <2>2, <2>3
<1> QED
  BY <1>2, <1>3, <1>5, <1>7, <1>8, <1>9, <1>10, <1>11 DEF Core, Types

(***************************************************************************)
(* by the requests,                                                        *)
(***************************************************************************)

LEMMA AloneKeeps ==
    ASSUME BoundsAssumption, Core, NEW r \in Readers, Alone(r), faults' \in 0..MaxFaults,
           faults' = 0 => faults = 0,
           reader'[r].pc = "sync" <=> reader[r].pc = "sync",
           UNCHANGED bufferVars \/ \E defer \in BOOLEAN : Resets(defer)
    PROVE  /\ GenerationTypes' /\ Stream' /\ TransportTypes' /\ SyncTypes' /\ ReaderTypes'
           /\ SyncsBy'
<1>1. UNCHANGED <<generationVars, received, syncVars>>
  BY DEF Alone
<1>2. ReaderTypes'
  BY DEF Alone, ReaderTypes, Readers, Requests, Events, Done
<1>3. GenerationTypes'
  BY <1>1 DEF generationVars, Core, Types, GenerationTypes, Commands, Frames, Events, Done, Get
<1>4. Stream'
  <2>1. \A d : (InLog(d)' <=> InLog(d)) /\ (InConn(d)' <=> InConn(d))
    BY <1>1 DEF InLog, InConn, InSeq, generationVars
  <2>2. Ascends(log)' /\ LogLong' /\ ConnAscends' /\ LogBeforeConn' /\ ApprovalIs' /\ DoneIs'
    BY <1>1, <2>1 DEF Core, Stream, Ascends, LogLong, ConnAscends, LogBeforeConn, ApprovalIs,
                      DoneIs, Done, Get, generationVars
  <2>3. EmittedAre'
    BY <1>1, <2>1 DEF Core, Stream, EmittedAre, EmittedIs, Events, generationVars
  <2>4. FaultsAre'
    BY <1>1 DEF Core, Stream, FaultsAre, Events, generationVars
  <2> QED
    BY <2>2, <2>3, <2>4 DEF Stream
<1>5. SyncTypes'
  BY <1>1 DEF syncVars, Core, Types, SyncTypes, SyncCalls, Readers, Nobody, NoReplay, Unread
<1>6. TransportTypes'
  <2>1. CASE UNCHANGED bufferVars
    BY <1>1, <2>1 DEF generationVars, bufferVars, Core, Types, TransportTypes, Counter
  <2>2. CASE \E defer \in BOOLEAN : Resets(defer)
    <3>1. nextSeq' = 0 /\ pending' = {} /\ deferred' \in BOOLEAN
      BY <2>2 DEF Resets
    <3>2. 0 \in 0..Counter /\ Counter' = Counter
      BY <1>1 DEF Core, Types, GenerationTypes, Counter, BoundsAssumption, generationVars
    <3> QED
      BY <1>1, <3>1, <3>2 DEF generationVars, Core, Types, TransportTypes
  <2> QED
    BY <2>1, <2>2
<1>7. SyncsBy'
  <2>1. syncs' = syncs /\ \A q \in Readers : ~Awaits(q)
    BY <1>1 DEF syncVars, Awaits
  <2>2. \A q \in Readers : reader'[q].pc = "sync" <=> reader[q].pc = "sync" /\ ~Awaits(q)
    BY <2>1 DEF Alone
  <2> QED
    BY <2>1, <2>2, SyncsByKept DEF Core, Types
<1> QED
  BY <1>2, <1>3, <1>4, <1>5, <1>6, <1>7

LEMMA AloneShapes ==
    ASSUME Core, NEW r \in Readers, Alone(r), faults' \in Nat, faults \in Nat, faults' >= faults,
           Shape(r)'
    PROVE  Shapes'
<1> SUFFICES ASSUME NEW q \in Readers, q # r PROVE Shape(q)'
  BY DEF Shapes, Readers
<1>1. reader'[q] = reader[q] /\ (q \in on' <=> q \in on) /\ Shape(q)
  BY DEF Alone, Core, Shapes
<1>2. InSeq(Done, reader[q].got)' <=> InSeq(Done, reader[q].got)
  BY <1>1 DEF InSeq, Done
<1> QED
  BY <1>1, <1>2 DEF Shape, Fresh

\* A step by which a request neither attaches nor takes the bootstrap on.
LEMMA QuietRequest ==
    ASSUME BoundsAssumption, Core, NEW r \in Readers, Alone(r),
           Parts(r) \/ (Stays(r) /\ UNCHANGED runtimeVars),
           faults' \in {faults, faults + 1}, faults' \in 0..MaxFaults,
           reader'[r].pc = "sync" <=> reader[r].pc = "sync",
           reader'[r].pc # "idle", conts' \subseteq Tasks, abandoned' \subseteq 0..MaxRequests,
           Shape(r)'
    PROVE  Core'
<1>1. faults \in Nat /\ faults' \in Nat /\ faults' >= faults /\ (faults' = 0 => faults = 0)
  BY DEF Core, Types, RuntimeTypes, BoundsAssumption
<1>2. UNCHANGED bufferVars \/ \E defer \in BOOLEAN : Resets(defer)
  BY DEF Parts, Stays
<1>3. /\ GenerationTypes' /\ Stream' /\ TransportTypes' /\ SyncTypes' /\ ReaderTypes'
      /\ SyncsBy'
  BY <1>1, <1>2, AloneKeeps
<1>4. Shapes'
  BY <1>1, AloneShapes
<1>5. RuntimeFollows /\ on' \subseteq on
  BY DEF Parts, Stays, RuntimeFollows, runtimeVars
<1>6. \A q \in Readers : reader[q].pc # "idle" => reader'[q].pc # "idle"
  BY DEF Alone
<1>7. /\ attachGen' \in 0..MaxRequests /\ InTurn'
      /\ hasSubscriber' \in BOOLEAN /\ since' = since
  BY <1>5, <1>6, FollowsInTurn DEF Core, Types
<1>8. RuntimeTypes' /\ EarlyTypes'
  <2>1. UNCHANGED earlyVars /\ emitted' = emitted
    BY DEF Alone, generationVars
  <2>2. RuntimeTypes'
    BY <1>7, <2>1 DEF Core, Types, RuntimeTypes
  <2>3. EarlyTypes'
    BY <2>1 DEF Core, Types, EarlyTypes, Tasks, Events, earlyVars
  <2> QED
    BY <2>2, <2>3
<1> QED
  BY <1>3, <1>4, <1>7, <1>8 DEF Core, Types

LEMMA AttachCore ==
    ASSUME BoundsAssumption, Core, NEW r \in Readers, NEW k \in {"initial", "resume"}, Attach(r, k)
    PROVE  Core'
<1>1. Before
  BY CoreIsBefore
<1>2. /\ Alone(r) /\ r \notin on /\ on' = on \cup {r} /\ reader[r].pc = "idle"
      /\ \A q \in 1..(r - 1) : reader[q].pc # "idle"
      /\ on = {} => Resets(~hasSubscriber /\ k = "initial")
      /\ on # {} => UNCHANGED bufferVars
      /\ UNCHANGED <<runtimeVars, conts, faultVars>>
      /\ Becomes(r, "check", k, ~hasSubscriber /\ k = "initial", FALSE, 0, {},
                      FALSE, "none", <<>>, <<>>)
  BY <1>1, AttachEffect
<1>3. UNCHANGED bufferVars \/ \E defer \in BOOLEAN : Resets(defer)
  BY <1>2
<1>4. faults' = faults /\ abandoned' = abandoned /\ faults \in 0..MaxFaults /\ faults \in Nat
  BY <1>2 DEF faultVars, Core, Types, RuntimeTypes, BoundsAssumption
<1>5. /\ GenerationTypes' /\ Stream' /\ TransportTypes' /\ SyncTypes' /\ ReaderTypes'
      /\ SyncsBy'
  <2>1. reader'[r].pc = "sync" <=> reader[r].pc = "sync"
    BY <1>2 DEF Becomes
  <2> QED
    BY <1>2, <1>3, <1>4, <2>1, AloneKeeps
<1>6. Shapes'
  <2>1. Shape(r)'
    BY <1>2 DEF Becomes, Shape
  <2> QED
    BY <1>2, <1>4, <2>1, AloneShapes
<1>7. RuntimeTypes' /\ EarlyTypes'
  <2>1. UNCHANGED earlyVars /\ emitted' = emitted
    BY <1>2 DEF Alone, generationVars
  <2>2. RuntimeTypes'
    BY <1>2, <1>4, <2>1 DEF Core, Types, RuntimeTypes, runtimeVars
  <2>3. EarlyTypes'
    BY <1>2, <2>1 DEF Core, Types, EarlyTypes, Tasks, Events, earlyVars
  <2> QED
    BY <2>2, <2>3
<1>8. InTurn'
  <2>1. attachGen' = attachGen /\ on' # {} /\ attachGen \in Nat /\ MaxRequests \in Nat
        /\ Attached \in Nat /\ Attached' = attachGen + 1 /\ Attached <= MaxRequests
        /\ (Attached' = Attached \/ Attached' = Attached + 1)
    BY <1>2 DEF runtimeVars, Core, Types, RuntimeTypes, BoundsAssumption, Attached, InTurn
  <2>2. ~(r <= Attached) /\ r \in Nat /\ r <= MaxRequests
    BY <1>2 DEF Core, InTurn, Readers, BoundsAssumption
  <2>3. Attached' <= MaxRequests
    BY <2>1, <2>2
  <2>4. ASSUME NEW q \in Readers, q <= Attached' PROVE reader'[q].pc # "idle"
    <3>1. CASE q = r
      BY <1>2, <3>1 DEF Becomes
    <3>2. CASE q # r
      <4>1. q \in Nat /\ (q <= Attached \/ q = Attached + 1)
        BY <2>1, <2>4 DEF Readers
      <4>2. CASE q <= Attached
        BY <1>2, <3>2, <4>2 DEF Core, InTurn, Alone
      <4>3. CASE q = Attached + 1
        <5>1. q \in 1..(r - 1)
          BY <2>1, <2>2, <3>2, <4>1, <4>3
        <5> QED
          BY <1>2, <3>2, <5>1 DEF Alone
      <4> QED
        BY <4>1, <4>2, <4>3
    <3> QED
      BY <3>1, <3>2
  <2> QED
    BY <2>3, <2>4 DEF InTurn, Readers
<1> QED
  BY <1>5, <1>6, <1>7, <1>8 DEF Core, Types

LEMMA RequestCore ==
    ASSUME BoundsAssumption, Core, NEW r \in Readers, RequestStep(r)
    PROVE  Core'
<1>1. Before
  BY CoreIsBefore
<1>2. Shape(r) /\ reader[r] \in Requests /\ reader[r].gen \in 0..MaxRequests
      /\ reader[r].waits \in SUBSET Events /\ reader[r].defer \in BOOLEAN
  BY DEF Core, Shapes, Types, ReaderTypes, Requests
<1>3. faults \in 0..MaxFaults /\ faults \in Nat /\ conts \subseteq Tasks
      /\ abandoned \subseteq 0..MaxRequests
  BY DEF Core, Types, RuntimeTypes, EarlyTypes, BoundsAssumption
<1>4. ASSUME Leave(r) PROVE Core'
  <2>1. /\ Alone(r) /\ Parts(r) /\ r \in on /\ on' = on \ {r} /\ UNCHANGED abandoned
        /\ Becomes(r, IF reader[r].pc \in {"fence", "recheck", "sync"} THEN reader[r].pc
                                                                         ELSE "gone",
                      "initial", reader[r].defer, FALSE, reader[r].gen, reader[r].waits,
                      FALSE, "none", <<>>, <<>>)
    BY <1>1, <1>4, LeaveEffect
  <2>2. Shape(r)'
    BY <2>1 DEF Becomes, Shape
  <2>3. (reader'[r].pc = "sync" <=> reader[r].pc = "sync") /\ reader'[r].pc # "idle"
    BY <2>1 DEF Becomes
  <2>4. conts' = conts /\ faults' = faults
    BY <2>1 DEF Parts
  <2> QED
    BY <1>3, <2>1, <2>2, <2>3, <2>4, QuietRequest
<1>5. ASSUME Refuse(r) PROVE Core'
  <2>1. /\ Alone(r) /\ Parts(r) /\ on' = on \ {r}
        /\ reader[r].pc \in {"check", "recheck", "ready"}
        /\ abandoned' = IF reader[r].pc = "recheck"
                        THEN abandoned \cup {reader[r].gen} ELSE abandoned
        /\ Becomes(r, "ended", reader[r].kind, reader[r].defer, reader[r].told,
                      reader[r].gen, reader[r].waits, FALSE, reader[r].replay, <<>>,
                      reader[r].got)
    BY <1>1, <1>5, RefuseEffect
  <2>2. Shape(r)'
    BY <1>2, <2>1 DEF Becomes, Shape
  <2>3. (reader'[r].pc = "sync" <=> reader[r].pc = "sync") /\ reader'[r].pc # "idle"
    BY <2>1 DEF Becomes
  <2>4. conts' = conts /\ faults' = faults /\ abandoned' \subseteq 0..MaxRequests
    BY <1>2, <1>3, <2>1 DEF Parts
  <2> QED
    BY <1>3, <2>1, <2>2, <2>3, <2>4, QuietRequest
<1>6. ASSUME GiveUp(r) \/ FenceDetached(r) PROVE Core'
  <2>1. /\ Alone(r) /\ Stays(r) /\ r \notin on /\ UNCHANGED <<runtimeVars, faultVars>>
        /\ GiveUp(r) => conts' = conts /\ reader[r].pc \in {"check", "ready", "reconciled", "ended"}
        /\ FenceDetached(r) => /\ reader[r].pc = "fence"
                                  /\ conts' = IF on = {} THEN conts
                                     ELSE conts \cup {[gen |-> reader[r].gen,
                                           waits |-> reader[r].waits,
                                           defer |-> reader[r].defer]}
        /\ Becomes(r, "gone", "initial", FALSE, FALSE, 0, {}, FALSE, "none", <<>>, <<>>)
    BY <1>1, <1>6, GiveUpEffect
  <2>2. Shape(r)'
    BY <2>1 DEF Becomes, Shape, Stays
  <2>3. (reader'[r].pc = "sync" <=> reader[r].pc = "sync") /\ reader'[r].pc # "idle"
    BY <1>6, <2>1 DEF Becomes
  <2>4. [gen |-> reader[r].gen, waits |-> reader[r].waits, defer |-> reader[r].defer] \in Tasks
    BY <1>2 DEF Tasks
  <2>5. conts' \subseteq Tasks /\ faults' = faults /\ abandoned' = abandoned
    BY <1>3, <1>6, <2>1, <2>4 DEF faultVars
  <2> QED
    BY <1>3, <2>1, <2>2, <2>3, <2>5, QuietRequest
<1>7. ASSUME Fence(r) \/ RecheckThrows(r) PROVE Core'
  <2>1. /\ Alone(r) /\ Stays(r) /\ UNCHANGED <<runtimeVars, conts>>
        /\ Fence(r) => /\ r \in on /\ reader[r].pc = "fence"
                       /\ UNCHANGED faultVars /\ reader'[r].pc = "recheck"
        /\ RecheckThrows(r) => /\ reader[r].pc = "recheck"
                               /\ faults' = faults + 1 /\ faults' \in 0..MaxFaults
                               /\ abandoned' = abandoned \cup {reader[r].gen}
                               /\ reader'[r].pc = IF r \in on THEN "failed" ELSE "ended"
        /\ Becomes(r, reader'[r].pc, reader[r].kind, reader[r].defer, reader[r].told,
                      reader[r].gen, reader[r].waits, reader[r].look, reader[r].replay,
                      reader[r].queue, reader[r].got)
    BY <1>1, <1>7, FenceEffect
  <2>2. /\ reader'[r].pc \in {"recheck", "failed", "ended"} /\ reader[r].pc \in {"fence", "recheck"}
        /\ reader'[r].pc = "failed" => faults' = faults + 1
        /\ r \notin on => reader'[r].pc \notin {"recheck", "failed"}
        /\ r \in on => reader'[r].pc \in {"recheck", "failed"}
    BY <1>7, <2>1
  <2>3. Shape(r)'
    BY <1>2, <1>3, <2>1, <2>2 DEF Becomes, Shape, Stays
  <2>4. (reader'[r].pc = "sync" <=> reader[r].pc = "sync") /\ reader'[r].pc # "idle"
    BY <2>2
  <2>5. faults' \in {faults, faults + 1} /\ faults' \in 0..MaxFaults
        /\ abandoned' \subseteq 0..MaxRequests
    BY <1>2, <1>3, <1>7, <2>1 DEF faultVars
  <2> QED
    BY <1>3, <2>1, <2>3, <2>4, <2>5, QuietRequest
<1>8. ASSUME Reconcile(r) PROVE Core'
  <2>1. /\ Alone(r) /\ Stays(r) /\ UNCHANGED <<runtimeVars, conts, faultVars>>
        /\ r \in on /\ reader[r].pc = "ready" /\ reader[r].kind = "resume" /\ job # "replaced"
        /\ Becomes(r, "reconciled", reader[r].kind, reader[r].defer, (job = "paused"),
                      reader[r].gen, reader[r].waits, TRUE, reader[r].replay,
                      reader[r].queue, reader[r].got)
    BY <1>1, <1>8, ReconcileEffect
  <2>2. Shape(r)'
    BY <1>2, <2>1 DEF Becomes, Shape, Stays
  <2>3. (reader'[r].pc = "sync" <=> reader[r].pc = "sync") /\ reader'[r].pc # "idle"
    BY <2>1 DEF Becomes
  <2>4. faults' = faults /\ abandoned' = abandoned /\ conts' = conts
    BY <2>1 DEF faultVars
  <2> QED
    BY <1>3, <2>1, <2>2, <2>3, <2>4, QuietRequest
<1>9. ASSUME StartLive(r) \/ Activate(r) PROVE Core'
  <2>1. /\ Alone(r) /\ Parts(r) /\ UNCHANGED abandoned /\ r \in on
        /\ reader[r].pc \in {"ready", "reconciled"}
        /\ \E ends \in BOOLEAN, look \in BOOLEAN :
                 /\ on' = IF ends THEN on \ {r} ELSE on
                 /\ InSeq(Done, reader[r].queue) => ends
                 /\ ends => ~look
                 /\ Becomes(r, IF ends THEN "ended" ELSE "live", reader[r].kind, reader[r].defer,
                            reader[r].told, reader[r].gen, reader[r].waits, look,
                            reader[r].replay, <<>>, reader[r].queue)
    <3>1. CASE StartLive(r)
      BY <1>1, <3>1, StartLiveEffect
    <3>2. CASE Activate(r)
      <4>1. reader[r].look \in BOOLEAN
        BY <1>2 DEF Requests
      <4> QED
        BY <1>1, <3>2, <4>1, ActivateEffect
    <3> QED
      BY <1>9, <3>1, <3>2
  <2>2. PICK ends \in BOOLEAN, look \in BOOLEAN :
                 /\ on' = IF ends THEN on \ {r} ELSE on
                 /\ InSeq(Done, reader[r].queue) => ends
                 /\ ends => ~look
                 /\ Becomes(r, IF ends THEN "ended" ELSE "live", reader[r].kind, reader[r].defer,
                            reader[r].told, reader[r].gen, reader[r].waits, look,
                            reader[r].replay, <<>>, reader[r].queue)
    BY <2>1
  <2>3. Shape(r)'
    <3>1. InSeq(Done, reader[r].got)' <=> InSeq(Done, reader[r].queue)
      BY <2>2 DEF Becomes, InSeq, Done
    <3> QED
      BY <1>2, <2>1, <2>2, <3>1 DEF Becomes, Shape
  <2>4. (reader'[r].pc = "sync" <=> reader[r].pc = "sync") /\ reader'[r].pc # "idle"
    BY <2>1, <2>2 DEF Becomes
  <2>5. conts' = conts /\ faults' = faults
    BY <2>1 DEF Parts
  <2> QED
    BY <1>3, <2>1, <2>3, <2>4, <2>5, QuietRequest
<1>10. ASSUME StoredTerminal(r) PROVE Core'
  <2>1. /\ Alone(r) /\ Parts(r) /\ UNCHANGED abandoned
        /\ r \in on /\ reader[r].look
        /\ \/ /\ TerminalStored /\ reader[r].pc = "live" /\ on' = on \ {r}
              /\ Becomes(r, "ended", reader[r].kind, reader[r].defer, reader[r].told,
                            reader[r].gen, reader[r].waits, FALSE, reader[r].replay, <<>>,
                            reader[r].got \o <<Done>>)
           \/ /\ TerminalStored /\ reader[r].pc = "reconciled" /\ on' = on
              /\ ~InSeq(Done, reader[r].queue)
              /\ Becomes(r, reader[r].pc, reader[r].kind, reader[r].defer, reader[r].told,
                            reader[r].gen, reader[r].waits, FALSE, reader[r].replay,
                            reader[r].queue \o <<Done>>, reader[r].got)
           \/ /\ on' = on
              /\ Becomes(r, reader[r].pc, reader[r].kind, reader[r].defer, reader[r].told,
                            reader[r].gen, reader[r].waits, FALSE, reader[r].replay,
                            reader[r].queue, reader[r].got)
    BY <1>1, <1>10, StoredTerminalEffect
  <2>2. reader[r].pc \in {"reconciled", "live"}
    BY <1>2, <2>1 DEF Shape
  <2>3. Shape(r)'
    <3>1. reader'[r].got = reader[r].got => (InSeq(Done, reader[r].got)' <=> InSeq(Done, reader[r].got))
      BY DEF InSeq, Done
    <3> QED
      BY <1>2, <2>1, <2>2, <3>1 DEF Becomes, Shape
  <2>4. (reader'[r].pc = "sync" <=> reader[r].pc = "sync") /\ reader'[r].pc # "idle"
    BY <2>1, <2>2 DEF Becomes
  <2>5. conts' = conts /\ faults' = faults
    BY <2>1 DEF Parts
  <2> QED
    BY <1>3, <2>1, <2>3, <2>4, <2>5, QuietRequest
<1>11. ASSUME Check(r) PROVE Core'
  <2>1. /\ Alone(r) /\ Stays(r) /\ r \in on /\ reader[r].pc = "check"
        /\ UNCHANGED <<conts, faultVars, attachGen>>
        /\ hasSubscriber' \in {hasSubscriber, TRUE} /\ since' \in {since, emitted}
        /\ \E p \in {"ready", "fence"}, defer \in BOOLEAN : \E gen, waits :
              Becomes(r, p, reader[r].kind, defer, reader[r].told, gen,
                            waits, reader[r].look, reader[r].replay,
                            reader[r].queue, reader[r].got)
    <3>1. PICK d \in BOOLEAN : d = reader[r].defer
      BY <1>2
    <3> QED
      BY <1>1, <1>11, <3>1, CheckEffect
  <2>2. Shape(r)'
    BY <1>2, <2>1 DEF Becomes, Shape, Stays
  <2>3. (reader'[r].pc = "sync" <=> reader[r].pc = "sync") /\ reader'[r].pc \notin {"idle", "sync"}
    BY <2>1 DEF Becomes
  <2>4. faults' = faults /\ abandoned' = abandoned /\ conts' = conts /\ UNCHANGED bufferVars
    BY <2>1 DEF faultVars, Stays
  <2>5. /\ GenerationTypes' /\ Stream' /\ TransportTypes' /\ SyncTypes' /\ ReaderTypes'
        /\ SyncsBy'
    BY <1>3, <2>1, <2>3, <2>4, AloneKeeps
  <2>6. Shapes'
    BY <1>3, <2>1, <2>2, <2>4, AloneShapes
  <2>7. InTurn'
    <3>1. Attached' = Attached
      BY <2>1 DEF Stays, Attached
    <3> QED
      BY <2>1, <2>3, <3>1 DEF Core, InTurn, Alone, Readers
  <2>8. RuntimeTypes' /\ EarlyTypes'
    <3>1. UNCHANGED earlyVars /\ emitted' = emitted
      BY <2>1 DEF Alone, generationVars
    <3>2. RuntimeTypes'
      <4>1. RuntimeTypes /\ emitted \in Nat
        BY DEF Core, Types, GenerationTypes
      <4>2. hasSubscriber' \in BOOLEAN
        BY <2>1, <4>1 DEF RuntimeTypes
      <4>3. since' \in 0..emitted'
        BY <2>1, <3>1, <4>1 DEF RuntimeTypes
      <4>4. attachGen' = attachGen /\ abandoned' = abandoned /\ faults' = faults
        BY <2>1 DEF faultVars
      <4> QED
        BY <4>1, <4>2, <4>3, <4>4 DEF RuntimeTypes
    <3>3. EarlyTypes'
      BY <2>4, <3>1 DEF Core, Types, EarlyTypes, Tasks, Events, earlyVars
    <3> QED
      BY <3>2, <3>3
  <2> QED
    BY <2>5, <2>6, <2>7, <2>8 DEF Core, Types
<1> QED
  BY <1>4, <1>5, <1>6, <1>7, <1>8, <1>9, <1>10, <1>11, AttachCore DEF RequestStep

(***************************************************************************)
(* by the generation, and by the two ends of a bootstrap.                  *)
(***************************************************************************)

\* What the generation and Redis leave alone keeps the core.
LEMMA AsideCore ==
    ASSUME BoundsAssumption, Core, Aside, GenerationTypes', Stream', EarlyTypes',
           emitted' >= emitted, Len(log') >= Len(log),
           faults' \in 0..MaxFaults, faults' >= faults,
           syncs' \in Seq(SyncCalls), Len(syncs') = Len(syncs),
           \A i \in 1..Len(syncs) : syncs'[i].by = syncs[i].by
    PROVE  Core'
<1>1. UNCHANGED <<received, nextSeq, pending, deferred, hasSubscriber, attachGen, since, conts,
                  on, reader, abandoned, skipped>>
  BY DEF Aside, bufferVars, runtimeVars, readerVars
<1>2. ReaderTypes'
  BY <1>1 DEF Core, Types, ReaderTypes, Readers, Requests, Events, Done
<1>3. TransportTypes'
  <2>1. FirstSeq \in Nat /\ Len(log) \in Nat /\ Len(log') \in Nat /\ received \in 0..Len(log)
        /\ nextSeq \in 0..(FirstSeq + Len(log))
    BY DEF BoundsAssumption, Core, Types, GenerationTypes, TransportTypes, Counter
  <2>2. received' \in 0..Len(log') /\ nextSeq' \in 0..(FirstSeq + Len(log'))
    BY <1>1, <2>1
  <2> QED
    BY <1>1, <2>2 DEF Core, Types, TransportTypes, Counter
<1>4. SyncTypes'
  BY <1>1 DEF SyncTypes, Core, Types, SyncCalls, Readers, Nobody, NoReplay, Unread
<1>5. RuntimeTypes'
  <2>1. since \in 0..emitted /\ emitted \in Nat /\ emitted' \in Nat
    BY DEF Core, Types, RuntimeTypes, GenerationTypes
  <2>2. since' \in 0..emitted'
    BY <1>1, <2>1
  <2> QED
    BY <1>1, <2>2 DEF Core, Types, RuntimeTypes
<1>6. Shapes'
  <2>1. faults \in Nat /\ faults' \in Nat /\ MaxFaults \in Nat
    BY DEF Core, Types, RuntimeTypes, BoundsAssumption
  <2> SUFFICES ASSUME NEW r \in Readers PROVE Shape(r)'
    BY DEF Shapes, Readers
  <2>2. Shape(r) /\ reader'[r] = reader[r] /\ on' = on
    BY <1>1 DEF Core, Shapes
  <2>3. InSeq(Done, reader[r].got)' <=> InSeq(Done, reader[r].got)
    BY <2>2 DEF InSeq, Done
  <2>4. faults > 0 => faults' > 0
    BY <2>1
  <2> QED
    BY <2>2, <2>3, <2>4 DEF Shape, Fresh
<1>7. SyncsBy'
  BY <1>1 DEF Core, SyncsBy, Readers, Nobody
<1>8. InTurn'
  BY <1>1 DEF Core, InTurn, Attached, Readers
<1> QED
  BY <1>2, <1>3, <1>4, <1>5, <1>6, <1>7, <1>8 DEF Core, Types

LEMMA GenerationCore ==
    ASSUME BoundsAssumption, Core, GenerationStep
    PROVE  Core'
<1>1. Types /\ Stream /\ SyncTypes /\ EarlyTypes /\ GenerationTypes
  BY DEF Core, Types
<1>2. /\ Aside
      /\ \/ \E e \in Events : Emits(e) \/ Settles(e)
         \/ Pauses \/ Ends \/ (\E i \in 1..Len(syncs) : Reads(i)) \/ Drops \/ Publishes
  BY <1>1, GenerationEffect
<1>3. faults \in Nat /\ MaxFaults \in Nat /\ faults <= MaxFaults /\ emitted \in Nat
      /\ Len(log) \in Nat /\ syncs \in Seq(SyncCalls) /\ conts' = conts
      /\ log \in Seq(Frames) /\ conn \in Seq(Commands)
  BY <1>1, <1>2 DEF RuntimeTypes, Types, BoundsAssumption, GenerationTypes, SyncTypes, Aside
<1>4. EarlyTypes' \/ ~UNCHANGED earlyVars
  BY <1>1, <1>3 DEF EarlyTypes, Tasks, Events, earlyVars
<1>5. ASSUME NEW e \in Events, Emits(e) PROVE Core'
  <2>1. GenerationTypes' /\ Stream'
    BY <1>1, <1>5, EmitsStream
  <2>2. emitted' >= emitted /\ log' = log /\ faults' = faults /\ syncs' = syncs
    BY <1>3, <1>5 DEF Emits
  <2>3. EarlyTypes'
    <3>1. CASE UNCHANGED earlyVars
      BY <1>4, <3>1
    <3>2. CASE buffered' = <<>> /\ closed' = TRUE /\ overflowed' = TRUE
      <4>1. buffered' \in Seq(Events') /\ Len(buffered') <= MaxEarly
        BY <3>2 DEF BoundsAssumption
      <4> QED
        BY <1>1, <1>3, <3>2, <4>1 DEF EarlyTypes, Tasks, Events
    <3>3. CASE /\ Len(buffered) < MaxEarly
               /\ buffered' = Append(buffered, e) /\ closed' = closed /\ overflowed' = overflowed
      <4>1. buffered \in Seq(Events) /\ MaxEarly \in Nat
        BY <1>1 DEF EarlyTypes, BoundsAssumption
      <4>2. buffered' \in Seq(Events) /\ Len(buffered') = Len(buffered) + 1 /\ Len(buffered) \in Nat
        BY <3>3, <4>1
      <4>3. Len(buffered') <= MaxEarly
        BY <3>3, <4>1, <4>2
      <4> QED
        BY <1>1, <1>3, <3>3, <4>2, <4>3 DEF EarlyTypes, Tasks, Events
    <3> QED
      BY <1>5, <3>1, <3>2, <3>3 DEF Emits
  <2> QED
    BY <1>2, <1>3, <2>1, <2>2, <2>3, AsideCore
<1>6. ASSUME NEW e \in Events, Settles(e) PROVE Core'
  <2>1. GenerationTypes' /\ Stream'
    BY <1>1, <1>6, SettlesStream
  <2>2. emitted' >= emitted /\ log' = log /\ faults' = faults /\ syncs' = syncs /\ EarlyTypes'
    BY <1>3, <1>4, <1>6 DEF Settles
  <2> QED
    BY <1>2, <1>3, <2>1, <2>2, AsideCore
<1>7. ASSUME Ends \/ Pauses PROVE Core'
  <2>1. GenerationTypes' /\ Stream'
    BY <1>1, <1>7, EndsStream
  <2>2. emitted' >= emitted /\ log' = log /\ syncs' = syncs /\ EarlyTypes'
    BY <1>3, <1>4, <1>7 DEF Ends, Pauses
  <2>3. faults' \in 0..MaxFaults /\ faults' >= faults
    BY <1>3, <1>7 DEF Ends, Pauses
  <2> QED
    BY <1>2, <1>3, <2>1, <2>2, <2>3, AsideCore
<1>8. ASSUME Drops \/ Publishes PROVE Core'
  <2>1. GenerationTypes' /\ Stream'
    BY <1>1, <1>8, ShiftsStream
  <2>2. emitted' >= emitted /\ syncs' = syncs /\ EarlyTypes'
    BY <1>3, <1>4, <1>8 DEF Drops, Publishes, Shifts
  <2>3. faults' \in 0..MaxFaults /\ faults' >= faults
    BY <1>3, <1>8 DEF Drops, Publishes
  <2>4. Len(log') >= Len(log)
    BY <1>3, <1>8 DEF Drops, Publishes
  <2> QED
    BY <1>2, <1>3, <2>1, <2>2, <2>3, <2>4, AsideCore
<1>9. ASSUME NEW i \in 1..Len(syncs), Reads(i) PROVE Core'
  <2>1. GenerationTypes' /\ Stream'
    BY <1>1, <1>9, ShiftsStream
  <2>2. emitted' >= emitted /\ log' = log /\ faults' = faults /\ EarlyTypes'
    BY <1>3, <1>4, <1>9 DEF Reads, Shifts
  <2>3. syncs' = [syncs EXCEPT ![i].val = Counter] /\ syncs[i] \in SyncCalls
    BY <1>3, <1>9 DEF Reads
  <2>4. Counter \in 0..Unread
    <3>1. Len(log) <= Done
      BY <1>1 DEF Stream, LogLong
    <3> QED
      BY <1>3, <3>1 DEF Counter, Unread, Done, BoundsAssumption
  <2>5. [syncs[i] EXCEPT !.val = Counter] \in SyncCalls
    BY <2>3, <2>4 DEF SyncCalls
  <2>6. syncs' = [syncs EXCEPT ![i] = [syncs[i] EXCEPT !.val = Counter]]
    BY <2>3
  <2>7. syncs' \in Seq(SyncCalls) /\ Len(syncs') = Len(syncs)
    BY <1>3, <2>5, <2>6
  <2>8. \A j \in 1..Len(syncs) : syncs'[j].by = syncs[j].by
    BY <1>3, <2>3, <2>6 DEF SyncCalls
  <2> QED
    BY <1>2, <1>3, <2>1, <2>2, <2>7, <2>8, AsideCore
<1> QED
  BY <1>2, <1>5, <1>6, <1>7, <1>8, <1>9

LEMMA ClosesShapes ==
    ASSUME BoundsAssumption, Core, NEW r \in Readers \cup {Nobody}, NEW es \in Seq(Events),
           NEW paused \in BOOLEAN, ReplayStep(r, es, paused), ReaderTypes', faults' = faults,
           r \in Readers => reader[r].pc = "recheck"
    PROVE  Shapes'
<1>0. Done \notin Events /\ Events \subseteq Frames
  BY FrameNumbers
<1> SUFFICES ASSUME NEW q \in Readers PROVE Shape(q)'
  BY DEF Shapes, Readers
<1>1. Shape(q) /\ on' = on /\ reader[q] \in Requests /\ reader'[q] \in Requests
  BY DEF ReplayStep, Core, Shapes, Types, ReaderTypes, Requests, Readers, Events, Done
<1>2. q \in Early => q \in on /\ reader[q].kind = "initial"
  BY DEF Early
<1>3. /\ reader'[q].kind = reader[q].kind /\ reader'[q].told = reader[q].told
      /\ reader'[q].look = reader[q].look
      /\ reader'[q].replay = IF q \in Early THEN Kind(paused) ELSE reader[q].replay
      /\ q # r => /\ reader'[q].pc = reader[q].pc /\ reader'[q].gen = reader[q].gen
                  /\ reader'[q].waits = reader[q].waits /\ reader'[q].defer = reader[q].defer
      /\ q = r => reader'[q].pc = "sync"
      /\ q \in on => /\ Hears(Early, q) => Seen(q)' = Seen(q) \o es
                     /\ ~Hears(Early, q) => Seen(q)' = Seen(q)
                     /\ reader[q].pc = "live" => reader'[q].queue = <<>>
                     /\ reader[q].pc # "live" => reader'[q].got = <<>>
      /\ q \notin on => reader'[q].got = reader[q].got /\ reader'[q].queue = reader[q].queue
  BY DEF ReplayStep
<1>4. CASE q = r
  <2>1. reader[q].pc = "recheck"
    BY <1>4
  <2> QED
    BY <1>1, <1>2, <1>3, <1>4, <2>1 DEF Shape
<1>5. CASE q # r
  <2>1. CASE reader[q].pc = "idle"
    <3>1. reader[q] = Fresh /\ q \notin on
      BY <1>1, <2>1 DEF Shape
    <3>2. reader'[q] = reader[q]
      BY <1>1, <1>2, <1>3, <1>5, <3>1, SameRequest
    <3> QED
      BY <1>1, <2>1, <3>1, <3>2 DEF Shape, Fresh
  <2>2. CASE reader[q].pc = "live"
    <3>1. q \in on /\ reader'[q].pc = "live" /\ Seen(q) = reader[q].got /\ Seen(q)' = reader'[q].got
      BY <1>1, <1>3, <1>5, <2>2 DEF Shape, Seen
    <3>2. reader[q].got \in Seq(Frames) /\ es \in Seq(Frames)
      BY <1>0, <1>1 DEF Requests, Frames
    <3>3. ~InSeq(Done, es)
      BY <1>0 DEF InSeq
    <3>4. ~InSeq(Done, reader'[q].got)
      <4>1. reader'[q].got = reader[q].got \o es \/ reader'[q].got = reader[q].got
        BY <1>3, <3>1
      <4>2. ~InSeq(Done, reader[q].got)
        BY <1>1, <2>2 DEF Shape
      <4>3. ~InSeq(Done, reader[q].got \o es)
        BY <3>2, <3>3, <4>2, InConcat
      <4> QED
        BY <4>1, <4>2, <4>3
    <3> QED
      BY <1>1, <1>2, <1>3, <1>5, <2>2, <3>1, <3>4 DEF Shape, Done
  <2>3. CASE reader[q].pc \notin {"idle", "live"}
    BY <1>1, <1>2, <1>3, <1>5, <2>3 DEF Shape
  <2> QED
    BY <2>1, <2>2, <2>3
<1> QED
  BY <1>4, <1>5

LEMMA ClosesSyncs ==
    ASSUME BoundsAssumption, Core, NEW r \in Readers \cup {Nobody}, NEW es \in Seq(Events),
           NEW paused \in BOOLEAN, ReplayStep(r, es, paused), NEW replay, Closes(r, replay),
           r \in Readers => reader[r].pc = "recheck"
    PROVE  SyncTypes' /\ SyncsBy'
<1>1. syncs \in Seq(SyncCalls) /\ SyncsBy
  BY DEF Core, Types, SyncTypes
<1>2. PICK y : y = [by |-> r, replay |-> replay, val |-> Unread]
  OBVIOUS
<1>3. y \in SyncCalls /\ y.by = r
  BY <1>2 DEF SyncCalls, Unread, BoundsAssumption, Closes
<1>4. syncs' = Append(syncs, y) /\ skipped' = skipped
  BY <1>2 DEF Closes
<1>5. Len(syncs) \in Nat /\ Len(syncs') = Len(syncs) + 1 /\ syncs'[Len(syncs) + 1] = y
      /\ (\A i \in 1..Len(syncs) : syncs'[i] = syncs[i]) /\ syncs' \in Seq(SyncCalls)
  BY <1>1, <1>3, <1>4
<1>6. \A q \in Readers : reader'[q].pc = IF q = r THEN "sync" ELSE reader[q].pc
  BY DEF ReplayStep
<1>7. \A i \in 1..Len(syncs) : syncs[i].by # Nobody => syncs[i].by \in Readers /\ syncs[i].by # r
  <2>1. TAKE i \in 1..Len(syncs)
  <2>2. syncs[i] \in SyncCalls
    BY <1>1
  <2> QED
    BY <1>1, <2>2 DEF SyncsBy, SyncCalls
<1>8. Nobody \notin Readers
  BY DEF Nobody, Readers
<1>9. \A i \in 1..Len(syncs') : i \in 1..Len(syncs) \/ i = Len(syncs) + 1
  BY <1>5
<1>10. \A i \in 1..Len(syncs) : i \in 1..Len(syncs')
  BY <1>5
<1>11. SyncsBy'
  <2>1. \A q \in Readers : reader'[q].pc = "sync" => \E i \in 1..Len(syncs') : syncs'[i].by = q
    BY <1>1, <1>3, <1>5, <1>6, <1>10 DEF SyncsBy
  <2>2. \A i \in 1..Len(syncs') : syncs'[i].by # Nobody => reader'[syncs'[i].by].pc = "sync"
    BY <1>1, <1>3, <1>5, <1>6, <1>7, <1>9 DEF SyncsBy
  <2>3. \A i, j \in 1..Len(syncs') :
           i # j /\ syncs'[i].by = syncs'[j].by => syncs'[i].by = Nobody
    BY <1>1, <1>3, <1>5, <1>7, <1>9 DEF SyncsBy
  <2> QED
    BY <2>1, <2>2, <2>3 DEF SyncsBy, Readers, Nobody
<1> QED
  BY <1>4, <1>5, <1>11 DEF SyncTypes, Core, Types, SyncCalls, Readers, Nobody, NoReplay, Unread

LEMMA ClosesCore ==
    ASSUME BoundsAssumption, Core, NEW r \in Readers \cup {Nobody}, NEW es \in Seq(Events),
           NEW paused \in BOOLEAN, ReplayStep(r, es, paused), NEW replay, Closes(r, replay),
           ReaderTypes', conts' \subseteq Tasks,
           r \in Readers => reader[r].pc = "recheck"
    PROVE  Core'
<1>1. Types /\ Stream
  BY DEF Core
<1>2. GenerationTypes' /\ Stream'
  BY <1>1, ClosesStream
<1>3. SyncTypes' /\ SyncsBy'
  BY ClosesSyncs
<1>4. faults' = faults /\ abandoned' = abandoned /\ on' = on /\ UNCHANGED runtimeVars
      /\ log' = log /\ received' = received /\ emitted' = emitted
  BY DEF Closes, ReplayStep, faultVars
<1>5. Shapes'
  BY <1>4, ClosesShapes
<1>6. TransportTypes'
  <2>1. CASE UNCHANGED bufferVars
    BY <1>1, <1>4, <2>1 DEF bufferVars, Types, TransportTypes, Counter
  <2>2. CASE Resets(FALSE)
    <3>1. nextSeq' = 0 /\ pending' = {} /\ deferred' \in BOOLEAN
      BY <2>2 DEF Resets
    <3>2. 0 \in 0..Counter /\ Counter' = Counter
      BY <1>1, <1>4 DEF Types, GenerationTypes, Counter, BoundsAssumption
    <3> QED
      BY <1>1, <1>4, <3>1, <3>2 DEF Types, TransportTypes
  <2> QED
    BY <2>1, <2>2 DEF ReplayStep
<1>7. RuntimeTypes'
  BY <1>1, <1>4 DEF Types, RuntimeTypes, runtimeVars
<1>8. EarlyTypes'
  <2>1. buffered' = <<>> /\ closed' = TRUE /\ overflowed' = overflowed
    BY DEF Closes
  <2>2. <<>> \in Seq(Events) /\ Len(<<>>) = 0 /\ MaxEarly \in Nat
    BY DEF BoundsAssumption
  <2> QED
    BY <1>1, <2>1, <2>2 DEF Types, EarlyTypes, Tasks, Events
<1>9. InTurn'
  <2>1. \A q \in Readers : reader[q].pc # "idle" => reader'[q].pc # "idle"
    BY DEF ReplayStep
  <2> QED
    BY <1>4, <2>1 DEF Core, InTurn, Attached, runtimeVars, Readers
<1> QED
  BY <1>2, <1>3, <1>5, <1>6, <1>7, <1>8, <1>9 DEF Core, Types

LEMMA BootstrapCore ==
    ASSUME BoundsAssumption, Core, NEW r \in Readers, Bootstrap(r)
    PROVE  Core'
<1>1. PICK replay : Closes(r, replay) /\ ReaderTypes' /\ conts' = conts /\ reader[r].pc = "recheck"
  BY CoreIsBefore, BootstrapEffect
<1>2. PICK es \in Seq(Events) : ReplayStep(r, es, deferred)
  BY CoreIsBefore, BootstrapEffect
<1>3. deferred \in BOOLEAN /\ conts' \subseteq Tasks
  BY <1>1 DEF Core, Types, TransportTypes, EarlyTypes
<1> QED
  BY <1>1, <1>2, <1>3, ClosesCore

LEMMA UnchangedCore ==
    ASSUME Core, UNCHANGED <<generationVars, received, bufferVars, syncVars, runtimeVars, earlyVars,
                             readerVars, faultVars>>, conts' \subseteq Tasks
    PROVE  Core'
<1>1. \A d : (InLog(d)' <=> InLog(d)) /\ (InConn(d)' <=> InConn(d))
  BY DEF InLog, InConn, InSeq, generationVars
<1>2. GenerationTypes' /\ TransportTypes' /\ SyncTypes' /\ RuntimeTypes' /\ EarlyTypes' /\ ReaderTypes'
  <2>1. GenerationTypes'
    BY DEF generationVars, Core, Types, GenerationTypes, Commands, Frames, Events, Done, Get
  <2>2. TransportTypes'
    BY DEF generationVars, bufferVars, Core, Types, TransportTypes, Counter
  <2>3. SyncTypes'
    BY DEF syncVars, Core, Types, SyncTypes, SyncCalls, Readers, Nobody, NoReplay, Unread
  <2>4. RuntimeTypes'
    BY DEF runtimeVars, faultVars, generationVars, Core, Types, RuntimeTypes
  <2>5. EarlyTypes'
    BY DEF earlyVars, Core, Types, EarlyTypes, Events, Tasks
  <2>6. ReaderTypes'
    BY DEF readerVars, Core, Types, ReaderTypes, Readers, Requests, Events, Done
  <2> QED
    BY <2>1, <2>2, <2>3, <2>4, <2>5, <2>6
<1>3. Stream'
  <2>1. Ascends(log)' /\ LogLong' /\ ConnAscends' /\ LogBeforeConn' /\ ApprovalIs' /\ DoneIs'
    BY <1>1 DEF Core, Stream, Ascends, LogLong, ConnAscends, LogBeforeConn, ApprovalIs,
                      DoneIs, Done, Get, generationVars
  <2>2. EmittedAre' /\ FaultsAre'
    BY <1>1 DEF Core, Stream, EmittedAre, EmittedIs, FaultsAre, Events, generationVars, faultVars
  <2> QED
    BY <2>1, <2>2 DEF Stream
<1>4. Shapes'
  <2> SUFFICES ASSUME NEW q \in Readers PROVE Shape(q)'
    BY DEF Shapes, Readers
  <2>1. reader'[q] = reader[q] /\ on' = on /\ Shape(q) /\ faults' = faults
    BY DEF readerVars, Core, Shapes, faultVars
  <2>2. InSeq(Done, reader[q].got)' <=> InSeq(Done, reader[q].got)
    BY <2>1 DEF InSeq, Done
  <2> QED
    BY <2>1, <2>2 DEF Shape, Fresh
<1>5. SyncsBy' /\ InTurn'
  BY DEF Core, SyncsBy, InTurn, Attached, syncVars, readerVars, runtimeVars, Readers, Nobody
<1> QED
  BY <1>2, <1>3, <1>4, <1>5 DEF Core, Types

LEMMA ContinueCore ==
    ASSUME BoundsAssumption, Core, NEW c \in conts, Continue(c)
    PROVE  Core'
<1>1. Before /\ conts \subseteq Tasks
  BY CoreIsBefore DEF Core, Types, EarlyTypes
<1>2. ReaderTypes' /\ conts' \subseteq Tasks
  BY <1>1, ContinueEffect
<1>3. CASE UNCHANGED <<generationVars, received, bufferVars, syncVars, runtimeVars,
                                earlyVars, readerVars, faultVars>>
  BY <1>2, <1>3, UnchangedCore
<1>4. ASSUME NEW replay, Closes(Nobody, replay), ContinuesWith(c) PROVE Core'
  <2>1. PICK es \in Seq(Events), paused \in BOOLEAN : ReplayStep(Nobody, es, paused)
    BY <1>4 DEF ContinuesWith
  <2>2. Nobody \notin Readers
    BY DEF Nobody, Readers
  <2> QED
    BY <1>2, <1>4, <2>1, <2>2, ClosesCore
<1> QED
  BY <1>1, <1>3, <1>4, ContinueEffect

(***************************************************************************)
(* Type correctness.                                                       *)
(***************************************************************************)

LEMMA InitCore == BoundsAssumption /\ Init => Core
<1> SUFFICES ASSUME BoundsAssumption, Init PROVE Core
  OBVIOUS
<1> USE DEF Init
<1>1. conn = <<>> /\ log = <<>> /\ Len(log) = 0 /\ Len(conn) = 0 /\ syncs = <<>> /\ Len(syncs) = 0
      /\ buffered = <<>>
  OBVIOUS
<1>2. GenerationTypes
  <2>1. receipt \in [Events -> {"none", "open", "numbered", "failed"}]
    OBVIOUS
  <2>2. emitted \in 0..(MaxChunks + 1) /\ approval \in 0..(MaxChunks + 1)
    BY DEF BoundsAssumption
  <2> QED
    BY <1>1, <2>1, <2>2 DEF GenerationTypes
<1>3. TransportTypes
  <2>1. nextSeq = 0 /\ pending = {} /\ deferred = FALSE /\ received = 0 /\ Counter = FirstSeq
        /\ FirstSeq \in Nat
    BY <1>1 DEF Counter, BoundsAssumption
  <2>2. received \in 0..Len(log) /\ nextSeq \in 0..Counter
    BY <1>1, <2>1
  <2> QED
    BY ONLY <2>1, <2>2 DEF TransportTypes
<1>4. SyncTypes
  <2>1. <<>> \in Seq(SyncCalls) /\ skipped = FALSE
    OBVIOUS
  <2> QED
    BY ONLY <1>1, <2>1 DEF SyncTypes
<1>5. RuntimeTypes
  <2>1. since = 0 /\ emitted = 0 /\ hasSubscriber = FALSE /\ attachGen = 0 /\ abandoned = {}
    OBVIOUS
  <2>2. since \in 0..emitted /\ attachGen \in 0..MaxRequests /\ faults \in 0..MaxFaults
    BY DEF BoundsAssumption
  <2> QED
    BY ONLY <2>1, <2>2 DEF RuntimeTypes
<1>6. EarlyTypes
  <2>1. 0 <= MaxEarly /\ Len(<<>>) = 0 /\ <<>> \in Seq(Events)
    BY DEF BoundsAssumption
  <2>2. closed = FALSE /\ overflowed = FALSE /\ conts = {}
    OBVIOUS
  <2> QED
    BY ONLY <1>1, <2>1, <2>2 DEF EarlyTypes
<1>7. ReaderTypes
  BY FreshIs DEF ReaderTypes
<1>8. \A x : ~InLog(x) /\ ~InConn(x)
  BY <1>1, Empty DEF InLog, InConn
<1>9. Stream
  <2>1. Ascends(log) /\ ConnAscends /\ LogBeforeConn
    BY <1>1 DEF Ascends, ConnAscends, LogBeforeConn
  <2>2. LogLong
    <3>1. 0 <= Done
      BY DEF Done, BoundsAssumption
    <3> QED
      BY <1>1, <3>1 DEF LogLong
  <2>3. EmittedAre
    <3> SUFFICES ASSUME NEW e \in Events PROVE EmittedIs(e)
      BY DEF EmittedAre
    <3>1. receipt[e] = "none" /\ ~(e <= emitted)
      BY DEF Events, BoundsAssumption
    <3> QED
      BY <1>8, <3>1 DEF EmittedIs
  <2>4. DoneIs /\ ApprovalIs /\ FaultsAre
    BY <1>8 DEF DoneIs, ApprovalIs, FaultsAre
  <2> QED
    BY <2>1, <2>2, <2>3, <2>4 DEF Stream
<1>10. Shapes
  <2> SUFFICES ASSUME NEW r \in Readers PROVE Shape(r)
    BY DEF Shapes
  <2>1. reader[r] = Fresh /\ r \notin on
    OBVIOUS
  <2> QED
    BY <2>1 DEF Shape, Fresh
<1>11. SyncsBy
  <2>1. \A r \in Readers : reader[r].pc = "idle"
    BY DEF Fresh
  <2> QED
    BY <1>1, <2>1 DEF SyncsBy
<1>12. InTurn
  <2>1. Attached = 0
    BY DEF Attached
  <2>2. \A r \in Readers : ~(r <= 0)
    BY DEF Readers
  <2> QED
    BY <2>1, <2>2 DEF InTurn, BoundsAssumption
<1> QED
  BY <1>2, <1>3, <1>4, <1>5, <1>6, <1>7, <1>9, <1>10, <1>11, <1>12 DEF Core, Types

LEMMA StepCore == BoundsAssumption /\ Core /\ [Next]_vars => Core'
<1> SUFFICES ASSUME BoundsAssumption, Core, [Next]_vars PROVE Core'
  OBVIOUS
<1>1. ASSUME Rests PROVE Core'
  <2>1. conts' \subseteq Tasks
    BY <1>1 DEF Rests, Core, Types, EarlyTypes
  <2> QED
    BY <1>1, <2>1, UnchangedCore DEF Rests
<1> QED
  BY <1>1, NextIs, GenerationCore, TransportCore, RequestCore, BootstrapCore, ContinueCore

\* What is known of the job hash and of who came late only grows.
StoreGrows == (stored' => stored) /\ late \subseteq late'

LEMMA StoreChanges ==
    ASSUME [Next]_vars
    PROVE  \/ UNCHANGED storeVars
           \/ stored' = FALSE /\ late' = late
           \/ \E r \in Readers : stored' = stored /\ late' \in {late, late \cup {r}}
<1>1. DeleteJob => stored' = FALSE /\ late' = late
  BY DEF DeleteJob
<1>2. ASSUME NEW r \in Readers, NEW k \in {"initial", "resume"}, Attach(r, k)
      PROVE  stored' = stored /\ late' \in {late, late \cup {r}}
  BY <1>2 DEF Attach
<1>3. CASE Next
  BY <1>1, <1>2, <1>3 DEF Next, Generation, Transport, Fault, Request, Client, EmitChunk,
     EmitApproval, Emit, Pause, End, Execute, Settle, Receive, FlushTimeout, SyncReply, Continue,
     Fail, SyncFail, RecheckThrows, Refuse, GiveUp, Check, Fence, FenceDetached, Bootstrap,
     StartLive, Reconcile, Activate, StoredTerminal, Leave
<1> QED
  BY <1>3 DEF vars

StoreTypes == stored \in BOOLEAN /\ late \subseteq Readers

LEMMA StepStores == ASSUME [Next]_vars PROVE StoreGrows /\ (StoreTypes => StoreTypes')
<1>1. CASE UNCHANGED storeVars
  <2>1. stored' = stored /\ late' = late
    BY <1>1 DEF storeVars
  <2> QED
    BY <2>1, Zenon DEF StoreGrows, StoreTypes
<1>2. CASE stored' = FALSE /\ late' = late
  BY <1>2 DEF StoreGrows, StoreTypes
<1>3. ASSUME NEW r \in Readers, stored' = stored, late' \in {late, late \cup {r}}
      PROVE  StoreGrows /\ (StoreTypes => StoreTypes')
  <2>1. late \subseteq late' /\ (late \subseteq Readers => late' \subseteq Readers)
    BY <1>3
  <2> QED
    BY <1>3, <2>1, Zenon DEF StoreGrows, StoreTypes
<1> QED
  BY <1>1, <1>2, <1>3, StoreChanges

THEOREM StoreTypesHold == Spec => []StoreTypes
<1>1. Init => StoreTypes
  BY DEF Init, StoreTypes
<1>2. StoreTypes /\ [Next]_vars => StoreTypes'
  BY StepStores
<1> QED
  BY <1>1, <1>2, PTL DEF Spec

\* In every reachable state the variables have their types, frames go from conn to
\* log in the order of emission and with one number each, and every stage that
\* attachSubscription can be in has the handlers, queue and sync that belong to it.
THEOREM CoreHolds == Spec => []Core
<1> USE BoundsAssumption
<1> QED
  BY InitCore, StepCore, PTL DEF Spec

LEMMA CoreTypes == BoundsAssumption /\ Core /\ StoreTypes => TypeOK
<1> SUFFICES ASSUME BoundsAssumption, Core, StoreTypes PROVE TypeOK
  OBVIOUS
<1>1. GenerationTypes /\ TransportTypes /\ SyncTypes /\ RuntimeTypes /\ EarlyTypes /\ ReaderTypes
  BY DEF Core, Types
<1>2. conn \in Seq({Done, Get} \cup Events) /\ log \in Seq({Done} \cup Events)
  <2>1. Commands = {Done, Get} \cup Events /\ Frames = {Done} \cup Events
    BY DEF Commands, Frames
  <2> QED
    BY <1>1, <2>1 DEF GenerationTypes
<1>3. pending \subseteq 0..(Counter - 1)
  <2>1. FirstSeq \in Nat /\ received \in Nat /\ Len(log) \in Nat /\ received <= Len(log)
    BY <1>1 DEF BoundsAssumption, TransportTypes, GenerationTypes
  <2>2. \A s \in FirstSeq..(FirstSeq + received - 1) : s \in 0..(FirstSeq + Len(log) - 1)
    BY <2>1
  <2> QED
    BY <1>1, <2>2 DEF TransportTypes, Counter
<1>4. \A i \in DOMAIN syncs : syncs[i] \in [by : Readers \cup {Nobody}, replay : 0..NoReplay,
                                             val : 0..Unread]
  <2>1. \A i \in DOMAIN syncs : syncs[i] \in SyncCalls
    BY <1>1 DEF SyncTypes
  <2> QED
    BY <2>1 DEF SyncCalls
<1>5. conts \subseteq [gen : 0..MaxRequests, waits : SUBSET Events, defer : BOOLEAN]
  BY <1>1 DEF EarlyTypes, Tasks
<1> QED
  BY <1>1, <1>2, <1>3, <1>4, <1>5 DEF TypeOK, GenerationTypes, TransportTypes, SyncTypes,
     RuntimeTypes, EarlyTypes, ReaderTypes, StoreTypes

\* The state of the runtime, of the reorder buffer and of the requests is well
\* formed, whatever the bounds: nextSeq and the keys of pending stay below the
\* counter, and the early event buffer within EARLY_EVENT_BUFFER_MAX_EVENTS.
THEOREM TypeCorrect == Spec => []TypeOK
<1>1. Core /\ StoreTypes => TypeOK
  BY CoreTypes, BoundsAssumption
<1> QED
  BY <1>1, CoreHolds, StoreTypesHold, PTL

(***************************************************************************)
(* The requests again: what they do to bootstraps and what they are        *)
(* handed.                                                                 *)
(***************************************************************************)

Bootstraps == {"fence", "recheck"}                        \* stages of a bootstrap
Attaching  == {"check", "fence", "recheck", "sync", "ready"}

\* The request r registers, takes the bootstrap on, or goes on or away.
Joins(r) ==
    /\ r \notin on /\ on' = on \cup {r} /\ UNCHANGED runtimeVars
    /\ reader[r].pc = "idle" /\ reader'[r].pc = "check"
    /\ reader'[r].waits = {} /\ reader'[r].queue = <<>> /\ reader'[r].got = <<>>
    /\ reader'[r].replay = "none"
    /\ on = {} => \E defer \in BOOLEAN : Resets(defer)
    /\ on # {} => UNCHANGED bufferVars
    /\ r \in late' \/ \A i \in 1..received : log[i] # Done
    /\ UNCHANGED <<conts, faultVars>>
Takes(r) ==
    /\ ~hasSubscriber /\ hasSubscriber' = TRUE /\ since' = emitted /\ attachGen' = attachGen
    /\ r \in on /\ reader[r].pc = "check" /\ reader'[r].pc = "fence"
    /\ reader'[r].gen = attachGen /\ reader'[r].waits = Range(buffered)
    /\ job # "replaced"
    /\ Stays(r) /\ UNCHANGED <<conts, faultVars>>
Goes(r) ==
    /\ RuntimeFollows /\ (on' = on \/ on' = on \ {r})
    /\ \/ UNCHANGED bufferVars /\ (on' = {} => on = {})
       \/ on' = {} /\ Resets(FALSE)
    /\ reader'[r].waits \in {{}, reader[r].waits}
    /\ r \in on' => reader[r].pc # "check" \/ hasSubscriber

\* What becomes of a bootstrap that r has begun.
Entrusts(r) ==
    /\ \/ conts' = conts
       \/ /\ reader[r].pc = "fence" /\ r \notin on /\ on # {}
          /\ conts' = conts \cup {[gen |-> reader[r].gen, waits |-> reader[r].waits,
                                   defer |-> reader[r].defer]}
    /\ abandoned \subseteq abandoned'
    /\ reader'[r].pc \in Bootstraps =>
          \/ Takes(r)
          \/ /\ reader[r].pc \in Bootstraps /\ reader'[r].gen = reader[r].gen
             /\ reader'[r].waits = reader[r].waits /\ reader'[r].defer = reader[r].defer
    /\ reader[r].pc \in Bootstraps /\ reader'[r].pc \notin Bootstraps =>
          \/ reader[r].gen \in abandoned'
          \/ /\ r \notin on
             /\ on # {} => \E c \in conts' : c.gen = reader[r].gen

\* What r is handed.
Gains(r) ==
    /\ r \in on /\ r \in on' =>
          /\ reader'[r].kind = reader[r].kind /\ reader'[r].replay = reader[r].replay
          /\ \/ Seen(r)' = Seen(r)
             \/ /\ job = "complete" /\ reader[r].kind = "resume"
                /\ ~InSeq(Done, Seen(r)) /\ Seen(r)' = Seen(r) \o <<Done>>
    /\ r \notin on' =>
          \/ reader'[r].got = <<>>
          \/ /\ reader'[r].replay = reader[r].replay /\ reader'[r].kind = reader[r].kind
             /\ \/ reader'[r].got = reader[r].got
                \/ /\ r \in on /\ reader[r].pc # "check"
                   /\ reader'[r].got = Seen(r) \/ reader'[r].got = Seen(r) \o <<Done>>

\* What r learns of a generation that has ended or waits.
Learns(r) ==
    /\ r \in on /\ r \in on' /\ (reader[r].look \/ reader[r].pc \in Attaching) =>
          \/ reader'[r].look \/ reader'[r].pc \in Attaching \/ reader'[r].pc = "failed"
          \/ TerminalStored => InSeq(Done, Seen(r)')
    /\ r \in on /\ r \in on' /\ reader[r].pc = "failed" => reader'[r].pc = "failed"
    /\ job = "replaced" /\ r \in on /\ r \in on' /\ reader[r].pc = "check" =>
          reader'[r].pc = "check"
    /\ r \in on' /\ reader'[r].kind = "resume" /\ reader'[r].pc \in {"reconciled", "live"} =>
          \/ /\ r \in on /\ reader[r].pc \in {"reconciled", "live"} /\ reader'[r].told = reader[r].told
          \/ reader'[r].told = (job = "paused")

Moves(r) ==
    /\ Alone(r) /\ Entrusts(r) /\ Gains(r) /\ Learns(r)
    /\ faults' \in {faults, faults + 1}
    /\ Joins(r) \/ Takes(r) \/ Goes(r)

LEMMA RequestMoves ==
    ASSUME BoundsAssumption, Core, NEW r \in Readers, RequestStep(r)
    PROVE  Moves(r)
<1>0. Before /\ Shape(r) /\ ReaderTypes
  BY CoreIsBefore DEF Core, Shapes, Types
<1>1. reader[r].queue \in Seq(Frames) /\ reader[r].got \in Seq(Frames) /\ Done \in Frames
  BY <1>0, FrameNumbers DEF ReaderTypes, Requests, Frames
<1>2. \A s \in Seq(Frames) : InSeq(Done, s \o <<Done>>)
  <2>1. TAKE s \in Seq(Frames)
  <2>2. <<Done>> \in Seq(Frames) /\ InSeq(Done, <<Done>>)
    BY <1>1 DEF InSeq
  <2> QED
    BY <2>2, InConcat
<1> USE DEF Bootstraps, Attaching
<1>3. ASSUME Leave(r) PROVE Moves(r)
  <2>1. /\ Alone(r) /\ Parts(r) /\ r \in on /\ on' = on \ {r} /\ UNCHANGED abandoned
        /\ Becomes(r, IF reader[r].pc \in {"fence", "recheck", "sync"} THEN reader[r].pc
                                                                           ELSE "gone",
                        "initial", reader[r].defer, FALSE, reader[r].gen, reader[r].waits,
                        FALSE, "none", <<>>, <<>>)
    BY <1>0, <1>3, LeaveEffect
  <2>2. r \notin on'
    BY <2>1
  <2>3. Entrusts(r)
    BY <2>1 DEF Entrusts, Becomes, Parts
  <2>4. Gains(r) /\ Learns(r)
    BY <2>1, <2>2 DEF Gains, Learns, Becomes
  <2>5. Goes(r)
    BY <2>1, <2>2 DEF Goes, Parts, Becomes
  <2> QED
    BY <2>1, <2>3, <2>4, <2>5 DEF Moves, Parts
<1>4. ASSUME NEW k \in {"initial", "resume"}, Attach(r, k) PROVE Moves(r)
  <2>1. /\ Alone(r) /\ r \notin on /\ on' = on \cup {r} /\ reader[r].pc = "idle"
        /\ on = {} => Resets(~hasSubscriber /\ k = "initial")
        /\ on # {} => UNCHANGED bufferVars
        /\ UNCHANGED <<runtimeVars, conts, faultVars>>
        /\ r \in late' \/ \A i \in 1..received : log[i] # Done
        /\ Becomes(r, "check", k, ~hasSubscriber /\ k = "initial", FALSE, 0, {},
                        FALSE, "none", <<>>, <<>>)
    BY <1>0, <1>4, AttachEffect
  <2>2. Joins(r)
    BY <2>1 DEF Joins, Becomes
  <2>3. Entrusts(r) /\ Gains(r) /\ Learns(r)
    BY <2>1 DEF Entrusts, Gains, Learns, Becomes, faultVars
  <2> QED
    BY <2>1, <2>2, <2>3 DEF Moves, faultVars
<1>5. ASSUME Refuse(r) PROVE Moves(r)
  <2>1. /\ Alone(r) /\ Parts(r) /\ on' = on \ {r} /\ ~Expected
        /\ reader[r].pc \in {"check", "recheck", "ready"}
        /\ abandoned' = IF reader[r].pc = "recheck"
                        THEN abandoned \cup {reader[r].gen} ELSE abandoned
        /\ Becomes(r, "ended", reader[r].kind, reader[r].defer, reader[r].told,
                      reader[r].gen, reader[r].waits, FALSE, reader[r].replay, <<>>,
                      reader[r].got)
    BY <1>0, <1>5, RefuseEffect
  <2>2. r \notin on'
    BY <2>1
  <2>3. Entrusts(r)
    BY <2>1 DEF Entrusts, Becomes, Parts
  <2>4. Gains(r) /\ Learns(r)
    BY <2>1, <2>2 DEF Gains, Learns, Becomes
  <2>5. Goes(r)
    BY <2>1, <2>2 DEF Goes, Parts, Becomes
  <2> QED
    BY <2>1, <2>3, <2>4, <2>5 DEF Moves, Parts
<1>6. ASSUME GiveUp(r) \/ FenceDetached(r) PROVE Moves(r)
  <2>1. /\ Alone(r) /\ Stays(r) /\ r \notin on /\ UNCHANGED <<runtimeVars, faultVars>>
        /\ GiveUp(r) => conts' = conts /\ reader[r].pc \in {"check", "ready", "reconciled", "ended"}
        /\ FenceDetached(r) => /\ reader[r].pc = "fence"
                               /\ conts' = IF on = {} THEN conts
                                  ELSE conts \cup {[gen |-> reader[r].gen,
                                        waits |-> reader[r].waits,
                                        defer |-> reader[r].defer]}
        /\ Becomes(r, "gone", "initial", FALSE, FALSE, 0, {}, FALSE, "none", <<>>, <<>>)
    BY <1>0, <1>6, GiveUpEffect
  <2>2. r \notin on'
    BY <2>1 DEF Stays
  <2>3. Entrusts(r)
    <3>1. CASE GiveUp(r)
      BY <2>1, <3>1 DEF Entrusts, Becomes, faultVars
    <3>2. CASE FenceDetached(r)
      <4>1. reader[r].pc = "fence" /\ reader'[r].pc = "gone" /\ abandoned' = abandoned
        BY <2>1, <3>2 DEF Becomes, faultVars
      <4>2. on # {} => \E c \in conts' : c.gen = reader[r].gen
        <5>1. PICK c : c = [gen |-> reader[r].gen, waits |-> reader[r].waits,
                            defer |-> reader[r].defer]
          OBVIOUS
        <5>2. on # {} => c \in conts'
          BY <2>1, <3>2, <5>1
        <5>3. c.gen = reader[r].gen
          BY <5>1
        <5> QED
          BY <5>2, <5>3
      <4>3. \/ conts' = conts
            \/ /\ on # {}
               /\ conts' = conts \cup {[gen |-> reader[r].gen, waits |-> reader[r].waits,
                                       defer |-> reader[r].defer]}
        BY <2>1, <3>2
      <4> QED
        BY <2>1, <4>1, <4>2, <4>3 DEF Entrusts
    <3> QED
      BY <1>6, <3>1, <3>2
  <2>4. Gains(r) /\ Learns(r)
    BY <2>1, <2>2 DEF Gains, Learns, Becomes
  <2>5. Goes(r)
    BY <2>1, <2>2 DEF Goes, Stays, Becomes, RuntimeFollows, runtimeVars
  <2> QED
    BY <2>1, <2>3, <2>4, <2>5 DEF Moves, faultVars
<1>7. ASSUME Check(r) PROVE Moves(r)
  <2>1. /\ Alone(r) /\ Stays(r) /\ r \in on /\ reader[r].pc = "check" /\ job # "replaced"
        /\ UNCHANGED <<conts, faultVars, attachGen>>
        /\ \/ /\ hasSubscriber /\ UNCHANGED <<hasSubscriber, since>>
              /\ Becomes(r, "ready", reader[r].kind, FALSE, reader[r].told, reader[r].gen,
                         reader[r].waits, reader[r].look, reader[r].replay,
                         reader[r].queue, reader[r].got)
           \/ /\ ~hasSubscriber /\ hasSubscriber' = TRUE /\ since' = emitted
              /\ Becomes(r, "fence", reader[r].kind, reader[r].defer, reader[r].told,
                         attachGen, Range(buffered), reader[r].look, reader[r].replay,
                         reader[r].queue, reader[r].got)
    BY <1>0, <1>7, CheckEffect
  <2>2. Takes(r) \/ Goes(r)
    BY <2>1 DEF Takes, Goes, Becomes, Stays, RuntimeFollows
  <2>3. Entrusts(r)
    BY <2>1, <2>2 DEF Entrusts, Takes, Becomes, faultVars
  <2>4. Gains(r)
    BY <2>1 DEF Gains, Becomes, Seen, Stays
  <2>5. Learns(r)
    BY <2>1 DEF Learns, Becomes, Seen, Stays
  <2> QED
    BY <2>1, <2>2, <2>3, <2>4, <2>5 DEF Moves, faultVars
<1>8. ASSUME Fence(r) \/ RecheckThrows(r) PROVE Moves(r)
  <2>1. /\ Alone(r) /\ Stays(r) /\ UNCHANGED <<runtimeVars, conts>>
        /\ Fence(r) => /\ r \in on /\ reader[r].pc = "fence" /\ Settled(reader[r].waits)
                       /\ UNCHANGED faultVars /\ reader'[r].pc = "recheck"
        /\ RecheckThrows(r) => /\ reader[r].pc = "recheck"
                               /\ faults' = faults + 1 /\ faults' \in 0..MaxFaults
                               /\ abandoned' = abandoned \cup {reader[r].gen}
                               /\ reader'[r].pc = IF r \in on THEN "failed" ELSE "ended"
        /\ Becomes(r, reader'[r].pc, reader[r].kind, reader[r].defer, reader[r].told,
                   reader[r].gen, reader[r].waits, reader[r].look, reader[r].replay,
                   reader[r].queue, reader[r].got)
    BY <1>0, <1>8, FenceEffect
  <2>2. Goes(r)
    BY <1>8, <2>1 DEF Goes, Becomes, Stays, RuntimeFollows, runtimeVars
  <2>3. Entrusts(r)
    BY <1>8, <2>1 DEF Entrusts, Becomes, faultVars
  <2>4. Gains(r) /\ Learns(r)
    BY <1>8, <2>1 DEF Gains, Learns, Becomes, Seen, Stays
  <2>5. faults' \in {faults, faults + 1}
    BY <1>8, <2>1 DEF faultVars
  <2> QED
    BY <2>1, <2>2, <2>3, <2>4, <2>5 DEF Moves
<1>9. ASSUME Reconcile(r) PROVE Moves(r)
  <2>1. /\ Alone(r) /\ Stays(r) /\ UNCHANGED <<runtimeVars, conts, faultVars>>
        /\ r \in on /\ reader[r].pc = "ready" /\ reader[r].kind = "resume" /\ job # "replaced"
        /\ Becomes(r, "reconciled", reader[r].kind, reader[r].defer, (job = "paused"),
                   reader[r].gen, reader[r].waits, TRUE, reader[r].replay,
                   reader[r].queue, reader[r].got)
    BY <1>0, <1>9, ReconcileEffect
  <2>2. Goes(r)
    BY <2>1 DEF Goes, Becomes, Stays, RuntimeFollows, runtimeVars
  <2>3. Entrusts(r) /\ Gains(r) /\ Learns(r)
    BY <2>1 DEF Entrusts, Gains, Learns, Becomes, faultVars, Seen, Stays
  <2> QED
    BY <2>1, <2>2, <2>3 DEF Moves, faultVars
<1>10. ASSUME StartLive(r) \/ Activate(r) PROVE Moves(r)
  <2>1. /\ Alone(r) /\ Parts(r) /\ UNCHANGED abandoned
        /\ r \in on /\ reader[r].pc \in {"ready", "reconciled"}
        /\ reader[r].pc = "ready" => reader[r].kind = "initial"
        /\ \E ends \in BOOLEAN, look \in BOOLEAN :
              /\ on' = IF ends THEN on \ {r} ELSE on
              /\ ~ends => (look \/ (~reader[r].look /\ reader[r].pc = "reconciled"))
              /\ Becomes(r, IF ends THEN "ended" ELSE "live", reader[r].kind, reader[r].defer,
                         reader[r].told, reader[r].gen, reader[r].waits, look,
                         reader[r].replay, <<>>, reader[r].queue)
    <3>1. reader[r].look \in BOOLEAN
      BY <1>0 DEF ReaderTypes, Requests
    <3>2. CASE StartLive(r)
      <4>1. /\ Alone(r) /\ Parts(r) /\ UNCHANGED abandoned
            /\ r \in on /\ reader[r].pc = "ready" /\ reader[r].kind = "initial"
        BY <1>0, <3>2, StartLiveEffect
      <4>2. PICK ends \in BOOLEAN :
               /\ on' = IF ends THEN on \ {r} ELSE on
               /\ Becomes(r, IF ends THEN "ended" ELSE "live", reader[r].kind, reader[r].defer,
                          reader[r].told, reader[r].gen, reader[r].waits, ~ends,
                          reader[r].replay, <<>>, reader[r].queue)
        BY <1>0, <3>2, StartLiveEffect
      <4>3. (~ends) \in BOOLEAN
        OBVIOUS
      <4> QED
        BY <4>1, <4>2, <4>3
    <3>3. CASE Activate(r)
      <4>1. Alone(r) /\ Parts(r) /\ UNCHANGED abandoned /\ r \in on /\ reader[r].pc = "reconciled"
        BY <1>0, <3>3, ActivateEffect
      <4>2. PICK ends \in BOOLEAN :
               /\ on' = IF ends THEN on \ {r} ELSE on
               /\ Becomes(r, IF ends THEN "ended" ELSE "live", reader[r].kind, reader[r].defer,
                          reader[r].told, reader[r].gen, reader[r].waits,
                          reader[r].look /\ ~ends,
                          reader[r].replay, <<>>, reader[r].queue)
        BY <1>0, <3>3, ActivateEffect
      <4>3. PICK look \in BOOLEAN : look = (reader[r].look /\ ~ends)
        OBVIOUS
      <4>4. ~ends => look \/ (~reader[r].look /\ reader[r].pc = "reconciled")
        BY <4>1, <4>3
      <4>5. Becomes(r, IF ends THEN "ended" ELSE "live", reader[r].kind, reader[r].defer,
                    reader[r].told, reader[r].gen, reader[r].waits, look,
                    reader[r].replay, <<>>, reader[r].queue)
        BY <4>2, <4>3, Zenon
      <4>6. \E ends1 \in BOOLEAN, look1 \in BOOLEAN :
              /\ on' = IF ends1 THEN on \ {r} ELSE on
              /\ ~ends1 => (look1 \/ (~reader[r].look /\ reader[r].pc = "reconciled"))
              /\ Becomes(r, IF ends1 THEN "ended" ELSE "live", reader[r].kind, reader[r].defer,
                         reader[r].told, reader[r].gen, reader[r].waits, look1,
                         reader[r].replay, <<>>, reader[r].queue)
        BY <4>2, <4>4, <4>5, Zenon
      <4> QED
        BY <4>1, <4>6
    <3> QED
      BY <1>10, <3>2, <3>3
  <2>2. PICK ends \in BOOLEAN, look \in BOOLEAN :
              /\ on' = IF ends THEN on \ {r} ELSE on
              /\ ~ends => (look \/ (~reader[r].look /\ reader[r].pc = "reconciled"))
              /\ Becomes(r, IF ends THEN "ended" ELSE "live", reader[r].kind, reader[r].defer,
                         reader[r].told, reader[r].gen, reader[r].waits, look,
                         reader[r].replay, <<>>, reader[r].queue)
    BY <2>1
  <2>3. Goes(r)
    BY <2>1, <2>2 DEF Goes, Becomes, Parts
  <2>4. Entrusts(r)
    BY <2>1, <2>2 DEF Entrusts, Becomes, Parts
  <2>5. Gains(r)
    BY <2>1, <2>2 DEF Gains, Becomes, Seen
  <2>6. Learns(r)
    BY <2>1, <2>2 DEF Learns, Becomes
  <2> QED
    BY <2>1, <2>3, <2>4, <2>5, <2>6 DEF Moves, Parts
<1>11. ASSUME StoredTerminal(r) PROVE Moves(r)
  <2>1. /\ Alone(r) /\ Parts(r) /\ UNCHANGED abandoned
        /\ r \in on /\ reader[r].look
        /\ \/ /\ TerminalStored /\ reader[r].pc = "live" /\ on' = on \ {r}
              /\ Becomes(r, "ended", reader[r].kind, reader[r].defer, reader[r].told,
                         reader[r].gen, reader[r].waits, FALSE, reader[r].replay, <<>>,
                         reader[r].got \o <<Done>>)
           \/ /\ TerminalStored /\ reader[r].pc = "reconciled" /\ on' = on
              /\ ~InSeq(Done, reader[r].queue)
              /\ Becomes(r, reader[r].pc, reader[r].kind, reader[r].defer, reader[r].told,
                         reader[r].gen, reader[r].waits, FALSE, reader[r].replay,
                         reader[r].queue \o <<Done>>, reader[r].got)
           \/ /\ TerminalStored => InSeq(Done, reader[r].queue)
              /\ on' = on
              /\ Becomes(r, reader[r].pc, reader[r].kind, reader[r].defer, reader[r].told,
                         reader[r].gen, reader[r].waits, FALSE, reader[r].replay,
                         reader[r].queue, reader[r].got)
    BY <1>0, <1>11, StoredTerminalEffect
  <2>2. reader[r].pc \in {"reconciled", "live"} /\ (reader[r].pc = "live" => reader[r].queue = <<>>)
    BY <1>0, <2>1 DEF Shape
  <2>3. Goes(r)
    BY <2>1, <2>2 DEF Goes, Becomes, Parts
  <2>4. Entrusts(r)
    BY <2>1, <2>2 DEF Entrusts, Becomes, Parts
  <2>5. Gains(r)
    <3>1. reader[r].pc = "reconciled" => reader[r].kind = "resume"
      BY <1>0 DEF Shape
    <3> QED
      BY <2>1, <2>2, <3>1 DEF Gains, Becomes, Seen, TerminalStored
  <2>6. Learns(r)
    <3>1. InSeq(Done, reader[r].queue \o <<Done>>)
      BY <1>1, <1>2
    <3>2. ~InSeq(Done, <<>>)
      BY Empty
    <3> QED
      BY <2>1, <2>2, <3>1, <3>2 DEF Learns, Becomes, Seen
  <2> QED
    BY <2>1, <2>3, <2>4, <2>5, <2>6 DEF Moves, Parts
<1> QED
  BY <1>3, <1>4, <1>5, <1>6, <1>7, <1>8, <1>9, <1>10, <1>11 DEF RequestStep

(***************************************************************************)
(* The invariant Settling: somebody goes on with every bootstrap, and what *)
(* a bootstrap awaits is downward closed, so that the oldest open receipt  *)
(* can always be settled.                                                  *)
(***************************************************************************)

RuntimeIs == /\ hasSubscriber => on # {}
             /\ ~hasSubscriber => \A r \in on : reader[r].pc = "check"

\* An event whose receipt the emitter of a buffered event holds.
Held(e) == receipt[e] \in {"open", "numbered"}

EarlyIs ==
    /\ Ascends(buffered)
    /\ \A e \in Events : InSeq(e, buffered) => receipt[e] # "none"
    /\ closed => buffered = <<>>
    /\ syncs # <<>> => closed
    /\ ~closed => \A e \in Events : Held(e) => InSeq(e, buffered)
    /\ hasSubscriber => \A e \in Events : Held(e) => e <= since

\* With an event, W has every earlier one whose receipt is open.
Downward(W) ==
    \A e \in W : e <= emitted /\ \A d \in Events : d < e /\ receipt[d] = "open" => d \in W

\* A bootstrap of the current attachment awaits what is buffered.
Serves(gen, waits) ==
    /\ gen <= attachGen
    /\ gen = attachGen => hasSubscriber /\ \A e \in Events : InSeq(e, buffered) => e \in waits
ClaimsAre ==
    /\ \A r \in Readers : Downward(reader[r].waits)
    /\ \A c \in conts : Downward(c.waits) /\ Serves(c.gen, c.waits)
    /\ \A r \in Readers : reader[r].pc \in Bootstraps => Serves(reader[r].gen, reader[r].waits)

\* Somebody goes on with the bootstrap of this attachment, or it was abandoned.
Attended ==
    \/ attachGen \in abandoned \/ syncs # <<>>
    \/ \E r \in Readers : reader[r].pc \in Bootstraps /\ reader[r].gen = attachGen
    \/ \E c \in conts : c.gen = attachGen
DeferredIs == deferred => on # {} /\ (hasSubscriber => Attended)

Settling == RuntimeIs /\ EarlyIs /\ ClaimsAre /\ DeferredIs

\* How the early buffer and the receipts move while the generation goes on.
Keeps == /\ UNCHANGED earlyVars
         /\ \A d \in Events : /\ Held(d)' => Held(d)
                              /\ receipt[d] # "none" => receipt'[d] # "none"
Overflows == /\ ~hasSubscriber /\ ~closed /\ receipt' = receipt
             /\ buffered' = <<>> /\ closed' = TRUE
Buffers == /\ ~hasSubscriber /\ ~closed /\ emitted + 1 \in Events
           /\ buffered' = Append(buffered, emitted + 1) /\ closed' = closed
           /\ receipt' = [receipt EXCEPT ![emitted + 1] = "open"]

LEMMA GenerationMoves ==
    ASSUME BoundsAssumption, Core, GenerationStep
    PROVE  /\ Aside /\ emitted' >= emitted
           /\ syncs' = <<>> <=> syncs = <<>>
           /\ \A d \in Events : d <= emitted /\ receipt'[d] = "open" => receipt[d] = "open"
           /\ Keeps \/ Overflows \/ Buffers
<1>1. /\ Aside
      /\ \/ \E e \in Events : Emits(e) \/ Settles(e)
         \/ Pauses \/ Ends \/ (\E i \in 1..Len(syncs) : Reads(i)) \/ Drops \/ Publishes
  BY GenerationEffect DEF Core
<1>2. emitted \in Nat /\ receipt \in [Events -> {"none", "open", "numbered", "failed"}]
      /\ syncs \in Seq(SyncCalls) /\ Events \subseteq Nat
  BY FrameNumbers DEF Core, Types, GenerationTypes, SyncTypes
<1>3. ASSUME receipt' = receipt, UNCHANGED earlyVars
      PROVE  Keeps /\ \A d \in Events : receipt'[d] = "open" => receipt[d] = "open"
  BY <1>3 DEF Keeps, Held
<1>4. ASSUME NEW e \in Events, Emits(e)
      PROVE  /\ emitted' >= emitted /\ syncs' = syncs
             /\ \A d \in Events : d <= emitted /\ receipt'[d] = "open" => receipt[d] = "open"
             /\ Keeps \/ Overflows \/ Buffers
  <2>1. e = emitted + 1 /\ emitted' = e /\ syncs' = syncs
    BY <1>4 DEF Emits
  <2>2. CASE UNCHANGED <<earlyVars, receipt>>
    BY <1>2, <1>3, <2>1, <2>2
  <2>3. CASE /\ ~hasSubscriber /\ ~closed
             /\ buffered' = <<>> /\ closed' = TRUE /\ overflowed' = TRUE /\ receipt' = receipt
    BY <1>2, <2>1, <2>3 DEF Overflows
  <2>4. CASE /\ ~hasSubscriber /\ ~closed
             /\ buffered' = Append(buffered, e) /\ closed' = closed
             /\ receipt' = [receipt EXCEPT ![e] = "open"]
    BY <1>2, <2>1, <2>4 DEF Buffers
  <2> QED
    BY <1>4, <2>2, <2>3, <2>4 DEF Emits
<1>5. ASSUME NEW e \in Events, Settles(e)
      PROVE  /\ emitted' >= emitted /\ syncs' = syncs
             /\ \A d \in Events : d <= emitted /\ receipt'[d] = "open" => receipt[d] = "open"
             /\ Keeps
  BY <1>2, <1>5 DEF Settles, Keeps, Held
<1>6. ASSUME Drops
      PROVE  /\ emitted' >= emitted /\ syncs' = syncs
             /\ \A d \in Events : d <= emitted /\ receipt'[d] = "open" => receipt[d] = "open"
             /\ Keeps
  BY <1>2, <1>6 DEF Drops, Shifts, Keeps, Held
<1>7. ASSUME Pauses \/ Ends \/ Publishes
      PROVE  emitted' >= emitted /\ syncs' = syncs /\ receipt' = receipt /\ UNCHANGED earlyVars
  BY <1>2, <1>7 DEF Pauses, Ends, Publishes, Shifts
<1>8. ASSUME NEW i \in 1..Len(syncs), Reads(i)
      PROVE  /\ emitted' >= emitted /\ receipt' = receipt /\ UNCHANGED earlyVars
             /\ syncs' = <<>> <=> syncs = <<>>
  <2>1. syncs' = [syncs EXCEPT ![i].val = Counter] /\ Len(syncs) \in Nat
    BY <1>2, <1>8 DEF Reads
  <2>2. DOMAIN syncs' = DOMAIN syncs /\ 1 \in DOMAIN syncs
    BY <1>2, <2>1
  <2> QED
    BY <1>2, <1>8, <2>2 DEF Reads, Shifts
<1> QED
  BY <1>1, <1>3, <1>4, <1>5, <1>6, <1>7, <1>8

LEMMA BufferedIsDownward ==
    ASSUME Core, EarlyIs
    PROVE  Downward(Range(buffered))
<1>1. buffered \in Seq(Events)
  BY DEF Core, Types, EarlyTypes
<1>2. ASSUME NEW e \in Range(buffered)
      PROVE  e <= emitted /\ \A d \in Events : d < e /\ receipt[d] = "open" => d \in Range(buffered)
  <2>1. InSeq(e, buffered) /\ e \in Events
    BY <1>1, InRange DEF InSeq
  <2>2. e <= emitted
    BY <2>1 DEF EarlyIs, Core, Stream, EmittedAre, EmittedIs
  <2>3. ~closed
    BY <2>1, Empty DEF EarlyIs
  <2>4. ASSUME NEW d \in Events, receipt[d] = "open" PROVE d \in Range(buffered)
    BY <1>1, <2>3, <2>4, InRange DEF EarlyIs, Held
  <2> QED
    BY <2>2, <2>4
<1> QED
  BY <1>2 DEF Downward

LEMMA DownwardKept ==
    ASSUME NEW W, W \subseteq Events, Downward(W), emitted \in Nat, emitted' \in Nat,
           emitted' >= emitted, Events \subseteq Nat,
           \A d \in Events : d <= emitted /\ receipt'[d] = "open" => receipt[d] = "open"
    PROVE  Downward(W)'
<1>1. ASSUME NEW e \in W
      PROVE  e <= emitted' /\ \A d \in Events : d < e /\ receipt'[d] = "open" => d \in W
  <2>1. e \in Nat /\ e <= emitted /\ \A d \in Events : d < e /\ receipt[d] = "open" => d \in W
    BY DEF Downward
  <2>2. ASSUME NEW d \in Events, d < e, receipt'[d] = "open" PROVE d \in W
    <3>1. d \in Nat /\ d <= emitted
      BY <2>1, <2>2
    <3> QED
      BY <2>1, <2>2, <3>1
  <2> QED
    BY <2>1, <2>2
<1> QED
  BY <1>1 DEF Downward, Events

LEMMA GenerationEarly ==
    ASSUME BoundsAssumption, Core, EarlyIs, GenerationStep
    PROVE  EarlyIs' /\ \A e \in Events : hasSubscriber /\ InSeq(e, buffered') => InSeq(e, buffered)
<1>1. /\ Aside /\ emitted' >= emitted
      /\ syncs' = <<>> <=> syncs = <<>>
      /\ Keeps \/ Overflows \/ Buffers
  BY GenerationMoves
<1>2. hasSubscriber' = hasSubscriber /\ since' = since
  BY <1>1 DEF Aside, runtimeVars
<1>3. buffered \in Seq(Events) /\ receipt \in [Events -> {"none", "open", "numbered", "failed"}]
      /\ Events \subseteq Nat /\ emitted \in Nat
  BY FrameNumbers DEF Core, Types, EarlyTypes, GenerationTypes
<1> USE DEF Held
<1>4. CASE Keeps
  <2>1. buffered' = buffered /\ closed' = closed
    BY <1>4 DEF Keeps, earlyVars
  <2>2. \A e : InSeq(e, buffered)' <=> InSeq(e, buffered)
    BY <2>1 DEF InSeq
  <2>3. Ascends(buffered)'
    BY <2>1 DEF EarlyIs, Ascends
  <2>4. \A e \in Events : /\ Held(e)' => Held(e)
                          /\ receipt[e] # "none" => receipt'[e] # "none"
    BY <1>4 DEF Keeps
  <2> QED
    BY <1>1, <1>2, <2>1, <2>2, <2>3, <2>4 DEF EarlyIs, Events
<1>5. CASE Overflows
  <2>1. buffered' = <<>> /\ closed' = TRUE /\ hasSubscriber = FALSE /\ receipt' = receipt
    BY <1>5 DEF Overflows, Core, Types, RuntimeTypes
  <2>2. \A e : ~InSeq(e, buffered')
    BY <2>1, Empty
  <2>3. Ascends(buffered)'
    BY <2>1 DEF Ascends
  <2> QED
    BY <1>2, <2>1, <2>2, <2>3 DEF EarlyIs, Events
<1>6. CASE Buffers
  <2> DEFINE x == emitted + 1
  <2>1. x \in Events /\ buffered' = Append(buffered, x) /\ closed' = closed /\ closed = FALSE
        /\ receipt' = [receipt EXCEPT ![x] = "open"] /\ hasSubscriber = FALSE
    BY <1>6 DEF Buffers, Core, Types, RuntimeTypes, EarlyTypes
  <2>2. x > emitted
    BY <1>3
  <2> HIDE DEF x
  <2>3. \A e : InSeq(e, buffered') <=> InSeq(e, buffered) \/ e = x
    BY <1>3, <2>1, InAppend
  <2>4. \A e \in Events : InSeq(e, buffered) => e < x
    BY <1>3, <2>1, <2>2 DEF EarlyIs, Core, Stream, EmittedAre, EmittedIs
  <2>5. Ascends(buffered)'
    <3>1. Len(buffered) \in Nat /\ Len(buffered') = Len(buffered) + 1 /\ buffered'[Len(buffered) + 1] = x
          /\ \A i \in 1..Len(buffered) : buffered'[i] = buffered[i] /\ buffered[i] \in Events
      BY <1>3, <2>1
    <3>2. ASSUME NEW i \in 1..Len(buffered'), NEW j \in 1..Len(buffered'), i < j
          PROVE  buffered'[i] < buffered'[j]
      <4>1. i \in 1..Len(buffered)
        BY <3>1, <3>2
      <4>2. CASE j \in 1..Len(buffered)
        BY <3>1, <3>2, <4>1, <4>2 DEF EarlyIs, Ascends
      <4>3. CASE j = Len(buffered) + 1
        <5>1. InSeq(buffered[i], buffered)
          BY <4>1 DEF InSeq
        <5> QED
          BY <2>4, <3>1, <4>1, <4>3, <5>1
      <4> QED
        BY <3>1, <4>2, <4>3
    <3> QED
      BY <3>2 DEF Ascends
  <2>6. syncs = <<>>
    BY <2>1 DEF EarlyIs
  <2>7. \A e \in Events : InSeq(e, buffered') => receipt'[e] # "none"
    BY <1>3, <2>1, <2>3 DEF EarlyIs
  <2>8. \A e \in Events : receipt'[e] \in {"open", "numbered"} => InSeq(e, buffered')
    BY <1>3, <2>1, <2>3 DEF EarlyIs
  <2> QED
    BY <1>1, <1>2, <2>1, <2>5, <2>6, <2>7, <2>8 DEF EarlyIs, Events
<1> QED
  BY <1>1, <1>4, <1>5, <1>6

LEMMA GenerationSettling ==
    ASSUME BoundsAssumption, Core, Settling, GenerationStep
    PROVE  Settling'
<1>1. /\ Aside /\ emitted' >= emitted
      /\ syncs' = <<>> <=> syncs = <<>>
      /\ \A d \in Events : d <= emitted /\ receipt'[d] = "open" => receipt[d] = "open"
  BY GenerationMoves
<1>2. UNCHANGED <<hasSubscriber, attachGen, since, on, reader, conts, abandoned, deferred>>
  BY <1>1 DEF Aside, runtimeVars, readerVars, bufferVars
<1>3. EarlyIs' /\ \A e \in Events : hasSubscriber /\ InSeq(e, buffered') => InSeq(e, buffered)
  BY GenerationEarly DEF Settling
<1>4. RuntimeIs' /\ DeferredIs'
  BY <1>1, <1>2 DEF Settling, RuntimeIs, DeferredIs, Attended, Readers
<1>5. \A W : W \subseteq Events /\ Downward(W) => Downward(W)'
  <2>1. emitted \in Nat /\ emitted' \in Nat /\ Events \subseteq Nat
    <3>1. Core'
      BY GenerationCore
    <3> QED
      BY <3>1, FrameNumbers DEF Core, Types, GenerationTypes
  <2> QED
    BY <1>1, <2>1, DownwardKept
<1>6. ASSUME NEW gen, NEW waits, Serves(gen, waits) PROVE Serves(gen, waits)'
  BY <1>2, <1>3, <1>6 DEF Serves, Events
<1>7. ClaimsAre'
  <2>1. \A r \in Readers : reader[r].waits \subseteq Events
    BY DEF Core, Types, ReaderTypes, Requests
  <2>2. \A c \in conts : c.waits \subseteq Events
    BY DEF Core, Types, EarlyTypes, Tasks
  <2>3. \A r \in Readers : Downward(reader[r].waits)'
    BY <1>2, <1>5, <2>1 DEF Settling, ClaimsAre
  <2>4. \A c \in conts : Downward(c.waits)' /\ Serves(c.gen, c.waits)'
    BY <1>5, <1>6, <2>2 DEF Settling, ClaimsAre
  <2>5. \A r \in Readers : reader[r].pc \in Bootstraps => Serves(reader[r].gen, reader[r].waits)'
    <3>1. TAKE r \in Readers
    <3>2. PICK gen, waits : gen = reader[r].gen /\ waits = reader[r].waits
      OBVIOUS
    <3>3. reader[r].pc \in Bootstraps => Serves(gen, waits)
      BY <3>2 DEF Settling, ClaimsAre
    <3>4. reader[r].pc \in Bootstraps => Serves(gen, waits)'
      BY <1>6, <3>3
    <3>5. reader'[r] = reader[r]
      BY <1>2
    <3> QED
      BY <3>2, <3>4, <3>5 DEF Serves
  <2> QED
    BY <1>2, <2>3, <2>4, <2>5 DEF ClaimsAre, Readers, Bootstraps
<1> QED
  BY <1>3, <1>4, <1>7 DEF Settling

\* Where neither the receipts nor the buffer change.
LEMMA SameDownward ==
    ASSUME emitted' = emitted, receipt' = receipt, NEW W
    PROVE  Downward(W)' <=> Downward(W)
BY DEF Downward, Events

\* The runtime follows its readers, and the early buffer may be emptied.
LEMMA ServesKept ==
    ASSUME Core, NEW gen \in Nat, NEW waits, Serves(gen, waits), RuntimeFollows,
           \A e \in Events : InSeq(e, buffered') => InSeq(e, buffered)
    PROVE  Serves(gen, waits)'
<1>1. attachGen \in Nat
  BY BoundsAssumption DEF Core, Types, RuntimeTypes
<1>2. CASE attachGen' = attachGen /\ hasSubscriber' = hasSubscriber
  BY <1>2 DEF Serves, Events
<1>3. CASE attachGen' = attachGen + 1
  <2>1. gen <= attachGen' /\ gen # attachGen'
    BY <1>1, <1>3 DEF Serves
  <2> QED
    BY <2>1 DEF Serves
<1> QED
  BY <1>2, <1>3 DEF RuntimeFollows

LEMMA TransportSettling ==
    ASSUME BoundsAssumption, Core, Settling, TransportActions
    PROVE  Settling'
<1>1. TransportStep /\ Carried
  BY TransportCore
<1>2. UNCHANGED <<generationVars, earlyVars, conts, abandoned>>
  BY <1>1 DEF TransportStep
<1>3. RuntimeFollows /\ on' \subseteq on
  BY <1>1 DEF Carried
<1>4. \A r \in Readers :
          /\ reader'[r].gen = reader[r].gen /\ reader'[r].waits = reader[r].waits
          /\ r \notin on \/ r \in on' =>
                reader'[r].pc = IF Awaits(r) THEN "ready" ELSE reader[r].pc
          /\ Awaits(r) => reader[r].pc = "sync"
          /\ r \in on \ on' => reader[r].pc = "live" /\ reader'[r].pc = "ended"
  BY <1>1 DEF Carried
<1>5. RuntimeIs'
  <2>1. on \subseteq Readers
    BY DEF Core, Types, ReaderTypes
  <2> QED
    BY <1>3, <1>4, <2>1 DEF RuntimeFollows, Settling, RuntimeIs
<1>6. EarlyIs'
  <2>1. syncs' # <<>> => syncs # <<>>
    BY <1>1 DEF Carried
  <2>2. \A e : InSeq(e, buffered)' <=> InSeq(e, buffered)
    BY <1>2 DEF InSeq, earlyVars
  <2>3. hasSubscriber' => hasSubscriber /\ since' = since
    BY <1>3 DEF RuntimeFollows
  <2>4. receipt' = receipt /\ buffered' = buffered /\ closed' = closed
    BY <1>2 DEF generationVars, earlyVars
  <2> QED
    BY <2>1, <2>2, <2>3, <2>4 DEF Settling, EarlyIs, Held, Ascends, Events
<1>7. ClaimsAre'
  <2>1. emitted' = emitted /\ receipt' = receipt /\ conts' = conts
        /\ \A e \in Events : InSeq(e, buffered') => InSeq(e, buffered)
    BY <1>2 DEF generationVars, earlyVars
  <2>2. \A c \in conts : c.gen \in Nat
    BY DEF Core, Types, EarlyTypes, Tasks
  <2>3. \A c \in conts : Downward(c.waits)' /\ Serves(c.gen, c.waits)'
    BY <1>3, <2>1, <2>2, SameDownward, ServesKept DEF Settling, ClaimsAre
  <2>4. ASSUME NEW r \in Readers
        PROVE  /\ Downward(reader[r].waits)'
               /\ reader'[r].pc \in Bootstraps => Serves(reader[r].gen, reader[r].waits)'
    <3>1. PICK gen, waits : gen = reader[r].gen /\ waits = reader[r].waits
      OBVIOUS
    <3>2. gen \in Nat
      BY <3>1 DEF Core, Types, ReaderTypes, Requests
    <3>3. reader'[r].pc \in Bootstraps => reader[r].pc \in Bootstraps
      BY <1>4 DEF Bootstraps
    <3>4. Downward(waits) /\ (reader'[r].pc \in Bootstraps => Serves(gen, waits))
      BY <3>1, <3>3 DEF Settling, ClaimsAre
    <3>5. Downward(waits)' /\ (reader'[r].pc \in Bootstraps => Serves(gen, waits)')
      BY <1>3, <2>1, <3>2, <3>4, SameDownward, ServesKept
    <3> QED
      BY <1>4, <3>1, <3>5 DEF Downward, Serves
  <2> QED
    BY <2>1, <2>3, <2>4 DEF ClaimsAre, Readers, Bootstraps
<1>8. DeferredIs'
  <2>1. CASE Ignores \/ Holds
    <3>1. UNCHANGED <<deferred, on, reader, hasSubscriber, attachGen, syncs>>
      BY <2>1 DEF Ignores, Holds, bufferVars, readerVars, runtimeVars
    <3> QED
      BY <1>2, <3>1 DEF Settling, DeferredIs, Attended, Readers
  <2>2. CASE Skips
    <3>1. ~deferred'
      BY <2>2 DEF Skips, Settling, DeferredIs, bufferVars
    <3> QED
      BY <3>1 DEF DeferredIs
  <2>3. ASSUME NEW pops, NEW P, NEW m, NEW es, Flushes(pops, P, m, es) PROVE DeferredIs'
    <3>1. ~deferred'
      BY <2>3 DEF Flushes, FlushStep, Resets
    <3> QED
      BY <3>1 DEF DeferredIs
  <2> QED
    BY <1>1, <2>1, <2>2, <2>3 DEF TransportStep
<1> QED
  BY <1>5, <1>6, <1>7, <1>8 DEF Settling

LEMMA RequestClaims ==
    ASSUME BoundsAssumption, Core, Settling, NEW r \in Readers, Moves(r)
    PROVE  ClaimsAre'
<1>1. UNCHANGED <<generationVars, received, syncVars, earlyVars>>
      /\ \A q \in Readers : q # r => reader'[q] = reader[q] /\ (q \in on' <=> q \in on)
  BY DEF Moves, Alone
<1>2. Joins(r) \/ Takes(r) \/ Goes(r)
  BY DEF Moves
<1>3. emitted' = emitted /\ receipt' = receipt /\ buffered' = buffered
  BY <1>1 DEF generationVars, earlyVars
<1>4. ASSUME NEW gen \in Nat, NEW waits, Serves(gen, waits) PROVE Serves(gen, waits)'
  <2>1. \A e \in Events : InSeq(e, buffered') => InSeq(e, buffered)
    BY <1>3
  <2>2. CASE Joins(r)
    BY <1>4, <1>3, <2>2 DEF Joins, Serves, runtimeVars, Events
  <2>3. CASE Takes(r)
    BY <1>4, <1>3, <2>3 DEF Takes, Serves, Events
  <2>4. CASE Goes(r)
    BY <1>4, <2>1, <2>4, ServesKept DEF Goes
  <2> QED
    BY <1>2, <2>2, <2>3, <2>4
<1>5. \A W : Downward(W)' <=> Downward(W)
  BY <1>3, SameDownward
<1>6. ASSUME NEW q \in Readers
      PROVE  /\ reader[q].gen \in Nat /\ Downward(reader[q].waits)
             /\ reader[q].pc \in Bootstraps => Serves(reader[q].gen, reader[q].waits)
  BY DEF Core, Types, ReaderTypes, Requests, Settling, ClaimsAre
<1>7. ASSUME NEW q \in Readers, q # r
      PROVE  /\ Downward(reader[q].waits)'
             /\ reader'[q].pc \in Bootstraps => Serves(reader[q].gen, reader[q].waits)'
  <2>1. PICK gen, waits : gen = reader[q].gen /\ waits = reader[q].waits
    OBVIOUS
  <2>2. Downward(waits)' /\ (reader[q].pc \in Bootstraps => Serves(gen, waits)')
    BY <1>4, <1>5, <1>6, <2>1
  <2> QED
    BY <1>1, <1>7, <2>1, <2>2 DEF Downward, Serves
<1>8. /\ Downward(reader[r].waits)'
      /\ reader'[r].pc \in Bootstraps => Serves(reader[r].gen, reader[r].waits)'
  <2>1. PICK gen, waits, gen1, waits1 : gen = reader[r].gen /\ waits = reader[r].waits
                         /\ gen1 = reader'[r].gen /\ waits1 = reader'[r].waits
    OBVIOUS
  <2>2. Downward(waits1)' /\ (reader'[r].pc \in Bootstraps => Serves(gen1, waits1)')
    <3>1. CASE Takes(r)
      <4>1. waits1 = Range(buffered) /\ gen1 = attachGen
        BY <2>1, <3>1 DEF Takes
      <4>2. Downward(Range(buffered))
        BY BufferedIsDownward DEF Settling
      <4>3. Downward(waits1)'
        BY <1>5, <4>1, <4>2
      <4>4. hasSubscriber' /\ attachGen' = attachGen /\ attachGen <= attachGen
        BY <3>1, BoundsAssumption DEF Takes, Core, Types, RuntimeTypes
      <4>5. \A e \in Events : InSeq(e, buffered') => e \in waits1
        <5>1. buffered \in Seq(Events)
          BY DEF Core, Types, EarlyTypes
        <5> QED
          BY <1>3, <4>1, <5>1, InRange
      <4> QED
        BY <4>1, <4>3, <4>4, <4>5 DEF Serves, Events
    <3>2. CASE ~Takes(r)
      <4>1. reader'[r].pc \in Bootstraps => reader[r].pc \in Bootstraps /\ gen1 = gen /\ waits1 = waits
        BY <2>1, <3>2 DEF Moves, Entrusts
      <4>2. waits1 \in {{}, waits}
        BY <1>2, <2>1, <3>2 DEF Joins, Goes
      <4>3. Downward({})
        BY DEF Downward
      <4>4. Downward(waits1)'
        BY <1>5, <1>6, <2>1, <4>2, <4>3
      <4>5. reader'[r].pc \in Bootstraps => gen1 \in Nat /\ Serves(gen1, waits1)
        BY <1>6, <2>1, <4>1
      <4> QED
        BY <1>4, <4>4, <4>5
    <3> QED
      BY <3>1, <3>2
  <2> QED
    BY <2>1, <2>2 DEF Downward, Serves
<1>9. ASSUME NEW c \in conts' PROVE Downward(c.waits)' /\ Serves(c.gen, c.waits)'
  <2>1. CASE c \in conts
    <3>1. c.gen \in Nat /\ Downward(c.waits) /\ Serves(c.gen, c.waits)
      BY <2>1 DEF Settling, ClaimsAre, Core, Types, EarlyTypes, Tasks
    <3> QED
      BY <1>4, <1>5, <3>1
  <2>2. CASE c \notin conts
    <3>1. reader[r].pc = "fence" /\ c.gen = reader[r].gen /\ c.waits = reader[r].waits
      BY <1>2, <1>9, <2>2 DEF Moves, Entrusts
    <3>2. c.gen \in Nat /\ Downward(c.waits) /\ Serves(c.gen, c.waits)
      BY <1>6, <3>1 DEF Bootstraps
    <3> QED
      BY <1>4, <1>5, <3>2
  <2> QED
    BY <2>1, <2>2
<1> QED
  BY <1>7, <1>8, <1>9 DEF ClaimsAre, Readers, Bootstraps

LEMMA RequestSettling ==
    ASSUME BoundsAssumption, Core, Settling, NEW r \in Readers, Moves(r)
    PROVE  Settling'
<1>1. /\ \A q \in Readers : q # r => reader'[q] = reader[q] /\ (q \in on' <=> q \in on)
      /\ UNCHANGED <<generationVars, syncVars, earlyVars>> /\ on' \subseteq Readers
  BY DEF Moves, Alone
<1>2. Joins(r) \/ Takes(r) \/ Goes(r)
  BY DEF Moves
<1>3. emitted' = emitted /\ receipt' = receipt /\ buffered' = buffered /\ closed' = closed
      /\ syncs' = syncs
  BY <1>1 DEF generationVars, earlyVars, syncVars
<1>4. ClaimsAre'
  BY RequestClaims
<1>5. RuntimeIs /\ on \subseteq Readers /\ hasSubscriber \in BOOLEAN
  BY DEF Settling, Core, Types, ReaderTypes, RuntimeTypes
<1>6. RuntimeIs'
  <2>1. CASE Joins(r)
    BY <1>1, <1>5, <2>1 DEF Joins, RuntimeIs, runtimeVars
  <2>2. CASE Takes(r)
    BY <1>5, <2>2 DEF Takes, Stays, RuntimeIs
  <2>3. CASE Goes(r)
    <3>1. on' \subseteq on
      BY <2>3 DEF Goes
    <3>2. hasSubscriber' => on' # {}
      BY <1>5, <2>3, <3>1 DEF Goes, RuntimeFollows, RuntimeIs
    <3>3. ASSUME ~hasSubscriber', NEW q \in on' PROVE reader'[q].pc = "check"
      <4>1. ~hasSubscriber /\ q \in on /\ q \in Readers
        BY <1>1, <2>3, <3>1, <3>3 DEF Goes, RuntimeFollows
      <4>2. reader[q].pc = "check"
        BY <1>5, <4>1 DEF RuntimeIs
      <4>3. q # r
        BY <2>3, <3>3, <4>1, <4>2 DEF Goes
      <4> QED
        BY <1>1, <4>1, <4>2, <4>3
    <3> QED
      BY <3>2, <3>3 DEF RuntimeIs
  <2> QED
    BY <1>2, <2>1, <2>2, <2>3
<1>7. EarlyIs'
  <2>1. \A e : InSeq(e, buffered)' <=> InSeq(e, buffered)
    BY <1>3 DEF InSeq
  <2>2. hasSubscriber' => \A e \in Events : Held(e)' => e <= since'
    <3>1. CASE Takes(r)
      BY <1>3, <3>1 DEF Takes, Held, Core, Stream, EmittedAre, EmittedIs
    <3>2. CASE Joins(r) \/ Goes(r)
      <4>1. hasSubscriber' => hasSubscriber /\ since' = since
        BY <3>2 DEF Joins, Goes, RuntimeFollows, runtimeVars
      <4> QED
        BY <1>3, <4>1 DEF Held, Settling, EarlyIs
    <3> QED
      BY <1>2, <3>1, <3>2
  <2> QED
    BY <1>3, <2>1, <2>2 DEF Settling, EarlyIs, Held, Ascends, Events
<1>8. DeferredIs'
  <2> SUFFICES ASSUME deferred' PROVE on' # {} /\ (hasSubscriber' => Attended')
    BY DEF DeferredIs
  <2>1. CASE Takes(r)
    <3>1. reader'[r].pc \in Bootstraps /\ reader'[r].gen = attachGen' /\ on' # {}
      BY <2>1 DEF Takes, Stays, Bootstraps
    <3> QED
      BY <3>1 DEF Attended, Readers, Bootstraps
  <2>2. CASE Joins(r) /\ on = {}
    <3>1. ~hasSubscriber' /\ on' # {}
      BY <1>5, <2>2 DEF Joins, RuntimeIs, runtimeVars
    <3> QED
      BY <3>1
  <2>3. CASE Goes(r) \/ (Joins(r) /\ on # {})
    <3>1. deferred' = deferred /\ on # {} /\ on' # {} /\ attachGen' = attachGen
          /\ hasSubscriber' = hasSubscriber
      <4>1. CASE Joins(r) /\ on # {}
        BY <4>1 DEF Joins, bufferVars, runtimeVars
      <4>2. CASE Goes(r)
        <5>1. UNCHANGED bufferVars /\ (on' = {} => on = {})
          BY <4>2 DEF Goes, Resets
        <5>2. on # {}
          BY <5>1 DEF Settling, DeferredIs, bufferVars
        <5> QED
          BY <4>2, <5>1, <5>2 DEF Goes, RuntimeFollows, bufferVars
      <4> QED
        BY <2>3, <4>1, <4>2
    <3>2. ASSUME hasSubscriber PROVE Attended'
      <4>1. Attended
        BY <3>1, <3>2 DEF Settling, DeferredIs
      <4>2. CASE attachGen \in abandoned
        BY <3>1, <4>2 DEF Attended, Moves, Entrusts
      <4>3. CASE syncs # <<>>
        BY <1>3, <4>3 DEF Attended
      <4>4. CASE \E c \in conts : c.gen = attachGen
        BY <3>1, <4>4 DEF Attended, Moves, Entrusts
      <4>5. ASSUME NEW q \in Readers, reader[q].pc \in Bootstraps, reader[q].gen = attachGen
            PROVE  Attended'
        <5>1. CASE q # r
          BY <1>1, <3>1, <4>5, <5>1 DEF Attended, Readers, Bootstraps
        <5>2. CASE q = r /\ reader'[r].pc \in Bootstraps
          <6>1. reader[r].pc \notin {"check", "idle"}
            BY <4>5, <5>2 DEF Bootstraps
          <6>2. reader'[r].gen = reader[r].gen
            BY <5>2, <6>1 DEF Moves, Entrusts, Takes
          <6> QED
            BY <3>1, <4>5, <5>2, <6>2 DEF Attended, Readers, Bootstraps
        <5>3. CASE q = r /\ reader'[r].pc \notin Bootstraps
          BY <3>1, <4>5, <5>3 DEF Attended, Moves, Entrusts
        <5> QED
          BY <5>1, <5>2, <5>3
      <4> QED
        BY <4>1, <4>2, <4>3, <4>4, <4>5 DEF Attended
    <3> QED
      BY <3>1, <3>2
  <2> QED
    BY <1>2, <2>1, <2>2, <2>3
<1> QED
  BY <1>4, <1>6, <1>7, <1>8 DEF Settling

LEMMA ClosesSettling ==
    ASSUME BoundsAssumption, Core, Settling, NEW r \in Readers \cup {Nobody}, NEW es \in Seq(Events),
           NEW paused \in BOOLEAN, ReplayStep(r, es, paused), NEW replay, Closes(r, replay),
           conts' \subseteq conts,
           r \in Readers => reader[r].pc = "recheck"
    PROVE  Settling'
<1>1. /\ buffered' = <<>> /\ closed' = TRUE /\ emitted' = emitted /\ receipt' = receipt
      /\ on' = on /\ hasSubscriber' = hasSubscriber /\ attachGen' = attachGen /\ since' = since
  BY DEF Closes, ReplayStep, runtimeVars
<1>2. \A q \in Readers :
         /\ q # r => /\ reader'[q].pc = reader[q].pc /\ reader'[q].gen = reader[q].gen
                     /\ reader'[q].waits = reader[q].waits
         /\ q = r => reader'[q].pc = "sync" /\ reader'[q].waits = {}
  BY DEF ReplayStep
<1>3. RuntimeIs /\ on \subseteq Readers
  BY DEF Settling, Core, Types, ReaderTypes
<1>4. \A e : ~InSeq(e, buffered')
  BY <1>1, Empty
<1>5. RuntimeIs'
  BY <1>1, <1>2, <1>3 DEF RuntimeIs
<1>6. EarlyIs'
  BY <1>1, <1>4 DEF Settling, EarlyIs, Held, Ascends, Events
<1>7. ClaimsAre'
  <2>1. \A W : Downward(W)' <=> Downward(W)
    BY <1>1, SameDownward
  <2>2. ASSUME NEW gen, NEW waits, Serves(gen, waits) PROVE Serves(gen, waits)'
    BY <1>1, <1>4, <2>2 DEF Serves, Events
  <2>3. \A c \in conts' : Downward(c.waits)' /\ Serves(c.gen, c.waits)'
    BY <2>1, <2>2 DEF Settling, ClaimsAre
  <2>4. ASSUME NEW q \in Readers
        PROVE  /\ Downward(reader[q].waits)'
               /\ reader'[q].pc \in Bootstraps => Serves(reader[q].gen, reader[q].waits)'
    <3>1. CASE q = r
      BY <1>2, <3>1 DEF Downward, Bootstraps
    <3>2. CASE q # r
      <4>1. PICK gen, waits : gen = reader[q].gen /\ waits = reader[q].waits
        OBVIOUS
      <4>2. Downward(waits)' /\ (reader[q].pc \in Bootstraps => Serves(gen, waits)')
        BY <2>1, <2>2, <4>1 DEF Settling, ClaimsAre
      <4> QED
        BY <1>2, <3>2, <4>1, <4>2 DEF Downward, Serves
    <3> QED
      BY <3>1, <3>2
  <2> QED
    BY <2>3, <2>4 DEF ClaimsAre, Readers, Bootstraps
<1>8. DeferredIs'
  <2>1. syncs' # <<>>
    <3>1. syncs \in Seq(SyncCalls)
      BY DEF Core, Types, SyncTypes
    <3> QED
      BY <3>1 DEF Closes
  <2>2. deferred' => on' # {}
    BY <1>1 DEF ReplayStep, Resets
  <2> QED
    BY <2>1, <2>2 DEF DeferredIs, Attended
<1> QED
  BY <1>5, <1>6, <1>7, <1>8 DEF Settling

LEMMA InitSettling == BoundsAssumption /\ Init => Settling
<1> SUFFICES ASSUME BoundsAssumption, Init PROVE Settling
  OBVIOUS
<1>1. /\ hasSubscriber = FALSE /\ on = {} /\ buffered = <<>> /\ syncs = <<>> /\ conts = {}
      /\ deferred = FALSE /\ Len(<<>>) = 0
      /\ \A e \in Events : receipt[e] = "none"
      /\ \A r \in Readers : reader[r].pc = "idle" /\ reader[r].waits = {}
  BY DEF Init, Fresh
<1>2. RuntimeIs /\ DeferredIs
  BY <1>1 DEF RuntimeIs, DeferredIs
<1>3. EarlyIs
  BY <1>1, Empty DEF EarlyIs, Ascends, Held
<1>4. ClaimsAre
  BY <1>1 DEF ClaimsAre, Downward, Bootstraps
<1> QED
  BY <1>2, <1>3, <1>4 DEF Settling

(***************************************************************************)
(* attachSubscription ends.                                                *)
(***************************************************************************)

LEMMA UnchangedSettling ==
    ASSUME Core, Settling, conts' \subseteq conts,
           \A c \in conts : c \notin conts' => on = {} \/ c.gen # attachGen,
           UNCHANGED <<generationVars, bufferVars, syncVars, runtimeVars, earlyVars,
                       readerVars, faultVars>>
    PROVE  Settling'
<1>1. /\ emitted' = emitted /\ receipt' = receipt /\ buffered' = buffered /\ closed' = closed
      /\ syncs' = syncs /\ on' = on /\ reader' = reader /\ hasSubscriber' = hasSubscriber
      /\ attachGen' = attachGen /\ since' = since /\ abandoned' = abandoned
      /\ deferred' = deferred
  BY DEF generationVars, bufferVars, syncVars, runtimeVars, earlyVars, readerVars, faultVars
<1>2. RuntimeIs'
  BY <1>1 DEF Settling, RuntimeIs
<1>3. EarlyIs'
  <2>1. \A e : InSeq(e, buffered)' <=> InSeq(e, buffered)
    BY <1>1 DEF InSeq
  <2> QED
    BY <1>1, <2>1 DEF Settling, EarlyIs, Held, Ascends, Events
<1>4. ClaimsAre'
  <2>1. \A W : Downward(W)' <=> Downward(W)
    BY <1>1, SameDownward
  <2>2. ASSUME NEW gen, NEW waits, Serves(gen, waits) PROVE Serves(gen, waits)'
    BY <1>1, <2>2 DEF Serves, Events
  <2>3. \A c \in conts' : Downward(c.waits)' /\ Serves(c.gen, c.waits)'
    BY <2>1, <2>2 DEF Settling, ClaimsAre
  <2>4. ASSUME NEW q \in Readers
        PROVE  /\ Downward(reader[q].waits)'
               /\ reader'[q].pc \in Bootstraps => Serves(reader[q].gen, reader[q].waits)'
    <3>1. PICK gen, waits : gen = reader[q].gen /\ waits = reader[q].waits
      OBVIOUS
    <3>2. Downward(waits)' /\ (reader[q].pc \in Bootstraps => Serves(gen, waits)')
      BY <2>1, <2>2, <3>1 DEF Settling, ClaimsAre
    <3> QED
      BY <1>1, <3>1, <3>2 DEF Downward, Serves
  <2> QED
    BY <2>3, <2>4 DEF ClaimsAre, Readers, Bootstraps
<1>5. DeferredIs'
  <2>1. deferred' /\ hasSubscriber' => on # {} /\ Attended
    BY <1>1 DEF Settling, DeferredIs
  <2>2. on # {} /\ Attended => Attended'
    BY <1>1 DEF Attended, Readers, Bootstraps
  <2> QED
    BY <1>1, <2>1, <2>2 DEF Settling, DeferredIs
<1> QED
  BY <1>2, <1>3, <1>4, <1>5 DEF Settling

LEMMA StepSettling ==
    BoundsAssumption /\ Core /\ Settling /\ [Next]_vars => Settling'
<1> SUFFICES ASSUME BoundsAssumption, Core, Settling, [Next]_vars PROVE Settling'
  OBVIOUS
<1>1. ASSUME NEW r \in Readers, Bootstrap(r) PROVE Settling'
  <2>1. PICK replay : Closes(r, replay) /\ conts' = conts /\ reader[r].pc = "recheck"
    BY <1>1, CoreIsBefore, BootstrapEffect
  <2>2. PICK es \in Seq(Events) : ReplayStep(r, es, deferred)
    BY <1>1, CoreIsBefore, BootstrapEffect
  <2>3. deferred \in BOOLEAN
    BY DEF Core, Types, TransportTypes
  <2> QED
    BY <2>1, <2>2, <2>3, ClosesSettling
<1>2. ASSUME NEW c \in conts, Continue(c) PROVE Settling'
  <2>1. conts' = conts \ {c}
    BY <1>2, CoreIsBefore, ContinueEffect
  <2>2. CASE /\ on = {} \/ attachGen # c.gen
             /\ UNCHANGED <<generationVars, received, bufferVars, syncVars, runtimeVars,
                            earlyVars, readerVars, faultVars>>
    BY <2>1, <2>2, UnchangedSettling
  <2>3. ASSUME NEW replay, Closes(Nobody, replay), ContinuesWith(c) PROVE Settling'
    <3>1. PICK es \in Seq(Events), paused \in BOOLEAN : ReplayStep(Nobody, es, paused)
      BY <2>3 DEF ContinuesWith
    <3>2. Nobody \notin Readers
      BY DEF Nobody, Readers
    <3> QED
      BY <2>1, <2>3, <3>1, <3>2, ClosesSettling
  <2> QED
    BY <1>2, <2>2, <2>3, CoreIsBefore, ContinueEffect
<1>3. ASSUME Rests PROVE Settling'
  BY <1>3, UnchangedSettling DEF Rests
<1> QED
  BY <1>1, <1>2, <1>3, NextIs, GenerationSettling, TransportSettling, RequestMoves,
     RequestSettling

\* While the transport is paused somebody goes on with the bootstrap of the present
\* attachment, or it was abandoned: a request that waits for the fence or for the
\* second check, a sync in flight, or a task of continueEarlyEventBootstrap.  With
\* an event they all wait for every earlier one whose receipt is open.
THEOREM SettlingHolds == Spec => []Settling
<1>1. Init => Settling
  BY InitSettling, BoundsAssumption
<1>2. Core /\ Settling /\ [Next]_vars => Settling'
  BY StepSettling, BoundsAssumption
<1> QED
  BY <1>1, <1>2, CoreHolds, PTL DEF Spec

\* When nothing is left to do, the receipts that somebody awaits are settled: the
\* oldest open one has been published, and could be settled next.
LEMMA QuietIsSettled ==
    ASSUME BoundsAssumption, Core, Settling, Quiet,
           NEW W, W \subseteq Events, W \subseteq Awaited, Downward(W)
    PROVE  Settled(W)
<1> SUFFICES ASSUME NEW e \in W, receipt[e] = "open" PROVE FALSE
  BY DEF Settled
<1> DEFINE S == {d \in Events : receipt[d] = "open"}
<1>1. S \subseteq Nat /\ S # {} /\ e \in Events /\ Events \subseteq Nat
  BY FrameNumbers
<1>2. PICK d \in S : \A c \in S : d <= c
  BY <1>1, LeastOf
<1>3. d \in W
  <2>1. d <= e /\ d \in Nat /\ e \in Nat
    BY <1>1, <1>2
  <2>2. d = e \/ d < e
    BY <2>1
  <2> QED
    BY <1>2, <2>2 DEF Downward
<1>4. d \in Range(log)
  <2>1. conn = <<>> /\ log \in Seq(Frames)
    BY DEF Quiet, Core, Types, GenerationTypes
  <2>2. ~InConn(d)
    BY <2>1, Empty DEF InConn
  <2>3. InLog(d)
    BY <1>2, <2>2 DEF Core, Stream, EmittedAre, EmittedIs
  <2> QED
    BY <2>1, <2>3, InRange DEF InLog
<1>5. PICK c \in 1..(d - 1) : receipt[c] = "open"
  BY <1>2, <1>3, <1>4 DEF Quiet
<1>6. c \in S /\ c < d
  <2>1. d \in Events /\ d \in Nat
    BY <1>1, <1>2
  <2>2. c \in Events /\ c < d
    BY <2>1 DEF Events, BoundsAssumption
  <2> QED
    BY <1>5, <2>2
<1> QED
  BY <1>1, <1>2, <1>6

LEMMA QuietSettles == BoundsAssumption /\ Core /\ Settling => AttachmentsSettle
<1> SUFFICES ASSUME BoundsAssumption, Core, Settling, Quiet
             PROVE  /\ \A r \in Readers : reader[r].pc \in {"idle", "live", "failed", "gone"}
                    /\ deferred => attachGen \in abandoned
  BY DEF AttachmentsSettle
<1>1. syncs = <<>> /\ (\A c \in conts : ~Settled(c.waits)) /\ \A r \in Readers : Waiting(r)
  BY DEF Quiet
<1>2. ASSUME NEW r \in Readers PROVE reader[r].pc \in {"idle", "live", "failed", "gone"}
  <2>1. reader[r].pc \in Stages /\ reader[r].waits \subseteq Events
    BY DEF Core, Types, ReaderTypes, Requests
  <2>2. reader[r].pc \notin {"check", "ready", "reconciled", "ended"}
    BY <1>1 DEF Waiting
  <2>3. reader[r].pc # "sync"
    BY <1>1 DEF Core, SyncsBy
  <2>4. reader[r].pc # "fence"
    <3>1. reader[r].waits \subseteq Awaited
      BY DEF Awaited
    <3>2. Settled(reader[r].waits)
      BY <2>1, <3>1, QuietIsSettled DEF Settling, ClaimsAre
    <3> QED
      BY <1>1, <3>2 DEF Waiting
  <2>5. reader[r].pc # "recheck"
    <3>1. Range(buffered) \subseteq Awaited /\ Range(buffered) \subseteq Events
      BY DEF Awaited, Range, Core, Types, EarlyTypes
    <3>2. Downward(Range(buffered))
      BY BufferedIsDownward DEF Settling
    <3>3. Settled(Range(buffered))
      BY <3>1, <3>2, QuietIsSettled
    <3> QED
      BY <1>1, <3>3 DEF Waiting
  <2> QED
    BY <2>1, <2>2, <2>3, <2>4, <2>5 DEF Stages
<1>3. conts = {}
  <2> SUFFICES ASSUME NEW c \in conts PROVE FALSE
    OBVIOUS
  <2>1. c.waits \subseteq Events /\ c.waits \subseteq Awaited
    <3>1. c \in Tasks
      BY DEF Core, Types, EarlyTypes
    <3> DEFINE A == Range(buffered) \cup UNION {reader[r].waits : r \in Readers}
               C == {t.waits : t \in conts}
    <3>2. Awaited = A \cup UNION C
      BY DEF Awaited
    <3>3. c.waits \in C
      OBVIOUS
    <3> HIDE DEF A, C
    <3>4. c.waits \subseteq Awaited
      BY <3>2, <3>3
    <3> QED
      BY <3>1, <3>4 DEF Tasks
  <2>2. Settled(c.waits)
    BY <2>1, QuietIsSettled DEF Settling, ClaimsAre
  <2> QED
    BY <1>1, <2>2
<1>4. ASSUME deferred PROVE attachGen \in abandoned
  <2>1. hasSubscriber
    <3>1. on # {} /\ on \subseteq Readers
      BY <1>4 DEF Settling, DeferredIs, Core, Types, ReaderTypes
    <3> QED
      BY <1>2, <3>1 DEF Settling, RuntimeIs
  <2> QED
    BY <1>1, <1>2, <1>3, <1>4, <2>1 DEF Settling, DeferredIs, Attended, Bootstraps
<1> QED
  BY <1>2, <1>4

\* attachSubscription ends for every request, whoever leaves while the bootstrap of
\* another awaits the fence, a read or the sync, and deliveryDeferred does not stay
\* set, unless the bootstrap was abandoned by a read that throws.
THEOREM AttachmentsAreSettled == Spec => []AttachmentsSettle
<1>1. Core /\ Settling => AttachmentsSettle
  BY QuietSettles, BoundsAssumption
<1> QED
  BY <1>1, CoreHolds, SettlingHolds, PTL

(***************************************************************************)
(* The invariant Delivery: what a reader has been given is behind the      *)
(* frontier of the transport.                                              *)
(***************************************************************************)

\* The events that are handed to onChunk at most once; a 'created' is guarded.
Real == Events \ {Created}

Once(s) ==
    \A i, j \in 1..Len(s) : i < j /\ s[i] \in Real /\ s[j] \in Real =>
        s[i] # s[j] /\ (InLog(s[i]) /\ InLog(s[j]) => s[i] < s[j])

\* Whether e is published will not change any more.
Decided(e) == InLog(e) \/ receipt[e] = "failed"
Certain(s) == \A e \in Real : InSeq(e, s) => Decided(e)
Unlogged(s) == \A e \in Real : InSeq(e, s) => ~InLog(e)
\* What s has of the log has numbers below n.
Below(s, n) == \A e \in Real, k \in 1..Len(log) : InSeq(e, s) /\ log[k] = e => FirstSeq + k - 1 < n

\* The transport hands r no event again, and none after a later one: what r has
\* been given is behind the frontier.
Behind(r) ==
    /\ deferred \/ reader[r].replay # "open" => Once(Seen(r))
    /\ ~deferred /\ reader[r].replay # "open" => Below(Seen(r), nextSeq)
    /\ deferred /\ ~closed => \A e \in Real : ~InSeq(e, Seen(r))
    /\ deferred => Unlogged(Seen(r)) \/ (Replays /\ Below(Seen(r), Head(syncs).replay))

Given(r) == IF r \in on THEN Seen(r) ELSE reader[r].got

Delivery == \A r \in Readers :
    /\ Certain(Given(r))
    /\ r \notin on /\ reader[r].replay # "open" => Once(reader[r].got)
    /\ r \in on => Behind(r)

\* The log grows by what was undecided.
LogGrows ==
    /\ Len(log') >= Len(log) /\ \A k \in 1..Len(log) : log'[k] = log[k]
    /\ \A e \in Events : Decided(e) => Decided(e)' /\ (InLog(e)' <=> InLog(e))

LEMMA OnceConcat ==
    ASSUME NEW s \in Seq(Frames), NEW t \in Seq(Frames), Once(s), Once(t),
           \A d, e \in Real : InSeq(d, s) /\ InSeq(e, t) =>
               d # e /\ (InLog(d) /\ InLog(e) => d < e)
    PROVE  Once(s \o t)
<1>1. Len(s \o t) = Len(s) + Len(t) /\ Len(s) \in Nat /\ Len(t) \in Nat
      /\ (\A i \in 1..Len(s) : (s \o t)[i] = s[i])
      /\ \A i \in 1..(Len(s) + Len(t)) : i > Len(s) => (s \o t)[i] = t[i - Len(s)]
  OBVIOUS
<1>2. ASSUME NEW i \in 1..Len(s \o t), NEW j \in 1..Len(s \o t), i < j,
             (s \o t)[i] \in Real, (s \o t)[j] \in Real
      PROVE  /\ (s \o t)[i] # (s \o t)[j]
             /\ InLog((s \o t)[i]) /\ InLog((s \o t)[j]) => (s \o t)[i] < (s \o t)[j]
  <2>1. CASE j <= Len(s)
    <3>1. i \in 1..Len(s) /\ j \in 1..Len(s)
      BY <1>1, <1>2, <2>1
    <3> QED
      BY <1>1, <1>2, <3>1 DEF Once
  <2>2. CASE i > Len(s)
    <3>1. i - Len(s) \in 1..Len(t) /\ j - Len(s) \in 1..Len(t) /\ i - Len(s) < j - Len(s)
          /\ j > Len(s) /\ i \in 1..(Len(s) + Len(t)) /\ j \in 1..(Len(s) + Len(t))
      BY <1>1, <1>2, <2>2
    <3>2. (s \o t)[i] = t[i - Len(s)] /\ (s \o t)[j] = t[j - Len(s)]
      BY <1>1, <2>2, <3>1
    <3> QED
      BY <1>2, <3>1, <3>2 DEF Once
  <2>3. CASE ~(j <= Len(s)) /\ ~(i > Len(s))
    <3>1. i \in 1..Len(s) /\ j - Len(s) \in 1..Len(t) /\ j > Len(s) /\ j \in 1..(Len(s) + Len(t))
      BY <1>1, <1>2, <2>3
    <3>2. (s \o t)[i] = s[i] /\ (s \o t)[j] = t[j - Len(s)]
      BY <1>1, <3>1
    <3>3. InSeq(s[i], s) /\ InSeq(t[j - Len(s)], t)
      BY <3>1 DEF InSeq
    <3> QED
      BY <1>2, <3>2, <3>3
  <2> QED
    BY <2>1, <2>2, <2>3
<1> QED
  BY <1>2 DEF Once

LEMMA AscendsOnce ==
    ASSUME NEW s \in Seq(Frames), Ascends(s), BoundsAssumption
    PROVE  Once(s)
<1>1. \A i \in 1..Len(s) : s[i] \in Nat
  BY FrameNumbers
<1> QED
  BY <1>1 DEF Ascends, Once

\* Nothing changes for what is decided.
LEMMA OnceKept ==
    ASSUME NEW s \in Seq(Frames), LogGrows, Certain(s), FirstSeq \in Nat, Len(log) \in Nat
    PROVE  /\ Certain(s)'
           /\ Once(s) => Once(s)'
           /\ Unlogged(s) => Unlogged(s)'
<1>1. \A e \in Real : InSeq(e, s) => Decided(e)' /\ (InLog(e)' <=> InLog(e))
  BY DEF Certain, LogGrows, Real
<1>2. Certain(s)'
  BY <1>1 DEF Certain, InSeq, Real, Events, Created
<1>3. Once(s) => Once(s)'
  <2>1. \A i \in 1..Len(s) : s[i] \in Real => (InLog(s[i])' <=> InLog(s[i]))
    BY <1>1 DEF InSeq
  <2> QED
    BY <2>1 DEF Once, Real, Events, Created
<1>4. Unlogged(s) => Unlogged(s)'
  BY <1>1 DEF Unlogged, InSeq, Real, Events, Created
<1> QED
  BY <1>2, <1>3, <1>4

LEMMA BelowKept ==
    ASSUME NEW s \in Seq(Frames), LogGrows, Certain(s), Core, Core', NEW n, Below(s, n)
    PROVE  \A e \in Real, k \in 1..Len(log') : InSeq(e, s) /\ log'[k] = e => FirstSeq + k - 1 < n
<1>1. log \in Seq(Frames) /\ log' \in Seq(Frames) /\ Ascends(log') /\ Frames \subseteq Nat
  BY FrameNumbers, BoundsAssumption DEF Core, Types, GenerationTypes, Stream, Frames, Events, Done, Ascends
<1> SUFFICES ASSUME NEW e \in Real, NEW k \in 1..Len(log'), InSeq(e, s), log'[k] = e
             PROVE  FirstSeq + k - 1 < n
  OBVIOUS
<1>2. InLog(e)
  <2>1. InLog(e)'
    BY DEF InLog, InSeq
  <2> QED
    BY <2>1 DEF Certain, LogGrows, Real
<1>3. PICK i \in 1..Len(log) : log[i] = e
  BY <1>2 DEF InLog, InSeq
<1>4. log'[i] = e /\ i \in 1..Len(log')
  BY <1>1, <1>3 DEF LogGrows
<1>5. i = k
  <2>1. i \in Nat /\ k \in Nat
    BY <1>1
  <2>2. e \in Nat /\ ~(e < e)
    BY <1>1, FrameNumbers, BoundsAssumption DEF Real
  <2>3. ~(i < k) /\ ~(k < i)
    BY <1>1, <1>4, <2>2 DEF Ascends
  <2> QED
    BY <2>1, <2>3
<1> QED
  BY <1>3, <1>5 DEF Below

LEMMA GenerationGrows ==
    ASSUME BoundsAssumption, Core, GenerationStep
    PROVE  LogGrows
<1>1. \/ \E e \in Events : Emits(e) \/ Settles(e)
      \/ Pauses \/ Ends \/ (\E i \in 1..Len(syncs) : Reads(i)) \/ Drops \/ Publishes
  BY GenerationEffect DEF Core
<1>2. log \in Seq(Frames) /\ conn \in Seq(Commands) /\ Len(log) \in Nat
      /\ receipt \in [Events -> {"none", "open", "numbered", "failed"}]
      /\ Events \subseteq Nat /\ emitted \in Nat
  BY FrameNumbers DEF Core, Types, GenerationTypes
<1>3. \A e \in Events : receipt[e] = "failed" => ~InLog(e) /\ ~InConn(e)
  BY DEF Core, Stream, EmittedAre, EmittedIs
<1>4. ASSUME log' = log, \A e \in Events : Decided(e) => Decided(e)'
      PROVE  LogGrows
  BY <1>2, <1>4 DEF LogGrows, InLog, InSeq
<1>5. ASSUME log' = log, receipt' = receipt PROVE LogGrows
  BY <1>4, <1>5 DEF Decided, InLog, InSeq
<1>6. ASSUME NEW e \in Events, Emits(e) PROVE LogGrows
  <2>1. log' = log /\ e > emitted /\ (receipt' = receipt \/ receipt' = [receipt EXCEPT ![e] = "open"])
    BY <1>2, <1>6 DEF Emits
  <2>2. receipt[e] # "failed"
    BY <1>2, <2>1 DEF Core, Stream, EmittedAre, EmittedIs
  <2>3. \A d \in Events : Decided(d) => Decided(d)'
    BY <1>2, <2>1, <2>2 DEF Decided, InLog, InSeq
  <2> QED
    BY <1>4, <2>1, <2>3
<1>7. ASSUME NEW e \in Events, Settles(e) PROVE LogGrows
  <2>1. \A d \in Events : Decided(d) => Decided(d)'
    BY <1>2, <1>7 DEF Decided, InLog, InSeq, Settles
  <2> QED
    BY <1>4, <1>7, <2>1 DEF Settles
<1>8. ASSUME Drops PROVE LogGrows
  <2>1. \A d \in Events : Decided(d) => Decided(d)'
    BY <1>2, <1>8 DEF Decided, InLog, InSeq, Drops
  <2> QED
    BY <1>4, <1>8, <2>1 DEF Drops
<1>9. ASSUME Publishes PROVE LogGrows
  <2> DEFINE x == Head(conn)
  <2>1. x \in Frames /\ log' = Append(log, x) /\ receipt' = receipt /\ conn # <<>>
    BY <1>9 DEF Publishes, Shifts
  <2>2. ~InLog(x) /\ InConn(x)
    BY <1>2, <2>1, HeadIsNew DEF Core, Stream
  <2> HIDE DEF x
  <2>3. \A y : InSeq(y, log') <=> InLog(y) \/ y = x
    BY <1>2, <2>1, InAppend DEF InLog
  <2>4. \A e \in Events : Decided(e) => Decided(e)' /\ (InLog(e)' <=> InLog(e))
    BY <1>3, <2>1, <2>2, <2>3 DEF Decided, InLog
  <2>5. Len(log') >= Len(log) /\ \A k \in 1..Len(log) : log'[k] = log[k]
    BY <1>2, <2>1
  <2> QED
    BY <2>4, <2>5 DEF LogGrows
<1>10. Pauses \/ Ends \/ (\E i \in 1..Len(syncs) : Reads(i)) => log' = log /\ receipt' = receipt
  BY DEF Pauses, Ends, Reads
<1> QED
  BY <1>1, <1>5, <1>6, <1>7, <1>8, <1>9, <1>10

LEMMA GivenIs ==
    ASSUME Core, NEW r \in Readers
    PROVE  /\ reader[r].got \in Seq(Frames) /\ reader[r].queue \in Seq(Frames)
           /\ Seen(r) \in Seq(Frames) /\ Given(r) \in Seq(Frames)
           /\ Certain(reader[r].got) \/ ~Certain(Given(r))
<1>1. reader[r].got \in Seq(Frames) /\ reader[r].queue \in Seq(Frames)
  BY DEF Core, Types, ReaderTypes, Requests, Frames
<1>2. Seen(r) \in Seq(Frames) /\ Given(r) \in Seq(Frames)
  BY <1>1 DEF Seen, Given
<1>3. Certain(<<>>)
  BY Empty DEF Certain
<1>4. r \in on => Given(r) = reader[r].got \/ reader[r].got = <<>>
  BY DEF Core, Shapes, Shape, Seen, Given
<1> QED
  BY <1>1, <1>2, <1>3, <1>4 DEF Given

\* What a request has been given stays clean while others step.
LEMMA GenerationDelivery ==
    ASSUME BoundsAssumption, Core, Settling, Delivery, GenerationStep
    PROVE  Delivery'
<1>1. LogGrows /\ Core'
  BY GenerationGrows, GenerationCore
<1>2. /\ UNCHANGED <<on, reader, deferred, nextSeq>> /\ (closed => closed')
      /\ Replays => Replays' /\ Head(syncs).replay = Head(syncs').replay
  <2>1. Aside /\ (Keeps \/ Overflows \/ Buffers)
    BY GenerationMoves
  <2>2. closed => closed'
    BY <2>1 DEF Keeps, Overflows, Buffers, earlyVars
  <2>3. Replays => Replays' /\ Head(syncs).replay = Head(syncs').replay
    <3>1. \/ syncs' = syncs \/ (\E i \in 1..Len(syncs) : Reads(i))
      BY GenerationEffect DEF Core, Emits, Settles, Pauses, Ends, Drops, Publishes
    <3>2. ASSUME NEW i \in 1..Len(syncs), Reads(i)
          PROVE  syncs' # <<>> /\ Head(syncs').replay = Head(syncs).replay
      <4>1. syncs \in Seq(SyncCalls) /\ syncs' = [syncs EXCEPT ![i].val = Counter]
        BY <3>2 DEF Core, Types, SyncTypes, Reads
      <4>2. syncs' \in Seq(SyncCalls)
        BY <1>1 DEF Core, Types, SyncTypes, SyncCalls, Readers, Nobody, NoReplay, Unread
      <4>3. 1 \in 1..Len(syncs) /\ Len(syncs') = Len(syncs) /\ Head(syncs) = syncs[1]
            /\ Head(syncs') = syncs'[1] /\ syncs[1] \in SyncCalls
        BY <4>1, <4>2
      <4>4. syncs'[1].replay = syncs[1].replay
        BY <4>1, <4>3 DEF SyncCalls
      <4> QED
        BY <4>3, <4>4
    <3>3. Head(syncs).replay = Head(syncs').replay \/ ~Replays
      BY <3>1, <3>2
    <3> QED
      BY <3>1, <3>2, <3>3 DEF Replays, NoReplay
  <2> QED
    BY <2>1, <2>2, <2>3 DEF Aside, bufferVars, readerVars
<1> SUFFICES ASSUME NEW r \in Readers
             PROVE  /\ Certain(Given(r))'
                    /\ r \notin on' /\ reader'[r].replay # "open" => Once(reader[r].got)'
                    /\ r \in on' => Behind(r)'
  BY DEF Delivery, Readers
<1>3. PICK s, n, m, g, t : /\ s = Seen(r) /\ n = nextSeq /\ m = Head(syncs).replay
                          /\ g = Given(r) /\ t = reader[r].got
  OBVIOUS
<1>4. s \in Seq(Frames) /\ g \in Seq(Frames) /\ t \in Seq(Frames)
  BY <1>3, GivenIs
<1>5. Seen(r)' = s /\ nextSeq' = n /\ (Replays => Head(syncs').replay = m) /\ Given(r)' = g
      /\ reader'[r].got = t
  BY <1>2, <1>3 DEF Seen, Given
<1>6. Certain(g) /\ (Certain(s) \/ r \notin on) /\ Certain(t)
  <2>1. Certain(g)
    BY <1>3 DEF Delivery
  <2>2. r \in on => s = g
    BY <1>3 DEF Given
  <2>3. Certain(t)
    BY <1>3, <2>1, GivenIs
  <2> QED
    BY <2>1, <2>2, <2>3
<1>7. FirstSeq \in Nat /\ Len(log) \in Nat
  BY DEF BoundsAssumption, Core, Types, GenerationTypes
<1>8. Certain(g)'
  BY <1>1, <1>4, <1>6, <1>7, OnceKept
<1>9. r \notin on /\ reader[r].replay # "open" => Once(t)'
  BY <1>1, <1>3, <1>4, <1>6, <1>7, OnceKept DEF Delivery
<1>10. ASSUME r \in on PROVE Behind(r)'
  <2>1. Behind(r) /\ Certain(s)
    BY <1>6, <1>10 DEF Delivery
  <2>2. deferred \/ reader[r].replay # "open" => Once(s)'
    BY <1>1, <1>3, <1>4, <1>7, <2>1, OnceKept DEF Behind
  <2>3. ~deferred /\ reader[r].replay # "open" => Below(s, n)'
    <3>1. ASSUME Below(s, n) PROVE Below(s, n)'
      <4>1. \A e \in Real, k \in 1..Len(log') : InSeq(e, s) /\ log'[k] = e => FirstSeq + k - 1 < n
        BY <1>1, <1>4, <2>1, <3>1, BelowKept
      <4> QED
        BY <4>1 DEF Below, InSeq, Real, Events, Created
    <3> QED
      BY <1>3, <2>1, <3>1 DEF Behind
  <2>4. deferred /\ ~closed => \A e \in Real : ~InSeq(e, s)
    BY <1>3, <2>1 DEF Behind
  <2>5. deferred => Unlogged(s)' \/ (Replays' /\ Head(syncs').replay = m /\ Below(s, m)')
    <3>1. ASSUME Below(s, m) PROVE Below(s, m)'
      <4>1. \A e \in Real, k \in 1..Len(log') : InSeq(e, s) /\ log'[k] = e => FirstSeq + k - 1 < m
        BY <1>1, <1>4, <2>1, <3>1, BelowKept
      <4> QED
        BY <4>1 DEF Below, InSeq, Real, Events, Created
    <3>2. Unlogged(s) => Unlogged(s)'
      BY <1>1, <1>4, <1>7, <2>1, OnceKept
    <3> QED
      BY <1>2, <1>3, <1>5, <2>1, <3>1, <3>2 DEF Behind
  <2>6. reader'[r].replay = reader[r].replay /\ deferred' = deferred /\ (closed => closed')
    BY <1>2
  <2>7. (deferred \/ reader[r].replay # "open" => Once(Seen(r)))'
    BY <1>5, <2>2, <2>6 DEF Once
  <2>8. (~deferred /\ reader[r].replay # "open" => Below(Seen(r), nextSeq))'
    BY <1>5, <2>3, <2>6 DEF Below
  <2>9. (deferred /\ ~closed => \A e \in Real : ~InSeq(e, Seen(r)))'
    BY <1>5, <2>4, <2>6 DEF Real, Events, Created, InSeq
  <2>10. (deferred => Unlogged(Seen(r)) \/ (Replays /\ Below(Seen(r), Head(syncs).replay)))'
    BY <1>5, <2>5, <2>6 DEF Unlogged, Below
  <2> QED
    BY <2>7, <2>8, <2>9, <2>10 DEF Behind
<1> QED
  BY <1>2, <1>3, <1>5, <1>8, <1>9, <1>10 DEF Certain, Once

\* The log and what is decided stay the same.
SameLog == log' = log /\ receipt' = receipt

LEMMA SameLogKeeps ==
    ASSUME SameLog, NEW s
    PROVE  /\ Certain(s)' <=> Certain(s)
           /\ Once(s)' <=> Once(s)
           /\ Unlogged(s)' <=> Unlogged(s)
           /\ \A n : Below(s, n)' <=> Below(s, n)
<1>1. \A e : (InLog(e)' <=> InLog(e)) /\ (Decided(e)' <=> Decided(e))
  BY DEF SameLog, Decided, InLog, InSeq
<1>2. \A e : InSeq(e, s)' <=> InSeq(e, s)
  BY DEF InSeq
<1> QED
  BY <1>1, <1>2 DEF SameLog, Certain, Once, Unlogged, Below, Real, Events, Created

\* A flush hands a reader nothing it has, and only what comes later.
LEMMA FlushIsNew ==
    ASSUME BoundsAssumption, Core, Delivery, NEW pops, NEW P, NEW m \in Nat, NEW es \in Seq(Frames),
           Flushes(pops, P, m, es), P \subseteq Nat, NEW r \in Readers, r \in on,
           NEW s, s = Seen(r)
    PROVE  /\ Certain(s) /\ Certain(s \o es)
           /\ deferred \/ reader[r].replay # "open" =>
                 /\ Once(s) /\ Once(s \o es)
                 /\ Below(s, m) /\ Below(s \o es, m)
<1>1. s \in Seq(Frames) /\ log \in Seq(Frames) /\ FirstSeq \in Nat /\ Len(log) \in Nat
      /\ received \in Nat /\ Frames \subseteq Nat
  BY GivenIs, FrameNumbers DEF Core, Types, GenerationTypes, BoundsAssumption, TransportTypes
<1>2. Ascends(es) /\ \A x : InSeq(x, es) <=> \E q \in P : q < m /\ x = log[q - FirstSeq + 1]
  BY DEF Flushes, FlushStep, Flushed
<1>3. \A q \in P : /\ q \in Nat /\ FirstSeq <= q /\ q - FirstSeq + 1 \in 1..Len(log)
                   /\ (~deferred => nextSeq <= q)
                   /\ (deferred /\ Replays => Head(syncs).replay <= q)
  <2>1. TAKE q \in P
  <2>2. PICK k \in Nat : k = received' /\ k <= Len(log)
    BY <1>1 DEF Flushes
  <2>3. FirstSeq <= q /\ q < FirstSeq + k /\ q \in Nat
    BY <2>2 DEF Flushes
  <2>4. (~deferred => nextSeq <= q) /\ (pops /\ Replays => Head(syncs).replay <= q)
        /\ (deferred => pops)
    BY DEF Flushes
  <2>5. q - FirstSeq + 1 \in 1..Len(log)
    <3>1. PICK l \in Nat, f \in Nat : l = Len(log) /\ f = FirstSeq
      BY <1>1
    <3>2. f <= q /\ q < f + k /\ k <= l
      BY <2>2, <2>3, <3>1
    <3>3. q - f + 1 \in 1..l
      BY <2>3, <3>2
    <3> QED
      BY <3>1, <3>3
  <2> QED
    BY <2>3, <2>4, <2>5
<1>4. \A x : InSeq(x, es) => InLog(x)
  BY <1>2, <1>3 DEF InLog, InSeq
<1>5. Certain(s)
  BY DEF Delivery, Given
<1>6. Certain(s \o es)
  <2>1. \A x : InSeq(x, s \o es) <=> InSeq(x, s) \/ InSeq(x, es)
    BY <1>1, InConcat
  <2> QED
    BY <1>4, <1>5, <2>1 DEF Certain, Decided
<1>7. ASSUME deferred \/ reader[r].replay # "open"
      PROVE  Once(s) /\ Once(s \o es) /\ Below(s, m) /\ Below(s \o es, m)
  <2>1. Once(s)
    BY <1>7 DEF Delivery, Behind
  <2>2. Once(es)
    BY <1>2, AscendsOnce
  <2>3. PICK n : n = IF deferred THEN Head(syncs).replay ELSE nextSeq
    OBVIOUS
  <2>4. \/ Unlogged(s)
        \/ Below(s, n) /\ n \in Nat /\ n <= m /\ \A q \in P : n <= q
    <3>1. CASE ~deferred
      <4>1. Below(s, nextSeq) /\ nextSeq \in Nat /\ nextSeq <= m
        BY <1>7, <3>1, BoundsAssumption DEF Delivery, Behind, Flushes, Core, Types, TransportTypes,
           Counter
      <4> QED
        BY <1>3, <2>3, <3>1, <4>1
    <3>2. CASE deferred
      <4>1. Unlogged(s) \/ (Replays /\ Below(s, Head(syncs).replay))
        BY <3>2 DEF Delivery, Behind
      <4>2. pops
        BY <3>2 DEF Flushes
      <4>3. ASSUME Replays PROVE Head(syncs).replay \in Nat /\ Head(syncs).replay <= m
        <5>1. syncs \in Seq(SyncCalls) /\ syncs # <<>>
          BY <4>3 DEF Replays, Core, Types, SyncTypes
        <5>2. Head(syncs) \in SyncCalls
          BY <5>1
        <5> QED
          BY <4>2, <4>3, <5>2 DEF SyncCalls, NoReplay, BoundsAssumption, Flushes
      <4> QED
        BY <1>3, <2>3, <3>2, <4>1, <4>3
    <3> QED
      BY <3>1, <3>2
  <2>5. Below(s, m)
    <3>1. CASE Unlogged(s)
      BY <3>1 DEF Unlogged, Below, InLog, InSeq
    <3>2. CASE Below(s, n) /\ n \in Nat /\ n <= m
      <4>1. \A e \in Real, k \in 1..Len(log) : InSeq(e, s) /\ log[k] = e => FirstSeq + k - 1 < m
        BY <1>1, <3>2 DEF Below
      <4> QED
        BY <4>1 DEF Below
    <3> QED
      BY <2>4, <3>1, <3>2
  <2>6. ASSUME NEW e \in Real, NEW k \in 1..Len(log), InSeq(e, es), log[k] = e
        PROVE  \E q \in P : q < m /\ q = FirstSeq + k - 1
    <3>1. PICK q \in P : q < m /\ e = log[q - FirstSeq + 1]
      BY <1>2, <2>6
    <3>2. q - FirstSeq + 1 \in 1..Len(log) /\ q \in Nat
      BY <1>3
    <3>3. q - FirstSeq + 1 = k
      <4>1. e \in Nat /\ ~(e < e)
        BY FrameNumbers DEF Real
      <4>2. ~(q - FirstSeq + 1 < k) /\ ~(k < q - FirstSeq + 1)
        BY <2>6, <3>1, <3>2, <4>1 DEF Core, Stream, Ascends
      <4> QED
        BY <1>1, <3>2, <4>2
    <3> QED
      BY <1>1, <3>1, <3>2, <3>3
  <2>7. \A x : InSeq(x, s \o es) <=> InSeq(x, s) \/ InSeq(x, es)
    BY <1>1, InConcat
  <2>8. Below(s \o es, m)
    <3>1. \A e \in Real, k \in 1..Len(log) : InSeq(e, es) /\ log[k] = e => FirstSeq + k - 1 < m
      BY <2>6
    <3> QED
      BY <2>5, <2>7, <3>1 DEF Below
  <2>9. ASSUME NEW d \in Real, NEW e \in Real, InSeq(d, s), InSeq(e, es)
        PROVE  d # e /\ (InLog(d) /\ InLog(e) => d < e)
    <3>1. InLog(e)
      BY <1>4, <2>9
    <3>2. PICK i \in 1..Len(log) : log[i] = e
      BY <3>1 DEF InLog, InSeq
    <3>3. PICK q \in P : q = FirstSeq + i - 1
      BY <2>6, <2>9, <3>2
    <3>4. ASSUME NEW k \in 1..Len(log), log[k] = d PROVE d < e
      <4>1. Below(s, n) /\ n \in Nat /\ n <= q
        BY <2>4, <2>9, <3>4 DEF Unlogged, InLog, InSeq
      <4>2. FirstSeq + k - 1 < n
        BY <2>9, <3>4, <4>1 DEF Below
      <4>3. k < i
        BY <1>1, <3>3, <4>1, <4>2
      <4> QED
        BY <3>2, <3>4, <4>3 DEF Core, Stream, Ascends
    <3>5. d \in Nat /\ e \in Nat
      BY FrameNumbers DEF Real
    <3> QED
      BY <3>1, <3>4, <3>5 DEF InLog, InSeq
  <2> QED
    BY <1>1, <2>1, <2>2, <2>5, <2>8, <2>9, OnceConcat
<1> QED
  BY <1>5, <1>6, <1>7

LEMMA TransportDelivery ==
    ASSUME BoundsAssumption, Core, Settling, Delivery, TransportActions
    PROVE  Delivery'
<1>1. TransportStep /\ Carried
  BY TransportCore
<1>2. SameLog /\ closed' = closed
  BY <1>1 DEF TransportStep, generationVars, earlyVars, SameLog
<1> SUFFICES ASSUME NEW r \in Readers
             PROVE  /\ Certain(Given(r))'
                    /\ r \notin on' /\ reader'[r].replay # "open" => Once(reader[r].got)'
                    /\ r \in on' => Behind(r)'
  BY DEF Delivery, Readers
<1>3. PICK s, g, t, s1, g1, t1 : /\ s = Seen(r) /\ g = Given(r) /\ t = reader[r].got
                                 /\ s1 = Seen(r)' /\ g1 = Given(r)' /\ t1 = reader'[r].got
  OBVIOUS
<1>4. reader'[r].replay = reader[r].replay
  BY <1>1 DEF Carried
<1>5. \A x : /\ Certain(x)' <=> Certain(x) 
             /\ Once(x)' <=> Once(x)
             /\ Unlogged(x)' <=> Unlogged(x)
             /\ \A n : Below(x, n)' <=> Below(x, n)
  BY <1>2, SameLogKeeps
\* Primes apply to what has been given before.
<1>6. /\ Certain(Given(r))' <=> Certain(g1)
      /\ Once(reader[r].got)' <=> Once(t1)
      /\ Once(Seen(r))' <=> Once(s1)
      /\ Below(Seen(r), nextSeq)' <=> \E n : n = nextSeq' /\ Below(s1, n)
  <2>1. Certain(Given(r))' <=> Certain(g1)'
    BY <1>3 DEF Certain
  <2>2. Once(reader[r].got)' <=> Once(t1)'
    BY <1>3 DEF Once
  <2>3. Once(Seen(r))' <=> Once(s1)'
    BY <1>3 DEF Once
  <2>4. PICK n : n = nextSeq'
    OBVIOUS
  <2>5. Below(Seen(r), nextSeq)' <=> Below(s1, n)'
    BY <1>3, <2>4 DEF Below
  <2> QED
    BY <1>5, <2>1, <2>2, <2>3, <2>4, <2>5
<1>7. CASE Ignores \/ Holds \/ Skips
  <2>1. on' = on /\ nextSeq' = nextSeq /\ deferred' = deferred
        /\ (deferred => syncs' = syncs \/ on = {})
    BY <1>7 DEF Ignores, Holds, Skips, bufferVars, readerVars
  <2>2. reader' = reader \/ (reader' = Resumed /\ syncs # <<>>)
    BY <1>7 DEF Ignores, Holds, Skips, readerVars
  <2>3. reader'[r].got = reader[r].got /\ reader'[r].queue = reader[r].queue
        /\ (reader'[r].pc = "live" <=> reader[r].pc = "live")
    BY <2>2, ResumedIs DEF Core, Types, Likewise
  <2>4. s1 = s /\ g1 = g /\ t1 = t
    BY <1>3, <2>1, <2>3 DEF Seen, Given
  <2>5. ASSUME r \in on PROVE Behind(r)'
    <3>1. Behind(r)
      BY <2>5 DEF Delivery
    <3>2. (deferred \/ reader[r].replay # "open" => Once(Seen(r)))'
      BY <1>3, <1>4, <1>6, <2>1, <2>4, <3>1 DEF Behind
    <3>3. (~deferred /\ reader[r].replay # "open" => Below(Seen(r), nextSeq))'
      BY <1>3, <1>4, <1>6, <2>1, <2>4, <3>1 DEF Behind
    <3>4. (deferred /\ ~closed => \A e \in Real : ~InSeq(e, Seen(r)))'
      BY <1>2, <1>3, <2>1, <2>4, <3>1 DEF Behind, InSeq, Real, Events, Created
    <3>5. (deferred => Unlogged(Seen(r)) \/ (Replays /\ Below(Seen(r), Head(syncs).replay)))'
      <4>1. ASSUME deferred PROVE syncs' = syncs
        BY <2>1, <2>5, <4>1
      <4>2. Unlogged(s) => Unlogged(Seen(r))'
        <5>1. Unlogged(Seen(r))' <=> Unlogged(s)'
          BY <1>3, <2>4 DEF Unlogged
        <5> QED
          BY <1>5, <5>1
      <4>3. ASSUME syncs' = syncs, Below(s, Head(syncs).replay) PROVE Below(Seen(r), Head(syncs).replay)'
        <5>1. PICK n : n = Head(syncs).replay
          OBVIOUS
        <5>2. Below(s, n)'
          BY <1>5, <4>3, <5>1
        <5> QED
          BY <1>3, <2>4, <4>3, <5>1, <5>2 DEF Below
      <4>4. syncs' = syncs /\ Replays => Replays'
        BY DEF Replays, NoReplay
      <4> QED
        BY <1>3, <2>1, <3>1, <4>1, <4>2, <4>3, <4>4 DEF Behind
    <3> QED
      BY <3>2, <3>3, <3>4, <3>5 DEF Behind
  <2> QED
    BY <1>3, <1>4, <1>6, <2>1, <2>4, <2>5 DEF Delivery
<1>8. ASSUME NEW pops \in BOOLEAN, NEW P \in SUBSET Nat, NEW m \in Nat, NEW es \in Seq(Frames),
             Flushes(pops, P, m, es), Pops(pops)
      PROVE  /\ Certain(Given(r))'
             /\ r \notin on' /\ reader'[r].replay # "open" => Once(reader[r].got)'
             /\ r \in on' => Behind(r)'
  <2>1. /\ Handing(Woken(pops), on, es)
        /\ on' # {} => nextSeq' = m /\ deferred' = FALSE
    BY <1>8 DEF Flushes, FlushStep
  <2>2. CASE r \notin on
    <3>1. r \notin on' /\ t1 = t /\ g1 = g
      BY <1>1, <1>3, <2>2 DEF Carried, Given
    <3> QED
      BY <1>3, <1>4, <1>6, <2>2, <3>1 DEF Delivery
  <2>3. CASE r \in on
    <3>1. P \subseteq Nat
      OBVIOUS
    <3>2. /\ Certain(s) /\ Certain(s \o es)
          /\ deferred \/ reader[r].replay # "open" =>
                /\ Once(s) /\ Once(s \o es)
                /\ Below(s, m) /\ Below(s \o es, m)
      BY <1>3, <1>8, <2>3, <3>1, FlushIsNew
    <3>3. r \notin on' => g1 = s \o es /\ t1 = s \o es
      BY <1>3, <2>1, <2>3 DEF Handing, Given
    <3>4. r \in on' => s1 \in {s, s \o es} /\ g1 = s1
      BY <1>3, <2>1 DEF Handing, Given
    <3>5. ASSUME r \in on' PROVE Behind(r)'
      <4>1. deferred' = FALSE /\ nextSeq' = m
        BY <2>1, <3>5
      <4>2. (deferred \/ reader[r].replay # "open" => Once(Seen(r)))'
        BY <1>4, <1>6, <3>2, <3>4, <3>5, <4>1
      <4>3. (~deferred /\ reader[r].replay # "open" => Below(Seen(r), nextSeq))'
        BY <1>4, <1>6, <3>2, <3>4, <3>5, <4>1
      <4> QED
        BY <4>1, <4>2, <4>3 DEF Behind
    <3> QED
      BY <1>4, <1>6, <3>2, <3>3, <3>4, <3>5
  <2> QED
    BY <2>2, <2>3
<1> QED
  BY <1>1, <1>7, <1>8 DEF TransportStep

\* Only the real events of what a reader has been given count.
LEMMA SameReal ==
    ASSUME NEW s, NEW t, \A e \in Real : InSeq(e, s) <=> InSeq(e, t)
    PROVE  /\ Certain(s) <=> Certain(t)
           /\ Unlogged(s) <=> Unlogged(t)
           /\ \A n : Below(s, n) <=> Below(t, n)
BY DEF Certain, Unlogged, Below

LEMMA NothingReal ==
    ASSUME NEW s, \A e \in Real : ~InSeq(e, s)
    PROVE  Certain(s) /\ Unlogged(s) /\ (\A n : Below(s, n)) /\ Once(s)
<1>1. Certain(s) /\ Unlogged(s) /\ (\A n : Below(s, n))
  BY DEF Certain, Unlogged, Below
<1>2. Once(s)
  BY DEF Once, InSeq
<1> QED
  BY <1>1, <1>2

LEMMA DoneAdds ==
    ASSUME NEW s \in Seq(Frames), BoundsAssumption
    PROVE  /\ \A e \in Real : InSeq(e, s \o <<Done>>) <=> InSeq(e, s)
           /\ Once(s) => Once(s \o <<Done>>)
<1>1. Done \in Frames /\ Done \notin Real /\ <<Done>> \in Seq(Frames)
  BY FrameNumbers DEF Frames, Real
<1>2. \A x : InSeq(x, <<Done>>) => x = Done
  BY DEF InSeq
<1>3. \A e \in Real : ~InSeq(e, <<Done>>)
  BY <1>1, <1>2
<1>4. \A x : InSeq(x, s \o <<Done>>) <=> InSeq(x, s) \/ InSeq(x, <<Done>>)
  BY <1>1, InConcat
<1>5. Once(<<Done>>)
  BY <1>3, NothingReal
<1>6. Once(s) => Once(s \o <<Done>>)
  BY <1>1, <1>3, <1>5, OnceConcat
<1> QED
  BY <1>3, <1>4, <1>6

\* What has to hold of what r has been given for r to be behind afterwards.
LEMMA BehindThen ==
    ASSUME SameLog, NEW r \in Readers, NEW s, s = Seen(r)',
           NEW replay, replay = reader'[r].replay, NEW n, n = nextSeq', NEW m, m = Head(syncs').replay,
           deferred' \/ replay # "open" => Once(s),
           ~deferred' /\ replay # "open" => Below(s, n),
           deferred' /\ ~closed' => \A e \in Real : ~InSeq(e, s),
           deferred' => Unlogged(s) \/ (Replays' /\ Below(s, m))
    PROVE  Behind(r)'
<1>1. /\ Once(s)' <=> Once(s)
      /\ Unlogged(s)' <=> Unlogged(s)
      /\ \A k : Below(s, k)' <=> Below(s, k)
  BY SameLogKeeps
<1>2. (Once(Seen(r))' <=> Once(s)') /\ (Unlogged(Seen(r))' <=> Unlogged(s)')
  BY DEF Once, Unlogged
<1>3. (Below(Seen(r), nextSeq)' <=> Below(s, n)')
      /\ (Below(Seen(r), Head(syncs).replay)' <=> Below(s, m)')
  BY DEF Below
<1>4. (\A e \in Real : ~InSeq(e, Seen(r)))' <=> \A e \in Real : ~InSeq(e, s)
  BY DEF InSeq, Real, Events, Created
<1> QED
  BY <1>1, <1>2, <1>3, <1>4 DEF Behind

LEMMA DeliveredThen ==
    ASSUME SameLog,
           \A r \in Readers : \A g, t :
               /\ g = Given(r)' => Certain(g)
               /\ r \notin on' /\ reader'[r].replay # "open" /\ t = reader'[r].got => Once(t),
           \A r \in Readers : r \in on' => Behind(r)'
    PROVE  Delivery'
<1> SUFFICES ASSUME NEW r \in Readers
             PROVE  /\ Certain(Given(r))'
                    /\ r \notin on' /\ reader'[r].replay # "open" => Once(reader[r].got)'
                    /\ r \in on' => Behind(r)'
  BY DEF Delivery, Readers
<1>1. PICK g, t : g = Given(r)' /\ t = reader'[r].got
  OBVIOUS
<1>2. (Certain(Given(r))' <=> Certain(g)') /\ (Once(reader[r].got)' <=> Once(t)')
  BY <1>1 DEF Certain, Once
<1>3. (Certain(g)' <=> Certain(g)) /\ (Once(t)' <=> Once(t))
  BY SameLogKeeps
<1>4. Certain(g) /\ (r \notin on' /\ reader'[r].replay # "open" => Once(t))
  BY <1>1
<1> QED
  BY <1>2, <1>3, <1>4

\* Everything stays the same for r.
LEMMA BehindStays ==
    ASSUME SameLog, NEW r \in Readers, Behind(r), Seen(r)' = Seen(r),
           reader'[r].replay = reader[r].replay, UNCHANGED bufferVars, syncs' = syncs,
           closed => closed'
    PROVE  Behind(r)'
<1>1. PICK s, n, m : s = Seen(r) /\ n = nextSeq /\ m = Head(syncs).replay
  OBVIOUS
<1>2. s = Seen(r)' /\ n = nextSeq' /\ m = Head(syncs').replay /\ deferred' = deferred
  BY <1>1 DEF bufferVars
<1>3. Replays => Replays'
  BY DEF Replays, NoReplay
<1>4. /\ deferred \/ reader[r].replay # "open" => Once(s)
      /\ ~deferred /\ reader[r].replay # "open" => Below(s, n)
      /\ deferred /\ ~closed => \A e \in Real : ~InSeq(e, s)
      /\ deferred => Unlogged(s) \/ (Replays /\ Below(s, m))
  BY <1>1 DEF Behind
<1> QED
  BY <1>2, <1>3, <1>4, BehindThen

LEMMA RequestDelivery ==
    ASSUME BoundsAssumption, Core, Settling, Delivery, NEW r \in Readers, Moves(r)
    PROVE  Delivery'
<1>1. /\ \A q \in Readers : q # r => reader'[q] = reader[q] /\ (q \in on' <=> q \in on)
      /\ UNCHANGED <<generationVars, syncVars, earlyVars>> /\ on' \subseteq Readers
  BY DEF Moves, Alone
<1>2. SameLog /\ syncs' = syncs /\ closed' = closed
  BY <1>1 DEF SameLog, generationVars, syncVars, earlyVars
<1>3. Joins(r) \/ Takes(r) \/ Goes(r)
  BY DEF Moves
<1>4. on # {} /\ on' # {} => UNCHANGED bufferVars
  BY <1>3 DEF Joins, Takes, Goes, Stays
<1>5. r \in on' => r \in on \/ Joins(r)
  BY <1>3 DEF Takes, Goes, Stays
<1>6. \A q \in Readers : q # r => Seen(q)' = Seen(q) /\ Given(q)' = Given(q)
  BY <1>1 DEF Seen, Given
<1>7. ASSUME NEW q \in Readers, q \in on' PROVE Behind(q)'
  <2>1. CASE q # r
    <3>1. q \in on /\ Behind(q) /\ reader'[q] = reader[q] /\ Seen(q)' = Seen(q)
      BY <1>1, <1>6, <1>7, <2>1 DEF Delivery
    <3>2. UNCHANGED bufferVars
      BY <1>4, <1>7, <3>1
    <3> QED
      BY <1>2, <3>1, <3>2, BehindStays
  <2>2. CASE q = r /\ r \in on
    <3>1. UNCHANGED bufferVars /\ Behind(r)
      BY <1>4, <1>7, <2>2 DEF Delivery
    <3>2. /\ reader'[r].replay = reader[r].replay
          /\ Seen(r)' = Seen(r) \/ Seen(r)' = Seen(r) \o <<Done>>
      BY <1>7, <2>2 DEF Moves, Gains
    <3>3. CASE Seen(r)' = Seen(r)
      BY <1>2, <2>2, <3>1, <3>2, <3>3, BehindStays
    <3>4. CASE Seen(r)' = Seen(r) \o <<Done>>
      <4>1. PICK s, n, m : s = Seen(r) /\ n = nextSeq /\ m = Head(syncs).replay
        OBVIOUS
      <4>2. PICK t : t = s \o <<Done>>
        OBVIOUS
      <4>3. t = Seen(r)' /\ n = nextSeq' /\ m = Head(syncs').replay /\ deferred' = deferred
        BY <1>2, <3>1, <3>4, <4>1, <4>2 DEF bufferVars
      <4>4. Replays => Replays'
        BY <1>2 DEF Replays, NoReplay
      <4>5. /\ deferred \/ reader[r].replay # "open" => Once(s)
            /\ ~deferred /\ reader[r].replay # "open" => Below(s, n)
            /\ deferred /\ ~closed => \A e \in Real : ~InSeq(e, s)
            /\ deferred => Unlogged(s) \/ (Replays /\ Below(s, m))
        BY <3>1, <4>1 DEF Behind
      <4>6. s \in Seq(Frames)
        BY <4>1, GivenIs
      <4>7. (\A e \in Real : InSeq(e, t) <=> InSeq(e, s)) /\ (Once(s) => Once(t))
        BY <4>2, <4>6, DoneAdds
      <4>8. (Unlogged(t) <=> Unlogged(s)) /\ \A k : Below(t, k) <=> Below(s, k)
        BY <4>7, SameReal
      <4> QED
        BY <1>2, <2>2, <3>2, <4>3, <4>4, <4>5, <4>7, <4>8, BehindThen
    <3> QED
      BY <3>2, <3>3, <3>4
  <2>3. CASE q = r /\ r \notin on
    <3>1. reader'[r].pc = "check" /\ reader'[r].queue = <<>>
      BY <1>5, <1>7, <2>3 DEF Joins
    <3>2. Seen(r)' = <<>>
      BY <3>1 DEF Seen
    <3>3. PICK s, replay, n, m : s = <<>> /\ replay = reader'[r].replay /\ n = nextSeq'
                                /\ m = Head(syncs').replay
      OBVIOUS
    <3>4. \A e \in Real : ~InSeq(e, s)
      BY <3>3, Empty
    <3>5. Unlogged(s) /\ Below(s, n) /\ Once(s)
      BY <3>4, NothingReal
    <3> QED
      BY <1>2, <2>3, <3>2, <3>3, <3>4, <3>5, BehindThen
  <2> QED
    BY <2>1, <2>2, <2>3
<1>8. ASSUME NEW q \in Readers, NEW g, g = Given(q)' PROVE Certain(g)
  <2>1. CASE q # r
    BY <1>6, <1>8, <2>1 DEF Delivery
  <2>2. CASE q = r /\ r \in on' /\ r \in on
    <3>1. g = Seen(r) \/ g = Seen(r) \o <<Done>>
      BY <1>8, <2>2 DEF Moves, Gains, Given
    <3>2. Certain(Seen(r)) /\ Seen(r) \in Seq(Frames)
      BY <2>2, GivenIs DEF Delivery, Given
    <3>3. Certain(Seen(r) \o <<Done>>)
      BY <3>2, DoneAdds, SameReal
    <3> QED
      BY <3>1, <3>2, <3>3
  <2>3. CASE q = r /\ r \in on' /\ r \notin on
    <3>1. g = <<>>
      BY <1>5, <1>8, <2>3 DEF Joins, Given, Seen
    <3> QED
      BY <3>1, Empty, NothingReal
  <2>4. CASE q = r /\ r \notin on'
    <3>1. g = reader'[r].got
      BY <1>8, <2>4 DEF Given
    <3>2. \/ g = <<>> \/ g = reader[r].got
          \/ r \in on /\ (g = Seen(r) \/ g = Seen(r) \o <<Done>>)
      BY <2>4, <3>1 DEF Moves, Gains
    <3>3. Certain(reader[r].got)
      BY GivenIs DEF Delivery
    <3>4. ASSUME r \in on PROVE Certain(Seen(r)) /\ Certain(Seen(r) \o <<Done>>)
      <4>1. Certain(Seen(r)) /\ Seen(r) \in Seq(Frames)
        BY <3>4, GivenIs DEF Delivery, Given
      <4> QED
        BY <4>1, DoneAdds, SameReal
    <3>5. Certain(<<>>)
      BY Empty, NothingReal
    <3> QED
      BY <3>2, <3>3, <3>4, <3>5
  <2> QED
    BY <2>1, <2>2, <2>3, <2>4
<1>9. ASSUME NEW q \in Readers, NEW t, q \notin on', reader'[q].replay # "open", t = reader'[q].got
      PROVE  Once(t)
  <2>1. CASE q # r
    <3>1. q \notin on /\ reader[q].replay # "open" /\ t = reader[q].got
      BY <1>1, <1>9, <2>1
    <3> QED
      BY <3>1 DEF Delivery
  <2>2. CASE q = r
    <3>1. \/ t = <<>>
          \/ /\ reader[r].replay # "open"
             /\ t = reader[r].got \/ (r \in on /\ (t = Seen(r) \/ t = Seen(r) \o <<Done>>))
      BY <1>9, <2>2 DEF Moves, Gains
    <3>2. Once(<<>>)
      BY Empty, NothingReal
    <3>3. ASSUME r \in on, reader[r].replay # "open"
          PROVE  Once(Seen(r)) /\ Once(Seen(r) \o <<Done>>) /\ Once(reader[r].got)
      <4>1. Once(Seen(r)) /\ Seen(r) \in Seq(Frames)
        BY <3>3, GivenIs DEF Delivery, Behind
      <4>2. Once(Seen(r) \o <<Done>>)
        BY <4>1, DoneAdds
      <4>3. reader[r].got = Seen(r) \/ reader[r].got = <<>>
        BY <3>3 DEF Core, Shapes, Shape, Seen
      <4> QED
        BY <3>2, <4>1, <4>2, <4>3
    <3>4. r \notin on /\ reader[r].replay # "open" => Once(reader[r].got)
      BY DEF Delivery
    <3> QED
      BY <3>1, <3>2, <3>3, <3>4
  <2> QED
    BY <2>1, <2>2
<1> QED
  BY <1>2, <1>7, <1>8, <1>9, DeliveredThen

\* What a bootstrap may replay, and the frontier that it may establish.
Offers(es, replay) ==
    /\ es \in Seq(Events) /\ Ascends(es)
    /\ \A e \in Real : InSeq(e, es) => InSeq(e, buffered) /\ receipt[e] # "open"
    /\ Unlogged(es) \/ (replay # NoReplay /\ Below(es, replay))

\* Of what is replayed, what is settled is published or has failed.
LEMMA OffersCertain ==
    ASSUME BoundsAssumption, Core, EarlyIs, NEW es, NEW replay, Offers(es, replay)
    PROVE  Certain(es)
<1> SUFFICES ASSUME NEW e \in Real, InSeq(e, es) PROVE Decided(e)
  BY DEF Certain
<1>1. e \in Events /\ InSeq(e, buffered) /\ receipt[e] # "open"
  BY DEF Offers, Real
<1>2. receipt[e] # "none"
  BY <1>1 DEF EarlyIs
<1>3. receipt[e] \in {"none", "open", "numbered", "failed"}
  BY <1>1 DEF Core, Types, GenerationTypes
<1>4. receipt[e] = "numbered" => InLog(e)
  BY <1>1 DEF Core, Stream, EmittedAre, EmittedIs
<1> QED
  BY <1>1, <1>2, <1>3, <1>4 DEF Decided

\* The whole buffer, and one past its last number.
LEMMA BufferOffers ==
    ASSUME BoundsAssumption, Core, EarlyIs, Settled(Range(buffered))
    PROVE  Offers(buffered, ReplayedNextSeq)
<1>1. /\ buffered \in Seq(Events) /\ Ascends(buffered) /\ log \in Seq(Frames) /\ Ascends(log)
      /\ FirstSeq \in Nat /\ Len(log) \in Nat /\ Len(log) <= Done
      /\ receipt \in [Events -> {"none", "open", "numbered", "failed"}]
  BY DEF Core, Types, EarlyTypes, EarlyIs, GenerationTypes, Stream, LogLong, BoundsAssumption
<1>2. \A e \in Events : InSeq(e, buffered) => receipt[e] # "open"
  BY <1>1, InRange DEF Settled
<1>3. \A e \in Events : InSeq(e, buffered) /\ InLog(e) => receipt[e] = "numbered"
  BY <1>1, <1>2 DEF EarlyIs, Core, Stream, EmittedAre, EmittedIs
<1>4. ASSUME NEW e \in Real, NEW k \in 1..Len(log), InSeq(e, buffered), log[k] = e
      PROVE  k \in Numbered
  BY <1>3, <1>4 DEF Numbered, Real, InLog, InSeq
<1>5. FrontierIs(ReplayedNextSeq)
  BY ReplayedNextSeqIs DEF Core, Types
<1>6. CASE Numbered = {}
  <2>1. Unlogged(buffered)
    BY <1>4, <1>6 DEF Unlogged, InLog, InSeq
  <2> QED
    BY <1>1, <1>2, <2>1 DEF Offers, Real
<1>7. ASSUME NEW i \in Numbered, ReplayedNextSeq = FirstSeq + i, \A k \in Numbered : k <= i
      PROVE  Offers(buffered, ReplayedNextSeq)
  <2>1. i \in 1..Len(log)
    BY DEF Numbered
  <2>2. ReplayedNextSeq # NoReplay
    BY <1>1, <1>7, <2>1, BoundsAssumption DEF NoReplay, Done, BoundsAssumption
  <2>3. ASSUME NEW e \in Real, NEW k \in 1..Len(log), InSeq(e, buffered), log[k] = e
        PROVE  FirstSeq + k - 1 < ReplayedNextSeq
    <3>1. k <= i
      BY <1>4, <1>7, <2>3
    <3> QED
      BY <1>1, <1>7, <2>1, <3>1
  <2>4. Below(buffered, ReplayedNextSeq)
    BY <2>3 DEF Below
  <2> QED
    BY <1>1, <1>2, <2>2, <2>4 DEF Offers, Real
<1> QED
  BY <1>5, <1>6, <1>7 DEF FrontierIs

LEMMA FallbackOffers ==
    ASSUME BoundsAssumption, NEW es \in {<<>>, <<Created>>}, NEW replay
    PROVE  Offers(es, replay) /\ \A e \in Real : ~InSeq(e, es)
<1>1. es \in Seq(Events)
  <2>1. Created \in Events
    BY BoundsAssumption DEF Events, Created, BoundsAssumption
  <2>2. <<>> \in Seq(Events) /\ <<Created>> \in Seq(Events)
    BY <2>1
  <2> QED
    BY <2>2
<1>2. \A i, j \in 1..Len(es) : ~(i < j)
  <2>1. PICK n \in {0, 1} : n = Len(es)
    OBVIOUS
  <2>2. \A i, j \in 1..n : ~(i < j)
    OBVIOUS
  <2> QED
    BY <2>1, <2>2
<1>3. \A e \in Real : ~InSeq(e, es)
  BY DEF InSeq, Real
<1> QED
  BY <1>1, <1>2, <1>3, NothingReal DEF Offers, Ascends

\* Without a pause, what has no number has failed.
LEMMA UnpublishedOffers ==
    ASSUME BoundsAssumption, Core, Settled(Range(buffered)), NEW es \in Seq(Events), Ascends(es),
           \A x : InSeq(x, es) <=> InSeq(x, buffered) /\ receipt[x] # "numbered", NEW replay
    PROVE  EarlyIs => Offers(es, replay)
<1> SUFFICES ASSUME EarlyIs PROVE Offers(es, replay)
  OBVIOUS
<1>1. buffered \in Seq(Events) /\ receipt \in [Events -> {"none", "open", "numbered", "failed"}]
  BY DEF Core, Types, EarlyTypes, GenerationTypes
<1>2. \A e \in Events : InSeq(e, es) => InSeq(e, buffered) /\ receipt[e] # "open"
  BY <1>1, InRange DEF Settled
<1>3. \A e \in Events : InSeq(e, es) => ~InLog(e)
  BY <1>1, <1>2 DEF EarlyIs, Core, Stream, EmittedAre, EmittedIs
<1> QED
  BY <1>2, <1>3 DEF Offers, Unlogged, Real

LEMMA ClosesDelivery ==
    ASSUME BoundsAssumption, Core, Settling, Delivery, NEW r \in Readers \cup {Nobody},
           NEW es \in Seq(Events), NEW paused \in BOOLEAN, ReplayStep(r, es, paused),
           NEW replay, Closes(r, replay), paused => deferred,
           Early # {} => Offers(es, replay),
           r \in Readers => reader[r].pc = "recheck"
    PROVE  Delivery'
<1>1. /\ closed' = TRUE /\ on' = on /\ EarlyIs
      /\ syncs' = Append(syncs, [by |-> r, replay |-> replay, val |-> Unread])
      /\ syncs \in Seq(SyncCalls) /\ deferred \in BOOLEAN
  BY DEF Closes, ReplayStep, Settling, Core, Types, SyncTypes, TransportTypes
<1>2. SameLog
  BY DEF Closes, SameLog
<1>3. on # {} => nextSeq' = nextSeq /\ deferred' = deferred
  BY DEF ReplayStep, bufferVars
<1>4. Replays => Replays' /\ Head(syncs').replay = Head(syncs).replay
  <2>1. syncs # <<>> => Head(syncs') = Head(syncs) /\ syncs' # <<>>
    BY <1>1
  <2> QED
    BY <2>1 DEF Replays, NoReplay
<1>5. syncs = <<>> /\ replay # NoReplay => Replays' /\ Head(syncs').replay = replay
  <2>1. syncs = <<>> => Head(syncs') = [by |-> r, replay |-> replay, val |-> Unread] /\ syncs' # <<>>
    BY <1>1
  <2> QED
    BY <2>1 DEF Replays, NoReplay
<1>6. \A q \in Readers : reader'[q].replay = IF q \in Early THEN Kind(paused) ELSE reader[q].replay
  BY DEF ReplayStep
<1>7. Kind(paused) # "open" => paused
  BY DEF Kind
<1>8. \A q \in on : /\ Hears(Early, q) => Seen(q)' = Seen(q) \o es
                    /\ ~Hears(Early, q) => Seen(q)' = Seen(q)
  BY DEF ReplayStep, Core, Types, ReaderTypes
<1>9. ASSUME NEW q \in Readers, q \in on, Seen(q)' = Seen(q)
      PROVE  Behind(q)' /\ Certain(Seen(q))
  <2>1. Behind(q) /\ Certain(Seen(q))
    BY <1>9 DEF Delivery, Given
  <2>2. PICK s, p, n, m, k : s = Seen(q) /\ p = reader'[q].replay /\ n = nextSeq
                             /\ m = Head(syncs).replay /\ k = Head(syncs').replay
    OBVIOUS
  <2>3. s = Seen(q)' /\ n = nextSeq' /\ deferred' = deferred
    BY <1>3, <1>9, <2>2
  <2>4. p # "open" => deferred \/ (p = reader[q].replay)
    BY <1>6, <1>7, <2>2
  <2>5. deferred \/ p # "open" => Once(s)
    BY <2>1, <2>2, <2>4 DEF Behind
  <2>6. ~deferred /\ p # "open" => Below(s, n)
    BY <2>1, <2>2, <2>4 DEF Behind
  <2>7. deferred => Unlogged(s) \/ (Replays' /\ Below(s, k))
    BY <1>4, <2>1, <2>2 DEF Behind
  <2>8. Behind(q)'
    BY <1>1, <1>2, <2>2, <2>3, <2>5, <2>6, <2>7, BehindThen
  <2> QED
    BY <2>1, <2>8
<1>10. ASSUME NEW q \in Readers, q \in on, Hears(Early, q)
       PROVE  Behind(q)' /\ \A s : s = Seen(q)' => Certain(s)
  <2>1. q \in Early /\ Behind(q) /\ Certain(Seen(q))
    BY <1>10 DEF Delivery, Given, Hears
  <2>2. PICK s, t, p, n, m, k : s = Seen(q) /\ t = Seen(q)' /\ p = reader'[q].replay /\ n = nextSeq
                             /\ m = Head(syncs).replay /\ k = Head(syncs').replay
    OBVIOUS
  <2>3. t = s \o es /\ n = nextSeq' /\ deferred' = deferred /\ s \in Seq(Frames)
    BY <1>3, <1>8, <1>10, <2>2, GivenIs
  <2>4. Offers(es, replay)
    BY <2>1
  <2>5. es \in Seq(Frames)
    BY DEF Frames
  <2>6. \A x : InSeq(x, t) <=> InSeq(x, s) \/ InSeq(x, es)
    BY <2>3, <2>5, InConcat
  <2>7. Certain(t)
    <3>1. Certain(es)
      BY <1>1, <2>4, OffersCertain
    <3> QED
      BY <2>1, <2>2, <2>6, <3>1 DEF Certain
  <2>8. p # "open" => deferred
    BY <1>6, <1>7, <2>1, <2>2
  <2>9. ASSUME deferred PROVE Once(t) /\ (Unlogged(t) \/ (Replays' /\ Below(t, k)))
    <3>1. Once(s) /\ Once(es)
      BY <2>1, <2>2, <2>4, <2>5, <2>9, AscendsOnce DEF Behind, Offers
    <3>2. Unlogged(s) \/ (Replays /\ Below(s, m))
      BY <2>1, <2>2, <2>9 DEF Behind
    <3>3. CASE \A e \in Real : ~InSeq(e, es)
      <4>1. Once(t)
        BY <2>3, <2>5, <3>1, <3>3, OnceConcat
      <4>2. (Unlogged(t) <=> Unlogged(s)) /\ \A j : Below(t, j) <=> Below(s, j)
        BY <2>6, <3>3, SameReal
      <4> QED
        BY <1>4, <2>2, <3>2, <4>1, <4>2
    <3>4. ASSUME NEW e \in Real, InSeq(e, es) PROVE Once(t) /\ (Unlogged(t) \/ (Replays' /\ Below(t, k)))
      <4>1. InSeq(e, buffered)
        BY <2>4, <3>4 DEF Offers
      <4>2. ~closed /\ syncs = <<>>
        BY <1>1, <4>1, Empty DEF EarlyIs
      <4>3. \A d \in Real : ~InSeq(d, s)
        BY <2>1, <2>2, <2>9, <4>2 DEF Behind
      <4>4. Once(t)
        BY <2>3, <2>5, <3>1, <4>3, OnceConcat
      <4>5. (Unlogged(t) <=> Unlogged(es)) /\ \A j : Below(t, j) <=> Below(es, j)
        BY <2>6, <4>3, SameReal
      <4>6. Unlogged(es) \/ (Replays' /\ k = replay /\ Below(es, replay))
        BY <1>5, <2>2, <2>4, <4>2 DEF Offers
      <4> QED
        BY <4>4, <4>5, <4>6
    <3> QED
      BY <3>3, <3>4
  <2>10. Behind(q)'
    BY <1>1, <1>2, <2>2, <2>3, <2>8, <2>9, BehindThen
  <2> QED
    BY <2>2, <2>7, <2>10
<1>11. ASSUME NEW q \in Readers, q \in on' PROVE Behind(q)'
  BY <1>1, <1>8, <1>9, <1>10, <1>11
<1>12. ASSUME NEW q \in Readers, NEW g, g = Given(q)' PROVE Certain(g)
  <2>1. CASE q \in on
    <3>1. g = Seen(q)'
      BY <1>1, <1>12, <2>1 DEF Given
    <3> QED
      BY <1>8, <1>9, <1>10, <2>1, <3>1
  <2>2. CASE q \notin on
    <3>1. g = reader[q].got
      BY <1>1, <1>12, <2>2 DEF Given, ReplayStep
    <3> QED
      BY <2>2, <3>1 DEF Delivery, Given
  <2> QED
    BY <2>1, <2>2
<1>13. ASSUME NEW q \in Readers, NEW t, q \notin on', reader'[q].replay # "open", t = reader'[q].got
       PROVE  Once(t)
  <2>1. q \notin on /\ q \notin Early
    BY <1>1, <1>13 DEF Early
  <2>2. t = reader[q].got /\ reader[q].replay # "open"
    BY <1>6, <1>13, <2>1 DEF ReplayStep
  <2> QED
    BY <2>1, <2>2 DEF Delivery
<1> QED
  BY <1>2, <1>11, <1>12, <1>13, DeliveredThen

(***************************************************************************)
(* onChunk is called once.                                                 *)
(***************************************************************************)

LEMMA UnchangedDelivery ==
    ASSUME Delivery,
           UNCHANGED <<generationVars, received, bufferVars, syncVars, runtimeVars, earlyVars,
                       readerVars, faultVars>>
    PROVE  Delivery'
<1>1. /\ SameLog /\ syncs' = syncs /\ closed' = closed /\ on' = on /\ reader' = reader
      /\ UNCHANGED bufferVars
  BY DEF SameLog, generationVars, syncVars, earlyVars, readerVars
<1>2. \A r \in Readers : Seen(r)' = Seen(r) /\ Given(r)' = Given(r)
  BY <1>1 DEF Seen, Given
<1>3. ASSUME NEW r \in Readers, r \in on' PROVE Behind(r)'
  <2>1. Behind(r) /\ reader'[r].replay = reader[r].replay
    BY <1>1, <1>3 DEF Delivery
  <2> QED
    BY <1>1, <1>2, <2>1, BehindStays
<1>4. ASSUME NEW r \in Readers, NEW g, g = Given(r)' PROVE Certain(g)
  BY <1>2, <1>4 DEF Delivery
<1>5. ASSUME NEW r \in Readers, NEW t, r \notin on', reader'[r].replay # "open", t = reader'[r].got
      PROVE  Once(t)
  BY <1>1, <1>5 DEF Delivery
<1> QED
  BY <1>1, <1>3, <1>4, <1>5, DeliveredThen

LEMMA InitDelivery == Init => Delivery
<1> SUFFICES ASSUME Init, NEW r \in Readers
             PROVE  /\ Certain(Given(r))
                    /\ r \notin on /\ reader[r].replay # "open" => Once(reader[r].got)
                    /\ r \in on => Behind(r)
  BY DEF Delivery
<1>1. r \notin on /\ reader[r].got = <<>> /\ Given(r) = <<>>
  BY DEF Init, Fresh, Given
<1> QED
  BY <1>1, Empty, NothingReal

\* A bootstrap, its continuation included, awaits what it replays.
LEMMA StepDelivery ==
    BoundsAssumption /\ Core /\ Settling /\ Delivery /\ [Next]_vars => Delivery'
<1> SUFFICES ASSUME BoundsAssumption, Core, Settling, Delivery, [Next]_vars PROVE Delivery'
  OBVIOUS
<1>1. EarlyIs /\ Before
  BY CoreIsBefore DEF Settling
<1>2. ASSUME NEW r \in Readers, Bootstrap(r) PROVE Delivery'
  <2>1. /\ Closes(r, IF Early = {} THEN NoReplay ELSE ReplayedNextSeq)
        /\ reader[r].pc = "recheck" /\ (Early # {} => Settled(Range(buffered)))
    BY <1>1, <1>2, BootstrapEffect
  <2>2. PICK es \in Seq(Events) :
           /\ ReplayStep(r, es, deferred)
           /\ buffered # <<>> => es = buffered
           /\ buffered = <<>> => es \in {<<>>, <<Created>>}
    BY <1>1, <1>2, BootstrapEffect
  <2>3. PICK replay : replay = IF Early = {} THEN NoReplay ELSE ReplayedNextSeq
    OBVIOUS
  <2>4. ASSUME Early # {} PROVE Offers(es, replay)
    <3>1. CASE buffered = <<>>
      BY <2>2, <3>1, FallbackOffers
    <3>2. CASE buffered # <<>>
      BY <1>1, <2>1, <2>2, <2>3, <2>4, <3>2, BufferOffers
    <3> QED
      BY <3>1, <3>2
  <2>5. deferred \in BOOLEAN /\ Closes(r, replay)
    BY <2>1, <2>3 DEF Core, Types, TransportTypes
  <2> QED
    BY <2>1, <2>2, <2>4, <2>5, ClosesDelivery
<1>3. ASSUME NEW c \in conts, Continue(c) PROVE Delivery'
  <2>1. Settled(c.waits) /\ conts' = conts \ {c}
    BY <1>1, <1>3, ContinueEffect
  <2>2. CASE /\ on = {} \/ attachGen # c.gen
             /\ UNCHANGED <<generationVars, received, bufferVars, syncVars, runtimeVars,
                            earlyVars, readerVars, faultVars>>
    BY <2>2, UnchangedDelivery
  <2>3. ASSUME NEW replay, replay = (IF c.defer /\ Early # {} THEN ReplayedNextSeq ELSE NoReplay),
               attachGen = c.gen, Closes(Nobody, replay), ContinuesWith(c)
        PROVE  Delivery'
    <3>1. PICK es \in Seq(Events), paused \in BOOLEAN :
             /\ paused = (deferred /\ c.defer)
             /\ ReplayStep(Nobody, es, paused)
             /\ \/ buffered = <<>> /\ es \in {<<>>, <<Created>>}
                \/ buffered # <<>> /\ c.defer /\ es = buffered
                \/ buffered # <<>> /\ ~c.defer /\ Ascends(es)
                   /\ \A x : InSeq(x, es) <=> InSeq(x, buffered) /\ receipt[x] # "numbered"
      BY <2>3 DEF ContinuesWith
    <3>2. Settled(Range(buffered))
      <4>1. \A e \in Events : InSeq(e, buffered) => e \in c.waits
        BY <2>3 DEF Settling, ClaimsAre, Serves
      <4>2. buffered \in Seq(Events)
        BY DEF Core, Types, EarlyTypes
      <4>3. \A e \in Range(buffered) : e \in Events /\ InSeq(e, buffered)
        BY <4>2, InRange DEF InSeq
      <4> QED
        BY <2>1, <4>1, <4>3 DEF Settled
    <3>3. ASSUME Early # {} PROVE Offers(es, replay)
      <4>1. CASE buffered = <<>> /\ es \in {<<>>, <<Created>>}
        BY <4>1, FallbackOffers
      <4>2. CASE c.defer /\ es = buffered
        BY <1>1, <2>3, <3>2, <3>3, <4>2, BufferOffers
      <4>3. CASE Ascends(es) /\ \A x : InSeq(x, es) <=> InSeq(x, buffered) /\ receipt[x] # "numbered"
        BY <1>1, <3>2, <4>3, UnpublishedOffers
      <4> QED
        BY <3>1, <4>1, <4>2, <4>3
    <3>4. paused => deferred
      BY <3>1
    <3>5. Nobody \notin Readers
      BY DEF Nobody, Readers
    <3> QED
      BY <2>3, <3>1, <3>3, <3>4, <3>5, ClosesDelivery
  <2> QED
    BY <1>1, <1>3, <2>2, <2>3, ContinueEffect
<1>4. ASSUME NEW r \in Readers, RequestStep(r) PROVE Delivery'
  BY <1>4, RequestMoves, RequestDelivery
<1>5. ASSUME Rests PROVE Delivery'
  BY <1>5, UnchangedDelivery DEF Rests
<1> QED
  BY <1>2, <1>3, <1>4, <1>5, NextIs, GenerationDelivery, TransportDelivery

\* What a reader has been given of the log has numbers below nextSeq, or, while
\* deliveryDeferred is set, below the replayedNextSeq of the sync in flight.
THEOREM DeliveryHolds == Spec => []Delivery
<1>1. Init => Delivery
  BY InitDelivery
<1>2. Core /\ Settling /\ Delivery /\ [Next]_vars => Delivery'
  BY StepDelivery, BoundsAssumption
<1> QED
  BY <1>1, <1>2, CoreHolds, SettlingHolds, PTL DEF Spec

LEMMA DeliveryIsOnce == BoundsAssumption /\ Core /\ Delivery => OnceWhenPaused
<1> SUFFICES ASSUME BoundsAssumption, Core, Delivery,
                    NEW r \in Readers, reader[r].replay # "open",
                    NEW i \in Called(r), NEW j \in Called(r), i < j
             PROVE  LET d == reader[r].got[i]
                        e == reader[r].got[j]
                    IN  d # e /\ ({d, e} \subseteq Range(log) \ {Created} => d < e)
  BY DEF OnceWhenPaused
<1>1. PICK s : s = reader[r].got
  OBVIOUS
<1>2. s \in Seq(Frames) /\ log \in Seq(Frames)
  BY <1>1, GivenIs DEF Core, Types, GenerationTypes
<1>3. Once(s)
  <2>1. CASE r \notin on
    BY <1>1, <2>1 DEF Delivery
  <2>2. CASE r \in on
    <3>1. Once(Seen(r))
      BY <2>2 DEF Delivery, Behind
    <3>2. Once(<<>>)
      BY Empty, NothingReal
    <3>3. s = Seen(r) \/ s = <<>>
      BY <1>1, <2>2 DEF Core, Shapes, Shape, Seen
    <3> QED
      BY <3>1, <3>2, <3>3
  <2> QED
    BY <2>1, <2>2
<1>4. /\ i \in 1..Len(s) /\ j \in 1..Len(s) /\ s[i] \in Events /\ s[j] \in Events
      /\ s[j] = Created => \A k \in 1..(j - 1) : s[k] # Created
  BY <1>1, <1>2 DEF Called, Frames
<1>5. s[j] = Created => s[i] # Created
  <2>1. i \in 1..(j - 1)
    BY <1>2, <1>4
  <2> QED
    BY <1>4, <2>1
<1>6. \A x : x \in Range(log) => InLog(x)
  BY <1>2, InRange DEF InLog
<1>7. s[i] # s[j] /\ ({s[i], s[j]} \subseteq Range(log) \ {Created} => s[i] < s[j])
  BY <1>3, <1>4, <1>5, <1>6 DEF Once, Real
<1> QED
  BY <1>1, <1>7

\* However requests that subscribe, resume and leave meet, a replay under the pause
\* of deferSequenceDelivery and the transport together call onChunk at most once
\* for an event, and for those that were published in the order of emission.
THEOREM DeliveredOnce == Spec => []OnceWhenPaused
<1>1. Core /\ Delivery => OnceWhenPaused
  BY DeliveryIsOnce, BoundsAssumption
<1> QED
  BY <1>1, CoreHolds, DeliveryHolds, PTL

(***************************************************************************)
(* The invariant Arrival: what a reader lacks is on its way, ahead of      *)
(* every frontier.  It is kept by the generation,                          *)
(***************************************************************************)

\* The number of the i-th event of the log.
At(i) == FirstSeq + i - 1

\* x is on its way: sent, or published, and nothing has put it behind.
Ready(i) ==
    /\ i > received \/ At(i) \in pending
    /\ ~deferred => nextSeq <= At(i)
    /\ \A k \in 1..Len(syncs) : syncs[k].replay # NoReplay => syncs[k].replay <= At(i)
Coming(x) == InConn(x) \/ \E i \in 1..Len(log) : log[i] = x /\ Ready(i)

\* While the transport is paused it keeps what has been emitted since.
Retained ==
    deferred /\ hasSubscriber =>
        \A i \in 1..Len(log) :
            i <= received /\ log[i] \in Events /\ log[i] > since => At(i) \in pending
Frontiers == \A k \in 1..Len(syncs) : syncs[k].replay # NoReplay => syncs[k].replay <= Counter

\* A reader that has DONE is at the end of the stream.
AtEnd(r) ==
    InSeq(Done, Seen(r)) =>
        /\ job \in {"complete", "replaced"}
        /\ reader[r].kind = "initial" =>
              ~deferred /\ \E k \in 1..Len(log) : log[k] = Done /\ At(k) < nextSeq

\* Nothing is missing from s before what it has.
NoGap(s) ==
    \A e, d \in Events :
        InSeq(d, s) /\ ~InSeq(e, s) /\ e <= emitted /\ (e > since \/ receipt[e] # "none") => d < e

\* The replay gave the reader all that was buffered, the transport brings the rest.
Complete(r) ==
    /\ closed /\ (deferred => syncs # <<>>) /\ Len(syncs) <= 1
    /\ syncs # <<>> => Replays
    /\ \A e \in Events : Held(e) => InSeq(e, Seen(r))
    /\ faults = 0 /\ hasSubscriber =>
          \A e \in Events : e <= emitted /\ e > since /\ ~InSeq(e, Seen(r)) => Coming(e)

\* DONE is ahead of every frontier until it is received.
DoneAhead ==
    \A i \in 1..Len(log) : log[i] = Done =>
        /\ \A k \in 1..Len(syncs) : syncs[k].replay # NoReplay => syncs[k].replay <= At(i)
        /\ i > received /\ ~skipped => nextSeq <= At(i)

\* A reader that came too late for DONE has yet to look for it, or nothing is left
\* to be found.
Belated(r) == r \in late /\ (reader[r].look \/ reader[r].pc \in Attaching \/ ~stored)

\* The end of the stream reaches every reader, unless something else ends it.
EndComes(r) ==
    ~skipped /\ job \in {"complete", "replaced"} =>
        \/ reader[r].pc = "failed" \/ InSeq(Done, Seen(r)) \/ Coming(Done)
        \/ job = "complete" /\ Belated(r)
        \/ job = "replaced" /\ reader[r].pc = "check"
\* The same for a pause that is announced, and a reader that was not told.
Untold(r) ==
    /\ job = "paused" /\ approval # 0
    /\ reader[r].kind = "resume" /\ reader[r].pc \in {"reconciled", "live"} /\ ~reader[r].told
PauseComes(r) ==
    ~skipped /\ Untold(r) =>
        \/ InSeq(approval, Seen(r)) \/ receipt[approval] = "failed"
        \/ receipt[approval] = "none" /\ Coming(approval)

Arrival ==
    /\ Retained /\ Frontiers /\ DoneAhead
    /\ \A r \in on : AtEnd(r) /\ EndComes(r) /\ PauseComes(r)
    /\ \A r \in Readers : reader[r].replay = "frontier" =>
          /\ r \in on => Complete(r)
          /\ r \notin on /\ faults = 0 => NoGap(reader[r].got)

\* The reply of a GET changes no frontier.
LEMMA SyncsRead ==
    ASSUME syncs \in Seq(SyncCalls), syncs' = syncs \/ \E j \in 1..Len(syncs) : Reads(j)
    PROVE  Len(syncs') = Len(syncs) /\ \A k \in 1..Len(syncs) : syncs'[k].replay = syncs[k].replay
<1>1. ASSUME NEW j \in 1..Len(syncs), Reads(j)
      PROVE  Len(syncs') = Len(syncs) /\ \A k \in 1..Len(syncs) : syncs'[k].replay = syncs[k].replay
  <2>1. syncs' = [syncs EXCEPT ![j].val = Counter]
    BY <1>1 DEF Reads
  <2>2. Len(syncs') = Len(syncs) /\ \A k \in 1..Len(syncs) : syncs[k] \in SyncCalls
    BY <2>1
  <2> QED
    BY <2>1, <2>2 DEF SyncCalls
<1> QED
  BY <1>1

\* What is on its way stays so while the generation goes on, or fails.
LEMMA GenerationComing ==
    ASSUME BoundsAssumption, Core, GenerationStep, Arrival, NEW x \in Frames, Coming(x)
    PROVE  Coming(x)' \/ (Drops /\ x = Head(conn))
<1>1. /\ Aside /\ UNCHANGED <<received, nextSeq, pending, deferred>>
      /\ \/ \E e \in Events : Emits(e) \/ Settles(e)
         \/ Pauses \/ Ends \/ (\E i \in 1..Len(syncs) : Reads(i)) \/ Drops \/ Publishes
  BY GenerationEffect DEF Core, Aside, bufferVars
<1>2. /\ conn \in Seq(Commands) /\ log \in Seq(Frames) /\ Len(log) \in Nat /\ FirstSeq \in Nat
      /\ received \in Nat /\ received <= Len(log) /\ nextSeq \in Nat /\ nextSeq <= Counter
      /\ syncs \in Seq(SyncCalls) /\ x # Get /\ Frames \subseteq Commands /\ Get \in Commands
  BY FrameNumbers DEF Core, Types, GenerationTypes, TransportTypes, SyncTypes, BoundsAssumption,
     Counter, Commands
<1>3. ASSUME syncs' = syncs \/ \E j \in 1..Len(syncs) : Reads(j), NEW i, Ready(i)
      PROVE  Ready(i)'
  <2>1. Len(syncs') = Len(syncs) /\ \A k \in 1..Len(syncs) : syncs'[k].replay = syncs[k].replay
    BY <1>3, SyncsRead DEF Core, Types, SyncTypes
  <2> QED
    BY <1>1, <1>3, <2>1 DEF Ready, At, NoReplay
<1>4. ASSUME log' = log, syncs' = syncs \/ \E j \in 1..Len(syncs) : Reads(j),
             InConn(x) => InConn(x)'
      PROVE  Coming(x)'
  <2>1. CASE InConn(x)
    BY <1>4, <2>1 DEF Coming
  <2>2. ASSUME NEW i \in 1..Len(log), log[i] = x, Ready(i) PROVE Coming(x)'
    BY <1>3, <1>4, <2>2 DEF Coming
  <2> QED
    BY <2>1, <2>2 DEF Coming
<1>5. ASSUME NEW c \in Commands, conn' = Append(conn, c) PROVE InConn(x) => InConn(x)'
  <2>1. \A y : InSeq(y, conn') <=> InSeq(y, conn) \/ y = c
    BY <1>2, <1>5, InAppend
  <2> QED
    BY <2>1 DEF InConn, InSeq
<1>6. ASSUME NEW e \in Events, Emits(e) PROVE Coming(x)'
  <2>1. conn' = Append(conn, e) /\ log' = log /\ syncs' = syncs /\ e \in Commands
    BY <1>6 DEF Emits, Commands, Frames
  <2> QED
    BY <1>4, <1>5, <2>1
<1>7. ASSUME Ends PROVE Coming(x)'
  <2>1. conn' = Append(conn, Done) /\ log' = log /\ syncs' = syncs /\ Done \in Commands
    BY <1>7 DEF Ends, Commands, Frames
  <2> QED
    BY <1>4, <1>5, <2>1
<1>8. ASSUME Pauses \/ \E e \in Events : Settles(e) PROVE Coming(x)'
  <2>1. conn' = conn /\ log' = log /\ syncs' = syncs
    BY <1>8 DEF Pauses, Settles
  <2> QED
    BY <1>4, <2>1 DEF InConn, InSeq
<1>9. ASSUME conn # <<>>, conn' = Tail(conn), x # Head(conn) PROVE InConn(x) => InConn(x)'
  <2>1. \A y : InSeq(y, conn) <=> InSeq(y, Tail(conn)) \/ y = Head(conn)
    BY <1>2, <1>9, InTail
  <2> QED
    BY <1>9, <2>1 DEF InConn, InSeq
<1>10. ASSUME NEW j \in 1..Len(syncs), Reads(j) PROVE Coming(x)'
  BY <1>2, <1>4, <1>9, <1>10 DEF Reads, Shifts
<1>11. ASSUME Drops, x # Head(conn) PROVE Coming(x)'
  BY <1>4, <1>9, <1>11 DEF Drops, Shifts
<1>12. ASSUME Publishes PROVE Coming(x)'
  <2>1. conn # <<>> /\ conn' = Tail(conn) /\ log' = Append(log, Head(conn)) /\ syncs' = syncs
    BY <1>12 DEF Publishes, Shifts
  <2>2. /\ Len(log') = Len(log) + 1 /\ log'[Len(log) + 1] = Head(conn)
        /\ \A i \in 1..Len(log) : log'[i] = log[i] /\ i \in 1..Len(log')
        /\ Len(log) + 1 \in 1..Len(log')
    BY <1>2, <2>1
  <2>3. CASE InConn(x) /\ x # Head(conn)
    BY <1>9, <2>1, <2>3 DEF Coming
  <2>4. CASE x = Head(conn)
    <3>1. At(Len(log) + 1) = Counter
      BY <1>2 DEF At, Counter
    <3>2. Ready(Len(log) + 1)
      <4>1. Len(log) + 1 > received /\ nextSeq <= At(Len(log) + 1)
        BY <1>2, <3>1
      <4>2. \A k \in 1..Len(syncs) : syncs[k].replay # NoReplay => syncs[k].replay <= At(Len(log) + 1)
        BY <3>1 DEF Arrival, Frontiers
      <4> QED
        BY <4>1, <4>2 DEF Ready
    <3>3. PICK i : i = Len(log) + 1
      OBVIOUS
    <3>4. Ready(i)' /\ i \in 1..Len(log') /\ log'[i] = x
      BY <1>3, <2>1, <2>2, <2>4, <3>2, <3>3
    <3> QED
      BY <3>4 DEF Coming
  <2>5. ASSUME NEW i \in 1..Len(log), log[i] = x, Ready(i) PROVE Coming(x)'
    <3>1. Ready(i)' /\ i \in 1..Len(log') /\ log'[i] = x
      BY <1>3, <2>1, <2>2, <2>5
    <3> QED
      BY <3>1 DEF Coming
  <2> QED
    BY <2>3, <2>4, <2>5 DEF Coming
<1> QED
  BY <1>1, <1>6, <1>7, <1>8, <1>10, <1>11, <1>12

\* How the receipts, the status and the count of events move.
LEMMA GenerationCounts ==
    ASSUME BoundsAssumption, Core, GenerationStep
    PROVE  /\ faults' = 0 => faults = 0
           /\ Drops => faults' # 0 /\ receipt'[Head(conn)] = "failed"
           /\ emitted' = emitted \/ \E e \in Events : Emits(e)
           /\ job' = job \/ Pauses \/ Ends
           /\ approval' = approval \/ \E e \in Events : Emits(e)
           /\ job \in {"complete", "replaced"} => job' = job
           /\ syncs' = syncs \/ \E j \in 1..Len(syncs) : Reads(j)
           /\ \A d \in Events :
                 /\ receipt[d] = "failed" => receipt'[d] = "failed"
                 /\ d <= emitted /\ receipt[d] = "none" => receipt'[d] = "none" \/ (Drops /\ d = Head(conn))
<1>1. \/ \E e \in Events : Emits(e) \/ Settles(e)
      \/ Pauses \/ Ends \/ (\E i \in 1..Len(syncs) : Reads(i)) \/ Drops \/ Publishes
  BY GenerationEffect DEF Core
<1>2. /\ receipt \in [Events -> {"none", "open", "numbered", "failed"}] /\ emitted \in Nat
      /\ faults \in Nat
  BY DEF Core, Types, GenerationTypes, RuntimeTypes
<1>3. ASSUME receipt' = receipt
      PROVE  \A d \in Events :
                /\ receipt[d] = "failed" => receipt'[d] = "failed"
                /\ d <= emitted /\ receipt[d] = "none" =>
                      receipt'[d] = "none" \/ (Drops /\ d = Head(conn))
  BY <1>3
<1>4. ASSUME NEW e \in Events, Emits(e)
      PROVE  \A d \in Events :
                /\ receipt[d] = "failed" => receipt'[d] = "failed"
                /\ d <= emitted /\ receipt[d] = "none" =>
                      receipt'[d] = "none" \/ (Drops /\ d = Head(conn))
  <2>1. e = emitted + 1 /\ (receipt' = receipt \/ receipt' = [receipt EXCEPT ![e] = "open"])
    BY <1>4 DEF Emits
  <2>2. receipt[e] = "none" /\ ~(e <= emitted)
    BY <1>2, <2>1 DEF Core, Stream, EmittedAre, EmittedIs
  <2> QED
    BY <1>2, <1>3, <2>1, <2>2
<1>5. ASSUME NEW e \in Events, Settles(e)
      PROVE  \A d \in Events :
                /\ receipt[d] = "failed" => receipt'[d] = "failed"
                /\ d <= emitted /\ receipt[d] = "none" =>
                      receipt'[d] = "none" \/ (Drops /\ d = Head(conn))
  BY <1>2, <1>5 DEF Settles
<1>6. ASSUME Drops
      PROVE  /\ receipt'[Head(conn)] = "failed" /\ faults' # 0
             /\ \A d \in Events :
                   /\ receipt[d] = "failed" => receipt'[d] = "failed"
                   /\ d <= emitted /\ receipt[d] = "none" =>
                         receipt'[d] = "none" \/ (Drops /\ d = Head(conn))
  BY <1>2, <1>6 DEF Drops
<1>7. Pauses \/ Ends \/ Publishes \/ (\E i \in 1..Len(syncs) : Reads(i)) => receipt' = receipt
  BY DEF Pauses, Ends, Publishes, Reads
<1>8. faults' = 0 => faults = 0
  BY <1>1, <1>2 DEF Emits, Settles, Pauses, Ends, Reads, Drops, Publishes
<1>9. /\ emitted' = emitted \/ \E e \in Events : Emits(e)
      /\ approval' = approval \/ \E e \in Events : Emits(e)
  BY <1>1 DEF Settles, Pauses, Ends, Reads, Drops, Publishes, Shifts
<1>10. /\ job' = job \/ Pauses \/ Ends
       /\ job \in {"complete", "replaced"} => job' = job
  BY <1>1 DEF Emits, Settles, Pauses, Ends, Reads, Drops, Publishes, Shifts
<1>11. syncs' = syncs \/ \E j \in 1..Len(syncs) : Reads(j)
  BY <1>1 DEF Emits, Settles, Pauses, Ends, Reads, Drops, Publishes, Shifts
<1> QED
  BY <1>1, <1>3, <1>4, <1>5, <1>6, <1>7, <1>8, <1>9, <1>10, <1>11

LEMMA SentIsComing ==
    ASSUME Core, NEW c \in Frames, conn' = Append(conn, c)
    PROVE  Coming(c)'
<1>1. conn \in Seq(Commands) /\ c \in Commands
  BY DEF Core, Types, GenerationTypes, Commands
<1>2. InSeq(c, conn')
  BY <1>1, InAppend
<1> QED
  BY <1>2 DEF Coming, InConn, InSeq

LEMMA GenerationArrival ==
    ASSUME BoundsAssumption, Core, Settling, Delivery, Arrival, GenerationStep, StoreGrows
    PROVE  Arrival'
<1>1. /\ Aside /\ UNCHANGED <<received, nextSeq, pending, deferred, hasSubscriber, since, on, reader,
                              skipped>>
      /\ closed => closed' /\ Keeps
      /\ LogGrows
  <2>1. Aside /\ (Keeps \/ Overflows \/ Buffers)
    BY GenerationMoves
  <2>2. LogGrows
    BY GenerationGrows
  <2> QED
    BY <2>1, <2>2 DEF Aside, bufferVars, runtimeVars, readerVars, Keeps, Overflows, Buffers, earlyVars
<1>2. /\ faults' = 0 => faults = 0
      /\ Drops => faults' # 0 /\ receipt'[Head(conn)] = "failed"
      /\ emitted' = emitted \/ \E e \in Events : Emits(e)
      /\ job' = job \/ Pauses \/ Ends
      /\ approval' = approval \/ \E e \in Events : Emits(e)
      /\ job \in {"complete", "replaced"} => job' = job
      /\ \A d \in Events :
            /\ receipt[d] = "failed" => receipt'[d] = "failed"
            /\ d <= emitted /\ receipt[d] = "none" => receipt'[d] = "none" \/ (Drops /\ d = Head(conn))
  BY GenerationCounts
<1>3. /\ log \in Seq(Frames) /\ log' \in Seq(Frames) /\ Len(log) \in Nat /\ FirstSeq \in Nat
      /\ received \in Nat /\ received <= Len(log) /\ emitted \in Nat /\ since \in Nat
      /\ conn \in Seq(Commands) /\ syncs \in Seq(SyncCalls)
      /\ \A k \in 1..Len(log) : log'[k] = log[k] /\ k \in 1..Len(log')
  <2>1. Core'
    BY GenerationCore
  <2>2. log' \in Seq(Frames)
    BY <2>1 DEF Core, Types, GenerationTypes, Frames, Events, Done
  <2>3. /\ log \in Seq(Frames) /\ Len(log) \in Nat /\ FirstSeq \in Nat
        /\ received \in Nat /\ received <= Len(log) /\ emitted \in Nat /\ since \in Nat
        /\ conn \in Seq(Commands) /\ syncs \in Seq(SyncCalls)
    BY DEF Core, Types, GenerationTypes, TransportTypes, RuntimeTypes, SyncTypes, BoundsAssumption
  <2> QED
    BY <1>1, <2>2, <2>3 DEF LogGrows
<1>4. Len(syncs') = Len(syncs) /\ \A k \in 1..Len(syncs) : syncs'[k].replay = syncs[k].replay
  BY <1>3, GenerationCounts, SyncsRead
<1>5. \A x \in Frames : Coming(x) => Coming(x)' \/ (Drops /\ x = Head(conn))
  BY GenerationComing
<1>6. \A r \in Readers : \A x : (InSeq(x, Seen(r))' <=> InSeq(x, Seen(r)))
  BY <1>1 DEF Seen, InSeq
<1>7. Retained'
  <2> SUFFICES ASSUME deferred, hasSubscriber, NEW i \in 1..Len(log'), i <= received,
                      log'[i] \in Events, log'[i] > since
               PROVE  At(i) \in pending
    BY <1>1 DEF Retained, At, Events
  <2>1. i \in 1..Len(log)
    BY <1>3
  <2> QED
    BY <1>3, <2>1 DEF Arrival, Retained
<1>8. Frontiers'
  <2>1. Counter \in Nat /\ Counter' \in Nat /\ Counter <= Counter'
    BY <1>1, <1>3 DEF Counter, LogGrows
  <2>2. ASSUME NEW k \in 1..Len(syncs), syncs[k].replay # NoReplay PROVE syncs[k].replay <= Counter'
    <3>1. syncs[k].replay \in Nat
      <4>1. syncs[k] \in SyncCalls
        BY <1>3
      <4> QED
        BY <4>1 DEF SyncCalls
    <3>2. syncs[k].replay <= Counter
      BY <2>2 DEF Arrival, Frontiers
    <3> QED
      BY <2>1, <3>1, <3>2
  <2> QED
    BY <1>4, <2>2 DEF Frontiers, NoReplay
<1>8a. DoneAhead'
  <2>1. /\ received' = received /\ nextSeq' = nextSeq /\ (~skipped' => ~skipped) /\ Done' = Done
        /\ nextSeq \in 0..Counter /\ Counter = FirstSeq + Len(log) /\ Frontiers /\ DoneAhead
    BY <1>1 DEF Core, Types, TransportTypes, Counter, Arrival, Done
  <2> SUFFICES ASSUME NEW i \in 1..Len(log'), log'[i] = Done
               PROVE  /\ \A k \in 1..Len(syncs) : syncs[k].replay # NoReplay => syncs[k].replay <= At(i)
                      /\ i > received /\ ~skipped => nextSeq <= At(i)
    BY <1>4, <2>1 DEF DoneAhead, At, NoReplay
  <2>2. CASE i \in 1..Len(log)
    BY <1>3, <2>1, <2>2 DEF DoneAhead
  <2>3. CASE i \notin 1..Len(log)
    <3>1. PICK l \in Nat : l = Len(log) /\ i \in Nat /\ i > l
      BY <1>3, <2>3
    <3>2. At(i) >= Counter /\ At(i) \in Nat /\ Counter \in Nat
      BY <1>3, <2>1, <3>1 DEF At
    <3>3. \A k \in 1..Len(syncs) : syncs[k].replay \in Nat
      <4>1. \A k \in 1..Len(syncs) : syncs[k] \in SyncCalls
        BY <1>3
      <4> QED
        BY <4>1 DEF SyncCalls
    <3> QED
      BY <2>1, <3>2, <3>3 DEF Frontiers
  <2> QED
    BY <2>2, <2>3
<1>9. ASSUME NEW r \in Readers, r \in on PROVE AtEnd(r)'
  <2>1. AtEnd(r)
    BY <1>9 DEF Arrival
  <2> QED
    BY <1>1, <1>2, <1>3, <1>6, <2>1 DEF AtEnd, At, Done
<1>10. ASSUME NEW r \in Readers, r \in on PROVE EndComes(r)'
  <2> SUFFICES ASSUME ~skipped', job' \in {"complete", "replaced"}
               PROVE  (\/ reader[r].pc = "failed" \/ InSeq(Done, Seen(r)) \/ Coming(Done)
                       \/ job = "complete" /\ Belated(r)
                       \/ job = "replaced" /\ reader[r].pc = "check")'
    BY DEF EndComes
  <2>1. Done \in Frames /\ Done \notin Events
    BY FrameNumbers DEF Frames
  <2>2. CASE Ends
    BY <2>1, <2>2, SentIsComing DEF Ends, Done
  <2>3. CASE ~Ends
    <3>1. job' = job
      BY <1>2, <2>3 DEF Pauses
    <3>2. Coming(Done) => Coming(Done)'
      BY <1>5, <2>1 DEF Drops, Done
    <3> QED
      BY <1>1, <1>6, <1>10, <3>1, <3>2 DEF Arrival, EndComes, Belated, StoreGrows, Attaching, Done
  <2> QED
    BY <2>2, <2>3
<1>11. ASSUME NEW r \in Readers, r \in on PROVE PauseComes(r)'
  <2> SUFFICES ASSUME ~skipped', Untold(r)'
               PROVE  (\/ InSeq(approval, Seen(r)) \/ receipt[approval] = "failed"
                       \/ receipt[approval] = "none" /\ Coming(approval))'
    BY DEF PauseComes
  <2>1. job' = "paused" /\ approval' # 0 /\ hasSubscriber /\ reader[r].pc \in {"reconciled", "live"}
    BY <1>1, <1>11 DEF Untold, Settling, RuntimeIs
  <2>2. ASSUME NEW e \in Events, Emits(e), approval' = e
        PROVE  receipt'[approval'] = "none" /\ Coming(approval)'
    <3>1. receipt' = receipt /\ e = emitted + 1 /\ conn' = Append(conn, e)
      BY <2>1, <2>2 DEF Emits
    <3>2. receipt[e] = "none"
      BY <1>3, <3>1 DEF Core, Stream, EmittedAre, EmittedIs, GenerationTypes, Types
    <3>3. e \in Frames
      BY DEF Frames
    <3>4. PICK c \in Frames : c = e
      BY <3>3
    <3>5. Coming(c)'
      BY <3>1, <3>4, SentIsComing
    <3>6. Coming(approval)'
      BY <2>2, <3>4, <3>5 DEF Coming, InConn, InSeq
    <3> QED
      BY <2>2, <3>1, <3>2, <3>6
  <2>3. ASSUME approval' = approval
        PROVE  (\/ InSeq(approval, Seen(r)) \/ receipt[approval] = "failed"
                \/ receipt[approval] = "none" /\ Coming(approval))'
    <3>1. job = "paused" /\ approval # 0 /\ approval = emitted
      <4>1. approval # 0 => job # "running" /\ approval = emitted
        BY DEF Core, Stream, ApprovalIs
      <4> QED
        BY <1>2, <2>1, <2>3, <4>1 DEF Pauses, Ends
    <3>2. approval \in Events /\ approval \in Frames /\ approval <= emitted
      BY <1>3, <3>1 DEF Core, Types, GenerationTypes, Events, Frames, BoundsAssumption
    <3>3. \/ InSeq(approval, Seen(r)) \/ receipt[approval] = "failed"
          \/ receipt[approval] = "none" /\ Coming(approval)
      BY <1>1, <1>11, <3>1 DEF Arrival, PauseComes, Untold
    <3>4. PICK a : a = approval
      OBVIOUS
    <3>5. Coming(a) => Coming(a)' \/ (Drops /\ a = Head(conn))
      BY <1>5, <3>2, <3>4
    <3>6. Coming(approval)' <=> Coming(a)'
      BY <2>3, <3>4 DEF Coming
    <3>7. InSeq(approval, Seen(r))' <=> InSeq(a, Seen(r))
      BY <1>1, <2>3, <3>4 DEF Seen, InSeq
    <3>8. /\ receipt[a] = "failed" => receipt'[a] = "failed"
          /\ receipt[a] = "none" => receipt'[a] = "none" \/ (Drops /\ a = Head(conn))
          /\ Drops => receipt'[Head(conn)] = "failed"
      BY <1>2, <3>2, <3>4
    <3> QED
      BY <2>3, <3>3, <3>4, <3>5, <3>6, <3>7, <3>8
  <2>4. approval' = approval \/ \E e \in Events : Emits(e) /\ approval' = e
    BY <1>2 DEF Emits
  <2> QED
    BY <2>2, <2>3, <2>4
<1>12. ASSUME NEW r \in Readers, r \in on, reader[r].replay = "frontier" PROVE Complete(r)'
  <2>1. Complete(r)
    BY <1>12 DEF Arrival
  <2>2. closed' /\ (deferred' => syncs' # <<>>) /\ Len(syncs') <= 1 /\ (syncs' # <<>> => Replays')
    <3>1. syncs' = <<>> <=> syncs = <<>>
      BY GenerationMoves
    <3>2. Replays => Replays'
      <4>1. syncs # <<>> => 1 \in 1..Len(syncs) /\ Head(syncs) = syncs[1]
        BY <1>3
      <4>2. syncs' # <<>> => Head(syncs') = syncs'[1]
        BY <1>4
      <4> QED
        BY <1>4, <3>1, <4>1, <4>2 DEF Replays, NoReplay
    <3> QED
      BY <1>1, <1>4, <2>1, <3>1, <3>2 DEF Complete
  <2>3. \A e \in Events : Held(e)' => InSeq(e, Seen(r))'
    BY <1>1, <1>6, <2>1 DEF Complete, Keeps
  <2>4. ASSUME faults' = 0, hasSubscriber', NEW e \in Events, e <= emitted', e > since',
               ~InSeq(e, Seen(r))'
        PROVE  Coming(e)'
    <3>1. CASE e <= emitted
      <4>1. Coming(e)
        BY <1>1, <1>2, <1>6, <2>1, <2>4, <3>1 DEF Complete
      <4> QED
        BY <1>2, <1>5, <2>4, <4>1 DEF Frames
    <3>2. CASE ~(e <= emitted)
      <4>1. PICK c \in Events : Emits(c)
        BY <1>2, <2>4, <3>2
      <4>2. e = c /\ conn' = Append(conn, c)
        <5>1. c = emitted + 1 /\ emitted' = c /\ conn' = Append(conn, c)
          BY <4>1 DEF Emits
        <5>2. e \in Nat
          BY FrameNumbers
        <5> QED
          BY <1>3, <2>4, <3>2, <5>1, <5>2
      <4>3. c \in Frames
        BY DEF Frames
      <4> QED
        BY <4>2, <4>3, SentIsComing
    <3> QED
      BY <3>1, <3>2
  <2> QED
    BY <2>2, <2>3, <2>4 DEF Complete, Events
<1>13. ASSUME NEW r \in Readers, r \notin on, reader[r].replay = "frontier", faults' = 0
       PROVE  NoGap(reader[r].got)'
  <2>1. NoGap(reader[r].got) /\ Certain(reader[r].got)
    BY <1>2, <1>13, GivenIs DEF Arrival, Delivery
  <2>2. PICK s : s = reader[r].got
    OBVIOUS
  <2> SUFFICES ASSUME NEW e \in Events, NEW d \in Events, InSeq(d, s), ~InSeq(e, s),
                      e <= emitted', e > since \/ receipt'[e] # "none"
               PROVE  d < e
    BY <1>1, <2>2 DEF NoGap, Events, InSeq
  <2>3. d \in Nat /\ e \in Nat
    BY FrameNumbers
  <2>4. CASE e <= emitted
    <3>1. e > since \/ receipt[e] # "none"
      BY <1>2, <1>13, <2>4
    <3> QED
      BY <2>1, <2>2, <2>4, <3>1 DEF NoGap
  <2>5. CASE ~(e <= emitted)
    <3>1. d = Created \/ d <= emitted
      <4>1. d # Created => Decided(d)
        BY <2>1, <2>2 DEF Certain, Real
      <4> QED
        BY <4>1 DEF Decided, Core, Stream, EmittedAre, EmittedIs
    <3>2. e # d
      OBVIOUS
    <3>3. e >= 1
      BY DEF Events
    <3> QED
      BY <1>3, <2>3, <2>5, <3>1, <3>2, <3>3 DEF Created
  <2> QED
    BY <2>4, <2>5
<1> QED
  BY <1>1, <1>7, <1>8, <1>8a, <1>9, <1>10, <1>11, <1>12, <1>13
     DEF Arrival, Readers, Core, Types, ReaderTypes

(***************************************************************************)
(* by the transport,                                                       *)
(***************************************************************************)

\* What is on its way is handed out by a flush, or is still ahead of it.
LEMMA FlushComing ==
    ASSUME BoundsAssumption, Core, NEW pops \in BOOLEAN, NEW P, NEW m \in Nat,
           NEW es \in Seq(Frames), Flushes(pops, P, m, es), Pops(pops), P \subseteq Nat,
           UNCHANGED generationVars, pops /\ ~Replays => ~skipped',
           NEW x \in Frames, Coming(x)
    PROVE  /\ InSeq(x, es) \/ InConn(x) \/ \E i \in 1..Len(log) : log[i] = x /\ m <= At(i)
           /\ on' # {} => InSeq(x, es) \/ Coming(x)'
<1>1. PICK k \in Nat : k = received'
  BY DEF Core, Types, TransportTypes, Flushes
<1>2. /\ log \in Seq(Frames) /\ Len(log) \in Nat /\ FirstSeq \in Nat /\ syncs \in Seq(SyncCalls)
      /\ received \in Nat /\ received <= Len(log) /\ k \in {received, received + 1}
      /\ log' = log /\ conn' = conn
  BY <1>1 DEF Core, Types, GenerationTypes, TransportTypes, SyncTypes, BoundsAssumption, Flushes,
     generationVars
<1>3. /\ \A y : InSeq(y, es) <=> \E s \in P : s < m /\ y = log[s - FirstSeq + 1]
      /\ on' # {} => nextSeq' = m /\ pending' = {s \in P : s >= m} /\ deferred' = FALSE
      /\ \A s \in pending : Ahead(s) => s \in P
      /\ k = received + 1 => FirstSeq + received \in P
      /\ \A s \in Nat : s >= FirstSeq + k /\ Ahead(s) => m <= s
  BY <1>1 DEF Flushes, FlushStep, Flushed
<1>4. ASSUME InConn(x) PROVE on' # {} => Coming(x)'
  BY <1>2, <1>4 DEF Coming, InConn, InSeq
<1>5. ASSUME NEW i \in 1..Len(log), log[i] = x, Ready(i)
      PROVE  /\ InSeq(x, es) \/ m <= At(i)
             /\ on' # {} => InSeq(x, es) \/ Coming(x)'
  <2>1. /\ At(i) \in Nat /\ At(i) - FirstSeq + 1 = i
        /\ i > received => At(i) >= FirstSeq + received
        /\ i > k <=> At(i) >= FirstSeq + k
    BY <1>2 DEF At
  <2>2. Ahead(At(i))
    <3>1. Replays => 1 \in 1..Len(syncs) /\ Head(syncs) = syncs[1] /\ syncs[1].replay # NoReplay
      BY <1>2 DEF Replays
    <3> QED
      BY <1>5, <3>1 DEF Ahead, Ready
  <2>3. At(i) \in P \/ (i > k /\ m <= At(i))
    <3>1. CASE At(i) \in pending
      BY <1>3, <2>2, <3>1
    <3>2. CASE i > received /\ i > k
      BY <1>3, <2>1, <2>2, <3>2
    <3>3. CASE i > received /\ ~(i > k)
      <4>1. k = received + 1 /\ At(i) = FirstSeq + received
        BY <1>2, <3>3 DEF At
      <4> QED
        BY <1>3, <4>1
    <3> QED
      BY <1>5, <3>1, <3>2, <3>3 DEF Ready
  <2>4. At(i) < m => InSeq(x, es)
    <3>1. At(i) < m => At(i) \in P
      BY <2>1, <2>3
    <3> QED
      BY <1>3, <1>5, <2>1, <3>1
  <2>5. ASSUME on' # {}, m <= At(i) PROVE Coming(x)'
    <3>1. i > k \/ At(i) \in pending'
      BY <1>3, <2>3, <2>5
    <3>2. \A j \in 1..Len(syncs') : syncs'[j].replay # NoReplay => syncs'[j].replay <= At(i)
      <4>1. \A j \in 1..Len(syncs) : syncs[j].replay # NoReplay => syncs[j].replay <= At(i)
        BY <1>5 DEF Ready
      <4>2. CASE syncs' = syncs
        BY <4>1, <4>2
      <4>3. CASE syncs # <<>> /\ syncs' = Tail(syncs)
        <5>1. \A j \in 1..Len(syncs') : syncs'[j] = syncs[j + 1] /\ j + 1 \in 1..Len(syncs)
          BY <1>2, <4>3
        <5> QED
          BY <4>1, <5>1
      <4> QED
        BY <4>2, <4>3 DEF Pops
    <3>3. nextSeq' <= At(i)
      BY <1>3, <2>5
    <3>4. Ready(i)'
      BY <1>1, <3>1, <3>2, <3>3 DEF Ready, At, NoReplay
    <3> QED
      BY <1>2, <1>5, <3>4 DEF Coming
  <2> QED
    BY <2>1, <2>4, <2>5
<1> QED
  BY <1>4, <1>5 DEF Coming

\* The other steps of the transport leave it on its way.
LEMMA OtherComing ==
    ASSUME BoundsAssumption, Core, on # {}, Ignores \/ Holds \/ Skips, UNCHANGED generationVars,
           NEW x \in Frames, Coming(x)
    PROVE  Coming(x)'
<1>1. PICK k \in Nat : k = received'
  BY DEF Core, Types, TransportTypes, Ignores, Holds, Skips
<1>2. /\ log \in Seq(Frames) /\ Len(log) \in Nat /\ FirstSeq \in Nat /\ syncs \in Seq(SyncCalls)
      /\ received \in Nat /\ log' = log /\ conn' = conn /\ deferred' = deferred /\ nextSeq' = nextSeq
      /\ k \in {received, received + 1}
      /\ syncs' = syncs \/ (syncs # <<>> /\ syncs' = Tail(syncs))
  BY <1>1 DEF Core, Types, GenerationTypes, TransportTypes, SyncTypes, BoundsAssumption, Ignores,
     Holds, Skips, generationVars, bufferVars
<1>3. ASSUME NEW i \in 1..Len(log), log[i] = x, Ready(i) PROVE Coming(x)'
  <2>1. \A j \in 1..Len(syncs') : syncs'[j].replay # NoReplay => syncs'[j].replay <= At(i)
    <3>1. \A j \in 1..Len(syncs) : syncs[j].replay # NoReplay => syncs[j].replay <= At(i)
      BY <1>3 DEF Ready
    <3>2. CASE syncs' = syncs
      BY <3>1, <3>2
    <3>3. CASE syncs # <<>> /\ syncs' = Tail(syncs)
      <4>1. \A j \in 1..Len(syncs') : syncs'[j] = syncs[j + 1] /\ j + 1 \in 1..Len(syncs)
        BY <1>2, <3>3
      <4> QED
        BY <3>1, <4>1
    <3> QED
      BY <1>2, <3>2, <3>3
  <2>2. i = received + 1 => At(i) = FirstSeq + received
    BY <1>2 DEF At
  <2>3. i > received => i > k \/ i = received + 1
    BY <1>2
  <2>4. i > k \/ At(i) \in pending'
    <3>1. CASE Ignores
      <4>1. ~deferred /\ FirstSeq + received < nextSeq /\ pending' = pending
        BY <3>1 DEF Ignores, bufferVars
      <4>2. nextSeq \in Nat
        BY DEF Core, Types, TransportTypes
      <4>3. i # received + 1
        BY <1>2, <1>3, <2>2, <4>1, <4>2 DEF Ready
      <4> QED
        BY <1>3, <2>3, <4>1, <4>3 DEF Ready
    <3>2. CASE Holds
      BY <1>3, <2>2, <2>3, <3>2 DEF Holds, Ready
    <3>3. CASE Skips
      BY <1>1, <1>3, <3>3 DEF Skips, Ready, bufferVars
    <3> QED
      BY <3>1, <3>2, <3>3
  <2>5. ~deferred' => nextSeq' <= At(i)
    BY <1>2, <1>3 DEF Ready
  <2>6. Ready(i)'
    BY <1>1, <2>1, <2>4, <2>5 DEF Ready, At, NoReplay
  <2> QED
    BY <1>2, <1>3, <2>6 DEF Coming
<1>4. InConn(x) => Coming(x)'
  BY <1>2 DEF Coming, InConn, InSeq
<1> QED
  BY <1>3, <1>4 DEF Coming

\* What a complete reader lacks is on its way, without a fault.
LEMMA LackedIsComing ==
    ASSUME BoundsAssumption, Core, NEW r \in Readers, r \in on, Complete(r), hasSubscriber, faults = 0,
           NEW e \in Events, ~InSeq(e, Seen(r)), e <= emitted, e > since \/ receipt[e] # "none"
    PROVE  Coming(e) /\ receipt[e] = "none"
<1>1. receipt[e] \in {"none", "open", "numbered"}
  BY DEF Core, Types, GenerationTypes, Stream, FaultsAre
<1>2. receipt[e] = "none"
  BY <1>1 DEF Complete, Held
<1> QED
  BY <1>2 DEF Complete

\* What a reader has been given is behind the frontier, so before what it lacks.
LEMMA CompleteHasNoGap ==
    ASSUME BoundsAssumption, Core, Delivery, NEW r \in Readers, r \in on, Complete(r), hasSubscriber,
           faults = 0, reader[r].replay = "frontier"
    PROVE  NoGap(Seen(r))
<1> SUFFICES ASSUME NEW e \in Events, NEW d \in Events, InSeq(d, Seen(r)), ~InSeq(e, Seen(r)),
                    e <= emitted, e > since \/ receipt[e] # "none"
             PROVE  d < e
  BY DEF NoGap
<1>1. Coming(e)
  BY LackedIsComing
<1>2. d \in Nat /\ e \in Nat /\ d # e /\ d >= 1 /\ e >= 1
  BY FrameNumbers
<1>3. CASE d = Created
  BY <1>2, <1>3 DEF Created
<1>4. CASE d # Created
  <2>1. Behind(r) /\ Certain(Seen(r))
    BY DEF Delivery, Given
  <2>2. InLog(d)
    BY <1>4, <2>1 DEF Certain, Real, Decided, Core, Stream, FaultsAre
  <2>3. PICK k \in 1..Len(log) : log[k] = d
    BY <2>2 DEF InLog, InSeq
  <2>4. CASE InConn(e)
    <3>1. PICK j \in 1..Len(conn) : conn[j] = e
      BY <2>4 DEF InConn, InSeq
    <3>2. e # Get
      BY FrameNumbers
    <3> QED
      BY <2>3, <3>1, <3>2 DEF Core, Stream, LogBeforeConn
  <2>5. ASSUME NEW i \in 1..Len(log), log[i] = e, Ready(i) PROVE d < e
    <3>1. PICK l \in Nat : l = Len(log)
      BY DEF Core, Types, GenerationTypes
    <3>2. i \in Nat /\ k \in Nat /\ FirstSeq \in Nat /\ nextSeq \in Nat /\ syncs \in Seq(SyncCalls)
      BY <3>1 DEF BoundsAssumption, Core, Types, TransportTypes, SyncTypes
    <3>3. CASE ~deferred
      <4>1. Below(Seen(r), nextSeq) /\ nextSeq <= At(i)
        BY <2>1, <2>5, <3>3 DEF Behind, Ready
      <4>2. At(k) < nextSeq
        BY <1>4, <2>3, <4>1 DEF Below, Real, At
      <4>3. k < i
        BY <3>2, <4>1, <4>2 DEF At
      <4> QED
        BY <2>3, <2>5, <4>3 DEF Core, Stream, Ascends
    <3>4. CASE deferred
      <4>1. Replays /\ Below(Seen(r), Head(syncs).replay)
        BY <1>4, <2>1, <2>2, <3>4 DEF Behind, Unlogged, Real
      <4>2. Head(syncs) = syncs[1] /\ 1 \in 1..Len(syncs) /\ syncs[1].replay # NoReplay
        BY <3>2, <4>1 DEF Replays
      <4>3. PICK n \in Nat : n = syncs[1].replay
        <5>1. syncs[1] \in SyncCalls
          BY <3>2, <4>2
        <5> QED
          BY <5>1 DEF SyncCalls
      <4>4. n <= At(i)
        BY <2>5, <4>2, <4>3 DEF Ready
      <4>5. At(k) < n
        BY <1>4, <2>3, <4>1, <4>2, <4>3 DEF Below, Real, At
      <4>6. k < i
        BY <3>2, <4>4, <4>5 DEF At
      <4> QED
        BY <2>3, <2>5, <4>6 DEF Core, Stream, Ascends
    <3> QED
      BY <3>3, <3>4
  <2> QED
    BY <1>1, <2>4, <2>5 DEF Coming
<1> QED
  BY <1>3, <1>4

\* What a flush hands to the readers.
LEMMA FlushSeen ==
    ASSUME Core, NEW R, NEW es \in Seq(Frames), Handing(R, on, es), NEW r \in on
    PROVE  r \in on' => \A x :
              /\ InSeq(x, Seen(r)) => InSeq(x, Seen(r))'
              /\ InSeq(x, es) => InSeq(x, Seen(r))' \/ InSeq(Done, Seen(r))
              /\ InSeq(x, Seen(r))' => InSeq(x, Seen(r)) \/ InSeq(x, es)
<1>1. r \in Readers /\ Seen(r) \in Seq(Frames)
  BY GivenIs DEF Core, Types, ReaderTypes
<1>2. \A x : InSeq(x, Seen(r) \o es) <=> InSeq(x, Seen(r)) \/ InSeq(x, es)
  BY <1>1, InConcat
<1>3. PICK s : s = Seen(r)'
  OBVIOUS
<1>4. \A x : InSeq(x, Seen(r))' <=> InSeq(x, s)
  BY <1>3 DEF InSeq
<1>5. r \in on' => \/ InSeq(Done, Seen(r)) /\ s = Seen(r)
                   \/ s = Seen(r) \o es
  BY <1>1, <1>3 DEF Handing, Hears
<1> QED
  BY <1>2, <1>4, <1>5

\* What the transport does to a reader that stays, besides handing events to it.
LEMMA CarriedStays ==
    ASSUME Carried, NEW r \in Readers, r \in on, r \in on'
    PROVE  /\ reader'[r].kind = reader[r].kind /\ reader'[r].replay = reader[r].replay
           /\ reader'[r].told = reader[r].told /\ reader'[r].look = reader[r].look
           /\ \/ reader'[r].pc = reader[r].pc
              \/ reader[r].pc = "sync" /\ reader'[r].pc = "ready"
           /\ hasSubscriber' = hasSubscriber /\ since' = since
BY DEF Carried, RuntimeFollows

\* Who had the end to come has it to come, as long as nothing on its way is lost.
LEMMA EndStillComes ==
    ASSUME Carried, NEW r \in Readers, r \in on, r \in on', EndComes(r), skipped => skipped',
           StoreGrows, job' = job, InSeq(Done, Seen(r)) => InSeq(Done, Seen(r))',
           ~skipped' /\ Coming(Done) => Coming(Done)' \/ InSeq(Done, Seen(r))'
    PROVE  EndComes(r)'
<1>1. /\ reader'[r].look = reader[r].look
      /\ \/ reader'[r].pc = reader[r].pc
         \/ reader[r].pc = "sync" /\ reader'[r].pc = "ready"
  BY CarriedStays
<1> QED
  BY <1>1 DEF EndComes, Belated, StoreGrows, Attaching, Done

LEMMA PauseStillComes ==
    ASSUME BoundsAssumption, Core, Carried, NEW r \in Readers, r \in on, r \in on', PauseComes(r),
           AtEnd(r), skipped => skipped', job' = job, approval' = approval, receipt' = receipt,
           \A x : InSeq(x, Seen(r)) => InSeq(x, Seen(r))',
           \A x \in Frames : ~skipped' /\ Coming(x) =>
              Coming(x)' \/ InSeq(x, Seen(r))' \/ InSeq(Done, Seen(r))
    PROVE  PauseComes(r)'
<1>1. /\ reader'[r].kind = reader[r].kind /\ reader'[r].told = reader[r].told
      /\ \/ reader'[r].pc = reader[r].pc
         \/ reader[r].pc = "sync" /\ reader'[r].pc = "ready"
  BY CarriedStays
<1>2. PICK a : a = approval
  OBVIOUS
<1>3. a # 0 => a \in Frames
  BY <1>2 DEF Core, Types, GenerationTypes, Frames, Events, BoundsAssumption
<1>4. (Coming(approval)' <=> Coming(a)') /\ (InSeq(approval, Seen(r))' <=> InSeq(a, Seen(r))')
  BY <1>2 DEF Coming, InSeq
<1>5. ASSUME ~skipped', Untold(r)'
      PROVE  \/ InSeq(a, Seen(r))' \/ receipt[a] = "failed"
             \/ receipt[a] = "none" /\ Coming(a)'
  <2>1. Untold(r) /\ a # 0 /\ job = "paused" /\ ~skipped
    BY <1>1, <1>2, <1>5 DEF Untold
  <2>2. ~InSeq(Done, Seen(r))
    BY <2>1 DEF AtEnd
  <2>3. \/ InSeq(a, Seen(r)) \/ receipt[a] = "failed"
        \/ receipt[a] = "none" /\ Coming(a)
    BY <1>2, <2>1 DEF PauseComes
  <2> QED
    BY <1>3, <1>5, <2>1, <2>2, <2>3
<1> QED
  BY <1>2, <1>4, <1>5 DEF PauseComes

\* The order of the numbers is that of the log.
LEMMA EarlierFirst ==
    ASSUME BoundsAssumption, Core, NEW i \in 1..Len(log), NEW k \in 1..Len(log), At(k) < At(i)
    PROVE  log[k] < log[i]
<1>1. k < i /\ k \in Nat /\ i \in Nat
  BY DEF At, BoundsAssumption, Core, Types, GenerationTypes
<1> QED
  BY <1>1 DEF Core, Stream, Ascends

LEMMA FlushArrival ==
    ASSUME BoundsAssumption, Core, Core', Settling, Delivery, Arrival, Carried,
           NEW pops \in BOOLEAN, NEW P, NEW m \in Nat, NEW es \in Seq(Frames),
           Flushes(pops, P, m, es), Pops(pops), P \subseteq Nat,
           UNCHANGED <<generationVars, earlyVars>>, skipped => skipped', faults' = 0 => faults = 0,
           StoreGrows
    PROVE  Arrival'
<1>1. /\ log' = log /\ conn' = conn /\ job' = job /\ emitted' = emitted /\ approval' = approval
      /\ receipt' = receipt /\ closed' = closed /\ skipped' \in BOOLEAN
      /\ log \in Seq(Frames) /\ Len(log) \in Nat /\ FirstSeq \in Nat /\ syncs \in Seq(SyncCalls)
      /\ on \subseteq Readers /\ received' <= Len(log) /\ received' \in Nat
  BY DEF generationVars, earlyVars, Core, Types, GenerationTypes, SyncTypes, ReaderTypes, TransportTypes,
     BoundsAssumption
<1>1a. PICK l \in Nat, f \in Nat, g \in Nat : l = Len(log) /\ f = FirstSeq /\ g = received'
  BY <1>1
<1>2. /\ on # {} /\ Handing(Woken(pops), on, es) /\ on' \subseteq on
      /\ \A x : InSeq(x, es) <=> \E s \in P : s < m /\ x = log[s - FirstSeq + 1]
      /\ on' = {} => deferred' = FALSE
      /\ on' # {} => nextSeq' = m /\ deferred' = FALSE
      /\ \A s \in P : FirstSeq <= s /\ s < FirstSeq + received' /\ (~deferred => nextSeq <= s)
      /\ ~deferred => nextSeq <= m
  BY DEF Flushes, FlushStep, Flushed, Handing, Resets
<1>2a. ASSUME NEW s \in P PROVE s - FirstSeq + 1 \in 1..Len(log) /\ At(s - FirstSeq + 1) = s /\ s \in Nat
  <2>1. s \in Nat /\ f <= s /\ s < f + g /\ g <= l
    BY <1>1a, <1>1, <1>2
  <2>2. s - f + 1 \in 1..l /\ f + (s - f + 1) - 1 = s
    BY <2>1
  <2> QED
    BY <1>1a, <2>1, <2>2 DEF At
<1>3. ASSUME pops /\ ~Replays => ~skipped', NEW x \in Frames, Coming(x)
      PROVE  /\ InSeq(x, es) \/ InConn(x) \/ \E i \in 1..Len(log) : log[i] = x /\ m <= At(i)
             /\ on' # {} => InSeq(x, es) \/ Coming(x)'
  BY <1>3, FlushComing
<1>4. ASSUME NEW r \in Readers, r \in on, r \in on'
      PROVE  \A x : /\ InSeq(x, Seen(r)) => InSeq(x, Seen(r))'
                    /\ InSeq(x, es) => InSeq(x, Seen(r))' \/ InSeq(Done, Seen(r))
                    /\ InSeq(x, Seen(r))' => InSeq(x, Seen(r)) \/ InSeq(x, es)
  BY <1>2, <1>4, FlushSeen
<1>5. Retained' /\ Frontiers'
  <2>1. Retained'
    BY <1>2 DEF Retained
  <2>2. Counter' = Counter
    BY <1>1 DEF Counter
  <2>3. CASE syncs' = syncs
    BY <2>1, <2>2, <2>3 DEF Arrival, Frontiers, NoReplay
  <2>4. CASE syncs # <<>> /\ syncs' = Tail(syncs)
    <3>1. \A j \in 1..Len(syncs') : syncs'[j] = syncs[j + 1] /\ j + 1 \in 1..Len(syncs)
      BY <1>1, <2>4
    <3> QED
      BY <2>1, <2>2, <3>1 DEF Arrival, Frontiers, NoReplay
  <2> QED
    BY <2>1, <2>3, <2>4 DEF Pops
<1>5a. DoneAhead'
  <2>1. /\ DoneAhead /\ Done' = Done /\ received' \in {received, received + 1} /\ received \in Nat
        /\ nextSeq' = m \/ nextSeq' = 0
    BY DEF Arrival, Done, Flushes, FlushStep, Resets, Core, Types, TransportTypes
  <2> SUFFICES ASSUME NEW i \in 1..Len(log), log[i] = Done
               PROVE  /\ \A k \in 1..Len(syncs') : syncs'[k].replay # NoReplay => syncs'[k].replay <= At(i)
                      /\ i > received' /\ ~skipped' => nextSeq' <= At(i)
    BY <1>1, <2>1 DEF DoneAhead, At, NoReplay
  <2>2. /\ \A k \in 1..Len(syncs) : syncs[k].replay # NoReplay => syncs[k].replay <= At(i)
        /\ i > received /\ ~skipped => nextSeq <= At(i)
    BY <2>1 DEF DoneAhead
  <2>3. \A k \in 1..Len(syncs') : syncs'[k].replay # NoReplay => syncs'[k].replay <= At(i)
    <3>1. CASE syncs' = syncs
      BY <2>2, <3>1
    <3>2. CASE syncs # <<>> /\ syncs' = Tail(syncs)
      <4>1. \A j \in 1..Len(syncs') : syncs'[j] = syncs[j + 1] /\ j + 1 \in 1..Len(syncs)
        BY <1>1, <3>2
      <4> QED
        BY <2>2, <4>1
    <3> QED
      BY <3>1, <3>2 DEF Pops
  <2>4. ASSUME i > received', ~skipped' PROVE nextSeq' <= At(i)
    <3>0. i \in Nat /\ i > g /\ g >= received
      BY <1>1a, <2>1, <2>4
    <3>0a. PICK n : n = At(i)
      OBVIOUS
    <3>0b. n = FirstSeq + i - 1
      BY <3>0a DEF At
    <3>0c. n = f + i - 1
      BY <1>1a, <3>0b
    <3>0d. PICK h \in Nat : h = received
      BY <2>1
    <3>0e. i > h
      BY <3>0, <3>0d
    <3>0f. n \in Nat /\ n >= f + g
      BY <3>0, <3>0c
    <3>1. At(i) \in Nat /\ At(i) >= f + g /\ i > received
      BY <3>0a, <3>0d, <3>0e, <3>0f
    <3>2. Replays => Head(syncs).replay <= At(i)
      <4>1. Replays => 1 \in 1..Len(syncs) /\ Head(syncs) = syncs[1]
        BY <1>1 DEF Replays
      <4> QED
        BY <2>2, <4>1 DEF Replays
    <3>3. Ahead(At(i))
      BY <2>2, <2>4, <3>1, <3>2 DEF Ahead
    <3>4. m <= At(i)
      <4>1. \A s \in Nat : s >= FirstSeq + received' /\ Ahead(s) => m <= s
        BY <2>4 DEF Flushes
      <4> QED
        BY <1>1a, <3>1, <3>3, <4>1
    <3> QED
      BY <2>1, <3>1, <3>4
  <2> QED
    BY <2>3, <2>4
<1>6. ASSUME NEW r \in Readers, r \in on' PROVE AtEnd(r)' /\ EndComes(r)' /\ PauseComes(r)'
  <2>1. r \in on /\ AtEnd(r) /\ EndComes(r) /\ PauseComes(r)
    BY <1>2, <1>6 DEF Arrival
  <2>2. ASSUME InSeq(Done, Seen(r))' PROVE AtEnd(r)'
    <3>1. reader'[r].kind = reader[r].kind /\ deferred' = FALSE /\ nextSeq' = m
      BY <1>2, <1>6, <2>1, CarriedStays
    <3>2. CASE InSeq(Done, Seen(r))
      <4>1. nextSeq \in Nat /\ ~deferred => nextSeq <= m
        BY <1>2 DEF Core, Types, TransportTypes
      <4> QED
        BY <1>1, <2>1, <3>1, <3>2, <4>1 DEF AtEnd, At, Done, Core, Types, TransportTypes
    <3>3. CASE InSeq(Done, es)
      <4>1. PICK s \in P : s < m /\ Done = log[s - FirstSeq + 1]
        BY <1>2, <3>3
      <4>2. s \in Nat /\ FirstSeq <= s /\ s < FirstSeq + received'
        BY <1>2
      <4>3. PICK k \in 1..Len(log) : k = s - FirstSeq + 1
        BY <1>2a, <4>2
      <4>4. At(k) = s
        BY <1>1, <4>2, <4>3 DEF At
      <4>5. job \in {"complete", "replaced"}
        BY <4>1, <4>3 DEF Core, Stream, DoneIs, InLog, InSeq
      <4> QED
        BY <1>1, <3>1, <4>1, <4>3, <4>4, <4>5 DEF AtEnd, At, Done
    <3> QED
      BY <1>4, <1>6, <2>1, <2>2, <3>2, <3>3
  <2>3. AtEnd(r)'
    BY <2>2 DEF AtEnd
  <2>4. ASSUME NEW x \in Frames, ~skipped', Coming(x)
        PROVE  Coming(x)' \/ InSeq(x, Seen(r))' \/ InSeq(Done, Seen(r))
    BY <1>3, <1>4, <1>6, <2>1, <2>4
  <2>5. Done \in Frames
    BY FrameNumbers
  <2>6. EndComes(r)'
    BY <1>1, <1>4, <1>6, <2>1, <2>4, <2>5, EndStillComes DEF Done
  <2>7. PauseComes(r)'
    BY <1>1, <1>4, <1>6, <2>1, <2>4, PauseStillComes
  <2> QED
    BY <2>3, <2>6, <2>7
<1>7. ASSUME NEW r \in Readers, r \in on', reader'[r].replay = "frontier" PROVE Complete(r)'
  <2>1. r \in on /\ reader[r].replay = "frontier" /\ hasSubscriber' = hasSubscriber /\ since' = since
    BY <1>2, <1>7, CarriedStays
  <2>2. Complete(r) /\ AtEnd(r)
    BY <2>1 DEF Arrival
  <2>3. closed' /\ deferred' = FALSE /\ Len(syncs') <= 1 /\ (syncs' # <<>> => Replays')
    <3>1. closed' /\ deferred' = FALSE
      BY <1>1, <1>2, <1>7, <2>2 DEF Complete
    <3>2. CASE syncs' = syncs
      BY <2>2, <3>1, <3>2 DEF Complete, Replays, NoReplay
    <3>3. CASE syncs # <<>> /\ syncs' = Tail(syncs)
      BY <1>1, <2>2, <3>1, <3>3 DEF Complete
    <3> QED
      BY <3>1, <3>2, <3>3 DEF Pops
  <2>4. \A e \in Events : Held(e)' => InSeq(e, Seen(r))'
    BY <1>1, <1>4, <1>7, <2>1, <2>2 DEF Complete, Held
  <2>5. ASSUME faults' = 0, hasSubscriber', NEW e \in Events, e <= emitted', e > since',
               ~InSeq(e, Seen(r))'
        PROVE  Coming(e)'
    <3>1. e \in Frames /\ ~InSeq(e, Seen(r))
      BY <1>4, <1>7, <2>1, <2>5 DEF Frames
    <3>2. Coming(e)
      BY <1>1, <2>1, <2>2, <2>5, <3>1 DEF Complete
    <3>3. pops => Replays
      BY <2>2 DEF Complete, Pops
    <3>4. InSeq(e, es) \/ Coming(e)'
      BY <1>3, <1>7, <3>1, <3>2, <3>3
    <3>5. ~InSeq(e, es)
      <4> SUFFICES ASSUME InSeq(e, es) PROVE FALSE
        OBVIOUS
      <4>1. InSeq(Done, Seen(r))
        BY <1>4, <1>7, <2>1, <2>5
      <4>2. reader[r].kind = "initial"
        BY <2>1 DEF Core, Shapes, Shape
      <4>3. PICK k \in 1..Len(log) : log[k] = Done /\ At(k) < nextSeq /\ ~deferred
        BY <2>2, <4>1, <4>2 DEF AtEnd
      <4>4. PICK s \in P : s < m /\ e = log[s - FirstSeq + 1]
        BY <1>2
      <4>5. s \in Nat /\ FirstSeq <= s /\ s < FirstSeq + received' /\ nextSeq <= s
        BY <1>2, <4>3
      <4>6. PICK i \in 1..Len(log) : i = s - FirstSeq + 1
        BY <1>2a, <4>5
      <4>7. At(k) < At(i)
        BY <1>1, <4>3, <4>5, <4>6 DEF At, Core, Types, TransportTypes
      <4>8. Done < e
        BY <4>3, <4>4, <4>6, <4>7, EarlierFirst
      <4> QED
        BY <4>8, FrameNumbers
    <3> QED
      BY <3>4, <3>5
  <2> QED
    BY <2>3, <2>4, <2>5 DEF Complete, Events
<1>8. ASSUME NEW r \in Readers, r \notin on', reader'[r].replay = "frontier", faults' = 0
      PROVE  NoGap(reader[r].got)'
  <2>1. reader[r].replay = "frontier" /\ since' = since /\ faults = 0
    BY <1>8 DEF Carried, RuntimeFollows
  <2>2. CASE r \notin on
    <3>1. reader'[r].got = reader[r].got
      BY <2>2 DEF Carried
    <3>2. NoGap(reader[r].got)
      BY <1>8, <2>1, <2>2 DEF Arrival
    <3> QED
      BY <1>1, <2>1, <3>1, <3>2 DEF NoGap, InSeq, Events
  <2>3. CASE r \in on
    <3>1. reader[r].pc = "live" /\ reader'[r].got = Seen(r) \o es /\ hasSubscriber
      BY <1>2, <1>8, <2>3 DEF Handing, Settling, RuntimeIs
    <3>2. Complete(r)
      BY <2>1, <2>3 DEF Arrival
    <3>3. PICK s : s = Seen(r)
      OBVIOUS
    <3>4. s \in Seq(Frames)
      BY <3>3, GivenIs
    <3>5. \A x : InSeq(x, s \o es) <=> InSeq(x, s) \/ InSeq(x, es)
      BY <3>4, InConcat
    <3>6. Certain(s \o es) /\ Below(s \o es, m)
      BY <2>1, <2>3, <3>3, FlushIsNew
    <3>7. ASSUME NEW e \in Events, NEW d \in Events, InSeq(d, s \o es), ~InSeq(e, s \o es),
                 e <= emitted, e > since \/ receipt[e] # "none"
          PROVE  d < e
      <4>1. Coming(e)
        BY <2>1, <2>3, <3>1, <3>2, <3>3, <3>5, <3>7, LackedIsComing
      <4>2. d \in Nat /\ e \in Nat /\ d # e /\ d >= 1 /\ e >= 1 /\ e # Get /\ e \in Frames
        BY <3>7, FrameNumbers
      <4>3. pops => Replays
        BY <3>2 DEF Complete, Pops
      <4>4. InConn(e) \/ \E i \in 1..Len(log) : log[i] = e /\ m <= At(i)
        BY <1>3, <3>5, <3>7, <4>1, <4>2, <4>3
      <4>5. CASE d = Created
        BY <4>2, <4>5 DEF Created
      <4>6. CASE d # Created
        <5>1. InLog(d)
          BY <2>1, <3>6, <3>7, <4>6 DEF Certain, Real, Decided, Core, Stream, FaultsAre
        <5>2. PICK k \in 1..Len(log) : log[k] = d
          BY <5>1 DEF InLog, InSeq
        <5>3. At(k) < m
          BY <3>6, <3>7, <4>6, <5>2 DEF Below, Real, At
        <5>4. CASE InConn(e)
          <6>1. PICK j \in 1..Len(conn) : conn[j] = e
            BY <5>4 DEF InConn, InSeq
          <6> QED
            BY <4>2, <5>2, <6>1 DEF Core, Stream, LogBeforeConn
        <5>5. ASSUME NEW i \in 1..Len(log), log[i] = e, m <= At(i) PROVE d < e
          <6>1. At(k) < At(i)
            BY <1>1, <5>3, <5>5 DEF At
          <6> QED
            BY <5>2, <5>5, <6>1, EarlierFirst
        <5> QED
          BY <4>4, <5>4, <5>5
      <4> QED
        BY <4>5, <4>6
    <3>8. NoGap(s \o es)
      BY <3>7 DEF NoGap
    <3> QED
      BY <1>1, <2>1, <3>1, <3>3, <3>8 DEF NoGap, InSeq, Events
  <2> QED
    BY <2>2, <2>3
<1> QED
  BY <1>1, <1>2, <1>5, <1>5a, <1>6, <1>7, <1>8 DEF Arrival, Readers

LEMMA OtherArrival ==
    ASSUME BoundsAssumption, Core, Settling, Arrival, Carried, Ignores \/ Holds \/ Skips,
           UNCHANGED <<generationVars, earlyVars>>, skipped => skipped', faults' = 0 => faults = 0,
           StoreGrows
    PROVE  Arrival'
<1>1. /\ log' = log /\ conn' = conn /\ job' = job /\ emitted' = emitted /\ approval' = approval
      /\ receipt' = receipt /\ closed' = closed /\ on' = on /\ deferred' = deferred
      /\ nextSeq' = nextSeq /\ since' = since /\ hasSubscriber' = hasSubscriber
      /\ syncs' = syncs \/ (syncs # <<>> /\ syncs' = Tail(syncs))
      /\ log \in Seq(Frames) /\ Len(log) \in Nat /\ FirstSeq \in Nat /\ syncs \in Seq(SyncCalls)
      /\ on \subseteq Readers /\ received \in Nat
  <2>1. /\ log' = log /\ conn' = conn /\ job' = job /\ emitted' = emitted /\ approval' = approval
        /\ receipt' = receipt /\ closed' = closed
        /\ log \in Seq(Frames) /\ Len(log) \in Nat /\ FirstSeq \in Nat /\ syncs \in Seq(SyncCalls)
        /\ on \subseteq Readers /\ received \in Nat
    BY DEF generationVars, earlyVars, Core, Types, GenerationTypes, SyncTypes, ReaderTypes,
       TransportTypes, BoundsAssumption
  <2>2. /\ on' = on /\ deferred' = deferred /\ nextSeq' = nextSeq
        /\ since' = since /\ hasSubscriber' = hasSubscriber
        /\ syncs' = syncs \/ (syncs # <<>> /\ syncs' = Tail(syncs))
    BY DEF Ignores, Holds, Skips, bufferVars, runtimeVars, readerVars
  <2> QED
    BY <2>1, <2>2
<1>2. ASSUME NEW r \in Readers
      PROVE  /\ reader'[r].replay = reader[r].replay /\ reader'[r].kind = reader[r].kind
             /\ reader'[r].got = reader[r].got
             /\ Seen(r)' = Seen(r) /\ \A x : InSeq(x, Seen(r))' <=> InSeq(x, Seen(r))
  <2>1. CASE reader' = reader
    BY <2>1 DEF Seen, InSeq
  <2>2. CASE syncs # <<>> /\ reader' = Resumed
    <3>1. Likewise(Resumed) /\ Resumed[r].kind = reader[r].kind /\ Resumed[r].replay = reader[r].replay
      BY <2>2, ResumedIs DEF Core, Types
    <3>2. Seen(r)' = Seen(r)
      BY <2>2, <3>1 DEF Likewise, Seen
    <3> QED
      BY <2>2, <3>1, <3>2 DEF Likewise, InSeq
  <2> QED
    BY <2>1, <2>2 DEF Ignores, Holds, Skips, readerVars
<1>3. ASSUME NEW x \in Frames, Coming(x), on # {} PROVE Coming(x)'
  BY <1>3, OtherComing
<1>4. Retained'
  <2> SUFFICES ASSUME deferred, hasSubscriber, NEW i \in 1..Len(log), i <= received',
                      log[i] \in Events, log[i] > since
               PROVE  At(i) \in pending'
    BY <1>1 DEF Retained, At, Events
  <2>1. Holds
    BY DEF Settling, DeferredIs, Ignores, Skips
  <2>2. i <= received \/ At(i) = FirstSeq + received
    BY <1>1, <2>1 DEF Holds, At
  <2> QED
    BY <2>1, <2>2 DEF Holds, Arrival, Retained
<1>5. Frontiers'
  <2>1. Counter' = Counter
    BY <1>1 DEF Counter
  <2>2. CASE syncs' = syncs
    BY <2>1, <2>2 DEF Arrival, Frontiers, NoReplay
  <2>3. CASE syncs # <<>> /\ syncs' = Tail(syncs)
    <3>1. \A j \in 1..Len(syncs') : syncs'[j] = syncs[j + 1] /\ j + 1 \in 1..Len(syncs)
      BY <1>1, <2>3
    <3> QED
      BY <2>1, <3>1 DEF Arrival, Frontiers, NoReplay
  <2> QED
    BY <1>1, <2>2, <2>3
<1>5a. DoneAhead'
  <2>1. PICK k \in Nat : k = received' /\ k >= received
    BY <1>1 DEF Ignores, Holds, Skips
  <2>2. DoneAhead /\ Done' = Done
    BY DEF Arrival, Done
  <2>3. CASE syncs' = syncs
    BY <1>1, <2>1, <2>2, <2>3 DEF DoneAhead, At, NoReplay
  <2>4. CASE syncs # <<>> /\ syncs' = Tail(syncs)
    <3>1. \A j \in 1..Len(syncs') : syncs'[j] = syncs[j + 1] /\ j + 1 \in 1..Len(syncs)
      BY <1>1, <2>4
    <3>2. ASSUME NEW i \in 1..Len(log), log[i] = Done
          PROVE  /\ \A j \in 1..Len(syncs') : syncs'[j].replay # NoReplay => syncs'[j].replay <= At(i)
                 /\ i > k /\ ~skipped' => nextSeq <= At(i)
      <4>1. /\ \A j \in 1..Len(syncs) : syncs[j].replay # NoReplay => syncs[j].replay <= At(i)
            /\ i > received /\ ~skipped => nextSeq <= At(i)
        BY <2>2, <3>2 DEF DoneAhead
      <4>2. i > k => i > received
        BY <1>1, <2>1
      <4> QED
        BY <3>1, <4>1, <4>2
    <3> QED
      BY <1>1, <2>1, <2>2, <3>2 DEF DoneAhead, At, NoReplay
  <2> QED
    BY <1>1, <2>3, <2>4
<1>6. ASSUME NEW r \in Readers, r \in on PROVE AtEnd(r)' /\ EndComes(r)' /\ PauseComes(r)'
  <2>1. AtEnd(r) /\ EndComes(r) /\ PauseComes(r) /\ on # {} /\ Done \in Frames
    BY <1>6, FrameNumbers DEF Arrival
  <2>2. AtEnd(r)'
    BY <1>1, <1>2, <2>1 DEF AtEnd, At, Done
  <2>3. EndComes(r)'
    BY <1>1, <1>2, <1>3, <1>6, <2>1, EndStillComes DEF Done
  <2>4. PauseComes(r)'
    BY <1>1, <1>2, <1>3, <1>6, <2>1, PauseStillComes
  <2> QED
    BY <2>2, <2>3, <2>4
<1>7. ASSUME NEW r \in Readers, r \in on, reader[r].replay = "frontier" PROVE Complete(r)'
  <2>1. Complete(r) /\ on # {}
    BY <1>7 DEF Arrival
  <2>2. Len(syncs') <= 1 /\ (syncs' # <<>> => Replays') /\ (syncs' = <<>> => syncs = <<>> \/ Skips)
    <3>1. CASE syncs' = syncs
      BY <2>1, <3>1 DEF Complete, Replays, NoReplay
    <3>2. CASE syncs # <<>> /\ syncs' = Tail(syncs)
      <4>1. Tail(syncs) # syncs
        BY <1>1, <3>2, TailDiffers
      <4> QED
        BY <1>1, <2>1, <3>2, <4>1 DEF Complete, Ignores, Holds
    <3> QED
      BY <1>1, <3>1, <3>2
  <2>3. deferred' => syncs' # <<>>
    BY <1>1, <2>1, <2>2 DEF Complete, Skips
  <2>4. \A e \in Events : Held(e)' => InSeq(e, Seen(r))'
    BY <1>1, <1>2, <2>1 DEF Complete, Held
  <2>5. \A e \in Events : Coming(e) => Coming(e)'
    BY <1>3, <2>1 DEF Frames
  <2> QED
    BY <1>1, <1>2, <2>1, <2>2, <2>3, <2>4, <2>5 DEF Complete, Events
<1>8. ASSUME NEW r \in Readers, r \notin on, reader[r].replay = "frontier", faults' = 0
      PROVE  NoGap(reader[r].got)'
  <2>1. NoGap(reader[r].got) /\ reader'[r].got = reader[r].got
    BY <1>2, <1>8 DEF Arrival
  <2> QED
    BY <1>1, <2>1 DEF NoGap, InSeq, Events
<1> QED
  BY <1>1, <1>2, <1>4, <1>5, <1>5a, <1>6, <1>7, <1>8 DEF Arrival, Readers

LEMMA TransportArrival ==
    ASSUME BoundsAssumption, Core, Settling, Delivery, Arrival, TransportActions, StoreGrows
    PROVE  Arrival'
<1>1. Core' /\ TransportStep /\ Carried
  BY TransportCore
<1>2. /\ UNCHANGED <<generationVars, earlyVars>>
      /\ skipped => skipped'
      /\ faults' = 0 => faults = 0
  BY <1>1 DEF TransportStep, Core, Types, RuntimeTypes
<1>3. CASE Ignores \/ Holds \/ Skips
  BY <1>1, <1>2, <1>3, OtherArrival
<1>4. ASSUME NEW pops \in BOOLEAN, NEW P \in SUBSET Nat, NEW m \in Nat, NEW es \in Seq(Frames),
             Flushes(pops, P, m, es), Pops(pops)
      PROVE  Arrival'
  <2>1. P \subseteq Nat
    OBVIOUS
  <2> QED
    BY <1>1, <1>2, <1>4, <2>1, FlushArrival
<1> QED
  BY <1>1, <1>3, <1>4 DEF TransportStep

(***************************************************************************)
(* by the requests,                                                        *)
(***************************************************************************)

\* A request does nothing to the transport while somebody stays.
LEMMA MovesLeave ==
    ASSUME BoundsAssumption, Core, NEW r \in Readers, Moves(r), on # {}, on' # {}
    PROVE  /\ UNCHANGED bufferVars
           /\ \A x : Coming(x)' <=> Coming(x)
<1>1. UNCHANGED bufferVars
  BY DEF Moves, Joins, Takes, Goes, Stays
<1>2. UNCHANGED <<generationVars, received, syncVars>>
  BY DEF Moves, Alone
<1> QED
  BY <1>1, <1>2 DEF Coming, Ready, At, InConn, InSeq, bufferVars, generationVars, syncVars, NoReplay

LEMMA NothingHasNoGap == NoGap(<<>>)
BY Empty DEF NoGap

\* What a sequence lacks grows with nothing but the events emitted.
LEMMA NoGapKept ==
    ASSUME BoundsAssumption, NEW s, NoGap(s), emitted' = emitted, receipt' = receipt,
           since \in Nat, NEW n \in Nat, since' = n, n >= since
    PROVE  NoGap(s)'
BY FrameNumbers DEF NoGap, InSeq, Events

LEMMA RequestArrival ==
    ASSUME BoundsAssumption, Core, Settling, Delivery, Arrival, NEW r \in Readers, Moves(r),
           StoreGrows
    PROVE  Arrival'
<1>1. /\ log' = log /\ conn' = conn /\ job' = job /\ emitted' = emitted /\ approval' = approval
      /\ receipt' = receipt /\ closed' = closed /\ syncs' = syncs /\ received' = received
      /\ skipped' = skipped /\ on' \subseteq Readers
      /\ \A q \in Readers : q # r => reader'[q] = reader[q] /\ (q \in on' <=> q \in on)
      /\ \A q \in Readers : q # r => Seen(q)' = Seen(q)
  BY DEF Moves, Alone, generationVars, earlyVars, syncVars, Seen
<1>2. /\ log \in Seq(Frames) /\ Len(log) \in Nat /\ FirstSeq \in Nat /\ syncs \in Seq(SyncCalls)
      /\ on \subseteq Readers /\ emitted \in Nat /\ since \in Nat /\ since <= emitted
      /\ faults \in Nat /\ (faults' = 0 => faults = 0)
  BY DEF Core, Types, GenerationTypes, SyncTypes, ReaderTypes, RuntimeTypes, BoundsAssumption, Moves
<1>3. /\ Joins(r) \/ Takes(r) \/ Goes(r)
      /\ Gains(r) /\ Learns(r)
  BY DEF Moves
<1>4. ASSUME on # {}, on' # {}
      PROVE  UNCHANGED bufferVars /\ \A x : Coming(x)' <=> Coming(x)
  BY <1>4, MovesLeave
<1>5. /\ ~Takes(r) => since' = since /\ (hasSubscriber' => hasSubscriber)
      /\ Takes(r) => since' = emitted /\ since' = emitted'
  <2>1. CASE Joins(r)
    BY <1>1, <2>1 DEF Joins, Takes, runtimeVars
  <2>2. CASE Takes(r)
    BY <1>1, <2>2 DEF Takes
  <2>3. CASE Goes(r)
    BY <1>1, <2>3 DEF Goes, Takes, RuntimeFollows
  <2> QED
    BY <1>3, <2>1, <2>2, <2>3
<1>6. PICK n \in Nat : since' = n /\ n >= since
  <2>1. since' = since \/ since' = emitted
    BY <1>5
  <2> QED
    BY <1>2, <2>1
<1>7. Retained'
  <2> SUFFICES ASSUME deferred', hasSubscriber', NEW i \in 1..Len(log), i <= received,
                      log[i] \in Events, log[i] > since'
               PROVE  At(i) \in pending'
    BY <1>1 DEF Retained, At, Events
  <2>1. ~Takes(r)
    <3> SUFFICES ASSUME Takes(r) PROVE FALSE
      OBVIOUS
    <3>1. log[i] > emitted /\ InLog(log[i])
      BY <1>5 DEF InLog, InSeq
    <3>2. PICK e \in Events : e = log[i]
      OBVIOUS
    <3>3. e <= emitted /\ e \in Nat /\ e > emitted
      BY <3>1, <3>2, FrameNumbers DEF Core, Stream, EmittedAre, EmittedIs
    <3> QED
      BY <1>2, <3>3
  <2>2. hasSubscriber /\ since' = since /\ on # {}
    BY <1>5, <2>1 DEF Settling, RuntimeIs
  <2>3. on' # {}
    BY <1>3, <2>1, <2>2 DEF Joins, Goes, Resets, RuntimeFollows
  <2> QED
    BY <1>4, <2>2, <2>3 DEF Arrival, Retained, bufferVars
<1>8. Frontiers'
  BY <1>1 DEF Arrival, Frontiers, Counter, NoReplay
<1>8a. DoneAhead'
  <2>1. nextSeq' = nextSeq \/ nextSeq' = 0
    BY <1>3 DEF Joins, Takes, Goes, Stays, Resets, bufferVars
  <2>2. \A i \in 1..Len(log) : At(i) \in Nat
    BY <1>2 DEF At
  <2> QED
    BY <1>1, <2>1, <2>2 DEF Arrival, DoneAhead, At, NoReplay, Done
<1>9. ASSUME NEW q \in Readers, q \in on, q \in on',
             \A x : InSeq(x, Seen(q)) => InSeq(x, Seen(q))'
      PROVE  reader'[q].replay = "frontier" /\ reader[q].replay = "frontier" => Complete(q)'
  <2> SUFFICES ASSUME reader'[q].replay = "frontier", reader[q].replay = "frontier"
               PROVE  Complete(q)'
    OBVIOUS
  <2>1. Complete(q) /\ UNCHANGED bufferVars
    BY <1>4, <1>9 DEF Arrival
  <2>2. closed' /\ (deferred' => syncs' # <<>>) /\ Len(syncs') <= 1 /\ (syncs' # <<>> => Replays')
    BY <1>1, <2>1 DEF Complete, Replays, NoReplay, bufferVars
  <2>3. \A e \in Events : Held(e)' => InSeq(e, Seen(q))'
    BY <1>1, <1>9, <2>1 DEF Complete, Held
  <2>4. ASSUME faults' = 0, hasSubscriber', NEW e \in Events, e <= emitted', e > since',
               ~InSeq(e, Seen(q))'
        PROVE  Coming(e)'
    <3>1. ~Takes(r)
      BY <1>2, <1>5, <2>4, FrameNumbers
    <3>2. Coming(e)
      BY <1>1, <1>2, <1>5, <1>9, <2>1, <2>4, <3>1 DEF Complete
    <3> QED
      BY <1>4, <1>9, <3>2
  <2> QED
    BY <2>2, <2>3, <2>4 DEF Complete, Events
\* The others.
<1>10. ASSUME NEW q \in Readers, q # r
       PROVE  /\ q \in on' => AtEnd(q)' /\ EndComes(q)' /\ PauseComes(q)'
              /\ reader'[q].replay = "frontier" =>
                    /\ q \in on' => Complete(q)'
                    /\ q \notin on' /\ faults' = 0 => NoGap(reader[q].got)'
  <2>1. reader'[q] = reader[q] /\ (q \in on' <=> q \in on) /\ Seen(q)' = Seen(q)
    BY <1>1, <1>10
  <2>2. \A x : InSeq(x, Seen(q))' <=> InSeq(x, Seen(q))
    BY <2>1 DEF InSeq
  <2>3. ASSUME q \in on' PROVE AtEnd(q)' /\ EndComes(q)' /\ PauseComes(q)'
    <3>1. /\ AtEnd(q) /\ EndComes(q) /\ PauseComes(q)
          /\ UNCHANGED bufferVars /\ \A x : Coming(x)' <=> Coming(x)
      BY <1>4, <2>1, <2>3 DEF Arrival
    <3>2. AtEnd(q)'
      BY <1>1, <2>1, <2>2, <3>1 DEF AtEnd, At, bufferVars, Done
    <3>3. EndComes(q)'
      BY <1>1, <2>1, <2>2, <3>1 DEF EndComes, Belated, StoreGrows, Attaching, Done
    <3>4. PauseComes(q)'
      <4>1. (Coming(approval)' <=> Coming(approval)) /\ (InSeq(approval, Seen(q))' <=> InSeq(approval, Seen(q)))
        <5>1. PICK a : a = approval
          OBVIOUS
        <5>2. (Coming(a)' <=> Coming(a)) /\ (InSeq(a, Seen(q))' <=> InSeq(a, Seen(q)))
          BY <2>2, <3>1
        <5> QED
          BY <1>1, <5>1, <5>2 DEF Coming, InSeq
      <4> QED
        BY <1>1, <2>1, <3>1, <4>1 DEF PauseComes, Untold
    <3> QED
      BY <3>2, <3>3, <3>4
  <2>4. reader'[q].replay = "frontier" /\ q \in on' => Complete(q)'
    BY <1>9, <2>1, <2>2
  <2>5. ASSUME reader'[q].replay = "frontier", q \notin on', faults' = 0
        PROVE  NoGap(reader[q].got)'
    <3>1. PICK s : s = reader[q].got
      OBVIOUS
    <3>2. NoGap(s) /\ reader'[q].got = s
      BY <1>2, <2>1, <2>5, <3>1 DEF Arrival
    <3>3. NoGap(s)'
      BY <1>1, <1>2, <1>6, <3>2, NoGapKept
    <3> QED
      BY <3>2, <3>3 DEF NoGap, InSeq
  <2> QED
    BY <2>3, <2>4, <2>5
\* The request itself stays.
<1>11. ASSUME r \in on, r \in on'
       PROVE  /\ AtEnd(r)' /\ EndComes(r)' /\ PauseComes(r)'
              /\ reader'[r].replay = "frontier" => Complete(r)'
  <2>1. /\ AtEnd(r) /\ EndComes(r) /\ PauseComes(r)
        /\ UNCHANGED bufferVars /\ \A x : Coming(x)' <=> Coming(x)
    BY <1>4, <1>11 DEF Arrival
  <2>2. /\ reader'[r].kind = reader[r].kind /\ reader'[r].replay = reader[r].replay
        /\ \/ Seen(r)' = Seen(r)
           \/ /\ job = "complete" /\ reader[r].kind = "resume"
              /\ ~InSeq(Done, Seen(r)) /\ Seen(r)' = Seen(r) \o <<Done>>
    BY <1>3, <1>11 DEF Gains
  <2>3. PICK s : s = Seen(r)
    OBVIOUS
  <2>4. s \in Seq(Frames) /\ <<Done>> \in Seq(Frames) /\ \A x : InSeq(x, Seen(r)) <=> InSeq(x, s)
    BY <2>3, GivenIs, FrameNumbers DEF InSeq
  <2>5. /\ \A x : InSeq(x, Seen(r)) => InSeq(x, Seen(r))'
        /\ Seen(r)' = Seen(r) => \A x : InSeq(x, Seen(r))' <=> InSeq(x, Seen(r))
    <3>1. PICK t : t = Seen(r)'
      OBVIOUS
    <3>2. \A x : InSeq(x, Seen(r))' <=> InSeq(x, t)
      BY <3>1 DEF InSeq
    <3>3. t = s \/ t = s \o <<Done>>
      BY <2>2, <2>3, <3>1
    <3>4. \A x : InSeq(x, s) => InSeq(x, t)
      <4>1. \A x : InSeq(x, s) => InSeq(x, s \o <<Done>>)
        BY <2>4, InConcat
      <4> QED
        BY <3>3, <4>1
    <3> QED
      BY <2>3, <2>4, <3>1, <3>2, <3>4
  <2>6. AtEnd(r)'
    <3>1. CASE Seen(r)' = Seen(r)
      BY <1>1, <2>1, <2>2, <2>5, <3>1 DEF AtEnd, At, bufferVars, Done
    <3>2. CASE job = "complete" /\ reader[r].kind = "resume"
      BY <1>1, <2>2, <3>2 DEF AtEnd
    <3> QED
      BY <2>2, <3>1, <3>2
  <2>7. EndComes(r)'
    BY <1>1, <1>3, <1>11, <2>1, <2>5 DEF EndComes, Belated, StoreGrows, Learns, TerminalStored, Attaching, Done
  <2>8. PauseComes(r)'
    <3>1. PICK a : a = approval
      OBVIOUS
    <3>2. Coming(approval)' <=> Coming(a)
      <4>1. Coming(approval)' <=> Coming(a)'
        BY <1>1, <3>1 DEF Coming
      <4> QED
        BY <2>1, <4>1
    <3>3. InSeq(approval, Seen(r)) => InSeq(approval, Seen(r))'
      <4>1. InSeq(approval, Seen(r))' <=> InSeq(a, Seen(r))'
        BY <1>1, <3>1 DEF InSeq
      <4> QED
        BY <2>5, <3>1, <4>1
    <3>4. Untold(r)' => Untold(r)
      <4> SUFFICES ASSUME Untold(r)' PROVE Untold(r)
        OBVIOUS
      <4>1. /\ reader'[r].kind = "resume" /\ reader'[r].pc \in {"reconciled", "live"}
            /\ ~reader'[r].told /\ job = "paused" /\ approval # 0
        BY <1>1 DEF Untold
      <4>2. reader[r].pc \in {"reconciled", "live"} /\ reader'[r].told = reader[r].told
        BY <1>3, <1>11, <4>1 DEF Learns
      <4> QED
        BY <2>2, <4>1, <4>2 DEF Untold
    <3> QED
      BY <1>1, <2>1, <3>1, <3>2, <3>3, <3>4 DEF PauseComes
  <2> QED
    BY <1>9, <1>11, <2>2, <2>5, <2>6, <2>7, <2>8
\* It joins.
<1>12. ASSUME r \notin on, r \in on'
       PROVE  AtEnd(r)' /\ EndComes(r)' /\ PauseComes(r)' /\ reader'[r].replay # "frontier"
  <2>1. Joins(r)
    BY <1>3, <1>12 DEF Takes, Goes
  <2>2. /\ reader'[r].pc = "check" /\ reader'[r].queue = <<>> /\ reader'[r].replay = "none"
    BY <2>1 DEF Joins
  <2>3. Seen(r)' = <<>>
    BY <2>2 DEF Seen
  <2>4. ~InSeq(Done, Seen(r))'
    BY <2>3 DEF InSeq, Done
  <2>5. EndComes(r)'
    <3> SUFFICES ASSUME ~skipped, job = "complete", r \notin late' PROVE Coming(Done)'
      BY <1>1, <2>2 DEF EndComes, Belated, Attaching, Core, Types, GenerationTypes
    <3>1. CASE InConn(Done)
      BY <1>1, <3>1 DEF Coming, InConn, InSeq, Done
    <3>2. ASSUME NEW i \in 1..Len(log), log[i] = Done PROVE Coming(Done)'
      <4>1. received \in Nat /\ At(i) \in Nat
        BY <1>2 DEF Core, Types, TransportTypes, At
      <4>2. i > received
        BY <2>1, <3>2, <4>1 DEF Joins
      <4>3. nextSeq' = nextSeq \/ nextSeq' = 0
        BY <2>1 DEF Joins, Resets, bufferVars
      <4>4. Ready(i)'
        BY <1>1, <3>2, <4>1, <4>2, <4>3 DEF Ready, Arrival, DoneAhead, At, NoReplay
      <4> QED
        BY <1>1, <3>2, <4>4 DEF Coming, Done
    <3> QED
      BY <3>1, <3>2 DEF Core, Stream, DoneIs, InLog, InSeq
  <2> QED
    BY <2>2, <2>4, <2>5 DEF AtEnd, PauseComes, Untold, Done
\* It is not there any more.
<1>13. ASSUME r \notin on', reader'[r].replay = "frontier", faults' = 0
       PROVE  NoGap(reader[r].got)'
  <2>1. PICK t : t = reader'[r].got
    OBVIOUS
  <2>2. NoGap(t)
    <3>1. CASE t = <<>>
      BY <3>1, NothingHasNoGap
    <3>2. CASE r \notin on /\ reader[r].replay = "frontier" /\ t = reader[r].got
      BY <1>2, <1>13, <3>2 DEF Arrival
    <3>3. CASE r \in on /\ t = reader[r].got /\ reader[r].pc # "live"
      <4>1. t = <<>>
        BY <3>3 DEF Core, Shapes, Shape
      <4> QED
        BY <4>1, NothingHasNoGap
    <3>4. ASSUME r \in on, reader[r].replay = "frontier", reader[r].pc # "check" PROVE NoGap(Seen(r))
      <4>1. hasSubscriber /\ Complete(r) /\ faults = 0
        BY <1>2, <1>13, <3>4 DEF Settling, RuntimeIs, Arrival
      <4> QED
        BY <3>4, <4>1, CompleteHasNoGap
    <3>5. ASSUME NEW s \in Seq(Frames), NoGap(s) PROVE NoGap(s \o <<Done>>)
      <4>1. <<Done>> \in Seq(Frames) /\ \A x : InSeq(x, <<Done>>) => x = Done
        BY FrameNumbers DEF InSeq
      <4>2. \A e \in Events : InSeq(e, s \o <<Done>>) <=> InSeq(e, s)
        BY <4>1, InConcat, FrameNumbers
      <4> QED
        BY <3>5, <4>2 DEF NoGap
    <3>6. PICK s : s = Seen(r)
      OBVIOUS
    <3>7. s \in Seq(Frames)
      BY <3>6, GivenIs
    <3>8. CASE /\ r \in on /\ reader[r].replay = "frontier" /\ reader[r].pc # "check"
               /\ t = s \/ t = s \o <<Done>>
      BY <3>4, <3>5, <3>6, <3>7, <3>8
    <3>9. CASE r \in on /\ reader[r].replay = "frontier" /\ t = reader[r].got /\ reader[r].pc = "live"
      BY <3>4, <3>9 DEF Seen
    <3> QED
      BY <1>3, <1>13, <2>1, <3>1, <3>2, <3>3, <3>6, <3>8, <3>9 DEF Gains
  <2>3. NoGap(t)'
    BY <1>1, <1>2, <1>6, <2>2, NoGapKept
  <2> QED
    BY <2>1, <2>3 DEF NoGap, InSeq
<1> QED
  BY <1>1, <1>7, <1>8, <1>8a, <1>10, <1>11, <1>12, <1>13 DEF Arrival, Readers

(***************************************************************************)
(* and by the two ends of a bootstrap.                                     *)
(***************************************************************************)

\* The frontier of a replay is where an event of the buffer is in the log.
LEMMA FrontierNumber ==
    ASSUME BoundsAssumption, Core, EarlyIs, ReplayedNextSeq # NoReplay
    PROVE  \E j \in 1..Len(log) :
              /\ ReplayedNextSeq = At(j) + 1 /\ InSeq(log[j], buffered) /\ buffered # <<>>
              /\ log[j] \in Events /\ receipt[log[j]] = "numbered"
<1>1. FrontierIs(ReplayedNextSeq)
  BY ReplayedNextSeqIs DEF Core, Types
<1>2. PICK j \in Numbered : ReplayedNextSeq = FirstSeq + j
  BY <1>1 DEF FrontierIs
<1>3. j \in 1..Len(log) /\ InSeq(log[j], buffered) /\ receipt[log[j]] = "numbered"
  BY <1>2 DEF Numbered
<1>4. buffered \in Seq(Events) /\ FirstSeq \in Nat /\ Len(log) \in Nat
  BY DEF Core, Types, EarlyTypes, GenerationTypes, BoundsAssumption
<1>5. log[j] \in Events /\ buffered # <<>>
  BY <1>3, <1>4 DEF InSeq
<1>6. ReplayedNextSeq = At(j) + 1
  BY <1>2, <1>3, <1>4 DEF At
<1> QED
  BY <1>3, <1>5, <1>6

\* A new sync leaves on its way what comes after the buffer.
LEMMA ClosesComing ==
    ASSUME BoundsAssumption, Core, EarlyIs, NEW r, NEW replay, Closes(r, replay),
           replay # NoReplay => replay = ReplayedNextSeq, UNCHANGED bufferVars,
           NEW x \in Frames, \A b \in Events : InSeq(b, buffered) /\ receipt[b] = "numbered" => b < x
    PROVE  /\ InConn(x) => Coming(x)'
           /\ \A i \in 1..Len(log) : log[i] = x /\ Ready(i) => Ready(i)' /\ Coming(x)'
           /\ Coming(x) => Coming(x)'
<1>1. /\ log' = log /\ received' = received /\ conn' = Append(conn, Get)
      /\ syncs' = Append(syncs, [by |-> r, replay |-> replay, val |-> Unread])
      /\ conn \in Seq(Commands) /\ Get \in Commands /\ syncs \in Seq(SyncCalls)
      /\ Len(log) \in Nat /\ FirstSeq \in Nat
  BY DEF Closes, Core, Types, GenerationTypes, SyncTypes, Commands, BoundsAssumption
<1>2. InConn(x) => Coming(x)'
  <2>1. \A y : InSeq(y, conn') <=> InSeq(y, conn) \/ y = Get
    BY <1>1, InAppend
  <2> QED
    BY <2>1 DEF Coming, InConn, InSeq
<1>3. ASSUME NEW i \in 1..Len(log), log[i] = x, Ready(i) PROVE Ready(i)' /\ Coming(x)'
  <2>1. replay # NoReplay => replay <= At(i)
    <3> SUFFICES ASSUME replay # NoReplay PROVE replay <= At(i)
      OBVIOUS
    <3>1. PICK j \in 1..Len(log) :
             /\ replay = At(j) + 1 /\ InSeq(log[j], buffered) /\ log[j] \in Events
             /\ receipt[log[j]] = "numbered"
      BY FrontierNumber
    <3>2. log[j] < x /\ log[j] \in Nat /\ x \in Nat
      BY <3>1, FrameNumbers
    <3>3. ~(i <= j)
      <4>1. i < j => log[i] < log[j]
        BY DEF Core, Stream, Ascends
      <4> QED
        BY <1>1, <1>3, <3>2, <4>1
    <3> QED
      BY <1>1, <3>1, <3>3 DEF At
  <2>2. \A k \in 1..Len(syncs') : syncs'[k].replay # NoReplay => syncs'[k].replay <= At(i)
    <3>1. \A k \in 1..Len(syncs') : (k \in 1..Len(syncs) /\ syncs'[k] = syncs[k])
                                    \/ syncs'[k].replay = replay
      BY <1>1
    <3> QED
      BY <1>3, <2>1, <3>1 DEF Ready
  <2>3. Ready(i)'
    BY <1>1, <1>3, <2>2 DEF Ready, At, NoReplay, bufferVars
  <2> QED
    BY <1>1, <1>3, <2>3 DEF Coming
<1> QED
  BY <1>2, <1>3 DEF Coming

LEMMA ClosesArrival ==
    ASSUME BoundsAssumption, Core, Settling, Delivery, Arrival, NEW r \in Readers \cup {Nobody},
           NEW es \in Seq(Events), NEW paused \in BOOLEAN, ReplayStep(r, es, paused),
           NEW replay, Closes(r, replay), paused => deferred,
           replay # NoReplay => replay = ReplayedNextSeq,
           paused /\ Early # {} => replay = ReplayedNextSeq /\ (buffered # <<>> => es = buffered),
           r \in Readers => reader[r].pc = "recheck", StoreGrows
    PROVE  Arrival'
<1>1. /\ log' = log /\ job' = job /\ emitted' = emitted /\ approval' = approval
      /\ receipt' = receipt /\ closed' = TRUE /\ received' = received
      /\ skipped' = skipped /\ on' = on /\ faults' = faults
      /\ syncs' = Append(syncs, [by |-> r, replay |-> replay, val |-> Unread])
      /\ hasSubscriber' = hasSubscriber /\ since' = since
      /\ on # {} => UNCHANGED bufferVars
      /\ on = {} => deferred' = FALSE
  BY DEF Closes, ReplayStep, faultVars, runtimeVars, Resets
<1>2. /\ log \in Seq(Frames) /\ Len(log) \in Nat /\ FirstSeq \in Nat /\ syncs \in Seq(SyncCalls)
      /\ on \subseteq Readers /\ emitted \in Nat /\ since \in Nat /\ since <= emitted
      /\ syncs' \in Seq([by : {r}, replay : {replay}, val : {Unread}] \cup SyncCalls)
  BY <1>1 DEF Core, Types, GenerationTypes, SyncTypes, ReaderTypes, RuntimeTypes, BoundsAssumption
<1>3. EarlyIs
  BY DEF Settling
<1>4. ASSUME NEW x \in Frames, on # {},
             \A b \in Events : InSeq(b, buffered) /\ receipt[b] = "numbered" => b < x
      PROVE  /\ InConn(x) => Coming(x)'
             /\ \A i \in 1..Len(log) : log[i] = x /\ Ready(i) => Ready(i)' /\ Coming(x)'
             /\ Coming(x) => Coming(x)'
  BY <1>1, <1>3, <1>4, ClosesComing
<1>5. ASSUME NEW q \in Readers, q \in on
      PROVE  /\ reader'[q].kind = reader[q].kind /\ reader'[q].told = reader[q].told
             /\ reader'[q].look = reader[q].look
             /\ q = r => reader[q].pc = "recheck" /\ reader'[q].pc = "sync"
             /\ q # r => reader'[q].pc = reader[q].pc
             /\ \A x : InSeq(x, Seen(q)) => InSeq(x, Seen(q))'
             /\ \A x : InSeq(x, Seen(q))' => InSeq(x, Seen(q)) \/ InSeq(x, es)
             /\ Hears(Early, q) => \A x : InSeq(x, es) => InSeq(x, Seen(q))'
  <2>1. PICK s : s = Seen(q)
    OBVIOUS
  <2>2. PICK t : t = Seen(q)'
    OBVIOUS
  <2>3. s \in Seq(Frames) /\ es \in Seq(Frames)
    <3>1. Events \subseteq Frames
      BY FrameNumbers
    <3> QED
      BY <2>1, <3>1, GivenIs
  <2>4. (Hears(Early, q) => t = s \o es) /\ (~Hears(Early, q) => t = s)
    BY <1>5, <2>1, <2>2 DEF ReplayStep
  <2>5. \A x : InSeq(x, s \o es) <=> InSeq(x, s) \/ InSeq(x, es)
    BY <2>3, InConcat
  <2>6. \A x : (InSeq(x, Seen(q)) <=> InSeq(x, s)) /\ (InSeq(x, Seen(q))' <=> InSeq(x, t))
    BY <2>1, <2>2 DEF InSeq
  <2>7. /\ \A x : InSeq(x, s) => InSeq(x, t)
        /\ \A x : InSeq(x, t) => InSeq(x, s) \/ InSeq(x, es)
        /\ Hears(Early, q) => \A x : InSeq(x, es) => InSeq(x, t)
    BY <2>4, <2>5
  <2>8. /\ reader'[q].kind = reader[q].kind /\ reader'[q].told = reader[q].told
        /\ reader'[q].look = reader[q].look
        /\ q = r => reader[q].pc = "recheck" /\ reader'[q].pc = "sync"
        /\ q # r => reader'[q].pc = reader[q].pc
    BY DEF ReplayStep
  <2> QED
    BY <2>6, <2>7, <2>8
<1>6. Retained'
  <2> SUFFICES ASSUME deferred', hasSubscriber, NEW i \in 1..Len(log), i <= received,
                      log[i] \in Events, log[i] > since
               PROVE  At(i) \in pending'
    BY <1>1 DEF Retained, At, Events
  <2> QED
    BY <1>1 DEF Arrival, Retained, bufferVars
<1>7. Frontiers'
  <2>1. Counter' = Counter
    BY <1>1 DEF Counter
  <2>2. replay # NoReplay => replay <= Counter
    <3> SUFFICES ASSUME replay # NoReplay PROVE replay <= Counter
      OBVIOUS
    <3>1. PICK j \in 1..Len(log) : replay = At(j) + 1
      BY <1>3, FrontierNumber
    <3> QED
      BY <1>2, <3>1 DEF At, Counter
  <2>3. \A k \in 1..Len(syncs') : (k \in 1..Len(syncs) /\ syncs'[k] = syncs[k])
                                  \/ syncs'[k].replay = replay
    BY <1>1, <1>2
  <2> QED
    BY <2>1, <2>2, <2>3 DEF Arrival, Frontiers, NoReplay
<1>7a. DoneAhead'
  <2>1. /\ DoneAhead /\ Done' = Done
        /\ nextSeq' = nextSeq \/ nextSeq' = 0
        /\ \A i \in 1..Len(log) : At(i) \in Nat
    BY <1>1, <1>2 DEF Arrival, Done, ReplayStep, Resets, bufferVars, At
  <2> SUFFICES ASSUME NEW i \in 1..Len(log), log[i] = Done
               PROVE  /\ \A k \in 1..Len(syncs') : syncs'[k].replay # NoReplay => syncs'[k].replay <= At(i)
                      /\ i > received /\ ~skipped => nextSeq' <= At(i)
    BY <1>1, <2>1 DEF DoneAhead, At, NoReplay
  <2>2. /\ \A k \in 1..Len(syncs) : syncs[k].replay # NoReplay => syncs[k].replay <= At(i)
        /\ i > received /\ ~skipped => nextSeq <= At(i)
    BY <2>1 DEF DoneAhead
  <2>3. replay # NoReplay => replay <= At(i)
    <3> SUFFICES ASSUME replay # NoReplay PROVE replay <= At(i)
      OBVIOUS
    <3>1. PICK j \in 1..Len(log) : replay = At(j) + 1 /\ log[j] \in Events
      BY <1>3, FrontierNumber
    <3>2. ~(i <= j)
      <4>1. i < j => log[i] < log[j]
        BY DEF Core, Stream, Ascends
      <4>2. log[j] < Done /\ log[j] \in Nat /\ Done \in Nat
        BY <3>1, FrameNumbers DEF Events, Done, BoundsAssumption
      <4> QED
        BY <1>2, <4>1, <4>2
    <3> QED
      BY <1>2, <3>1, <3>2 DEF At
  <2>4. \A k \in 1..Len(syncs') : (k \in 1..Len(syncs) /\ syncs'[k] = syncs[k])
                                  \/ syncs'[k].replay = replay
    BY <1>1, <1>2
  <2> QED
    BY <2>1, <2>2, <2>3, <2>4
<1>8. ASSUME NEW q \in Readers, q \in on PROVE AtEnd(q)' /\ EndComes(q)' /\ PauseComes(q)'
  <2>1. AtEnd(q) /\ EndComes(q) /\ PauseComes(q) /\ UNCHANGED bufferVars /\ on # {}
    BY <1>1, <1>8 DEF Arrival
  <2>2. ~InSeq(Done, es) /\ Done \in Frames
    BY FrameNumbers DEF InSeq
  <2>3. AtEnd(q)'
    BY <1>1, <1>5, <1>8, <2>1, <2>2 DEF AtEnd, At, bufferVars, Done
  <2>4. Coming(Done) => Coming(Done)'
    BY <1>4, <2>1, <2>2, FrameNumbers
  <2>5. EndComes(q)'
    BY <1>1, <1>5, <1>8, <2>1, <2>4 DEF EndComes, Belated, StoreGrows, Attaching, Done
  <2>6. PauseComes(q)'
    <3>1. PICK a : a = approval
      OBVIOUS
    <3>2. (Coming(approval)' <=> Coming(a)') /\ (InSeq(approval, Seen(q))' <=> InSeq(a, Seen(q))')
      BY <1>1, <3>1 DEF Coming, InSeq
    <3>3. ASSUME a # 0, receipt[a] = "none", Coming(a) PROVE Coming(a)'
      <4>1. a \in Frames /\ a = emitted
        BY <3>1, <3>3 DEF Core, Types, GenerationTypes, Stream, ApprovalIs, Frames, Events,
           BoundsAssumption
      <4>2. ASSUME NEW b \in Events, InSeq(b, buffered), receipt[b] = "numbered" PROVE b < a
        <5>1. b <= emitted /\ b # a /\ b \in Nat
          BY <3>3, <4>2, FrameNumbers DEF Core, Stream, EmittedAre, EmittedIs
        <5> QED
          BY <1>2, <4>1, <5>1
      <4> QED
        BY <1>4, <2>1, <3>3, <4>1, <4>2
    <3>4. Untold(q)' => Untold(q)
      BY <1>1, <1>5, <1>8 DEF Untold
    <3> QED
      BY <1>1, <1>5, <1>8, <2>1, <3>1, <3>2, <3>3, <3>4 DEF PauseComes, Untold
  <2> QED
    BY <2>3, <2>5, <2>6
<1>9. ASSUME NEW q \in Readers, q \in on, reader'[q].replay = "frontier" PROVE Complete(q)'
  <2>1. q \in Early
    <3>1. reader[q].replay = "frontier" => reader[q].kind = "initial"
      BY DEF Core, Shapes, Shape
    <3>2. q \notin Early => reader'[q].replay = reader[q].replay
      BY DEF ReplayStep
    <3> QED
      BY <1>9, <3>1, <3>2 DEF Early
  <2>2. paused /\ deferred /\ ReplayedNextSeq # NoReplay
    <3>1. Kind(paused) = "frontier"
      BY <1>9, <2>1 DEF ReplayStep
    <3> QED
      BY <3>1 DEF Kind
  <2>3. replay = ReplayedNextSeq /\ replay # NoReplay
    BY <2>1, <2>2
  <2>4. PICK j \in 1..Len(log) :
           /\ replay = At(j) + 1 /\ InSeq(log[j], buffered) /\ buffered # <<>>
           /\ log[j] \in Events /\ receipt[log[j]] = "numbered"
    BY <1>3, <2>2, <2>3, FrontierNumber
  <2>5. ~closed /\ syncs = <<>> /\ es = buffered
    BY <1>3, <2>1, <2>2, <2>4 DEF EarlyIs
  <2>6. Len(syncs') = 1 /\ Replays' /\ syncs' # <<>> /\ Head(syncs').replay = replay
    <3>1. syncs' = <<[by |-> r, replay |-> replay, val |-> Unread]>>
      BY <1>1, <2>5
    <3> QED
      BY <2>3, <3>1 DEF Replays, NoReplay
  <2>7. Hears(Early, q)
    <3>1. AtEnd(q) /\ reader[q].kind = "initial"
      BY <1>9, <2>1 DEF Arrival, Early
    <3> QED
      BY <2>1, <2>2, <3>1 DEF Hears, AtEnd
  <2>8. ASSUME NEW e \in Events, Held(e)' PROVE InSeq(e, Seen(q))'
    <3>1. InSeq(e, buffered)
      BY <1>1, <1>3, <2>5, <2>8 DEF EarlyIs, Held
    <3> QED
      BY <1>5, <1>9, <2>5, <2>7, <3>1
  <2>9. ASSUME faults = 0, hasSubscriber, NEW e \in Events, e <= emitted, e > since
        PROVE  Coming(e)'
    <3>1. e \in Frames /\ e \in Nat /\ Events \subseteq Nat
      BY FrameNumbers
    <3>2. ASSUME NEW b \in Events, InSeq(b, buffered), receipt[b] = "numbered" PROVE b < e
      <4>1. b <= since
        BY <1>3, <2>9, <3>2 DEF EarlyIs, Held
      <4> QED
        BY <1>2, <2>9, <3>1, <4>1
    <3>3. InLog(e) \/ InConn(e)
      BY <2>9 DEF Core, Stream, EmittedAre, EmittedIs, FaultsAre
    <3>4. CASE InConn(e)
      BY <1>4, <1>9, <3>1, <3>2, <3>4
    <3>5. ASSUME NEW i \in 1..Len(log), log[i] = e PROVE Coming(e)'
      <4>1. i > received \/ At(i) \in pending
        BY <2>2, <2>9, <3>5 DEF Arrival, Retained, Core, Types, TransportTypes
      <4>2. Ready(i)
        BY <2>2, <2>5, <4>1 DEF Ready
      <4> QED
        BY <1>4, <1>9, <3>1, <3>2, <3>5, <4>2
    <3> QED
      BY <3>3, <3>4, <3>5 DEF InLog, InSeq
  <2> QED
    BY <1>1, <2>6, <2>8, <2>9 DEF Complete, Events
<1>10. ASSUME NEW q \in Readers, q \notin on, reader'[q].replay = "frontier", faults = 0
       PROVE  NoGap(reader[q].got)'
  <2>1. reader'[q].got = reader[q].got /\ reader'[q].replay = reader[q].replay
    BY <1>10 DEF ReplayStep, Early
  <2>2. NoGap(reader[q].got)
    BY <1>10, <2>1 DEF Arrival
  <2> QED
    BY <1>1, <2>1, <2>2 DEF NoGap, InSeq, Events
<1>11. on' = on /\ faults' = faults /\ on \subseteq Readers /\ Readers' = Readers
  BY <1>1, <1>2 DEF Readers
<1>12. \A q \in on' : AtEnd(q)' /\ EndComes(q)' /\ PauseComes(q)'
  BY <1>8, <1>11
<1>13. \A q \in Readers : reader'[q].replay = "frontier" =>
          /\ q \in on' => Complete(q)'
          /\ q \notin on' /\ faults' = 0 => NoGap(reader[q].got)'
  BY <1>9, <1>10, <1>11
<1> QED
  BY ONLY <1>6, <1>7, <1>7a, <1>11, <1>12, <1>13 DEF Arrival

LEMMA UnchangedArrival ==
    ASSUME Core, Arrival, StoreGrows,
           UNCHANGED <<generationVars, received, bufferVars, syncVars, runtimeVars, earlyVars,
                       readerVars, faultVars>>
    PROVE  Arrival'
<1>1. /\ UNCHANGED <<job, emitted, approval, conn, log, receipt, received, nextSeq, pending, deferred>>
      /\ UNCHANGED <<syncs, skipped, hasSubscriber, since, closed, on, reader, faults>>
  BY DEF generationVars, bufferVars, syncVars, runtimeVars, earlyVars, readerVars, faultVars
<1>2. \A r \in Readers : Seen(r)' = Seen(r)
  BY <1>1 DEF Seen
<1>3. \A i : Ready(i)' <=> Ready(i)
  BY <1>1 DEF Ready, At, NoReplay
<1>4. \A x : Coming(x)' <=> Coming(x)
  BY <1>1, <1>3 DEF Coming, InConn, InSeq
<1>5. Retained' /\ Frontiers' /\ DoneAhead'
  BY <1>1 DEF Arrival, Retained, Frontiers, DoneAhead, At, Counter, Events, NoReplay, Done
<1>6. ASSUME NEW r \in Readers, r \in on PROVE AtEnd(r)' /\ EndComes(r)' /\ PauseComes(r)'
  <2>1. AtEnd(r) /\ EndComes(r) /\ PauseComes(r)
    BY <1>6 DEF Arrival
  <2>2. \A x : InSeq(x, Seen(r))' <=> InSeq(x, Seen(r))
    BY <1>2 DEF InSeq
  <2>3. Coming(approval)' <=> Coming(approval)
    BY <1>1, <1>3 DEF Coming, InConn, InSeq
  <2>4. InSeq(approval, Seen(r))' <=> InSeq(approval, Seen(r))
    BY <1>1, <1>2 DEF InSeq
  <2>5. AtEnd(r)'
    BY <1>1, <2>1, <2>2 DEF AtEnd, At, Done
  <2>6. EndComes(r)'
    BY <1>1, <1>4, <2>1, <2>2 DEF EndComes, Belated, StoreGrows, Attaching, Done
  <2>7. PauseComes(r)'
    BY <1>1, <2>1, <2>3, <2>4 DEF PauseComes, Untold
  <2> QED
    BY <2>5, <2>6, <2>7
<1>7. ASSUME NEW r \in Readers, r \in on, reader[r].replay = "frontier" PROVE Complete(r)'
  <2>1. Complete(r)
    BY <1>7 DEF Arrival
  <2>2. \A x : InSeq(x, Seen(r))' <=> InSeq(x, Seen(r))
    BY <1>2 DEF InSeq
  <2> QED
    BY <1>1, <1>4, <2>1, <2>2 DEF Complete, Replays, Held, Events, NoReplay
<1>8. ASSUME NEW r \in Readers, r \notin on, reader[r].replay = "frontier", faults = 0
      PROVE  NoGap(reader[r].got)'
  <2>1. NoGap(reader[r].got)
    BY <1>8 DEF Arrival
  <2> QED
    BY <1>1, <2>1 DEF NoGap, InSeq, Events
<1>9. \A r \in on' : AtEnd(r)' /\ EndComes(r)' /\ PauseComes(r)'
  BY <1>1, <1>6 DEF Core, Types, ReaderTypes
<1> QED
  BY <1>1, <1>5, <1>7, <1>8, <1>9 DEF Arrival, Readers

LEMMA InitArrival == BoundsAssumption /\ Init => Arrival
BY DEF Init, Fresh, Arrival, Retained, Frontiers, DoneAhead

LEMMA StepArrival ==
    BoundsAssumption /\ Core /\ Settling /\ Delivery /\ Arrival /\ [Next]_vars => Arrival'
<1> SUFFICES ASSUME BoundsAssumption, Core, Settling, Delivery, Arrival, [Next]_vars PROVE Arrival'
  OBVIOUS
<1>0. StoreGrows
  BY StepStores
<1>1. Before
  BY CoreIsBefore
<1>2. ASSUME NEW r \in Readers, Bootstrap(r) PROVE Arrival'
  <2>1. /\ Closes(r, IF Early = {} THEN NoReplay ELSE ReplayedNextSeq)
        /\ reader[r].pc = "recheck"
    BY <1>1, <1>2, BootstrapEffect
  <2>2. PICK es \in Seq(Events) :
           /\ ReplayStep(r, es, deferred)
           /\ buffered # <<>> => es = buffered
           /\ buffered = <<>> => es \in {<<>>, <<Created>>}
    BY <1>1, <1>2, BootstrapEffect
  <2>3. PICK replay : replay = IF Early = {} THEN NoReplay ELSE ReplayedNextSeq
    OBVIOUS
  <2>4. deferred \in BOOLEAN /\ Closes(r, replay)
    BY <2>1, <2>3 DEF Core, Types, TransportTypes
  <2>5. replay # NoReplay => replay = ReplayedNextSeq
    BY <2>3
  <2>6. Early # {} => replay = ReplayedNextSeq /\ (buffered # <<>> => es = buffered)
    BY <2>2, <2>3
  <2> QED
    BY <1>0, <2>1, <2>2, <2>4, <2>5, <2>6, ClosesArrival
<1>3. ASSUME NEW c \in conts, Continue(c) PROVE Arrival'
  <2>1. CASE /\ on = {} \/ attachGen # c.gen
             /\ UNCHANGED <<generationVars, received, bufferVars, syncVars, runtimeVars,
                            earlyVars, readerVars, faultVars>>
    BY <1>0, <2>1, UnchangedArrival
  <2>2. ASSUME NEW replay, replay = (IF c.defer /\ Early # {} THEN ReplayedNextSeq ELSE NoReplay),
               Closes(Nobody, replay), ContinuesWith(c)
        PROVE  Arrival'
    <3>1. PICK es \in Seq(Events), paused \in BOOLEAN :
             /\ paused = (deferred /\ c.defer)
             /\ ReplayStep(Nobody, es, paused)
             /\ \/ buffered = <<>> /\ es \in {<<>>, <<Created>>}
                \/ buffered # <<>> /\ c.defer /\ es = buffered
                \/ buffered # <<>> /\ ~c.defer /\ Ascends(es)
                   /\ \A x : InSeq(x, es) <=> InSeq(x, buffered) /\ receipt[x] # "numbered"
      BY <2>2 DEF ContinuesWith
    <3>2. paused => deferred /\ c.defer
      BY <3>1
    <3>3. paused /\ Early # {} => replay = ReplayedNextSeq /\ (buffered # <<>> => es = buffered)
      BY <2>2, <3>1, <3>2
    <3>4. replay # NoReplay => replay = ReplayedNextSeq
      BY <2>2
    <3>5. Nobody \notin Readers /\ Nobody \in Readers \cup {Nobody}
      BY DEF Nobody, Readers
    <3> QED
      BY <1>0, <2>2, <3>1, <3>2, <3>3, <3>4, <3>5, ClosesArrival
  <2> QED
    BY <1>1, <1>3, <2>1, <2>2, ContinueEffect
<1>4. ASSUME NEW r \in Readers, RequestStep(r) PROVE Arrival'
  BY <1>0, <1>4, RequestMoves, RequestArrival
<1>5. ASSUME Rests PROVE Arrival'
  BY <1>0, <1>5, UnchangedArrival DEF Rests
<1> QED
  BY <1>0, <1>2, <1>3, <1>4, <1>5, NextIs, GenerationArrival, TransportArrival

\* What a reader lacks after a replay is still to come, with a number that neither
\* nextSeq nor the replayedNextSeq of a sync in flight has passed; and so is the DONE
\* of a generation that has ended, or the event that announces its pause.
THEOREM ArrivalHolds == Spec => []Arrival
<1>1. Init => Arrival
  BY InitArrival, BoundsAssumption
<1>2. Core /\ Settling /\ Delivery /\ Arrival /\ [Next]_vars => Arrival'
  BY StepArrival, BoundsAssumption
<1> QED
  BY <1>1, <1>2, CoreHolds, SettlingHolds, DeliveryHolds, PTL DEF Spec

(***************************************************************************)
(* Nothing is missing in the end: every event, the end of the stream and a *)
(* pause.                                                                  *)
(***************************************************************************)

\* Nothing is on its way when nothing is left to do.
LEMMA QuietReader ==
    ASSUME BoundsAssumption, Core, Settling, Quiet, NEW r \in Readers, r \in on
    PROVE  /\ reader[r].pc \in {"live", "failed"} /\ ~reader[r].look
           /\ conn = <<>> /\ syncs = <<>> /\ received = Len(log)
           /\ deferred => attachGen \in abandoned
           /\ ~deferred => \A x : ~Coming(x)
<1>1. AttachmentsSettle
  BY QuietSettles
<1>2. reader[r].pc \in {"live", "failed"} /\ (deferred => attachGen \in abandoned)
  BY <1>1 DEF AttachmentsSettle, Core, Shapes, Shape
<1>3. /\ conn = <<>> /\ syncs = <<>> /\ received = Len(log) /\ (deferred \/ pending = {})
      /\ ~reader[r].look
  BY DEF Quiet, Waiting
<1>4. ~deferred => \A x : ~Coming(x)
  BY <1>3, Empty DEF Coming, InConn, Ready, Core, Types, GenerationTypes
<1> QED
  BY <1>2, <1>3, <1>4

\* What onChunk of a first view has been called with are the events it was given.
LEMMA ChunksAre ==
    ASSUME BoundsAssumption, Core, NEW r \in Readers, reader[r].kind = "initial"
    PROVE  \A e \in Events : e \in Chunks(r) <=> InSeq(e, reader[r].got)
<1> SUFFICES ASSUME NEW e \in Events PROVE e \in Chunks(r) <=> InSeq(e, reader[r].got)
  OBVIOUS
<1>1. PICK s \in Seq(Frames) : s = reader[r].got
  BY GivenIs
<1>2. Called(r) = {i \in 1..Len(s) : s[i] # Done /\ (s[i] = Created => \A j \in 1..(i - 1) : s[j] # Created)}
  BY <1>1 DEF Called
<1>3. e \in Chunks(r) <=> \E i \in Called(r) : s[i] = e
  BY <1>1 DEF Chunks
<1>4. ASSUME NEW i \in 1..Len(s), s[i] = e PROVE \E k \in Called(r) : s[k] = e
  <2>1. e # Done
    BY FrameNumbers
  <2>2. CASE e # Created
    BY <1>2, <1>4, <2>1, <2>2
  <2>3. CASE e = Created
    <3>1. PICK S : S = {j \in 1..Len(s) : s[j] = e}
      OBVIOUS
    <3>2. S \subseteq Nat /\ i \in S
      BY <1>4, <3>1
    <3>3. PICK k \in S : \A c \in S : k <= c
      BY <3>2, LeastOf
    <3>4. k \in 1..Len(s) /\ s[k] = e
      BY <3>1
    <3>5. \A j \in 1..(k - 1) : s[j] # Created
      <4> SUFFICES ASSUME NEW j \in 1..(k - 1), s[j] = Created PROVE FALSE
        OBVIOUS
      <4>1. j \in 1..Len(s) /\ j < k /\ j \in Nat /\ k \in Nat
        BY <1>1, <3>4
      <4>2. j \in S
        BY <2>3, <3>1, <4>1
      <4> QED
        BY <3>3, <4>1, <4>2
    <3> QED
      BY <1>2, <2>1, <3>4, <3>5
  <2> QED
    BY <2>2, <2>3
<1> QED
  BY <1>1, <1>2, <1>3, <1>4 DEF InSeq

LEMMA ArrivalIsWhole ==
    BoundsAssumption /\ Core /\ Settling /\ Delivery /\ Arrival => NothingMissing
<1> SUFFICES ASSUME BoundsAssumption, Core, Settling, Delivery, Arrival, faults = 0,
                    NEW r \in Readers, reader[r].replay = "frontier", NEW e \in Events, Missing(r, e)
             PROVE  (\A d \in Chunks(r) : d < e) /\ ~(Quiet /\ r \in on)
  BY DEF NothingMissing
<1>1. reader[r].kind = "initial"
  BY DEF Core, Shapes, Shape
<1>2. \A d \in Events : d \in Chunks(r) <=> InSeq(d, reader[r].got)
  BY <1>1, ChunksAre
<1>3. /\ e <= emitted /\ ~InSeq(e, reader[r].got) /\ receipt[e] # "failed"
      /\ e > since \/ receipt[e] # "none"
  BY <1>2 DEF Missing
<1>4. Chunks(r) \subseteq Events
  <2>1. reader[r].got \in Seq(Frames)
    BY GivenIs
  <2> QED
    BY <2>1 DEF Chunks, Called, Frames
<1>5. r \in on => Complete(r)
  BY DEF Arrival
<1>6. r \in on /\ reader[r].pc = "live" => hasSubscriber /\ Seen(r) = reader[r].got
  BY DEF Settling, RuntimeIs, Seen
<1>7. NoGap(reader[r].got)
  <2>1. CASE r \notin on
    BY <2>1 DEF Arrival
  <2>2. CASE r \in on /\ reader[r].pc # "live"
    <3>1. reader[r].got = <<>>
      BY <2>2 DEF Core, Shapes, Shape
    <3> QED
      BY <3>1, NothingHasNoGap
  <2>3. CASE r \in on /\ reader[r].pc = "live"
    <3>1. NoGap(Seen(r))
      BY <1>5, <1>6, <2>3, CompleteHasNoGap
    <3> QED
      BY <1>6, <2>3, <3>1
  <2> QED
    BY <2>1, <2>2, <2>3
<1>8. \A d \in Chunks(r) : d < e
  BY <1>2, <1>3, <1>4, <1>7 DEF NoGap
<1>9. ASSUME Quiet, r \in on PROVE FALSE
  <2>1. /\ reader[r].pc \in {"live", "failed"} /\ syncs = <<>>
        /\ ~deferred => \A x : ~Coming(x)
    BY <1>9, QuietReader
  <2>2. reader[r].pc = "live"
    BY <2>1 DEF Core, Shapes, Shape
  <2>3. hasSubscriber /\ Seen(r) = reader[r].got
    BY <1>6, <1>9, <2>2
  <2>4. ~deferred
    BY <1>5, <1>9, <2>1 DEF Complete
  <2>5. Coming(e)
    BY <1>3, <1>5, <1>9, <2>3, LackedIsComing
  <2> QED
    BY <2>1, <2>4, <2>5
<1> QED
  BY <1>8, <1>9

\* What the transport brings after a replay joins what was replayed: a reader is given
\* no event before an earlier one it lacks, and in the end it lacks nothing, unless a
\* command failed or the generation was replaced.
THEOREM NothingIsMissing == Spec => []NothingMissing
<1>1. Core /\ Settling /\ Delivery /\ Arrival => NothingMissing
  BY ArrivalIsWhole, BoundsAssumption
<1> QED
  BY <1>1, CoreHolds, SettlingHolds, DeliveryHolds, ArrivalHolds, PTL

LEMMA ArrivalEnds == BoundsAssumption /\ Core /\ Settling /\ Arrival => ReadersEnd
<1> SUFFICES ASSUME BoundsAssumption, Core, Settling, Arrival, Quiet, job \in {"complete", "replaced"},
                    attachGen \notin abandoned, ~skipped, NEW r \in on
             PROVE  reader[r].pc = "failed" \/ (r \in late /\ ~stored)
  BY DEF ReadersEnd
<1>1. r \in Readers
  BY DEF Core, Types, ReaderTypes
<1>2. reader[r].pc \in {"live", "failed"} /\ ~reader[r].look /\ \A x : ~Coming(x)
  BY <1>1, QuietReader
<1>3. EndComes(r)
  BY DEF Arrival
<1>4. reader[r].pc = "live" => ~InSeq(Done, Seen(r))
  BY <1>1 DEF Seen, Core, Shapes, Shape
<1> QED
  BY <1>2, <1>3, <1>4 DEF EndComes, Belated, Attaching

\* DONE, deliverStoredTerminal or stillMatchesExpectedGeneration ends every request of
\* a generation that has ended: the transport brings DONE to all that attached before
\* the replica had it, and of those that came later only one whose job is deleted
\* before it has looked for the stored event goes on waiting.
THEOREM AllReadersEnd == Spec => []ReadersEnd
<1>1. Core /\ Settling /\ Arrival => ReadersEnd
  BY ArrivalEnds, BoundsAssumption
<1> QED
  BY <1>1, CoreHolds, SettlingHolds, ArrivalHolds, PTL

LEMMA ArrivalShowsPauses == BoundsAssumption /\ Core /\ Settling /\ Arrival => PauseIsSeen
<1> SUFFICES ASSUME BoundsAssumption, Core, Settling, Arrival, Quiet, job = "paused", approval # 0,
                    ~skipped, attachGen \notin abandoned,
                    NEW r \in on, reader[r].kind = "resume", reader[r].pc = "live", ~reader[r].told,
                    receipt[approval] # "failed"
             PROVE  approval \in Range(reader[r].got)
  BY DEF PauseIsSeen
<1>1. r \in Readers
  BY DEF Core, Types, ReaderTypes
<1>2. \A x : ~Coming(x)
  BY <1>1, QuietReader
<1>3. PauseComes(r) /\ Untold(r)
  BY DEF Arrival, Untold
<1>4. InSeq(approval, reader[r].got)
  BY <1>2, <1>3 DEF PauseComes, Seen
<1>5. reader[r].got \in Seq(Frames)
  BY <1>1, GivenIs
<1> QED
  BY <1>4, <1>5, InRange

\* subscribeWithResume reads the job once more after it has subscribed, so that a
\* reader that resumed learns of a pause from the sync frame or from the live stream.
THEOREM PausesAreSeen == Spec => []PauseIsSeen
<1>1. Core /\ Settling /\ Arrival => PauseIsSeen
  BY ArrivalShowsPauses, BoundsAssumption
<1> QED
  BY <1>1, CoreHolds, SettlingHolds, ArrivalHolds, PTL

=============================================================================
