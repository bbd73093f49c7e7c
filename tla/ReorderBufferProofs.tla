------------------------ MODULE ReorderBufferProofs ------------------------
(***************************************************************************)
(* Proofs about ReorderBuffer for every value of its constants.            *)
(*                                                                         *)
(* The argument rests on one inductive invariant.  A released buffer holds *)
(* only numbers above the one it expects, and everything it handed out is  *)
(* below it; a paused buffer has handed out nothing.  Every change of the  *)
(* buffer is a hold, a flush from the expected number, a forced flush, a   *)
(* detachment or a reset, so there is one lemma for each of these and the  *)
(* actions cite them.                                                      *)
(***************************************************************************)
EXTENDS ReorderBuffer, FiniteSetTheorems, TLAPS

\* The part of the type invariant that the buffer operations change.
FlagType ==
    /\ deferred \in BOOLEAN
    /\ timer \in BOOLEAN
    /\ missing \in BOOLEAN

NumberType ==
    /\ nextSeq \in Seqs
    /\ pending \subseteq Seqs
    /\ delivered \in Seq(Seqs)
    /\ excused \subseteq Seqs
    /\ count \in Nat
    /\ channel \in {"none", "pending", "active"}

BufferType == FlagType /\ NumberType

\* Numbers in the buffer were allocated; a released buffer never holds the
\* number it expects, nor one below it; what went out is below it.
BufferInv ==
    /\ nextSeq <= seqCounter
    /\ \A s \in pending : s < seqCounter
    /\ ~deferred => \A s \in pending : nextSeq < s
    /\ \A i \in DOMAIN delivered : delivered[i] < nextSeq
    /\ InOrder(delivered)
    /\ excused \subseteq 0..(nextSeq - 1)
    /\ PausedIsSilent
    /\ HeldEventsAreTimed
    /\ Accounted

\* The rest of the type invariant, and the numbers still on their way.
OtherType ==
    /\ seqCounter \in Seqs
    /\ terminals \subseteq Seqs
    /\ net \subseteq Frames
    /\ wired \in BOOLEAN
    /\ state \in Nat
    /\ created \in Nat
    /\ listener \in BOOLEAN
    /\ ingress \in Frames \cup {NoFrame}
    /\ syncs \in Seq(Syncs)

TransitInv ==
    /\ \A f \in net : f.hi < seqCounter
    /\ ingress # NoFrame => ingress.hi < seqCounter
    /\ \A i \in 1..Len(syncs) :
        /\ syncs[i].replay # NoReplay => syncs[i].replay <= seqCounter
        /\ syncs[i].val # Unread => syncs[i].val <= seqCounter

IInv == BufferType /\ OtherType /\ BufferInv /\ TransitInv

\* What every step does for the attachment: a fresh one, or one that goes on.
AttachStep ==
    count = 0 /\ count' > 0 => nextSeq' = 0 /\ delivered' = <<>> /\ excused' = {}
FrontierStep ==
    count > 0 /\ count' > 0 =>
        /\ nextSeq <= nextSeq' /\ excused \subseteq excused'
        /\ IsPrefix(delivered, delivered')
        /\ \A i \in DOMAIN delivered' \ DOMAIN delivered : nextSeq <= delivered'[i]
GoodStep == AttachStep /\ FrontierStep

\* The invariant of the buffer and the step properties after a buffer step.
GoodBufferStep == BufferType' /\ BufferInv' /\ GoodStep

(***************************************************************************)
(* Sequences of numbers.                                                   *)
(***************************************************************************)

LEMMA Nothing == InOrder(<<>>) /\ DOMAIN <<>> = {} /\ Range(<<>>) = {}
BY DEF InOrder, Range

LEMMA ElementsOf ==
    ASSUME NEW S, NEW T, NEW q \in Seq(S), S \subseteq T
    PROVE  \A i \in DOMAIN q : q[i] \in T
<1>1. q \in [1..Len(q) -> S] /\ DOMAIN q = 1..Len(q)
    OBVIOUS
<1> QED BY <1>1

LEMMA SequenceOf ==
    ASSUME NEW S, NEW T, NEW q \in Seq(S), \A i \in DOMAIN q : q[i] \in T
    PROVE  q \in Seq(T)
<1>1. Len(q) \in Nat /\ DOMAIN q = 1..Len(q) /\ q \in [1..Len(q) -> S]
    OBVIOUS
<1>2. q \in [1..Len(q) -> T]
    BY <1>1
<1> QED BY <1>1, <1>2

LEMMA PrefixOfItself ==
    ASSUME NEW S, NEW d \in Seq(S)
    PROVE  IsPrefix(d, d)
BY DEF IsPrefix

\* What is handed over next extends what was, and stays in order.
LEMMA Extended ==
    ASSUME NEW d \in Seq(Nat), NEW run \in Seq(Nat), NEW n \in Nat, NEW m \in Nat,
           n <= m, InOrder(d), InOrder(run),
           \A i \in DOMAIN d : d[i] < n,
           \A i \in DOMAIN run : n <= run[i] /\ run[i] < m
    PROVE  /\ InOrder(d \o run)
           /\ \A i \in DOMAIN (d \o run) : (d \o run)[i] < m
           /\ IsPrefix(d, d \o run)
           /\ \A i \in DOMAIN (d \o run) \ DOMAIN d : n <= (d \o run)[i]
           /\ Range(d \o run) = Range(d) \cup Range(run)
<1> DEFINE e == d \o run
<1>1. /\ Len(d) \in Nat /\ DOMAIN d = 1..Len(d)
      /\ Len(run) \in Nat /\ DOMAIN run = 1..Len(run)
      /\ e \in Seq(Nat) /\ Len(e) = Len(d) + Len(run) /\ DOMAIN e = 1..Len(e)
      /\ \A i \in DOMAIN d : e[i] = d[i]
      /\ \A i \in DOMAIN run : e[Len(d) + i] = run[i]
    OBVIOUS
<1>2. \A i \in DOMAIN e \ DOMAIN d :
        /\ i - Len(d) \in DOMAIN run
        /\ e[i] = run[i - Len(d)]
    <2>1. SUFFICES ASSUME NEW i \in DOMAIN e \ DOMAIN d
                   PROVE  i - Len(d) \in DOMAIN run /\ e[i] = run[i - Len(d)]
        OBVIOUS
    <2>2. i \in Nat /\ Len(d) < i /\ i <= Len(d) + Len(run)
        BY <1>1, <2>1
    <2> DEFINE j == i - Len(d)
    <2>3. j \in DOMAIN run /\ Len(d) + j = i
        BY <1>1, <2>2
    <2> QED BY <1>1, <2>3
<1>3. \A i \in DOMAIN d : d[i] \in Nat
    BY <1>1
<1>4. \A i \in DOMAIN run : run[i] \in Nat
    BY <1>1
<1>5. \A i \in DOMAIN e \ DOMAIN d : n <= e[i] /\ e[i] < m
    BY <1>2
<1>6. \A i \in DOMAIN e : e[i] < m
    <2>1. SUFFICES ASSUME NEW i \in DOMAIN d PROVE e[i] < m
        BY <1>5
    <2> QED BY <1>1, <1>3
<1>7. InOrder(e)
    <2>1. SUFFICES ASSUME NEW i \in DOMAIN e, NEW j \in DOMAIN e, i < j
                   PROVE  e[i] < e[j]
        BY DEF InOrder
    <2>2. CASE j \in DOMAIN d
        <3>1. i \in DOMAIN d
            BY <1>1, <2>1, <2>2
        <3> QED BY <1>1, <2>1, <2>2, <3>1 DEF InOrder
    <2>3. CASE j \notin DOMAIN d /\ i \in DOMAIN d
        <3>1. e[i] = d[i] /\ d[i] < n /\ n <= e[j]
            BY <1>1, <1>5, <2>3
        <3>2. e[j] \in Nat
            BY <1>2, <1>4, <2>3
        <3> QED BY <1>3, <2>3, <3>1, <3>2
    <2>4. CASE j \notin DOMAIN d /\ i \notin DOMAIN d
        <3> DEFINE a == i - Len(d)
                   b == j - Len(d)
        <3>1. a \in DOMAIN run /\ b \in DOMAIN run /\ e[i] = run[a] /\ e[j] = run[b]
            BY <1>2, <2>4
        <3>2. a < b
            BY <1>1, <2>1
        <3> QED BY <3>1, <3>2 DEF InOrder
    <2> QED BY <2>2, <2>3, <2>4
<1>8. IsPrefix(d, e)
    <2>1. Len(d) <= Len(e) /\ SubSeq(d, 1, Len(d)) = d
        BY <1>1
    <2>2. SubSeq(e, 1, Len(d)) = d
        BY <1>1
    <2> QED BY <2>1, <2>2 DEF IsPrefix
<1>9. Range(e) = Range(d) \cup Range(run)
    <2>1. ASSUME NEW x \in Range(e) PROVE x \in Range(d) \cup Range(run)
        <3>1. PICK i \in DOMAIN e : x = e[i]
            BY <2>1 DEF Range
        <3>2. CASE i \in DOMAIN d
            BY <1>1, <3>1, <3>2 DEF Range
        <3>3. CASE i \notin DOMAIN d
            BY <1>2, <3>1, <3>3 DEF Range
        <3> QED BY <3>2, <3>3
    <2>2. ASSUME NEW x \in Range(d) PROVE x \in Range(e)
        <3>1. PICK i \in DOMAIN d : x = d[i]
            BY <2>2 DEF Range
        <3>2. i \in DOMAIN e /\ x = e[i]
            BY <1>1, <3>1
        <3> QED BY <3>2 DEF Range
    <2>3. ASSUME NEW x \in Range(run) PROVE x \in Range(e)
        <3>1. PICK i \in DOMAIN run : x = run[i]
            BY <2>3 DEF Range
        <3>2. Len(d) + i \in DOMAIN e /\ x = e[Len(d) + i]
            BY <1>1, <3>1
        <3> QED BY <3>2 DEF Range
    <2> QED BY <2>1, <2>2, <2>3
<1> QED BY <1>5, <1>6, <1>7, <1>8, <1>9

LEMMA UpwardsFacts ==
    ASSUME NEW a \in Nat, NEW b \in Nat, a <= b
    PROVE  /\ Upwards(a, b) \in Seq(Nat)
           /\ InOrder(Upwards(a, b))
           /\ \A i \in DOMAIN Upwards(a, b) : Upwards(a, b)[i] \in a..(b - 1)
           /\ Range(Upwards(a, b)) = a..(b - 1)
<1>1. b - a \in Nat
    OBVIOUS
<1>2. /\ DOMAIN Upwards(a, b) = 1..(b - a)
      /\ \A i \in 1..(b - a) : Upwards(a, b)[i] = a + i - 1
    BY DEF Upwards
<1>3. Upwards(a, b) \in Seq(Nat)
    <2>1. \A i \in 1..(b - a) : a + i - 1 \in Nat
        OBVIOUS
    <2> QED BY <1>1, <2>1 DEF Upwards
<1>4. InOrder(Upwards(a, b))
    BY <1>2 DEF InOrder
<1>5. \A i \in DOMAIN Upwards(a, b) : Upwards(a, b)[i] \in a..(b - 1)
    BY <1>2
<1>6. \A s \in a..(b - 1) : s - a + 1 \in 1..(b - a) /\ a + (s - a + 1) - 1 = s
    OBVIOUS
<1>7. ASSUME NEW s \in a..(b - 1) PROVE s \in Range(Upwards(a, b))
    <2> DEFINE i == s - a + 1
    <2>1. i \in 1..(b - a) /\ Upwards(a, b)[i] = s
        BY <1>2, <1>6
    <2> QED BY <1>2, <2>1 DEF Range
<1> QED BY <1>3, <1>4, <1>5, <1>7 DEF Range

LEMMA AscendingFacts ==
    ASSUME NEW P \in SUBSET Seqs, NEW q \in Ascending(P)
    PROVE  /\ q \in Seq(P)
           /\ InOrder(q)
           /\ Range(q) = P
           /\ P # {} => q[Len(q)] \in P /\ \A s \in P : s <= q[Len(q)]
<1> USE BoundsAssumption
<1>1. P \in SUBSET (0..MaxSeq) /\ IsFiniteSet(0..MaxSeq)
    BY FS_Interval DEF Seqs
<1>2. IsFiniteSet(P) /\ Cardinality(P) \in Nat
    BY <1>1, FS_Subset, FS_CardinalityType
<1>3. q \in [1..Cardinality(P) -> P] /\ InOrder(q) /\ P \subseteq Range(q)
    BY DEF Ascending
<1>4. q \in Seq(P) /\ Len(q) = Cardinality(P) /\ DOMAIN q = 1..Len(q)
    BY <1>2, <1>3
<1>5. Range(q) = P
    BY <1>3, <1>4 DEF Range
<1>6. ASSUME P # {}
      PROVE  q[Len(q)] \in P /\ \A s \in P : s <= q[Len(q)]
    <2>1. \A s \in P : \E i \in DOMAIN q : q[i] = s
        BY <1>5 DEF Range
    <2>2. Len(q) \in DOMAIN q
        BY <1>2, <1>4, <1>6, <2>1
    <2>3. q[Len(q)] \in P
        BY <1>3, <1>4, <2>2
    <2>4. ASSUME NEW s \in P PROVE s <= q[Len(q)]
        <3>1. PICK i \in DOMAIN q : q[i] = s
            BY <2>1
        <3>2. i = Len(q) \/ i < Len(q)
            BY <1>2, <1>4, <3>1
        <3>3. q[Len(q)] \in Nat /\ s \in Nat
            <4>1. \A x \in P : x \in Nat
                BY <1>1
            <4> QED BY <2>3, <4>1
        <3>4. CASE i < Len(q)
            BY <1>3, <2>2, <3>1, <3>3, <3>4 DEF InOrder
        <3> QED BY <3>1, <3>2, <3>3, <3>4
    <2> QED BY <2>3, <2>4
<1> QED BY <1>3, <1>4, <1>5, <1>6

(***************************************************************************)
(* The buffer operations.                                                  *)
(***************************************************************************)

LEMMA ResetIsGood ==
    ASSUME IInv, NEW defer \in BOOLEAN, ResetReorderBuffer(defer),
           UNCHANGED <<redisVars, missing>>,
           count = 0 \/ count' = 0, count' \in Nat,
           channel' \in {"none", "pending", "active"}
    PROVE  GoodBufferStep
<1> USE BoundsAssumption DEF Seqs, redisVars
<1>1. BufferType'
    <2>1. FlagType'
        BY Zenon DEF IInv, BufferType, FlagType, ResetReorderBuffer, FreshBuffer
    <2>2. NumberType'
        BY DEF ResetReorderBuffer, FreshBuffer, NumberType
    <2> QED BY <2>1, <2>2 DEF BufferType
<1>2. BufferInv'
    <2>1. HeldEventsAreTimed'
        BY Zenon DEF HeldEventsAreTimed, ResetReorderBuffer, FreshBuffer
    <2> QED
        BY <2>1, Nothing DEF IInv, OtherType, ResetReorderBuffer, FreshBuffer,
                    BufferInv, PausedIsSilent, Accounted
<1>3. GoodStep
    BY DEF IInv, BufferType, FlagType, NumberType, ResetReorderBuffer,
           FreshBuffer, GoodStep, AttachStep, FrontierStep
<1> QED BY <1>1, <1>2, <1>3 DEF GoodBufferStep

\* The reset of a detachment, which never pauses the buffer.
LEMMA DetachResetIsGood ==
    ASSUME IInv, ResetReorderBuffer(FALSE), UNCHANGED <<redisVars, missing>>,
           count' = 0, channel' \in {"none", "pending", "active"}
    PROVE  GoodBufferStep
<1>1. FALSE \in BOOLEAN /\ count' \in Nat
    OBVIOUS
<1> QED BY <1>1, ResetIsGood, Zenon

LEMMA UnchangedIsGood ==
    ASSUME IInv, UNCHANGED <<bufferVars, count, channel, missing>>,
           seqCounter' \in Nat, seqCounter <= seqCounter'
    PROVE  GoodBufferStep
<1> USE BoundsAssumption DEF Seqs
<1>1. BufferType'
    BY DEF IInv, BufferType, FlagType, NumberType, bufferVars
<1>2. BufferInv'
    <2>1. HeldEventsAreTimed'
        BY Zenon DEF HeldEventsAreTimed, IInv, BufferInv, bufferVars
    <2> QED
        BY <2>1 DEF IInv, BufferType, NumberType, OtherType, bufferVars,
                    BufferInv, PausedIsSilent, Accounted
<1>3. IsPrefix(delivered, delivered)
    BY PrefixOfItself DEF IInv, BufferType, NumberType
<1>4. GoodStep
    BY <1>3 DEF IInv, BufferType, FlagType, NumberType, bufferVars, GoodStep,
                AttachStep, FrontierStep
<1> QED BY <1>1, <1>2, <1>4 DEF GoodBufferStep

\* A buffer that stays as it is, while subscribers come and go around it.
LEMMA KeptIsGood ==
    ASSUME IInv, UNCHANGED <<bufferVars, missing, redisVars>>, count' \in Nat,
           channel' \in {"none", "pending", "active"}, count' > 0 => count > 0
    PROVE  GoodBufferStep
<1> USE BoundsAssumption DEF Seqs
<1>1. BufferType'
    BY DEF IInv, BufferType, FlagType, NumberType, bufferVars
<1>2. BufferInv'
    <2>1. HeldEventsAreTimed'
        BY Zenon DEF HeldEventsAreTimed, IInv, BufferInv, bufferVars
    <2> QED
        BY <2>1 DEF IInv, BufferType, NumberType, OtherType, bufferVars,
                    redisVars, BufferInv, PausedIsSilent, Accounted
<1>3. IsPrefix(delivered, delivered)
    BY PrefixOfItself DEF IInv, BufferType, NumberType
<1>4. GoodStep
    BY <1>3 DEF IInv, BufferType, NumberType, bufferVars, GoodStep, AttachStep,
                FrontierStep
<1> QED BY <1>1, <1>2, <1>4 DEF GoodBufferStep

LEMMA DetachIsGood ==
    ASSUME IInv, NEW t, NEW n \in Seqs, n <= seqCounter,
           DeliverAndDetach(t, n), missing' \in BOOLEAN, UNCHANGED redisVars
    PROVE  GoodBufferStep
<1> USE BoundsAssumption DEF Seqs, redisVars
<1>1. BufferType'
    <2>1. FlagType'
        BY Zenon DEF FlagType, DeliverAndDetach, FreshBuffer
    <2>2. NumberType'
        BY DEF IInv, BufferType, NumberType, DeliverAndDetach, FreshBuffer,
               UnsubscribeUnusedChannel
    <2> QED BY <2>1, <2>2 DEF BufferType
<1>2. BufferInv'
    <2>1. HeldEventsAreTimed'
        BY Zenon DEF HeldEventsAreTimed, DeliverAndDetach, FreshBuffer
    <2> QED
        BY <2>1, Nothing DEF IInv, OtherType, DeliverAndDetach, FreshBuffer,
                    BufferInv, PausedIsSilent, Accounted
<1>3. GoodStep
    BY DEF IInv, BufferType, FlagType, NumberType, DeliverAndDetach,
           FreshBuffer, GoodStep, AttachStep, FrontierStep
<1> QED BY <1>1, <1>2, <1>3 DEF GoodBufferStep

\* What goes out next is above what went out and below the new frontier.
LEMMA HandOver ==
    ASSUME IInv, NEW m \in Nat, nextSeq <= m,
           NEW run \in Seq(Seqs), InOrder(run),
           \A i \in DOMAIN run : nextSeq <= run[i] /\ run[i] < m
    PROVE  /\ delivered \o run \in Seq(Seqs)
           /\ InOrder(delivered \o run)
           /\ \A i \in DOMAIN (delivered \o run) : (delivered \o run)[i] < m
           /\ IsPrefix(delivered, delivered \o run)
           /\ \A i \in DOMAIN (delivered \o run) \ DOMAIN delivered :
                nextSeq <= (delivered \o run)[i]
           /\ Range(delivered \o run) = Range(delivered) \cup Range(run)
<1> USE BoundsAssumption
<1>1. Seqs \subseteq Nat
    BY DEF Seqs
<1>2. delivered \in Seq(Seqs) /\ nextSeq \in Nat
    BY <1>1 DEF IInv, BufferType, NumberType
<1>3. delivered \in Seq(Nat) /\ run \in Seq(Nat)
    <2>1. /\ \A i \in DOMAIN delivered : delivered[i] \in Nat
          /\ \A i \in DOMAIN run : run[i] \in Nat
        BY <1>1, <1>2, ElementsOf
    <2> QED BY <1>2, <2>1, SequenceOf
<1>4. InOrder(delivered) /\ \A i \in DOMAIN delivered : delivered[i] < nextSeq
    BY DEF IInv, BufferInv
<1>5. delivered \o run \in Seq(Seqs)
    BY <1>2
<1> QED BY <1>2, <1>3, <1>4, <1>5, Extended, Zenon

\* A flush that starts at n, from a buffer that holds nothing below n.
LEMMA FlushIsGood ==
    ASSUME IInv, UNCHANGED redisVars,
           NEW n \in Seqs, nextSeq <= n, n <= seqCounter,
           NEW P \in SUBSET (n..(seqCounter - 1)),
           NEW direct \in Seq(Seqs), InOrder(direct),
           \A i \in DOMAIN direct : nextSeq <= direct[i] /\ direct[i] < n,
           NEW armed \in BOOLEAN, P # {} => armed,
           NEW over \in SUBSET (nextSeq..(n - 1)),
           nextSeq..(n - 1) \subseteq Range(direct) \cup over,
           FlushPendingMessages(n, P, direct, armed, over)
    PROVE  GoodBufferStep
<1> USE BoundsAssumption DEF redisVars
<1>0. PICK m \in n..seqCounter :
        /\ n..(m - 1) \subseteq P
        /\ m \notin P
        /\ LET run == direct \o Upwards(n, m) IN
           \/ /\ DeliverAndStay(Range(run))
              /\ nextSeq' = m
              /\ pending' = P \ (n..(m - 1))
              /\ delivered' = delivered \o run
              /\ timer' = (armed /\ pending' # {})
              /\ excused' = excused \cup over
              /\ deferred' = FALSE
           \/ \E t \in Range(run) : DeliverAndDetach(t, 1)
    BY DEF FlushPendingMessages
<1>1. UNCHANGED missing
    BY DEF FlushPendingMessages
<1> DEFINE run == direct \o Upwards(n, m)
<1>2. /\ seqCounter \in Seqs /\ seqCounter \in Nat /\ nextSeq \in Nat /\ n \in Nat
      /\ m \in Nat /\ n <= m /\ m <= seqCounter /\ m \in Seqs /\ nextSeq <= m
      /\ excused \subseteq 0..(nextSeq - 1)
    BY DEF IInv, BufferType, NumberType, OtherType, BufferInv, Seqs
<1>3. CASE \E t \in Range(run) : DeliverAndDetach(t, 1)
    <2>1. PICK t \in Range(run) : DeliverAndDetach(t, 1)
        BY <1>3
    <2>2. 1 \in Seqs /\ 1 <= seqCounter
        <3>1. t \in terminals /\ terminals \subseteq Seqs
            BY <2>1 DEF DeliverAndDetach, IInv, OtherType
        <3>2. CASE m = 0
            <4>1. n = 0 /\ nextSeq = 0
                BY <1>2, <3>2
            <4>2. Len(direct) = 0
                <5>1. 1 \notin DOMAIN direct
                    <6>1. \A i \in DOMAIN direct : direct[i] \in Nat
                        BY DEF Seqs
                    <6> QED BY <4>1, <6>1
                <5> QED BY <5>1
            <4>3. DOMAIN run = {}
                BY <1>2, <3>2, <4>1, <4>2 DEF Upwards
            <4> QED BY <2>1, <4>3 DEF Range
        <3>3. CASE m # 0
            BY <1>2, <3>3 DEF Seqs
        <3> QED BY <3>2, <3>3
    <2> QED BY <1>1, <2>1, <2>2, DetachIsGood DEF IInv, BufferType, FlagType
<1>4. CASE /\ DeliverAndStay(Range(run))
           /\ nextSeq' = m
           /\ pending' = P \ (n..(m - 1))
           /\ delivered' = delivered \o run
           /\ timer' = (armed /\ pending' # {})
           /\ excused' = excused \cup over
           /\ deferred' = FALSE
    <2> DEFINE up == Upwards(n, m)
    <2>1. /\ up \in Seq(Nat) /\ InOrder(up) /\ Range(up) = n..(m - 1)
          /\ \A i \in DOMAIN up : up[i] \in n..(m - 1)
        BY <1>2, UpwardsFacts, Zenon
    <2>2. /\ run \in Seq(Seqs) /\ InOrder(run)
          /\ Range(run) = Range(direct) \cup n..(m - 1)
          /\ \A i \in DOMAIN run : nextSeq <= run[i] /\ run[i] < m
        <3>1. /\ direct \in Seq(Nat)
              /\ \A i \in DOMAIN direct : direct[i] \in Nat /\ direct[i] \in Seqs
            BY DEF Seqs
        <3>2. \A i \in DOMAIN up : n <= up[i] /\ up[i] < m
            BY <1>2, <2>1
        <3> HIDE DEF up
        <3>3. /\ InOrder(direct \o up)
              /\ \A i \in DOMAIN (direct \o up) : (direct \o up)[i] < m
              /\ \A i \in DOMAIN (direct \o up) \ DOMAIN direct : n <= (direct \o up)[i]
              /\ Range(direct \o up) = Range(direct) \cup Range(up)
            BY <1>2, <2>1, <3>1, <3>2, Extended, Zenon
        <3>4. \A i \in DOMAIN direct : (direct \o up)[i] = direct[i]
            BY <2>1, <3>1
        <3>5. direct \o up \in Seq(Nat)
            BY <2>1, <3>1
        <3>6. \A i \in DOMAIN (direct \o up) : (direct \o up)[i] \in Nat
            BY <3>5
        <3>7. \A i \in DOMAIN (direct \o up) : nextSeq <= (direct \o up)[i]
            BY <1>2, <3>3, <3>4, <3>6
        <3>8. \A i \in DOMAIN (direct \o up) : (direct \o up)[i] \in Seqs
            BY <1>2, <3>3, <3>6 DEF Seqs
        <3>9. direct \o up \in Seq(Seqs)
            BY <3>5, <3>8, SequenceOf
        <3> QED BY <2>1, <3>3, <3>7, <3>9 DEF up
    <2> HIDE DEF run, up
    <2>3. /\ delivered' \in Seq(Seqs) /\ InOrder(delivered')
          /\ \A i \in DOMAIN delivered' : delivered'[i] < m
          /\ IsPrefix(delivered, delivered')
          /\ \A i \in DOMAIN delivered' \ DOMAIN delivered : nextSeq <= delivered'[i]
          /\ Range(delivered') = Range(delivered) \cup Range(run)
        <3>1. delivered' = delivered \o run
            BY <1>4 DEF run
        <3> QED BY <1>2, <2>2, <3>1, HandOver, Zenon
    <2>4. BufferType'
        <3>1. FlagType'
            BY <1>1, <1>4, Zenon DEF IInv, BufferType, FlagType
        <3>2. excused' \subseteq Seqs /\ pending' \subseteq Seqs
            BY <1>2, <1>4 DEF IInv, BufferType, NumberType, Seqs
        <3>3. NumberType'
            BY <1>2, <1>4, <2>3, <3>2 DEF IInv, BufferType, NumberType,
                                          DeliverAndStay
        <3> QED BY <3>1, <3>3 DEF BufferType
    <2>5. count' \in Nat /\ (count' > 0 => count > 0)
        BY <1>4 DEF IInv, BufferType, NumberType, DeliverAndStay
    <2>6. \A s \in pending' : nextSeq' < s /\ s < seqCounter'
        <3>1. SUFFICES ASSUME NEW s \in pending'
                       PROVE  m < s /\ s < seqCounter
            BY <1>4
        <3>2. s \in n..(seqCounter - 1) /\ s \notin n..(m - 1) /\ s # m
            BY <1>0, <1>4
        <3> QED BY <1>2, <3>2
    <2>7. excused' \subseteq 0..(m - 1) /\ excused \subseteq excused'
        BY <1>2, <1>4
    <2>8. Accounted'
        <3>1. SUFFICES ASSUME count' > 0, NEW s \in 0..(m - 1)
                       PROVE  s \in Range(delivered') \cup excused'
            BY <1>4 DEF Accounted
        <3>2. s \in 0..(nextSeq - 1) \/ s \in nextSeq..(n - 1) \/ s \in n..(m - 1)
            BY <1>2
        <3>3. CASE s \in 0..(nextSeq - 1)
            <4>1. s \in Range(delivered) \cup excused
                BY <2>5, <3>1, <3>3 DEF IInv, BufferInv, Accounted
            <4> QED BY <2>3, <2>7, <4>1
        <3>4. CASE s \in nextSeq..(n - 1)
            BY <1>4, <2>2, <2>3, <3>4
        <3>5. CASE s \in n..(m - 1)
            BY <2>2, <2>3, <3>5
        <3> QED BY <3>2, <3>3, <3>4, <3>5
    <2>9. HeldEventsAreTimed'
        <3>1. pending' # {} => P # {}
            BY <1>4
        <3> QED BY <1>4, <3>1, Zenon DEF HeldEventsAreTimed
    <2>10. BufferInv'
        BY <1>2, <1>4, <2>3, <2>6, <2>7, <2>8, <2>9 DEF BufferInv, PausedIsSilent
    <2>11. AttachStep /\ FrontierStep
        BY <1>2, <1>4, <2>3, <2>5, <2>7
        DEF AttachStep, FrontierStep, IInv, BufferType, NumberType
    <2> QED BY <2>4, <2>10, <2>11 DEF GoodBufferStep, GoodStep
<1> QED BY <1>0, <1>3, <1>4

\* A forced flush of a released buffer that holds only numbers above nextSeq.
LEMMA ForceFlushIsGood ==
    ASSUME IInv, UNCHANGED redisVars, ~deferred,
           NEW P \in SUBSET ((nextSeq + 1)..(seqCounter - 1)),
           ForceFlushBuffer(P)
    PROVE  GoodBufferStep
<1> USE BoundsAssumption DEF redisVars
<1>0. PICK q \in Ascending(P), last \in P :
        /\ q[Len(q)] = last
        /\ \/ /\ DeliverAndStay(P)
              /\ nextSeq' = last + 1
              /\ pending' = {}
              /\ delivered' = delivered \o q
              /\ excused' = excused \cup ((nextSeq..last) \ P)
              /\ timer' = FALSE
              /\ UNCHANGED <<deferred, missing>>
           \/ \E t \in P :
              /\ DeliverAndDetach(t, IF t = last THEN last + 1 ELSE 0)
              /\ missing' = (missing \/ t # last)
    BY DEF ForceFlushBuffer
<1>1. /\ last \in Nat /\ last + 1 \in Seqs /\ last + 1 \in Nat
      /\ last + 1 <= seqCounter /\ nextSeq < last /\ nextSeq \in Nat
      /\ seqCounter \in Nat /\ P \in SUBSET Seqs
      /\ excused \subseteq 0..(nextSeq - 1)
    BY DEF IInv, BufferType, NumberType, OtherType, BufferInv, Seqs
<1>2. /\ q \in Seq(P) /\ InOrder(q) /\ Range(q) = P
      /\ \A s \in P : s <= last
    BY <1>0, <1>1, AscendingFacts
<1>3. CASE \E t \in P :
              /\ DeliverAndDetach(t, IF t = last THEN last + 1 ELSE 0)
              /\ missing' = (missing \/ t # last)
    <2>1. PICK t \in P :
              /\ DeliverAndDetach(t, IF t = last THEN last + 1 ELSE 0)
              /\ missing' = (missing \/ t # last)
        BY <1>3
    <2> DEFINE n == IF t = last THEN last + 1 ELSE 0
    <2>2. n \in Seqs /\ n <= seqCounter
        BY <1>1 DEF IInv, OtherType, Seqs
    <2>3. missing' \in BOOLEAN
        BY <2>1 DEF IInv, BufferType, FlagType, NumberType
    <2> QED BY <2>1, <2>2, <2>3, DetachIsGood
<1>4. CASE /\ DeliverAndStay(P)
           /\ nextSeq' = last + 1
           /\ pending' = {}
           /\ delivered' = delivered \o q
           /\ excused' = excused \cup ((nextSeq..last) \ P)
           /\ timer' = FALSE
           /\ UNCHANGED <<deferred, missing>>
    <2>1. /\ delivered' \in Seq(Seqs) /\ InOrder(delivered')
          /\ \A i \in DOMAIN delivered' : delivered'[i] < last + 1
          /\ IsPrefix(delivered, delivered')
          /\ \A i \in DOMAIN delivered' \ DOMAIN delivered : nextSeq <= delivered'[i]
          /\ Range(delivered') = Range(delivered) \cup P
        <3>1. q \in Seq(Seqs)
            <4>1. \A i \in DOMAIN q : q[i] \in Seqs
                BY <1>1, <1>2, ElementsOf
            <4> QED BY <1>2, <4>1, SequenceOf
        <3>2. \A i \in DOMAIN q : nextSeq <= q[i] /\ q[i] < last + 1
            <4>1. \A i \in DOMAIN q : q[i] \in P
                BY <1>2
            <4>2. \A s \in P : nextSeq <= s /\ s < last + 1
                BY <1>1, <1>2
            <4> QED BY <4>1, <4>2
        <3>3. nextSeq <= last + 1
            BY <1>1
        <3> DEFINE m == last + 1
        <3>4. m \in Nat /\ nextSeq <= m /\ \A i \in DOMAIN q : nextSeq <= q[i] /\ q[i] < m
            BY <1>1, <3>2, <3>3
        <3> HIDE DEF m
        <3>5. /\ delivered' \in Seq(Seqs) /\ InOrder(delivered')
              /\ \A i \in DOMAIN delivered' : delivered'[i] < m
              /\ IsPrefix(delivered, delivered')
              /\ \A i \in DOMAIN delivered' \ DOMAIN delivered : nextSeq <= delivered'[i]
              /\ Range(delivered') = Range(delivered) \cup Range(q)
            BY <1>2, <1>4, <3>1, <3>4, HandOver, Zenon
        <3> QED BY <1>2, <3>5 DEF m
    <2>2. BufferType'
        <3>1. FlagType'
            BY <1>4, Zenon DEF IInv, BufferType, FlagType
        <3>2. excused' \subseteq Seqs
            BY <1>1, <1>4 DEF IInv, BufferType, NumberType, Seqs
        <3>3. NumberType'
            BY <1>1, <1>4, <2>1, <3>2 DEF IInv, BufferType, NumberType,
                                          DeliverAndStay
        <3> QED BY <3>1, <3>3 DEF BufferType
    <2>3. count' \in Nat /\ (count' > 0 => count > 0)
        BY <1>4 DEF IInv, BufferType, NumberType, DeliverAndStay
    <2>4. excused' \subseteq 0..last /\ excused \subseteq excused'
        BY <1>1, <1>4
    <2>5. Accounted'
        <3>1. SUFFICES ASSUME count' > 0, NEW s \in 0..last
                       PROVE  s \in Range(delivered') \cup excused'
            BY <1>1, <1>4 DEF Accounted
        <3>2. s \in 0..(nextSeq - 1) \/ s \in nextSeq..last
            BY <1>1
        <3>3. CASE s \in 0..(nextSeq - 1)
            BY <2>1, <2>3, <2>4, <3>1, <3>3 DEF IInv, BufferInv, Accounted
        <3>4. CASE s \in nextSeq..last
            BY <1>4, <2>1, <3>4
        <3> QED BY <3>2, <3>3, <3>4
    <2>6. HeldEventsAreTimed'
        BY <1>4, Zenon DEF HeldEventsAreTimed
    <2>7. BufferInv'
        BY <1>1, <1>4, <2>1, <2>4, <2>5, <2>6 DEF BufferInv, PausedIsSilent
    <2>8. AttachStep /\ FrontierStep
        BY <1>1, <1>4, <2>1, <2>3, <2>4
        DEF AttachStep, FrontierStep, IInv, BufferType, NumberType
    <2> QED BY <2>2, <2>7, <2>8 DEF GoodBufferStep, GoodStep
<1> QED BY <1>0, <1>3, <1>4

LEMMA HandleIsGood ==
    ASSUME IInv, UNCHANGED redisVars,
           NEW s \in Seqs, s < seqCounter, HandleSequenced(s)
    PROVE  GoodBufferStep
<1> USE BoundsAssumption DEF Seqs, redisVars
<1>1. ASSUME HoldEvent(s), deferred \/ nextSeq < s
      PROVE  GoodBufferStep
    <2>1. BufferType'
        BY <1>1 DEF IInv, BufferType, FlagType, NumberType, HoldEvent
    <2>0. HeldEventsAreTimed'
        <3>1. pending' # {}
            BY <1>1 DEF HoldEvent
        <3> QED
            BY <1>1, <3>1, Zenon DEF HeldEventsAreTimed, IInv, BufferInv,
                                     BufferType, FlagType, HoldEvent
    <2>2. BufferInv'
        BY <1>1, <2>0 DEF IInv, BufferType, NumberType, OtherType, HoldEvent,
                          BufferInv, PausedIsSilent, Accounted
    <2>3. GoodStep
        BY <1>1, PrefixOfItself
        DEF IInv, BufferType, FlagType, NumberType, HoldEvent, GoodStep,
            AttachStep, FrontierStep
    <2> QED BY <2>1, <2>2, <2>3 DEF GoodBufferStep
<1>2. CASE deferred /\ HoldEvent(s)
    BY <1>1, <1>2
<1>3. CASE /\ ~deferred /\ s = nextSeq
           /\ FlushPendingMessages(s + 1, pending, <<s>>, timer, {})
    <2>1. s + 1 \in Seqs /\ nextSeq <= s + 1 /\ s + 1 <= seqCounter
        BY <1>3 DEF IInv, OtherType, BufferType, NumberType
    <2>2. pending \in SUBSET ((s + 1)..(seqCounter - 1))
        BY <1>3 DEF IInv, BufferInv, BufferType, NumberType, OtherType
    <2>3. /\ <<s>> \in Seq(Seqs) /\ InOrder(<<s>>)
          /\ \A i \in DOMAIN <<s>> : nextSeq <= <<s>>[i] /\ <<s>>[i] < s + 1
        BY <1>3 DEF InOrder
    <2>4. nextSeq..((s + 1) - 1) \subseteq Range(<<s>>) \cup {}
        <3>1. s \in Range(<<s>>)
            BY DEF Range
        <3> QED BY <1>3, <3>1
    <2>5. timer \in BOOLEAN /\ {} \in SUBSET (nextSeq..((s + 1) - 1))
        BY DEF IInv, BufferType, FlagType
    <2>6. pending # {} => timer
        BY <1>3 DEF IInv, BufferInv, HeldEventsAreTimed
    <2> QED BY <1>3, <2>1, <2>2, <2>3, <2>4, <2>5, <2>6, FlushIsGood
<1>4. CASE /\ ~deferred /\ s > nextSeq
           /\ IF s \notin terminals
                 /\ Cardinality(pending \cup {s}) >= MaxBufferSize
              THEN ForceFlushBuffer(pending \cup {s})
              ELSE HoldEvent(s)
    <2>1. CASE ForceFlushBuffer(pending \cup {s})
        <3>1. pending \cup {s} \in SUBSET ((nextSeq + 1)..(seqCounter - 1))
            BY <1>4 DEF IInv, BufferInv, BufferType, NumberType, OtherType
        <3> QED BY <1>4, <2>1, <3>1, ForceFlushIsGood
    <2>2. CASE HoldEvent(s)
        BY <1>1, <1>4, <2>2 DEF IInv, BufferType, FlagType, NumberType
    <2> QED BY <1>4, <2>1, <2>2
<1>5. CASE /\ ~deferred /\ s < nextSeq
           /\ UNCHANGED <<bufferVars, count, channel, missing>>
    BY <1>5, UnchangedIsGood DEF IInv, OtherType
<1> QED BY <1>2, <1>3, <1>4, <1>5 DEF HandleSequenced

(***************************************************************************)
(* The inductive step.  A buffer lemma gives everything about the buffer;  *)
(* what is left is the transit part, which the buffer does not touch.      *)
(***************************************************************************)

LEMMA FramesRest ==
    ASSUME NEW f \in Frames
    PROVE  /\ f.lo \in Seqs /\ f.hi \in Seqs /\ f.lo <= f.hi
           /\ RestOf(f) \in Frames \cup {NoFrame}
           /\ RestOf(f) # NoFrame => RestOf(f).hi = f.hi
BY BoundsAssumption DEF Frames, RestOf, NoFrame, Seqs

LEMMA TransitUnchanged ==
    ASSUME IInv, UNCHANGED <<redisVars, syncs, net>>,
           ingress' \in Frames \cup {NoFrame},
           ingress' # NoFrame => ingress'.hi < seqCounter,
           wired' \in BOOLEAN, state' \in Nat, created' \in Nat,
           listener' \in BOOLEAN
    PROVE  OtherType' /\ TransitInv'
BY DEF IInv, OtherType, TransitInv, redisVars

LEMMA PublishIsGood ==
    ASSUME IInv, NEW k \in 1..MaxBatch, NEW t \in BOOLEAN, Publish(k, t)
    PROVE  IInv' /\ GoodStep
<1> USE BoundsAssumption DEF Seqs
<1> DEFINE f == [lo |-> seqCounter, hi |-> seqCounter + k - 1]
<1>1. seqCounter' = seqCounter + k /\ seqCounter' \in Seqs
    BY DEF Publish, IInv, OtherType
<1>2. f \in Frames /\ f.hi < seqCounter'
    BY <1>1 DEF IInv, OtherType, Frames
<1>3. net' \subseteq net \cup {f}
    BY DEF Publish
<1>4. GoodBufferStep
    BY <1>1, UnchangedIsGood DEF Publish, channelVars, IInv, OtherType
<1>5. OtherType'
    BY <1>1, <1>2, <1>3 DEF Publish, IInv, OtherType, channelVars
<1>6. TransitInv'
    <2>1. \A g \in net' : g.hi < seqCounter'
        BY <1>1, <1>2, <1>3 DEF IInv, OtherType, TransitInv, Frames
    <2>2. ingress' # NoFrame => ingress'.hi < seqCounter'
        BY <1>1 DEF Publish, IInv, OtherType, TransitInv, Frames, NoFrame
    <2>3. \A i \in 1..Len(syncs) :
            /\ syncs[i].replay \in 0..(MaxSeq + 1)
            /\ syncs[i].val \in 0..(MaxSeq + 1)
        <3> SUFFICES ASSUME NEW i \in 1..Len(syncs)
                     PROVE  syncs[i] \in Syncs
            BY DEF Syncs
        <3> QED BY DEF IInv, OtherType
    <2>4. \A i \in 1..Len(syncs') :
            /\ syncs'[i].replay # NoReplay => syncs'[i].replay <= seqCounter'
            /\ syncs'[i].val # Unread => syncs'[i].val <= seqCounter'
        BY <1>1, <2>3 DEF Publish, IInv, OtherType, TransitInv
    <2> QED BY <2>1, <2>2, <2>4 DEF TransitInv
<1> QED BY <1>4, <1>5, <1>6 DEF IInv, GoodBufferStep

LEMMA ReceiveIsGood ==
    ASSUME IInv, NEW f \in net, Receive(f)
    PROVE  IInv' /\ GoodStep
<1> USE BoundsAssumption
<1>1. f \in Frames /\ f.hi < seqCounter
    BY DEF IInv, OtherType, TransitInv
<1>2. f.lo \in Seqs /\ f.lo < seqCounter
    BY <1>1, FramesRest DEF Seqs, IInv, OtherType
<1>3. seqCounter' = seqCounter /\ seqCounter \in Nat
    BY DEF Receive, redisVars, IInv, OtherType, Seqs
<1>4. GoodBufferStep /\ ingress' \in Frames \cup {NoFrame}
        /\ (ingress' # NoFrame => ingress'.hi < seqCounter)
    <2>1. CASE state = NoState \/ count = 0
        <3>1. GoodBufferStep
            BY <1>3, <2>1, UnchangedIsGood DEF Receive
        <3> QED BY <2>1, <3>1 DEF Receive, IInv, OtherType, TransitInv
    <2>2. CASE ~(state = NoState \/ count = 0)
        <3>1. HandleSequenced(f.lo) /\ ingress' = RestOf(f)
            BY <2>2 DEF Receive
        <3>2. GoodBufferStep
            BY <1>2, <3>1, HandleIsGood DEF Receive
        <3> QED BY <1>1, <3>1, <3>2, FramesRest
    <2> QED BY <2>1, <2>2
<1>5. OtherType' /\ TransitInv'
    BY <1>4, TransitUnchanged DEF Receive, IInv, OtherType
<1> QED BY <1>4, <1>5 DEF IInv, GoodBufferStep

LEMMA UnpackIsGood ==
    ASSUME IInv, UnpackNext
    PROVE  IInv' /\ GoodStep
<1> USE BoundsAssumption
<1>1. ingress \in Frames /\ ingress.hi < seqCounter
    BY DEF UnpackNext, Idle, IInv, OtherType, TransitInv
<1>2. ingress.lo \in Seqs /\ ingress.lo < seqCounter
    BY <1>1, FramesRest DEF Seqs, IInv, OtherType
<1>3. GoodBufferStep
    BY <1>2, HandleIsGood DEF UnpackNext
<1>4. /\ ingress' \in Frames \cup {NoFrame}
      /\ ingress' # NoFrame => ingress'.hi < seqCounter
    BY <1>1, FramesRest DEF UnpackNext
<1>5. OtherType' /\ TransitInv'
    BY <1>4, TransitUnchanged DEF UnpackNext, IInv, OtherType
<1> QED BY <1>3, <1>5 DEF IInv, GoodBufferStep

\* A timer is armed only on a released buffer, so its flush starts above.
LEMMA TimeoutIsGood ==
    ASSUME IInv, Timeout
    PROVE  IInv' /\ GoodStep
<1> USE BoundsAssumption DEF Seqs
<1>1. ~deferred
    BY DEF Timeout, IInv, BufferInv, HeldEventsAreTimed
<1>2. pending \in SUBSET ((nextSeq + 1)..(seqCounter - 1))
    BY <1>1 DEF IInv, BufferInv, BufferType, NumberType, OtherType
<1>3. GoodBufferStep
    BY <1>1, <1>2, ForceFlushIsGood DEF Timeout
<1>4. OtherType' /\ TransitInv'
    BY TransitUnchanged DEF Timeout, IInv, OtherType, TransitInv
<1> QED BY <1>3, <1>4 DEF IInv, GoodBufferStep

LEMMA AttachmentIsGood ==
    ASSUME IInv, Attachment
    PROVE  IInv' /\ GoodStep
<1> USE BoundsAssumption
<1> DEFINE kinds == {"none", "pending", "active"}
<1>1. channel \in kinds /\ count \in Nat /\ state \in Nat /\ created \in Nat
        /\ ingress \in Frames \cup {NoFrame} /\ wired \in BOOLEAN
        /\ listener \in BOOLEAN /\ seqCounter \in Nat
        /\ (ingress # NoFrame => ingress.hi < seqCounter)
    BY DEF IInv, BufferType, NumberType, OtherType, TransitInv, Seqs
<1>2. ASSUME NEW d \in BOOLEAN, Subscribe(d)
      PROVE  IInv' /\ GoodStep
    <2>1. channel' \in kinds /\ count' \in Nat
        BY <1>1, <1>2 DEF Subscribe, EnsureChannelSubscription
    <2>2. GoodBufferStep
        <3>1. CASE count = 0
            BY <1>2, <2>1, <3>1, ResetIsGood DEF Subscribe
        <3>2. CASE count # 0
            <4>1. UNCHANGED <<bufferVars, missing>>
                BY <1>2, <3>2 DEF Subscribe
            <4>2. count' > 0 => count > 0
                BY <1>1, <1>2, <3>2 DEF Subscribe
            <4> QED BY <1>2, <2>1, <4>1, <4>2, KeptIsGood DEF Subscribe
        <3> QED BY <3>1, <3>2
    <2>3. state' \in Nat /\ created' \in Nat
        BY <1>1, <1>2 DEF Subscribe, GetOrCreateStreamState
    <2>4. OtherType' /\ TransitInv'
        BY <1>1, <1>2, <2>3, TransitUnchanged DEF Subscribe
    <2> QED BY <2>2, <2>4 DEF IInv, GoodBufferStep
<1>3. CASE Unsubscribe
    <2>1. channel' \in kinds /\ count' \in Nat
        BY <1>1, <1>3 DEF Unsubscribe, UnsubscribeUnusedChannel
    <2>2. GoodBufferStep
        <3>1. CASE count = 1
            <4>1. count' = 0
                BY <1>3, <3>1 DEF Unsubscribe
            <4> QED
                BY <1>3, <2>1, <3>1, <4>1, DetachResetIsGood DEF Unsubscribe
        <3>2. CASE count # 1
            <4>1. UNCHANGED <<bufferVars, missing>>
                BY <1>3, <3>2 DEF Unsubscribe
            <4>2. count' > 0 => count > 0
                BY <1>1, <1>3, <3>2 DEF Unsubscribe
            <4> QED BY <1>3, <2>1, <4>1, <4>2, KeptIsGood DEF Unsubscribe
        <3> QED BY <3>1, <3>2
    <2>4. OtherType' /\ TransitInv'
        BY <1>1, <1>3, TransitUnchanged DEF Unsubscribe
    <2> QED BY <2>2, <2>4 DEF IInv, GoodBufferStep
<1>4. CASE CloseLocalSubscribers
    <2>1. channel' \in kinds /\ count' = 0
        BY <1>1, <1>4 DEF CloseLocalSubscribers, UnsubscribeUnusedChannel
    <2>2. GoodBufferStep
        BY <1>4, <2>1, DetachResetIsGood DEF CloseLocalSubscribers
    <2>3. OtherType' /\ TransitInv'
        BY <1>1, <1>4, TransitUnchanged DEF CloseLocalSubscribers
    <2> QED BY <2>2, <2>3 DEF IInv, GoodBufferStep
<1>5. CASE AddListener \/ DropListener
    <2>1. channel' \in kinds /\ UNCHANGED <<bufferVars, count, missing, redisVars>>
        BY <1>1, <1>5 DEF AddListener, DropListener, EnsureChannelSubscription,
                          UnsubscribeUnusedChannel
    <2>2. GoodBufferStep
        <3>1. count' \in Nat /\ (count' > 0 => count > 0)
            BY <2>1 DEF IInv, BufferType, NumberType
        <3> QED BY <2>1, <3>1, KeptIsGood
    <2>4. state' \in Nat /\ created' \in Nat /\ listener' \in BOOLEAN
        <3>1. listener' \in BOOLEAN
            BY <1>5, Zenon DEF AddListener, DropListener
        <3>2. state' \in Nat /\ created' \in Nat
            <4>1. CASE AddListener
                BY <1>1, <4>1 DEF AddListener, GetOrCreateStreamState
            <4>2. CASE DropListener
                BY <1>1, <4>2 DEF DropListener
            <4> QED BY <1>5, <4>1, <4>2
        <3> QED BY <3>1, <3>2
    <2>5. OtherType' /\ TransitInv'
        BY <1>1, <1>5, <2>4, TransitUnchanged DEF AddListener, DropListener
    <2> QED BY <2>2, <2>5 DEF IInv, GoodBufferStep
<1>6. CASE Cleanup
    <2>1. channel' \in kinds /\ count' = 0 /\ state' \in Nat
            /\ listener' \in BOOLEAN
        BY <1>6 DEF Cleanup, NoState
    <2>2. GoodBufferStep
        BY <1>6, <2>1, DetachResetIsGood DEF Cleanup
    <2>3. OtherType' /\ TransitInv'
        BY <1>1, <1>6, <2>1, TransitUnchanged DEF Cleanup
    <2> QED BY <2>2, <2>3 DEF IInv, GoodBufferStep
<1> QED BY <1>2, <1>3, <1>4, <1>5, <1>6 DEF Attachment

LEMMA NetworkIsGood ==
    ASSUME IInv, Network
    PROVE  IInv' /\ GoodStep
<1> USE BoundsAssumption
<1>1. ingress \in Frames \cup {NoFrame} /\ wired \in BOOLEAN
        /\ state \in Nat /\ created \in Nat /\ listener \in BOOLEAN
        /\ (ingress # NoFrame => ingress.hi < seqCounter)
        /\ seqCounter \in Nat
    BY DEF IInv, OtherType, TransitInv, Seqs
<1>2. ASSUME NEW k \in 1..MaxBatch, NEW t \in BOOLEAN, Publish(k, t)
      PROVE  IInv' /\ GoodStep
    BY <1>2, PublishIsGood
<1>3. CASE RedisUnsubscribed
    <2>1. GoodBufferStep
        BY <1>1, <1>3, UnchangedIsGood DEF RedisUnsubscribed, redisVars
    <2>2. OtherType' /\ TransitInv'
        BY <1>1, <1>3, TransitUnchanged DEF RedisUnsubscribed
    <2> QED BY <2>1, <2>2 DEF IInv, GoodBufferStep
<1>4. CASE ChannelReady \/ ChannelFailed
    <2>1. /\ channel' \in {"none", "pending", "active"}
          /\ UNCHANGED <<bufferVars, count, missing, redisVars>>
          /\ wired' \in BOOLEAN
        BY <1>1, <1>4 DEF ChannelReady, ChannelFailed
    <2>2. GoodBufferStep
        <3>1. count' \in Nat /\ (count' > 0 => count > 0)
            BY <2>1 DEF IInv, BufferType, NumberType
        <3> QED BY <2>1, <3>1, KeptIsGood
    <2>4. OtherType' /\ TransitInv'
        BY <1>1, <1>4, <2>1, TransitUnchanged DEF ChannelReady, ChannelFailed
    <2> QED BY <2>2, <2>4 DEF IInv, GoodBufferStep
<1> QED BY <1>2, <1>3, <1>4 DEF Network

\* Facts about the oldest synchronization in flight.
LEMMA HeadOfSyncs ==
    ASSUME IInv, syncs # <<>>
    PROVE  /\ Head(syncs) \in Syncs
           /\ Tail(syncs) \in Seq(Syncs)
           /\ Len(Tail(syncs)) = Len(syncs) - 1
           /\ \A i \in 1..Len(Tail(syncs)) : Tail(syncs)[i] = syncs[i + 1]
           /\ Head(syncs).replay # NoReplay => Head(syncs).replay <= seqCounter
           /\ Head(syncs).val # Unread => Head(syncs).val <= seqCounter
<1>1. Len(syncs) \in Nat /\ Len(syncs) >= 1 /\ Head(syncs) = syncs[1]
    BY DEF IInv, OtherType
<1> QED BY <1>1 DEF IInv, OtherType, TransitInv

\* Dropping that synchronization keeps the rest of the invariant.
LEMMA DropSync ==
    ASSUME IInv, syncs # <<>>, syncs' = Tail(syncs), UNCHANGED redisVars,
           UNCHANGED <<net, wired, state, created, listener, ingress>>
    PROVE  OtherType' /\ TransitInv'
<1>1. OtherType'
    BY HeadOfSyncs DEF IInv, OtherType, redisVars
<1>2. TransitInv'
    <2>1. \A i \in 1..Len(syncs') :
            /\ i + 1 \in 1..Len(syncs)
            /\ syncs'[i] = syncs[i + 1]
        BY HeadOfSyncs DEF IInv, OtherType
    <2> QED BY <2>1 DEF IInv, TransitInv, redisVars
<1> QED BY <1>1, <1>2

LEMMA SyncReplyIsGood ==
    ASSUME IInv, SyncReply
    PROVE  IInv' /\ GoodStep
<1> USE BoundsAssumption
<1> DEFINE y == Head(syncs)
<1>1. /\ y \in Syncs
      /\ y.replay # NoReplay => y.replay <= seqCounter
      /\ y.val <= seqCounter
    BY HeadOfSyncs DEF SyncReply
<1>2. Ceiling(y) \in Seqs /\ Ceiling(y) <= seqCounter
    BY <1>1 DEF Ceiling, Syncs, NoReplay, Seqs, IInv, OtherType
<1>3. Pruned(y) \subseteq pending
    BY DEF Pruned
<1>4. GoodBufferStep
    <2>1. CASE y.st # state \/ state = NoState
        <3>1. UNCHANGED <<bufferVars, count, channel, missing>>
            BY <2>1 DEF SyncReply
        <3>2. seqCounter' = seqCounter /\ seqCounter \in Nat
            BY DEF SyncReply, redisVars, IInv, OtherType, Seqs
        <3> QED BY <3>1, <3>2, UnchangedIsGood
    <2>2. CASE ~(y.st # state \/ state = NoState)
        <3>1. PICK low \in Pruned(y) \cup {Ceiling(y)} :
                /\ \A s \in Pruned(y) \cup {Ceiling(y)} : low <= s
                /\ LET n == Largest(nextSeq, low) IN
                   FlushPendingMessages(n, Pruned(y), <<>>, TRUE,
                                        SteppedOver(y, n))
            BY <2>2 DEF SyncReply
        <3> DEFINE n == Largest(nextSeq, low)
                   over == SteppedOver(y, n)
        <3>2. low \in Seqs /\ low <= Ceiling(y)
            BY <1>2, <1>3, <3>1 DEF IInv, BufferType, NumberType, Seqs
        <3>3. n \in Seqs /\ nextSeq <= n /\ n <= seqCounter /\ low <= n
                /\ (n = nextSeq \/ n = low)
            BY <1>2, <3>2 DEF Largest, Seqs, IInv, BufferType, NumberType,
                              BufferInv, OtherType
        <3>4. Pruned(y) \in SUBSET (n..(seqCounter - 1))
            <4>1. SUFFICES ASSUME NEW s \in Pruned(y)
                           PROVE  s \in n..(seqCounter - 1)
                OBVIOUS
            <4>2. s \in Seqs /\ s < seqCounter /\ low <= s
                BY <1>3, <3>1 DEF IInv, BufferType, NumberType, BufferInv
            <4>3. nextSeq <= s
                BY <1>3, <4>2 DEF IInv, BufferInv, PausedIsSilent, BufferType,
                                  NumberType, Seqs
            <4> QED BY <3>3, <4>2, <4>3 DEF Seqs, IInv, OtherType
        \* What the frontier moves over is below the ceiling and not held.
        <3>5. ASSUME NEW s \in nextSeq..(n - 1)
              PROVE  s \in Excusable(y)
            <4>1. s \in Nat /\ s < low /\ s < Ceiling(y)
                BY <1>2, <3>2, <3>3, <3>5 DEF Seqs, IInv, BufferType, NumberType
            <4>2. CASE y.replay # NoReplay
                <5>1. Ceiling(y) = y.replay /\ Excusable(y) = 0..(y.replay - 1)
                    BY <4>2 DEF Ceiling, Excusable
                <5> QED BY <1>2, <4>1, <5>1 DEF Seqs
            <4>3. CASE y.replay = NoReplay
                <5>1. /\ Ceiling(y) = y.val /\ Pruned(y) = pending
                      /\ Excusable(y) = (0..(y.val - 1)) \ pending
                    BY <4>3 DEF Ceiling, Excusable, Pruned
                <5>2. s \notin pending
                    BY <3>1, <3>2, <4>1, <5>1 DEF Seqs
                <5> QED BY <1>2, <4>1, <5>1, <5>2 DEF Seqs
            <4> QED BY <4>2, <4>3
        <3>6. over \in SUBSET (nextSeq..(n - 1))
            BY DEF SteppedOver
        <3>7. nextSeq..(n - 1) \subseteq Range(<<>>) \cup over
            BY <3>5 DEF SteppedOver
        <3>8. /\ <<>> \in Seq(Seqs) /\ InOrder(<<>>) /\ DOMAIN <<>> = {}
              /\ TRUE \in BOOLEAN /\ UNCHANGED redisVars
            BY DEF SyncReply, InOrder
        <3>9. FlushPendingMessages(n, Pruned(y), <<>>, TRUE, over)
            BY <3>1
        <3> HIDE DEF n, over
        <3>10. \A i \in DOMAIN <<>> : nextSeq <= <<>>[i] /\ <<>>[i] < n
            BY <3>8
        <3> QED BY <3>3, <3>4, <3>6, <3>7, <3>8, <3>9, <3>10, FlushIsGood
    <2> QED BY <2>1, <2>2
<1>5. OtherType' /\ TransitInv'
    BY DropSync DEF SyncReply
<1> QED BY <1>4, <1>5 DEF IInv, GoodBufferStep

LEMMA SyncFailIsGood ==
    ASSUME IInv, SyncFail
    PROVE  IInv' /\ GoodStep
<1> USE BoundsAssumption
<1> DEFINE y == Head(syncs)
           r == IF y.replay # NoReplay THEN y.replay ELSE 0
           n == Largest(nextSeq, r)
           over == SteppedOver(y, n)
<1>0. y \in Syncs /\ (y.replay # NoReplay => y.replay <= seqCounter)
    BY HeadOfSyncs DEF SyncFail
<1>1. r \in Seqs /\ r <= seqCounter
    BY <1>0 DEF Syncs, NoReplay, Seqs, IInv, OtherType
<1>2. GoodBufferStep
    <2>1. CASE y.st # state \/ ~deferred
        <3>1. UNCHANGED <<bufferVars, count, channel, missing>>
            BY <2>1 DEF SyncFail
        <3>2. seqCounter' = seqCounter /\ seqCounter \in Nat
            BY DEF SyncFail, redisVars, IInv, OtherType, Seqs
        <3> QED BY <3>1, <3>2, UnchangedIsGood
    <2>2. CASE ~(y.st # state \/ ~deferred)
        <3>1. FlushPendingMessages(n, Pruned(y), <<>>, TRUE, over)
            BY <2>2 DEF SyncFail
        <3>2. nextSeq = 0
            BY <2>2 DEF IInv, BufferInv, PausedIsSilent
        <3>3. n = r
            BY <1>1, <3>2 DEF Largest, Seqs
        <3>4. Pruned(y) \in SUBSET (n..(seqCounter - 1))
            <4>1. SUFFICES ASSUME NEW s \in Pruned(y)
                           PROVE  s \in n..(seqCounter - 1)
                OBVIOUS
            <4>2. s \in Seqs /\ s < seqCounter
                BY DEF Pruned, IInv, BufferType, NumberType, BufferInv
            <4>3. r <= s
                BY <1>0, <4>2 DEF Pruned, Syncs, NoReplay, Seqs
            <4> QED BY <1>1, <3>3, <4>2, <4>3 DEF Seqs, IInv, OtherType
        <3>5. over \in SUBSET (nextSeq..(n - 1))
            BY DEF SteppedOver
        <3>6. nextSeq..(n - 1) \subseteq Range(<<>>) \cup over
            <4>1. CASE y.replay # NoReplay
                <5>1. Excusable(y) = 0..(y.replay - 1) /\ r = y.replay
                    BY <4>1 DEF Excusable
                <5> QED BY <3>2, <3>3, <5>1 DEF SteppedOver
            <4>2. CASE y.replay = NoReplay
                <5>1. nextSeq..(n - 1) = {}
                    BY <3>2, <3>3, <4>2
                <5> QED BY <5>1
            <4> QED BY <4>1, <4>2
        <3>7. n \in Seqs /\ nextSeq <= n /\ n <= seqCounter
            BY <1>1, <3>2, <3>3 DEF Seqs
        <3>8. /\ <<>> \in Seq(Seqs) /\ InOrder(<<>>) /\ DOMAIN <<>> = {}
              /\ TRUE \in BOOLEAN /\ UNCHANGED redisVars
            BY DEF SyncFail, InOrder
        <3> HIDE DEF n, over
        <3>9. \A i \in DOMAIN <<>> : nextSeq <= <<>>[i] /\ <<>>[i] < n
            BY <3>8
        <3> QED BY <3>1, <3>4, <3>5, <3>6, <3>7, <3>8, <3>9, FlushIsGood
    <2> QED BY <2>1, <2>2
<1>3. OtherType' /\ TransitInv'
    BY DropSync DEF SyncFail
<1> QED BY <1>2, <1>3 DEF IInv, GoodBufferStep

LEMMA SyncCallIsGood ==
    ASSUME IInv,
           SyncRead \/ \E r \in (0..seqCounter) \cup {NoReplay} : SyncStart(r)
    PROVE  IInv' /\ GoodStep
<1> USE BoundsAssumption
<1>0. seqCounter \in Nat /\ seqCounter <= MaxSeq /\ state \in Nat
    BY DEF IInv, OtherType, Seqs
<1>1. UNCHANGED <<redisVars, missing, net, channelVars, bufferVars, ingress>>
    BY DEF SyncRead, SyncStart
<1>2. GoodBufferStep
    BY <1>0, <1>1, UnchangedIsGood DEF redisVars, channelVars
<1>3. syncs' \in Seq(Syncs) /\
      \A i \in 1..Len(syncs') :
        /\ syncs'[i].replay # NoReplay => syncs'[i].replay <= seqCounter
        /\ syncs'[i].val # Unread => syncs'[i].val <= seqCounter
    <2>1. CASE SyncRead
        <3>1. Len(syncs) \in Nat /\ Len(syncs) >= 1 /\ syncs[1] \in Syncs
                /\ syncs[1] = Head(syncs)
            BY <2>1 DEF SyncRead, IInv, OtherType
        <3> DEFINE read == [syncs[1] EXCEPT !.val = seqCounter]
        <3>2. read \in Syncs /\ read.val = seqCounter
                /\ read.replay = syncs[1].replay
            <4>1. seqCounter \in 0..(MaxSeq + 1)
                BY <1>0
            <4> QED BY <3>1, <4>1 DEF Syncs
        <3>3. syncs' = [syncs EXCEPT ![1] = read]
            BY <2>1 DEF SyncRead
        <3> HIDE DEF read
        <3>4. syncs' \in Seq(Syncs) /\ Len(syncs') = Len(syncs)
            BY <3>1, <3>2, <3>3 DEF IInv, OtherType
        <3>5. \A i \in 1..Len(syncs) : i # 1 => syncs'[i] = syncs[i]
            BY <3>1, <3>3 DEF IInv, OtherType
        <3>6. syncs'[1].val = seqCounter /\ syncs'[1].replay = syncs[1].replay
            BY <3>1, <3>2, <3>3 DEF IInv, OtherType
        <3> QED BY <1>0, <3>1, <3>4, <3>5, <3>6 DEF IInv, TransitInv
    <2>2. CASE \E r \in (0..seqCounter) \cup {NoReplay} : SyncStart(r)
        <3>1. PICK r \in (0..seqCounter) \cup {NoReplay} : SyncStart(r)
            BY <2>2
        <3> DEFINE y == [st |-> state, replay |-> r, val |-> Unread]
        <3>2. y \in Syncs /\ y.val = Unread
                /\ (y.replay # NoReplay => y.replay <= seqCounter)
            BY <1>0, <3>1 DEF Syncs, NoReplay, Unread
        <3>3. syncs' = Append(syncs, y)
            BY <3>1 DEF SyncStart
        <3> HIDE DEF y
        <3>4. syncs' \in Seq(Syncs) /\ Len(syncs') = Len(syncs) + 1
                /\ Len(syncs) \in Nat
            BY <3>2, <3>3 DEF IInv, OtherType
        <3>5. \A i \in 1..Len(syncs') :
                syncs'[i] = y \/ (i \in 1..Len(syncs) /\ syncs'[i] = syncs[i])
            BY <3>2, <3>3, <3>4 DEF IInv, OtherType
        <3> QED BY <3>2, <3>4, <3>5 DEF IInv, TransitInv
    <2> QED BY <2>1, <2>2
<1>4. OtherType' /\ TransitInv'
    BY <1>0, <1>1, <1>3 DEF IInv, OtherType, TransitInv, redisVars, channelVars
<1> QED BY <1>2, <1>4 DEF IInv, GoodBufferStep

(***************************************************************************)
(* The theorems.                                                           *)
(***************************************************************************)

LEMMA InitIInv == Init => IInv
<1> SUFFICES ASSUME Init PROVE IInv
    OBVIOUS
<1> USE BoundsAssumption DEF Init, Seqs
<1>1. BufferType
    <2>1. FlagType
        BY Zenon DEF FlagType
    <2>2. NumberType
        BY DEF NumberType
    <2> QED BY <2>1, <2>2 DEF BufferType
<1>2. OtherType
    <2>1. wired \in BOOLEAN /\ listener \in BOOLEAN
        BY Zenon
    <2>2. syncs \in Seq(Syncs)
        OBVIOUS
    <2> QED BY <2>1, <2>2 DEF OtherType, NoState
<1>3. HeldEventsAreTimed
    BY DEF HeldEventsAreTimed
<1>4. BufferInv
    BY <1>3, Nothing DEF BufferInv, PausedIsSilent, Accounted
<1>5. TransitInv
    BY DEF TransitInv
<1> QED BY <1>1, <1>2, <1>4, <1>5 DEF IInv

LEMMA NextIInv == IInv /\ [Next]_vars => IInv' /\ GoodStep
<1> SUFFICES ASSUME IInv, [Next]_vars PROVE IInv' /\ GoodStep
    OBVIOUS
<1>1. CASE Network
    BY <1>1, NetworkIsGood
<1>2. CASE Delivery
    <2>1. ASSUME NEW f \in net, Receive(f) PROVE IInv' /\ GoodStep
        BY <2>1, ReceiveIsGood
    <2> QED BY <1>2, <2>1, UnpackIsGood, TimeoutIsGood DEF Delivery
<1>3. CASE Attachment
    BY <1>3, AttachmentIsGood
<1>4. CASE Synchronization
    BY <1>4, SyncCallIsGood, SyncReplyIsGood, SyncFailIsGood
    DEF Synchronization
<1>5. CASE UNCHANGED vars
    <2>1. UNCHANGED <<redisVars, net, channelVars, bufferVars, ingress, syncs,
                      missing>>
        BY <1>5 DEF vars
    <2>2. seqCounter \in Nat
        BY DEF IInv, OtherType, Seqs
    <2>3. GoodBufferStep
        BY <2>1, <2>2, UnchangedIsGood DEF redisVars, channelVars
    <2>4. OtherType' /\ TransitInv'
        BY <2>1 DEF redisVars, channelVars, IInv, OtherType, TransitInv
    <2> QED BY <2>3, <2>4 DEF IInv, GoodBufferStep
<1> QED BY <1>1, <1>2, <1>3, <1>4, <1>5 DEF Next

\* In every reachable state the invariant holds, whatever the network, the
\* publishers, the subscribers and the synchronizations do.
THEOREM Invariance == Spec => []IInv
BY InitIInv, NextIInv, PTL DEF Spec

\* Type correctness of the transport's state.
THEOREM TypeCorrect == Spec => []TypeOK
<1>1. IInv => TypeOK
    BY DEF IInv, BufferType, FlagType, NumberType, OtherType, TypeOK
<1> QED BY <1>1, Invariance, PTL

\* Below an attached subscriber's frontier every event was handed over, or
\* stepped over by a forced flush, or by a synchronization that may: one with a
\* replay only over what was replayed, one without over what was numbered before
\* its counter read and has not arrived, be it lost or still on its way.
THEOREM NothingSilentlySkipped == Spec => []Accounted
<1>1. IInv => Accounted
    BY DEF IInv, BufferInv
<1> QED BY <1>1, Invariance, PTL

\* A paused attachment is handed nothing.
THEOREM PausedSilence == Spec => []PausedIsSilent
<1>1. IInv => PausedIsSilent
    BY DEF IInv, BufferInv
<1> QED BY <1>1, Invariance, PTL

\* Held events of a released buffer always have an armed timer behind them.
THEOREM TimersCoverHeldEvents == Spec => []HeldEventsAreTimed
<1>1. IInv => HeldEventsAreTimed
    BY DEF IInv, BufferInv
<1> QED BY <1>1, Invariance, PTL

\* What a stream keeps for its subscribers is sound, for any bounds.
THEOREM Soundness == Spec => []BufferIsSound
<1> QED BY TypeCorrect, PausedSilence, TimersCoverHeldEvents, PTL DEF BufferIsSound

\* The sequence of what an attachment's handlers are given is strictly
\* ascending: in order, and no event twice.
THEOREM DeliveryInOrder == Spec => []InOrderDelivery
<1>1. IInv => InOrderDelivery
    BY DEF IInv, BufferInv, InOrderDelivery
<1> QED BY <1>1, Invariance, PTL

(***************************************************************************)
(* The transport implements OrderedDelivery.                               *)
(***************************************************************************)

\* Numbers are taken from the counter while nothing else happens.
LEMMA SendingStep ==
    ASSUME IInv, [Next]_vars
    PROVE  \/ seqCounter' = seqCounter
           \/ seqCounter < seqCounter' /\ UNCHANGED <<bufferVars, count>>
<1>1. ASSUME NEW k \in 1..MaxBatch, NEW t \in BOOLEAN, Publish(k, t)
      PROVE  seqCounter < seqCounter' /\ UNCHANGED <<bufferVars, count>>
    BY <1>1, BoundsAssumption
    DEF Publish, IInv, OtherType, Seqs, channelVars
<1> QED
    BY <1>1
    DEF Next, Network, Delivery, Attachment, Synchronization,
        RedisUnsubscribed, ChannelReady, ChannelFailed, Receive, UnpackNext,
        Timeout, Subscribe, Unsubscribe, CloseLocalSubscribers, AddListener,
        DropListener, Cleanup, SyncStart, SyncRead, SyncReply, SyncFail,
        redisVars, channelVars, vars

\* Without subscribers the abstract readers are gone; with them, the abstract
\* variables are those of the buffer.
LEMMA OrderedStep ==
    ASSUME IInv, IInv', [Next]_vars
    PROVE  [Ordered!Next]_(Ordered!vars)
<1> USE DEF Seqs
<1>1. /\ seqCounter \in Nat /\ nextSeq \in Nat /\ nextSeq <= seqCounter
      /\ count \in Nat
    BY BoundsAssumption DEF IInv, BufferType, NumberType, OtherType, BufferInv
<1>2. /\ seqCounter' \in Nat /\ nextSeq' \in Nat /\ nextSeq' <= seqCounter'
      /\ count' \in Nat
    BY BoundsAssumption DEF IInv, BufferType, NumberType, OtherType, BufferInv
<1>3. /\ Accounted' /\ excused' \subseteq 0..(nextSeq' - 1)
      /\ delivered' \in Seq(Seqs) /\ InOrder(delivered')
      /\ \A i \in DOMAIN delivered' : delivered'[i] < nextSeq'
    BY DEF IInv, BufferType, NumberType, BufferInv
<1>4. \A i \in DOMAIN delivered' : delivered'[i] \in Nat
    BY <1>3, BoundsAssumption
<1>5. AttachStep /\ FrontierStep
    BY NextIInv DEF GoodStep
<1>6. CASE seqCounter' # seqCounter
    <2>1. seqCounter < seqCounter' /\ UNCHANGED <<bufferVars, count>>
        BY <1>6, SendingStep
    <2> QED BY <1>2, <2>1 DEF Ordered!Next, Ordered!Send, Ordered!readerVars,
                              bufferVars
<1>7. CASE seqCounter' = seqCounter
    <2>1. CASE count = 0 /\ count' = 0
        BY <1>7, <2>1 DEF Ordered!vars, Ordered!readerVars
    <2>2. CASE count = 0 /\ count' > 0
        BY <1>1, <1>2, <1>5, <1>7, <2>2
        DEF Ordered!Next, Ordered!Attach, Ordered!Fresh, AttachStep
    <2>3. CASE count > 0 /\ count' = 0
        BY <1>7, <2>3 DEF Ordered!Next, Ordered!Detach, Ordered!Fresh
    <2>4. CASE count > 0 /\ count' > 0
        <3>1. /\ nextSeq <= nextSeq' /\ excused \subseteq excused'
              /\ IsPrefix(delivered, delivered')
              /\ \A i \in DOMAIN delivered' \ DOMAIN delivered :
                    nextSeq <= delivered'[i]
            BY <1>5, <2>4 DEF FrontierStep
        <3>2. nextSeq' \in nextSeq..seqCounter
            BY <1>1, <1>2, <1>7, <3>1
        <3>3. \A i \in DOMAIN delivered' \ DOMAIN delivered :
                delivered'[i] \in nextSeq..(nextSeq' - 1)
            BY <1>1, <1>2, <1>3, <1>4, <3>1
        <3>4. \A i, j \in DOMAIN delivered' : i < j => delivered'[i] < delivered'[j]
            BY <1>3 DEF InOrder
        <3>5. Range(delivered') \cup excused' = 0..(nextSeq' - 1)
            <4>1. Range(delivered') \subseteq 0..(nextSeq' - 1)
                <5>1. SUFFICES ASSUME NEW i \in DOMAIN delivered'
                               PROVE  delivered'[i] \in 0..(nextSeq' - 1)
                    BY DEF Range
                <5> QED BY <1>2, <1>3, <1>4
            <4>2. 0..(nextSeq' - 1) \subseteq Range(delivered') \cup excused'
                BY <1>3, <2>4 DEF Accounted
            <4> QED BY <1>3, <4>1, <4>2
        <3>6. /\ (IF count > 0 THEN delivered ELSE <<>>) = delivered
              /\ (IF count > 0 THEN delivered ELSE <<>>)' = delivered'
              /\ (IF count > 0 THEN nextSeq ELSE 0) = nextSeq
              /\ (IF count > 0 THEN nextSeq ELSE 0)' = nextSeq'
              /\ (IF count > 0 THEN excused ELSE {}) = excused
              /\ (IF count > 0 THEN excused ELSE {})' = excused'
              /\ UNCHANGED <<seqCounter, count > 0>>
            BY <1>7, <2>4
        <3>7. /\ Ordered!IsPrefix(delivered, delivered')
              /\ Ordered!Range(delivered') = Range(delivered')
            BY <3>1, Zenon DEF IsPrefix, Range, Ordered!IsPrefix, Ordered!Range
        <3>8. Ordered!Advance
            BY <2>4, <3>1, <3>2, <3>3, <3>4, <3>5, <3>6, <3>7, Zenon
            DEF Ordered!Advance
        <3> QED BY <3>8 DEF Ordered!Next
    <2> QED BY <1>1, <1>2, <2>1, <2>2, <2>3, <2>4
<1> QED BY <1>6, <1>7

\* The subscriber half of the transport implements OrderedDelivery: whatever
\* happens to it, its subscribers get the events in order, each at most once,
\* and miss none without an excuse.
THEOREM Implementation == Spec => KeepsOrder
<1>1. Init => Ordered!Init
    BY DEF Init, Ordered!Init
<1>2. IInv /\ IInv' /\ [Next]_vars => [Ordered!Next]_(Ordered!vars)
    BY OrderedStep
<1> QED BY <1>1, <1>2, Invariance, PTL DEF Spec, KeepsOrder, Ordered!Spec

=============================================================================
