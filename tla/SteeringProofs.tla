--------------------------- MODULE SteeringProofs ---------------------------
(***************************************************************************)
(* Proofs about Steering.  Fits says of each steer where its receipt, the  *)
(* list that holds it and its history agree; a steer whose hash expired is *)
(* of a generation that never returns.  Orders says that what a run may    *)
(* still write comes after what it wrote and before what is queued, Turns  *)
(* that what was taken out of the parked list or withdrawn does not begin  *)
(* or go on as a turn.                                                     *)
(***************************************************************************)
EXTENDS Steering, TLAPS

Receipts == Final \cup {"none", "queued", "claimed", "leftover"}
Stages == {"none", "idle", "apply", "restore", "inject", "gone"}

TypeJob == /\ job \in [gen : 0..MaxGens, status : Active \cup Terminal \cup {"none"},
                       pending : BOOLEAN]
           /\ epoch \in 0..MaxGens /\ job.gen \in {0, epoch}
           /\ job.gen = 0 <=> job.status = "none"
TypeLists == /\ queue \in Seq(Steers) /\ claimed \subseteq Steers
             /\ parked \subseteq Steers /\ lease \in [Steers -> 0..MaxGens]
TypeReceipts == receipt \in [Steers -> Receipts] /\ taken \in [Steers -> 0..MaxGens]
TypeProgress == /\ pc \in [Gens -> Stages]
                /\ batch \in [Gens -> Seq(Steers)] /\ done \in [Gens -> Seq(Steers)]
                /\ context \in [Gens -> SUBSET Steers]
TypeEnding == /\ recovers \in [Gens -> Steers \cup {NoSteer}]
              /\ committed \in [Gens -> BOOLEAN]
              /\ claim \in [Gens -> Terminal \cup {"none", "failed", "done"}]
TypeHistory == /\ accepted \in Seq(Steers) /\ parts \in Seq(Steers)
               /\ rows \subseteq Steers /\ removed \subseteq Steers
               /\ stray \subseteq Steers
TypeFaults == faults \in 0..MaxFaults

Types == /\ TypeJob /\ TypeLists /\ TypeReceipts /\ TypeProgress /\ TypeEnding
         /\ TypeHistory /\ TypeFaults

LEMMA TypesAreTypes == Types <=> TypeOK
BY DEF Types, TypeOK, TypeJob, TypeLists, TypeReceipts, TypeProgress, TypeEnding,
       TypeHistory, TypeFaults, Receipts, Stages

(***************************************************************************)
(* The invariant.                                                          *)
(***************************************************************************)

Accepted == ToSet(accepted)
Written  == ToSet(parts)

\* The generation that accepted the steer is active.
Running(s) == taken[s] = job.gen /\ job.status \in Active

\* It is in the list that its receipt names, unless it strayed.
Listed(s) ==
    /\ receipt[s] = "none" <=> s \notin Accepted
    /\ receipt[s] = "none" => s \notin Queued \cup claimed \cup parked \cup stray
    /\ receipt[s] # "none" => 0 < taken[s] /\ taken[s] <= epoch
    /\ s \notin stray =>
          /\ s \in Queued  <=> receipt[s] = "queued"
          /\ s \in claimed <=> receipt[s] = "claimed"
          /\ s \in parked  <=> receipt[s] = "leftover"
          /\ receipt[s] \in {"queued", "claimed"} => Running(s)

Strayed(s) ==
    s \in stray => /\ receipt[s] # "delivered" /\ taken[s] # job.gen
                   /\ job.gen # 0 => s \notin Queued \cup claimed

\* It is not written any more.
Past(s) == s \in stray \/ receipt[s] \in {"leftover", "recovered", "cancelled"}

Ended(s) ==
    /\ s \in rows \/ (\E g \in Gens : recovers[g] = s) => Past(s)
    /\ s \in removed => receipt[s] = "cancelled"
    /\ s \in Written <=> receipt[s] = "delivered"
    /\ receipt[s] = "recovered" => s \in rows

Fits == \A s \in Steers : Listed(s) /\ Strayed(s) /\ Ended(s)

Distinct(list) == \A i, j \in DOMAIN list : list[i] = list[j] => i = j

\* What a run has injected was written, and its batch is of its own generation.
Runs ==
    \A g \in Gens :
        /\ ToSet(done[g]) \cup context[g] \subseteq Written
        /\ pc[g] \in {"idle", "inject"} => batch[g] = <<>>
        /\ pc[g] = "apply" => batch[g] # <<>>
        /\ \A s \in ToSet(batch[g]) : s \in Accepted /\ taken[s] = g

Earlier(s, t) == Before(accepted, s, t)
Ascending(list) == \A i, j \in DOMAIN list : i < j => Earlier(list[i], list[j])

OrderOfQueue == Ascending(queue) /\ \A c \in claimed, s \in Queued : Earlier(c, s)

OrderOfBatch ==
    \A g \in Gens :
        /\ Ascending(batch[g])
        /\ job.gen = g => \A c \in claimed \ ToSet(batch[g]), s \in ToSet(batch[g]) :
                              Earlier(c, s)

OrderOfParts ==
    /\ \A i, j \in DOMAIN parts :
          i < j /\ taken[parts[i]] = taken[parts[j]] => Earlier(parts[i], parts[j])
    /\ \A t \in Written, s \in Queued : taken[t] = taken[s] => Earlier(t, s)
    /\ \A g \in Gens : \A t \in Written, s \in ToSet(batch[g]) :
          taken[t] = g => t = s \/ Earlier(t, s)

Orders == OrderOfQueue /\ OrderOfBatch /\ OrderOfParts

IInv == /\ Types /\ Fits /\ Runs /\ Distinct(accepted) /\ Distinct(parts)

(***************************************************************************)
(* Sequences.                                                              *)
(***************************************************************************)

LEMMA EmptySeq ==
    ASSUME NEW S, NEW l \in Seq(S)
    PROVE  l = <<>> <=> Len(l) = 0
OBVIOUS

LEMMA Members ==
    ASSUME NEW S, NEW l \in Seq(S)
    PROVE  /\ ToSet(l) \subseteq S
           /\ \A x : x \in ToSet(l) <=> \E i \in DOMAIN l : l[i] = x
BY DEF ToSet

LEMMA Appended ==
    ASSUME NEW S, NEW l \in Seq(S), NEW x \in S
    PROVE  /\ Append(l, x) \in Seq(S) /\ ToSet(Append(l, x)) = ToSet(l) \cup {x}
           /\ \A i \in DOMAIN l : i \in DOMAIN Append(l, x) /\ Append(l, x)[i] = l[i]
           /\ \A i \in DOMAIN Append(l, x) :
                 i \in DOMAIN l \/ (i = Len(l) + 1 /\ Append(l, x)[i] = x)
           /\ Len(l) + 1 \in DOMAIN Append(l, x) /\ \A i \in DOMAIN l : i < Len(l) + 1
<1>1. /\ Append(l, x) \in Seq(S) /\ DOMAIN Append(l, x) = DOMAIN l \cup {Len(l) + 1}
      /\ \A i \in DOMAIN l : Append(l, x)[i] = l[i]
      /\ Append(l, x)[Len(l) + 1] = x
      /\ \A i \in DOMAIN l : i < Len(l) + 1
  OBVIOUS
<1>2. ToSet(Append(l, x)) = ToSet(l) \cup {x}
  BY <1>1 DEF ToSet
<1> QED
  BY <1>1, <1>2

LEMMA Split ==
    ASSUME NEW S, NEW l \in Seq(S), l # <<>>
    PROVE  /\ Head(l) = l[1] /\ 1 \in DOMAIN l /\ Tail(l) \in Seq(S) /\ Head(l) \in S
           /\ ToSet(l) = {Head(l)} \cup ToSet(Tail(l))
           /\ \A i \in DOMAIN Tail(l) : i + 1 \in DOMAIN l /\ Tail(l)[i] = l[i + 1]
           /\ Len(l) = 1 <=> Tail(l) = <<>>
<1>1. /\ Head(l) = l[1] /\ 1 \in DOMAIN l /\ Tail(l) \in Seq(S) /\ Head(l) \in S
      /\ \A i \in DOMAIN Tail(l) : i + 1 \in DOMAIN l /\ Tail(l)[i] = l[i + 1]
      /\ \A i \in DOMAIN l : i = 1 \/ (i - 1 \in DOMAIN Tail(l) /\ Tail(l)[i - 1] = l[i])
  OBVIOUS
<1>2. ToSet(l) \subseteq {Head(l)} \cup ToSet(Tail(l))
  <2> SUFFICES ASSUME NEW i \in DOMAIN l PROVE l[i] \in {Head(l)} \cup ToSet(Tail(l))
    BY Members
  <2>1. l[i] = Head(l) \/ \E j \in DOMAIN Tail(l) : Tail(l)[j] = l[i]
    BY <1>1
  <2> QED
    BY <1>1, <2>1, Members
<1>3. {Head(l)} \cup ToSet(Tail(l)) \subseteq ToSet(l)
  <2>1. Head(l) \in ToSet(l)
    BY <1>1, Members
  <2>2. ASSUME NEW j \in DOMAIN Tail(l) PROVE Tail(l)[j] \in ToSet(l)
    BY <1>1, <2>2, Members
  <2>3. ToSet(Tail(l)) \subseteq ToSet(l)
    BY <2>2 DEF ToSet
  <2> QED
    BY <2>1, <2>3
<1>4. Len(l) = 1 <=> Tail(l) = <<>>
  <2>1. Len(Tail(l)) = Len(l) - 1 /\ Len(l) \in Nat
    OBVIOUS
  <2>2. Tail(l) = <<>> <=> Len(Tail(l)) = 0
    BY <1>1, EmptySeq
  <2> QED
    BY <2>1, <2>2
<1> QED
  BY <1>1, <1>2, <1>3, <1>4

LEMMA Joined ==
    ASSUME NEW S, NEW k \in Seq(S), NEW l \in Seq(S)
    PROVE  /\ k \o l \in Seq(S) /\ ToSet(k \o l) = ToSet(k) \cup ToSet(l)
           /\ \A i \in DOMAIN (k \o l) :
                 \/ i \in DOMAIN k /\ (k \o l)[i] = k[i]
                 \/ /\ i - Len(k) \in DOMAIN l /\ (k \o l)[i] = l[i - Len(k)]
                    /\ \A j \in DOMAIN k : j < i
<1>1. /\ k \o l \in Seq(S)
      /\ \A i \in DOMAIN (k \o l) :
            \/ i \in DOMAIN k /\ (k \o l)[i] = k[i]
            \/ /\ i - Len(k) \in DOMAIN l /\ (k \o l)[i] = l[i - Len(k)]
               /\ \A j \in DOMAIN k : j < i
      /\ \A i \in DOMAIN k : i \in DOMAIN (k \o l) /\ (k \o l)[i] = k[i]
      /\ \A i \in DOMAIN l : /\ i + Len(k) \in DOMAIN (k \o l)
                             /\ (k \o l)[i + Len(k)] = l[i]
  OBVIOUS
<1>2. ASSUME NEW x PROVE x \in ToSet(k \o l) <=> x \in ToSet(k) \cup ToSet(l)
  <2>1. ASSUME x \in ToSet(k \o l) PROVE x \in ToSet(k) \cup ToSet(l)
    <3>1. PICK i \in DOMAIN (k \o l) : (k \o l)[i] = x
      BY <2>1 DEF ToSet
    <3>2. (\E j \in DOMAIN k : k[j] = x) \/ \E j \in DOMAIN l : l[j] = x
      BY <1>1, <3>1
    <3> QED
      BY <3>2 DEF ToSet
  <2>2. ASSUME x \in ToSet(k) PROVE x \in ToSet(k \o l)
    <3>1. PICK i \in DOMAIN k : k[i] = x
      BY <2>2 DEF ToSet
    <3>2. i \in DOMAIN (k \o l) /\ (k \o l)[i] = x
      BY <1>1, <3>1
    <3> QED
      BY <3>2 DEF ToSet
  <2>3. ASSUME x \in ToSet(l) PROVE x \in ToSet(k \o l)
    <3>1. PICK i \in DOMAIN l : l[i] = x
      BY <2>3 DEF ToSet
    <3>2. i + Len(k) \in DOMAIN (k \o l) /\ (k \o l)[i + Len(k)] = x
      BY <1>1, <3>1
    <3> QED
      BY <3>2 DEF ToSet
  <2> QED
    BY <2>1, <2>2, <2>3
<1>3. ToSet(k \o l) = ToSet(k) \cup ToSet(l)
  BY <1>2
<1> QED
  BY <1>1, <1>3

LEMMA Without ==
    ASSUME NEW S, NEW l \in Seq(S), NEW i \in DOMAIN l, Distinct(l)
    PROVE  /\ RemoveAt(l, i) \in Seq(S) /\ ToSet(RemoveAt(l, i)) = ToSet(l) \ {l[i]}
           /\ \A j \in DOMAIN RemoveAt(l, i) :
                 RemoveAt(l, i)[j] = IF j < i THEN l[j] ELSE l[j + 1]
           /\ \A j \in DOMAIN RemoveAt(l, i) :
                 j \in Nat /\ (j < i => j \in DOMAIN l) /\ j + 1 \in DOMAIN l
<1> DEFINE r == RemoveAt(l, i)
<1>1. /\ r \in Seq(S) /\ Len(r) = Len(l) - 1
      /\ \A j \in 1..(Len(l) - 1) : r[j] = IF j < i THEN l[j] ELSE l[j + 1]
  <2> DEFINE a == SubSeq(l, 1, i - 1)
             b == SubSeq(l, i + 1, Len(l))
  <2>1. i \in 1..Len(l) /\ Len(l) \in Nat
    OBVIOUS
  <2>2. /\ a \in Seq(S) /\ Len(a) = i - 1
        /\ \A j \in 1..(i - 1) : a[j] = l[j]
    BY <2>1
  <2>3. /\ b \in Seq(S) /\ Len(b) = Len(l) - i
        /\ \A j \in 1..(Len(l) - i) : b[j] = l[j + i]
    BY <2>1
  <2>4. r = a \o b
    BY DEF RemoveAt
  <2> HIDE DEF a, b, r
  <2>5. r \in Seq(S) /\ Len(r) = Len(l) - 1
    BY <2>1, <2>2, <2>3, <2>4
  <2>6. ASSUME NEW j \in 1..(Len(l) - 1)
        PROVE  r[j] = IF j < i THEN l[j] ELSE l[j + 1]
    <3>1. CASE j < i
      BY <2>1, <2>2, <2>3, <2>4, <3>1
    <3>2. CASE ~(j < i)
      <4>1. r[j] = b[j - Len(a)] /\ j - Len(a) \in 1..(Len(l) - i)
        BY <2>1, <2>2, <2>3, <2>4, <3>2
      <4>2. b[j - (i - 1)] = l[j - (i - 1) + i]
        BY <2>2, <2>3, <4>1
      <4> QED
        BY <2>1, <2>2, <3>2, <4>1, <4>2
    <3> QED
      BY <3>1, <3>2
  <2> QED
    BY <2>5, <2>6
<1>2. DOMAIN r = 1..(Len(l) - 1) /\ DOMAIN l = 1..Len(l) /\ Len(l) \in Nat
  BY <1>1
<1> HIDE DEF r
<1>3. \A j \in DOMAIN l : j # i => \E k \in DOMAIN r : r[k] = l[j]
  <2> SUFFICES ASSUME NEW j \in DOMAIN l, j # i
               PROVE  \E k \in DOMAIN r : r[k] = l[j]
    OBVIOUS
  <2>1. CASE j < i
    BY <1>1, <1>2, <2>1
  <2>2. CASE i < j
    <3>1. j - 1 \in DOMAIN r /\ r[j - 1] = l[j]
      BY <1>1, <1>2, <2>2
    <3> QED
      BY <3>1
  <2> QED
    BY <1>2, <2>1, <2>2
<1>4. \A j \in DOMAIN r : \E k \in DOMAIN l : k # i /\ r[j] = l[k]
  <2> SUFFICES ASSUME NEW j \in DOMAIN r
               PROVE  \E k \in DOMAIN l : k # i /\ r[j] = l[k]
    OBVIOUS
  <2>1. CASE j < i
    BY <1>1, <1>2, <2>1
  <2>2. CASE ~(j < i)
    <3>1. j + 1 \in DOMAIN l /\ j + 1 # i /\ r[j] = l[j + 1]
      BY <1>1, <1>2, <2>2
    <3> QED
      BY <3>1
  <2> QED
    BY <2>1, <2>2
<1>5. ToSet(r) = ToSet(l) \ {l[i]}
  BY <1>3, <1>4 DEF ToSet, Distinct
<1> QED
  BY <1>1, <1>2, <1>5 DEF r

(***************************************************************************)
(* Where the steers are.                                                   *)
(***************************************************************************)

LEMMA MemberTypes ==
    ASSUME Types
    PROVE  Queued \subseteq Steers /\ Accepted \subseteq Steers /\ Written \subseteq Steers
BY Members DEF Types, TypeLists, TypeHistory, Queued, Accepted, Written

LEMMA Alive ==
    ASSUME Types, Fits, job.gen # 0, NEW s \in Queued \cup claimed
    PROVE  /\ s \in Steers /\ s \notin stray /\ Running(s)
           /\ s \in Queued <=> receipt[s] = "queued"
           /\ s \in claimed <=> receipt[s] = "claimed"
<1>1. s \in Steers
  BY MemberTypes DEF Types, TypeLists
<1>2. s \notin stray
  BY <1>1 DEF Fits, Strayed
<1> QED
  BY <1>1, <1>2 DEF Fits, Listed

LEMMA Dead ==
    ASSUME Types, Fits, job.gen = 0, NEW s \in Steers
    PROVE  /\ s \in Queued \cup claimed => s \in stray
           /\ s \notin stray => receipt[s] \notin {"queued", "claimed"}
<1>1. ~Running(s)
  BY DEF Types, TypeJob, Running, Active
<1> QED
  BY <1>1 DEF Fits, Listed

FitVars == <<queue, claimed, parked, receipt, taken, accepted, parts, rows, removed,
             stray, recovers>>

LEMMA FitsKept ==
    ASSUME Types, Fits, UNCHANGED FitVars, UNCHANGED epoch, job'.gen = job.gen,
           job.status \in Active => job'.status \in Active
    PROVE  Fits'
<1> SUFFICES ASSUME NEW s \in Steers PROVE (Listed(s) /\ Strayed(s) /\ Ended(s))'
  BY DEF Fits
<1>1. Listed(s) /\ Strayed(s) /\ Ended(s)
  BY DEF Fits
<1>2. Listed(s)'
  BY <1>1 DEF Listed, Running, Accepted, Queued, FitVars
<1>3. Strayed(s)'
  BY <1>1 DEF Strayed, Queued, FitVars
<1>4. Ended(s)'
  BY <1>1 DEF Ended, Past, Written, FitVars
<1> QED
  BY <1>2, <1>3, <1>4

LEMMA EnqueueFits ==
    ASSUME IInv, NEW s \in Steers, NEW g \in Gens, Enqueue(s, g)
    PROVE  Fits'
<1>1. /\ receipt[s] = "none" /\ job.gen = g /\ job.status = "running" /\ job.gen = epoch
      /\ epoch \in Nat /\ 0 < epoch
  BY SteeringAssumption DEF Enqueue, Open, IInv, Types, TypeJob, Gens
<1>2. Queued' = Queued \cup {s} /\ Accepted' = Accepted \cup {s}
  BY Appended DEF Enqueue, Queued, Accepted, IInv, Types, TypeLists, TypeHistory
<1>3. /\ receipt'[s] = "queued" /\ taken'[s] = g
      /\ \A t \in Steers \ {s} : receipt'[t] = receipt[t] /\ taken'[t] = taken[t]
  BY DEF Enqueue, IInv, Types, TypeReceipts
<1>4. UNCHANGED <<job, epoch, claimed, parked, parts, rows, removed, stray, recovers>>
  BY DEF Enqueue, jobVars, ending
<1> SUFFICES ASSUME NEW t \in Steers PROVE (Listed(t) /\ Strayed(t) /\ Ended(t))'
  BY DEF Fits
<1>5. Listed(t) /\ Strayed(t) /\ Ended(t)
  BY DEF IInv, Fits
<1>6. CASE t # s
  <2>1. Listed(t)'
    BY <1>2, <1>3, <1>4, <1>5, <1>6 DEF Listed, Running
  <2>2. Strayed(t)'
    BY <1>2, <1>3, <1>4, <1>5, <1>6 DEF Strayed
  <2>3. Ended(t)'
    BY <1>3, <1>4, <1>5, <1>6 DEF Ended, Past, Written
  <2> QED
    BY <2>1, <2>2, <2>3
<1>7. CASE t = s
  <2>1. Listed(t)'
    BY <1>1, <1>2, <1>3, <1>4, <1>5, <1>7 DEF Listed, Running, Active
  <2>2. Strayed(t)'
    BY <1>1, <1>4, <1>5, <1>7 DEF Strayed, Listed
  <2>3. Ended(t)'
    BY <1>1, <1>3, <1>4, <1>5, <1>7 DEF Ended, Past, Written, Listed
  <2> QED
    BY <2>1, <2>2, <2>3
<1> QED
  BY <1>6, <1>7

LEMMA ReadReceiptFits ==
    ASSUME IInv, NEW s \in Steers, ReadReceipt(s)
    PROVE  Fits' /\ s \in stray /\ receipt[s] \in {"queued", "claimed"}
<1>1. s \in stray /\ receipt[s] \in {"queued", "claimed"}
  BY DEF ReadReceipt, IsActive, IInv, Fits, Listed, Running
<1>2. /\ receipt'[s] = "leftover"
      /\ \A t \in Steers \ {s} : receipt'[t] = receipt[t]
  BY DEF ReadReceipt, Mark
<1>3. UNCHANGED <<job, epoch, queue, claimed, parked, taken, accepted, parts, rows,
                  removed, stray, recovers>>
  BY DEF ReadReceipt, jobVars, lists, ending, history
<1>4. ASSUME NEW t \in Steers PROVE (Listed(t) /\ Strayed(t) /\ Ended(t))'
  <2>1. Listed(t) /\ Strayed(t) /\ Ended(t)
    BY DEF IInv, Fits
  <2>2. Listed(t)'
    BY <1>1, <1>2, <1>3, <2>1 DEF Listed, Running, Accepted, Queued
  <2>3. Strayed(t)'
    BY <1>1, <1>2, <1>3, <2>1 DEF Strayed, Queued
  <2>4. Ended(t)'
    BY <1>1, <1>2, <1>3, <2>1 DEF Ended, Past, Written
  <2> QED
    BY <2>2, <2>3, <2>4
<1> QED
  BY <1>1, <1>4 DEF Fits

LEMMA CancelFits ==
    ASSUME IInv, NEW s \in Steers, Cancel(s), Distinct(queue)
    PROVE  Fits'
<1>1. /\ job.gen # 0 /\ receipt[s] = "queued" /\ taken[s] = job.gen
      /\ receipt'[s] = "cancelled"
      /\ \A t \in Steers \ {s} : receipt'[t] = receipt[t]
  BY DEF Cancel, Mark
<1>2. Queued' = Queued \ {s}
  BY Without DEF Cancel, Queued, IInv, Types, TypeLists
<1>3. removed' = removed \cup {s}
  BY DEF Cancel
<1>4. UNCHANGED <<job, epoch, claimed, parked, taken, accepted, parts, rows, stray,
                  recovers>>
  BY DEF Cancel, jobVars, ending
<1>5. s \notin stray
  BY <1>1 DEF IInv, Fits, Strayed
<1> SUFFICES ASSUME NEW t \in Steers PROVE (Listed(t) /\ Strayed(t) /\ Ended(t))'
  BY DEF Fits
<1>6. Listed(t) /\ Strayed(t) /\ Ended(t)
  BY DEF IInv, Fits
<1>7. Listed(t)'
  BY <1>1, <1>2, <1>4, <1>5, <1>6 DEF Listed, Running, Accepted
<1>8. Strayed(t)'
  BY <1>1, <1>2, <1>4, <1>5, <1>6 DEF Strayed
<1>9. Ended(t)'
  BY <1>1, <1>3, <1>4, <1>5, <1>6 DEF Ended, Past, Written
<1> QED
  BY <1>7, <1>8, <1>9

LEMMA DiscardFits ==
    ASSUME IInv, NEW s \in Steers, Discard(s)
    PROVE  Fits'
<1>1. /\ receipt[s] = "leftover" /\ receipt'[s] = "cancelled"
      /\ \A t \in Steers \ {s} : receipt'[t] = receipt[t]
  BY DEF Discard, Mark
<1>2. parked' = parked \ {s} /\ removed' = removed \cup {s}
  BY DEF Discard
<1>3. UNCHANGED <<job, epoch, queue, claimed, taken, accepted, parts, rows, stray,
                  recovers>>
  BY DEF Discard, jobVars, ending
<1> SUFFICES ASSUME NEW t \in Steers PROVE (Listed(t) /\ Strayed(t) /\ Ended(t))'
  BY DEF Fits
<1>4. Listed(t) /\ Strayed(t) /\ Ended(t)
  BY DEF IInv, Fits
<1>5. Listed(t)'
  BY <1>1, <1>2, <1>3, <1>4 DEF Listed, Running, Accepted, Queued
<1>6. Strayed(t)'
  BY <1>1, <1>3, <1>4 DEF Strayed, Queued
<1>7. Ended(t)'
  BY <1>1, <1>2, <1>3, <1>4 DEF Ended, Past, Written
<1> QED
  BY <1>5, <1>6, <1>7

LEMMA CreateFits ==
    ASSUME IInv, NEW s \in Steers \cup {NoSteer}, Create(s)
    PROVE  Fits'
<1> DEFINE live  == job.gen # 0
           moved == IF live THEN claimed \cup Queued
                    ELSE IF parked # {} THEN Queued ELSE {}
<1>1. /\ s \in parked \cup moved \cup {NoSteer}
      /\ epoch' = epoch + 1
      /\ job' = [gen |-> epoch + 1, status |-> "running", pending |-> FALSE]
      /\ parked' = parked \cup moved
      /\ queue' = <<>> /\ claimed' = {}
      /\ recovers' = [recovers EXCEPT ![epoch + 1] = s]
      /\ \A t \in Steers : receipt'[t] = IF live /\ t \in moved THEN "leftover"
                                         ELSE receipt[t]
      /\ UNCHANGED <<taken, accepted, parts, rows, removed, stray>>
      /\ epoch < MaxGens
  BY DEF Create, Mark, history
<1>2. Queued' = {} /\ epoch \in Nat /\ epoch + 1 \in Gens
  BY <1>1, SteeringAssumption DEF Queued, ToSet, IInv, Types, TypeJob, Gens
<1>3. \A g \in Gens : recovers'[g] = IF g = epoch + 1 THEN s ELSE recovers[g]
  BY <1>1 DEF IInv, Types, TypeEnding
<1>4. moved \subseteq claimed \cup Queued
  OBVIOUS
<1>5. live => \A t \in moved : /\ t \notin stray /\ receipt[t] \in {"queued", "claimed"}
  BY <1>4, Alive DEF IInv
<1>6. ~live => \A t \in moved : t \in stray
  BY <1>4, Dead, MemberTypes DEF IInv, Types, TypeLists
<1>7. live => moved = claimed \cup Queued
  OBVIOUS
<1> HIDE DEF moved
<1> SUFFICES ASSUME NEW t \in Steers PROVE (Listed(t) /\ Strayed(t) /\ Ended(t))'
  BY DEF Fits
<1>8. Listed(t) /\ Strayed(t) /\ Ended(t) /\ taken[t] \in Nat
  BY DEF IInv, Fits, Types, TypeReceipts
<1>9. ~live /\ t \notin stray => receipt[t] \notin {"queued", "claimed"}
  BY Dead DEF IInv
<1>10. Listed(t)'
  <2>1. (receipt[t] = "none" <=> t \notin Accepted)'
    BY <1>1, <1>4, <1>5, <1>8 DEF Listed, Accepted
  <2>2. (receipt[t] = "none" => t \notin Queued \cup claimed \cup parked \cup stray)'
    BY <1>1, <1>2, <1>4, <1>8 DEF Listed
  <2>3. (receipt[t] # "none" => 0 < taken[t] /\ taken[t] <= epoch)'
    BY <1>1, <1>2, <1>4, <1>5, <1>8 DEF Listed
  <2>4. ASSUME t \notin stray'
        PROVE  (/\ t \in Queued  <=> receipt[t] = "queued"
                /\ t \in claimed <=> receipt[t] = "claimed"
                /\ t \in parked  <=> receipt[t] = "leftover"
                /\ receipt[t] \notin {"queued", "claimed"})'
    BY <1>1, <1>2, <1>4, <1>5, <1>6, <1>7, <1>8, <1>9, <2>4 DEF Listed
  <2> QED
    BY <2>1, <2>2, <2>3, <2>4 DEF Listed
<1>11. Strayed(t)'
  BY <1>1, <1>2, <1>4, <1>5, <1>8 DEF Strayed, Listed
<1>12. Ended(t)'
  <2>1. Past(t) => Past(t)'
    BY <1>1, <1>5 DEF Past
  <2>2. t = s => Past(t)'
    <3>1. t = s /\ t \in parked => Past(t)
      BY <1>8 DEF Listed, Past
    <3>2. t = s /\ t \in moved => Past(t)'
      BY <1>1, <1>6 DEF Past
    <3> QED
      BY <1>1, <2>1, <3>1, <3>2, SteeringAssumption
  <2>3. (t \in rows \/ (\E g \in Gens : recovers[g] = t) => Past(t))'
    BY <1>1, <1>3, <1>8, <2>1, <2>2 DEF Ended
  <2>4. receipt'[t] # receipt[t] =>
           receipt[t] \in {"queued", "claimed"} /\ receipt'[t] = "leftover"
    BY <1>1, <1>5
  <2> QED
    BY <1>1, <1>8, <2>3, <2>4 DEF Ended, Written
<1> QED
  BY <1>10, <1>11, <1>12

LEMMA DrainFits ==
    ASSUME IInv, NEW g \in Gens, Drain(g)
    PROVE  Fits'
<1>1. job.gen = g /\ g # 0 /\ \A s \in Queued : receipt[s] = "queued"
  BY DEF Drain, Open, Gens
<1>2. /\ Queued' = {} /\ claimed' = claimed \cup Queued
      /\ \A s \in Steers : receipt'[s] = IF s \in Queued THEN "claimed" ELSE receipt[s]
  BY DEF Drain, Mark, Queued, ToSet
<1>3. UNCHANGED <<job, epoch, parked, taken, accepted, parts, rows, removed, stray,
                  recovers>>
  BY DEF Drain, jobVars, ending, history
<1>4. Queued \cap stray = {}
  BY <1>1, Alive DEF IInv
<1> SUFFICES ASSUME NEW t \in Steers PROVE (Listed(t) /\ Strayed(t) /\ Ended(t))'
  BY DEF Fits
<1>5. Listed(t) /\ Strayed(t) /\ Ended(t)
  BY DEF IInv, Fits
<1>6. Listed(t)'
  BY <1>1, <1>2, <1>3, <1>4, <1>5 DEF Listed, Running, Accepted
<1>7. Strayed(t)'
  BY <1>1, <1>2, <1>3, <1>4, <1>5 DEF Strayed
<1>8. Ended(t)'
  BY <1>1, <1>2, <1>3, <1>4, <1>5 DEF Ended, Past, Written
<1> QED
  BY <1>6, <1>7, <1>8

\* What a run has claimed is of its own generation, and did not stray.
LEMMA ClaimedFacts ==
    ASSUME IInv, NEW g \in Gens, Open(g), NEW s \in Steers, Claimed(s, g)
    PROVE  /\ s \in claimed /\ receipt[s] = "claimed" /\ taken[s] = g /\ job.gen = g
           /\ g # 0 /\ s \notin stray /\ s \notin Written /\ s \in Accepted
BY DEF IInv, Fits, Strayed, Listed, Ended, Open, Claimed, Gens

LEMMA WriteFits ==
    ASSUME IInv, NEW s \in Steers, WritePart(s),
           s \in claimed, receipt[s] = "claimed", s \notin stray,
           UNCHANGED <<job, epoch, queue, parked, taken, accepted, rows, removed, stray,
                       recovers>>
    PROVE  Fits' /\ Written' = Written \cup {s}
<1>1. Written' = Written \cup {s}
  BY Appended DEF WritePart, Written, IInv, Types, TypeHistory
<1>2. /\ claimed' = claimed \ {s} /\ receipt'[s] = "delivered"
      /\ \A t \in Steers \ {s} : receipt'[t] = receipt[t]
  BY DEF WritePart, Mark
<1>3. ASSUME NEW t \in Steers PROVE (Listed(t) /\ Strayed(t) /\ Ended(t))'
  <2>1. Listed(t) /\ Strayed(t) /\ Ended(t)
    BY DEF IInv, Fits
  <2>2. Listed(t)'
    BY <1>2, <2>1 DEF Listed, Running, Accepted, Queued
  <2>3. Strayed(t)'
    BY <1>2, <2>1 DEF Strayed, Queued
  <2>4. Ended(t)'
    BY <1>1, <1>2, <2>1 DEF Ended, Past
  <2> QED
    BY <2>2, <2>3, <2>4
<1> QED
  BY <1>1, <1>3 DEF Fits

LEMMA HeadOfBatch ==
    ASSUME IInv, NEW g \in Gens, batch[g] # <<>>
    PROVE  /\ Head(batch[g]) \in Steers /\ batch[g] \in Seq(Steers)
           /\ ToSet(batch[g]) = {Head(batch[g])} \cup ToSet(Tail(batch[g]))
           /\ Tail(batch[g]) \in Seq(Steers) /\ ToSet(batch[g]) \subseteq Steers
BY Split, Members DEF IInv, Types, TypeProgress

LEMMA ApplyFits ==
    ASSUME IInv, NEW g \in Gens, Apply(g)
    PROVE  Fits' /\ Written' = Written \cup {Head(batch[g])}
<1> DEFINE s == Head(batch[g])
<1>1. s \in Steers
  BY HeadOfBatch DEF IInv, Runs, Apply
<1>2. s \in claimed /\ receipt[s] = "claimed" /\ s \notin stray
  BY <1>1, ClaimedFacts DEF Apply, CanApply
<1>3. /\ WritePart(s)
      /\ UNCHANGED <<job, epoch, queue, parked, taken, accepted, rows, removed, stray,
                     recovers>>
  BY DEF Apply, jobVars, ending
<1> HIDE DEF s
<1>4. Fits' /\ Written' = Written \cup {s}
  BY <1>1, <1>2, <1>3, WriteFits
<1> QED
  BY <1>4 DEF s

LEMMA ApplyFailsFits ==
    ASSUME IInv, NEW g \in Gens, ApplyFails(g)
    PROVE  Fits' /\ Written \subseteq Written'
<1> DEFINE s == Head(batch[g])
<1>1. UNCHANGED <<job, epoch, queue, parked, taken, accepted, rows, removed, stray,
                  recovers>>
  BY DEF ApplyFails, jobVars, ending
<1>2. CASE UNCHANGED <<claimed, receipt, parts>>
  BY <1>1, <1>2, FitsKept DEF IInv, FitVars, Written
<1>3. CASE CanApply(g) /\ WritePart(s)
  <2>1. s \in Steers
    BY HeadOfBatch DEF IInv, Runs, ApplyFails
  <2>2. s \in claimed /\ receipt[s] = "claimed" /\ s \notin stray
    BY <1>3, <2>1, ClaimedFacts DEF CanApply
  <2> HIDE DEF s
  <2> QED
    BY <1>1, <1>3, <2>1, <2>2, WriteFits
<1> QED
  BY <1>2, <1>3 DEF ApplyFails

\* Either nothing that the invariant speaks of changes, or the batch goes back.
RestoreCases(g) ==
    \/ UNCHANGED <<claimed, queue, receipt>>
    \/ /\ CanRestore(g)
       /\ claimed' = claimed \ ToSet(batch[g]) /\ queue' = batch[g] \o queue
       /\ Mark(ToSet(batch[g]), "queued")

LEMMA RestoreFits ==
    ASSUME IInv, NEW g \in Gens, Restore(g)
    PROVE  Fits'
<1>1. UNCHANGED <<job, epoch, parked, taken, accepted, parts, rows, removed, stray,
                  recovers>>
  BY DEF Restore, jobVars, ending, history
<1>2. CASE UNCHANGED <<claimed, queue, receipt>>
  BY <1>1, <1>2, FitsKept DEF IInv, FitVars
<1>3. CASE /\ CanRestore(g)
           /\ claimed' = claimed \ ToSet(batch[g]) /\ queue' = batch[g] \o queue
           /\ Mark(ToSet(batch[g]), "queued")
  <2> DEFINE B == ToSet(batch[g])
  <2>1. B \subseteq Steers /\ Queued' = B \cup Queued
    BY <1>3, Members, Joined DEF IInv, Types, TypeProgress, TypeLists, Queued
  <2>2. \A s \in B : /\ s \in claimed /\ receipt[s] = "claimed" /\ s \notin stray
    BY <1>3, <2>1, ClaimedFacts DEF CanRestore
  <2>3. /\ claimed' = claimed \ B
        /\ \A t \in Steers : receipt'[t] = IF t \in B THEN "queued" ELSE receipt[t]
    BY <1>3 DEF Mark
  <2> HIDE DEF B
  <2> SUFFICES ASSUME NEW t \in Steers PROVE (Listed(t) /\ Strayed(t) /\ Ended(t))'
    BY DEF Fits
  <2>4. Listed(t) /\ Strayed(t) /\ Ended(t)
    BY DEF IInv, Fits
  <2>5. Listed(t)'
    BY <1>1, <2>1, <2>2, <2>3, <2>4 DEF Listed, Running, Accepted
  <2>6. Strayed(t)'
    BY <1>1, <2>1, <2>2, <2>3, <2>4 DEF Strayed
  <2>7. Ended(t)'
    BY <1>1, <2>1, <2>2, <2>3, <2>4 DEF Ended, Past, Written
  <2> QED
    BY <2>5, <2>6, <2>7
<1> QED
  BY <1>2, <1>3 DEF Restore

\* A live generation parks what it holds, and is not running any more.
LEMMA ParkFits ==
    ASSUME IInv, job.gen # 0, ParkAll, job'.gen \in {0, job.gen},
           UNCHANGED <<epoch, accepted, parts, rows, removed, stray, recovers>>
    PROVE  Fits'
<1>1. /\ parked' = parked \cup claimed \cup Queued
      /\ claimed' = {} /\ Queued' = {} /\ UNCHANGED taken
      /\ \A t \in Steers : receipt'[t] = IF t \in claimed \cup Queued THEN "leftover"
                                         ELSE receipt[t]
  BY DEF ParkAll, Mark, Queued, ToSet
<1>2. \A t \in claimed \cup Queued : t \notin stray /\ receipt[t] \in {"queued", "claimed"}
  BY Alive DEF IInv
<1> SUFFICES ASSUME NEW t \in Steers PROVE (Listed(t) /\ Strayed(t) /\ Ended(t))'
  BY DEF Fits
<1>3. Listed(t) /\ Strayed(t) /\ Ended(t) /\ taken[t] \in Nat
  BY DEF IInv, Fits, Types, TypeReceipts
<1>4. t \notin stray => /\ t \in Queued  <=> receipt[t] = "queued"
                        /\ t \in claimed <=> receipt[t] = "claimed"
                        /\ t \in parked  <=> receipt[t] = "leftover"
  BY <1>3 DEF Listed
<1>5. Listed(t)'
  <2>1. (receipt[t] = "none" <=> t \notin Accepted)'
    BY <1>1, <1>2, <1>3 DEF Listed, Accepted
  <2>2. (receipt[t] = "none" => t \notin Queued \cup claimed \cup parked \cup stray)'
    BY <1>1, <1>2, <1>3 DEF Listed
  <2>3. (receipt[t] # "none" => 0 < taken[t] /\ taken[t] <= epoch)'
    BY <1>1, <1>2, <1>3 DEF Listed
  <2>4. (t \notin stray => /\ t \in Queued  <=> receipt[t] = "queued"
                           /\ t \in claimed <=> receipt[t] = "claimed"
                           /\ t \in parked  <=> receipt[t] = "leftover"
                           /\ receipt[t] \notin {"queued", "claimed"})'
    BY <1>1, <1>2, <1>4
  <2> QED
    BY <2>1, <2>2, <2>3, <2>4 DEF Listed
<1>6. Strayed(t)'
  BY <1>1, <1>2, <1>3 DEF Strayed, Listed
<1>7. Ended(t)'
  BY <1>1, <1>2, <1>3 DEF Ended, Past, Written
<1> QED
  BY <1>5, <1>6, <1>7

LEMMA SaveRowFits ==
    ASSUME IInv, NEW g \in Gens, SaveRow(g)
    PROVE  Fits'
<1>1. rows' = rows \cup {recovers[g]}
  BY DEF SaveRow
<1>2. UNCHANGED <<job, epoch, queue, claimed, parked, taken, receipt, accepted, parts,
                  removed, stray, recovers>>
  BY DEF SaveRow, jobVars, lists, receipts, ending
<1> SUFFICES ASSUME NEW t \in Steers PROVE (Listed(t) /\ Strayed(t) /\ Ended(t))'
  BY DEF Fits
<1>3. Listed(t) /\ Strayed(t) /\ Ended(t)
  BY DEF IInv, Fits
<1>4. Listed(t)'
  BY <1>2, <1>3 DEF Listed, Running, Accepted, Queued
<1>5. Strayed(t)'
  BY <1>2, <1>3 DEF Strayed, Queued
<1>6. Ended(t)'
  BY <1>1, <1>2, <1>3 DEF Ended, Past, Written
<1> QED
  BY <1>4, <1>5, <1>6

LEMMA CommitFits ==
    ASSUME IInv, NEW g \in Gens, Commit(g)
    PROVE  Fits' /\ \A t \in Steers : receipt'[t] # receipt[t] =>
                        receipt[t] = "leftover" /\ receipt'[t] = "recovered"
<1> DEFINE s == recovers[g]
<1>1. /\ s \in rows /\ (s \in parked => receipt[s] = "leftover")
      /\ parked' = parked \ {s}
      /\ \A t \in Steers : receipt'[t] = IF t \in parked \cap {s} THEN "recovered"
                                         ELSE receipt[t]
  BY DEF Commit, CanConsume, Mark
<1>2. UNCHANGED <<job, epoch, queue, claimed, taken, accepted, parts, rows, removed,
                  stray, recovers>>
  BY DEF Commit, jobVars, history
<1> HIDE DEF s
<1>3. ASSUME NEW t \in Steers PROVE (Listed(t) /\ Strayed(t) /\ Ended(t))'
  <2>1. Listed(t) /\ Strayed(t) /\ Ended(t)
    BY DEF IInv, Fits
  <2>2. Listed(t)'
    BY <1>1, <1>2, <2>1 DEF Listed, Running, Accepted, Queued
  <2>3. Strayed(t)'
    BY <1>1, <1>2, <2>1 DEF Strayed, Queued
  <2>4. Ended(t)'
    BY <1>1, <1>2, <2>1 DEF Ended, Past, Written
  <2> QED
    BY <2>2, <2>3, <2>4
<1>4. \A t \in Steers : receipt'[t] # receipt[t] =>
          receipt[t] = "leftover" /\ receipt'[t] = "recovered"
  BY <1>1
<1> QED
  BY <1>3, <1>4 DEF Fits

LEMMA DeleteFits ==
    ASSUME IInv, NEW g \in Gens, Delete(g)
    PROVE  Fits'
<1>1. job.gen = g /\ g # 0 /\ job.status \notin Active
  BY DEF Delete, Gens, Terminal, Active
<1>2. Queued \cup claimed = {}
  BY <1>1, Alive DEF IInv, Running
<1>3. job' = NoJob /\ Queued' = {} /\ claimed' = {}
  BY DEF Delete, Queued, ToSet
<1>4. UNCHANGED <<epoch, parked, taken, receipt, accepted, parts, rows, removed, stray,
                  recovers>>
  BY DEF Delete, receipts, ending, history
<1> SUFFICES ASSUME NEW t \in Steers PROVE (Listed(t) /\ Strayed(t) /\ Ended(t))'
  BY DEF Fits
<1>5. Listed(t) /\ Strayed(t) /\ Ended(t) /\ taken[t] \in Nat
  BY DEF IInv, Fits, Types, TypeReceipts
<1>6. Listed(t)'
  BY <1>1, <1>2, <1>3, <1>4, <1>5 DEF Listed, Running, Accepted
<1>7. Strayed(t)'
  BY <1>3, <1>4, <1>5 DEF Strayed, Listed, NoJob
<1>8. Ended(t)'
  BY <1>4, <1>5 DEF Ended, Past, Written
<1> QED
  BY <1>6, <1>7, <1>8

LEMMA ExpireFits ==
    ASSUME IInv, NEW g \in Gens, Expire(g)
    PROVE  Fits'
<1>1. job.gen = g /\ g # 0 /\ job'.gen = 0 /\ stray' = stray \cup claimed \cup Queued
  BY DEF Expire, Gens, NoJob
<1>2. UNCHANGED <<epoch, queue, claimed, parked, taken, receipt, accepted, parts, rows,
                  removed, recovers>>
  BY DEF Expire, lists, receipts, ending
<1> SUFFICES ASSUME NEW t \in Steers PROVE (Listed(t) /\ Strayed(t) /\ Ended(t))'
  BY DEF Fits
<1>3. Listed(t) /\ Strayed(t) /\ Ended(t) /\ taken[t] \in Nat
  BY DEF IInv, Fits, Types, TypeReceipts
<1>4. t \in claimed \cup Queued => receipt[t] \in {"queued", "claimed"}
  BY <1>1, Alive DEF IInv
<1>5. Listed(t)'
  BY <1>1, <1>2, <1>3, <1>4 DEF Listed, Accepted, Queued
<1>6. Strayed(t)'
  BY <1>1, <1>2, <1>3, <1>4 DEF Strayed, Listed, Queued
<1>7. Ended(t)'
  BY <1>1, <1>2, <1>3, <1>4 DEF Ended, Past, Written
<1> QED
  BY <1>5, <1>6, <1>7

LEMMA ExpireListFits ==
    ASSUME IInv, ExpireList
    PROVE  Fits'
<1>1. job.gen = 0 /\ Queued' \subseteq Queued /\ claimed' \subseteq claimed
  BY DEF ExpireList, Queued, ToSet
<1>2. UNCHANGED <<job, epoch, parked, taken, receipt, accepted, parts, rows, removed,
                  stray, recovers>>
  BY DEF ExpireList, jobVars, receipts, ending, history
<1> SUFFICES ASSUME NEW t \in Steers PROVE (Listed(t) /\ Strayed(t) /\ Ended(t))'
  BY DEF Fits
<1>3. Listed(t) /\ Strayed(t) /\ Ended(t)
  BY DEF IInv, Fits
<1>4. t \notin stray => /\ t \notin Queued /\ t \notin claimed
                        /\ receipt[t] \notin {"queued", "claimed"}
  BY <1>1, Dead DEF IInv
<1>5. Listed(t)'
  BY <1>1, <1>2, <1>3, <1>4 DEF Listed, Accepted
<1>6. Strayed(t)'
  BY <1>1, <1>2, <1>3 DEF Strayed
<1>7. Ended(t)'
  BY <1>2, <1>3 DEF Ended, Past, Written
<1> QED
  BY <1>5, <1>6, <1>7

(***************************************************************************)
(* Types.                                                                  *)
(***************************************************************************)

LEMMA MarkType ==
    ASSUME TypeReceipts, NEW S, NEW state \in Receipts, Mark(S, state), UNCHANGED taken
    PROVE  TypeReceipts'
BY DEF TypeReceipts, Mark

LEMMA FaultType ==
    ASSUME TypeFaults, Fault \/ UNCHANGED faults
    PROVE  TypeFaults'
BY SteeringAssumption DEF TypeFaults, Fault

LEMMA WriteType ==
    ASSUME Types, NEW s \in Steers, WritePart(s),
           UNCHANGED <<queue, parked, lease, taken, accepted, rows, removed, stray>>
    PROVE  TypeLists' /\ TypeReceipts' /\ TypeHistory'
<1>1. TypeReceipts'
  BY MarkType DEF Types, WritePart, Receipts, Final
<1>2. TypeLists'
  BY DEF Types, TypeLists, WritePart
<1>3. TypeHistory'
  BY Appended DEF Types, TypeHistory, WritePart
<1> QED
  BY <1>1, <1>2, <1>3

LEMMA ParkType ==
    ASSUME Types, ParkAll
    PROVE  TypeLists' /\ TypeReceipts'
<1>1. TypeReceipts'
  BY MarkType DEF Types, ParkAll, Receipts
<1>2. TypeLists'
  BY MemberTypes DEF Types, TypeLists, ParkAll
<1> QED
  BY <1>1, <1>2

LEMMA UserTypes ==
    ASSUME Types, NEW s \in Steers, Distinct(queue),
           \/ ReadReceipt(s) \/ Cancel(s) \/ Discard(s) \/ \E g \in Gens : Enqueue(s, g)
    PROVE  Types'
<1>1. CASE ReadReceipt(s)
  <2>1. TypeReceipts'
    BY <1>1, MarkType DEF Types, ReadReceipt, Receipts
  <2>2. UNCHANGED <<jobVars, lists, progress, ending, history, faults>>
    BY <1>1 DEF ReadReceipt
  <2> QED
    BY <2>1, <2>2 DEF Types, TypeJob, TypeLists, TypeProgress, TypeEnding, TypeHistory,
       TypeFaults, jobVars, lists, progress, ending, history
<1>2. CASE Cancel(s)
  <2>1. TypeReceipts'
    BY <1>2, MarkType DEF Types, Cancel, Receipts, Final
  <2>2. TypeLists'
    BY <1>2, Without DEF Types, TypeLists, Cancel
  <2>3. TypeHistory'
    BY <1>2 DEF Types, TypeHistory, Cancel
  <2>4. UNCHANGED <<jobVars, progress, ending, faults>>
    BY <1>2 DEF Cancel
  <2> QED
    BY <2>1, <2>2, <2>3, <2>4 DEF Types, TypeJob, TypeProgress, TypeEnding,
       TypeFaults, jobVars, progress, ending
<1>3. CASE Discard(s)
  <2>1. TypeReceipts'
    BY <1>3, MarkType DEF Types, Discard, Receipts, Final
  <2>2. TypeLists'
    BY <1>3, SteeringAssumption DEF Types, TypeLists, Discard
  <2>3. TypeHistory'
    BY <1>3 DEF Types, TypeHistory, Discard
  <2>4. UNCHANGED <<jobVars, progress, ending, faults>>
    BY <1>3 DEF Discard
  <2> QED
    BY <2>1, <2>2, <2>3, <2>4 DEF Types, TypeJob, TypeProgress, TypeEnding,
       TypeFaults, jobVars, progress, ending
<1>4. CASE \E g \in Gens : Enqueue(s, g)
  <2>1. PICK g \in Gens : Enqueue(s, g)
    BY <1>4
  <2>2. TypeReceipts'
    BY <2>1, SteeringAssumption DEF Types, TypeReceipts, Enqueue, Receipts, Gens
  <2>3. TypeLists'
    BY <2>1, Appended DEF Types, TypeLists, Enqueue
  <2>4. TypeHistory'
    BY <2>1, Appended DEF Types, TypeHistory, Enqueue
  <2>5. UNCHANGED <<jobVars, progress, ending, faults>>
    BY <2>1 DEF Enqueue
  <2> QED
    BY <2>2, <2>3, <2>4, <2>5 DEF Types, TypeJob, TypeProgress, TypeEnding,
       TypeFaults, jobVars, progress, ending
<1> QED
  BY <1>1, <1>2, <1>3, <1>4

LEMMA CreateTypes ==
    ASSUME Types, NEW s \in Steers \cup {NoSteer}, Create(s)
    PROVE  Types'
<1>1. epoch \in Nat /\ epoch + 1 \in Gens /\ epoch + 1 \in 0..MaxGens /\ MaxGens \in Nat
  BY SteeringAssumption DEF Create, Types, TypeJob, Gens
<1>2. TypeJob'
  <2>1. /\ job' = [gen |-> epoch + 1, status |-> "running", pending |-> FALSE]
        /\ epoch' = epoch + 1
    BY DEF Create
  <2> QED
    BY <1>1, <2>1 DEF TypeJob, Active
<1>3. TypeLists'
  <2>1. /\ queue' = <<>> /\ claimed' = {}
        /\ parked' \subseteq parked \cup claimed \cup Queued
        /\ lease' = [t \in Steers |-> IF t = s THEN epoch + 1 ELSE 0]
    BY DEF Create
  <2>2. parked' \subseteq Steers
    BY <2>1, MemberTypes DEF Types, TypeLists
  <2>3. lease' \in [Steers -> 0..MaxGens]
    BY <1>1, <2>1
  <2> QED
    BY <2>1, <2>2, <2>3 DEF TypeLists
<1>4. TypeReceipts'
  <2>1. (\E S : Mark(S, "leftover")) /\ UNCHANGED taken
    BY DEF Create
  <2> QED
    BY <2>1, MarkType DEF Types, Receipts
<1>5. TypeProgress' /\ TypeEnding'
  <2>1. TypeProgress'
    BY <1>1 DEF Types, TypeProgress, Create, Stages
  <2>2. TypeEnding'
    BY <1>1 DEF Types, TypeEnding, Create
  <2> QED
    BY <2>1, <2>2
<1>6. UNCHANGED <<history, faults>>
  BY DEF Create
<1> QED
  BY <1>2, <1>3, <1>4, <1>5, <1>6 DEF Types, TypeHistory, TypeFaults, history

LEMMA DrainTypes ==
    ASSUME Types, NEW g \in Gens, Drain(g)
    PROVE  Types'
<1>1. TypeReceipts'
  BY MarkType DEF Types, Drain, Receipts
<1>2. TypeLists'
  BY MemberTypes DEF Types, TypeLists, Drain
<1>3. TypeProgress'
  <2>1. queue \in Seq(Steers)
    BY DEF Types, TypeLists
  <2> QED
    BY <2>1 DEF Types, TypeProgress, Drain, Stages
<1>4. TypeFaults'
  BY FaultType DEF Types, Drain
<1>5. UNCHANGED <<jobVars, ending, history>>
  BY DEF Drain
<1> QED
  BY <1>1, <1>2, <1>3, <1>4, <1>5 DEF Types, TypeJob, TypeEnding, TypeHistory, jobVars,
     ending, history

LEMMA ApplyTypes ==
    ASSUME IInv, NEW g \in Gens, Apply(g)
    PROVE  Types'
<1> DEFINE s == Head(batch[g])
<1>1. /\ s \in Steers /\ Tail(batch[g]) \in Seq(Steers)
      /\ Append(done[g], s) \in Seq(Steers)
  <2>1. s \in Steers /\ Tail(batch[g]) \in Seq(Steers)
    BY HeadOfBatch DEF IInv, Runs, Apply
  <2>2. done[g] \in Seq(Steers)
    BY DEF IInv, Types, TypeProgress
  <2> QED
    BY <2>1, <2>2, Appended
<1>2. WritePart(s)
  BY DEF Apply
<1> HIDE DEF s
<1>3. TypeLists' /\ TypeReceipts' /\ TypeHistory'
  BY <1>1, <1>2, WriteType DEF Apply, IInv
<1>4. TypeProgress'
  <2>1. /\ pc' = [pc EXCEPT ![g] = IF Len(batch[g]) = 1 THEN "inject" ELSE "apply"]
        /\ batch' = [batch EXCEPT ![g] = Tail(batch[g])]
        /\ done' = [done EXCEPT ![g] = Append(done[g], s)]
        /\ UNCHANGED context
    BY DEF Apply, s
  <2> QED
    BY <1>1, <2>1 DEF IInv, Types, TypeProgress, Stages
<1>5. UNCHANGED <<jobVars, ending, faults>>
  BY DEF Apply
<1> QED
  BY <1>3, <1>4, <1>5 DEF IInv, Types, TypeJob, TypeEnding, TypeFaults, jobVars, ending

LEMMA ApplyFailsTypes ==
    ASSUME IInv, NEW g \in Gens, ApplyFails(g)
    PROVE  Types'
<1>1. TypeLists' /\ TypeReceipts' /\ TypeHistory'
  <2>1. UNCHANGED <<queue, parked, lease, taken, accepted, rows, removed, stray>>
    BY DEF ApplyFails
  <2>2. CASE UNCHANGED <<claimed, receipt, parts>>
    BY <2>1, <2>2 DEF IInv, Types, TypeLists, TypeReceipts, TypeHistory
  <2>3. CASE WritePart(Head(batch[g]))
    <3>1. Head(batch[g]) \in Steers
      BY HeadOfBatch DEF IInv, Runs, ApplyFails
    <3> QED
      BY <2>1, <2>3, <3>1, WriteType DEF IInv
  <2> QED
    BY <2>2, <2>3 DEF ApplyFails
<1>2. TypeProgress'
  BY DEF IInv, Types, TypeProgress, Stages, ApplyFails
<1>3. TypeFaults'
  BY FaultType DEF IInv, Types, ApplyFails
<1>4. UNCHANGED <<jobVars, ending>>
  BY DEF ApplyFails
<1> QED
  BY <1>1, <1>2, <1>3, <1>4 DEF IInv, Types, TypeJob, TypeEnding, jobVars, ending

LEMMA RestoreTypes ==
    ASSUME Types, NEW g \in Gens, Restore(g)
    PROVE  Types'
<1>1. TypeReceipts'
  <2>1. UNCHANGED receipt \/ Mark(ToSet(batch[g]), "queued")
    BY DEF Restore
  <2> QED
    BY <2>1, MarkType DEF Types, TypeReceipts, Restore, Receipts
<1>2. TypeLists'
  <2>1. batch[g] \o queue \in Seq(Steers)
    BY Joined DEF Types, TypeLists, TypeProgress
  <2> QED
    BY <2>1 DEF Types, TypeLists, Restore
<1>3. TypeProgress'
  BY DEF Types, TypeProgress, Stages, Restore
<1>4. TypeFaults'
  BY FaultType DEF Types, Restore
<1>5. UNCHANGED <<jobVars, ending, history>>
  BY DEF Restore
<1> QED
  BY <1>1, <1>2, <1>3, <1>4, <1>5 DEF Types, TypeJob, TypeEnding, TypeHistory, jobVars,
     ending, history

LEMMA RunTypes ==
    ASSUME Types, NEW g \in Gens, Inject(g) \/ Pause(g) \/ Resume(g) \/ Crash(g) \/ Publish(g)
    PROVE  Types'
<1>1. TypeJob'
  <2>1. UNCHANGED epoch
    BY DEF Inject, Pause, Resume, Crash, Publish, jobVars
  <2>2. \/ UNCHANGED job
        \/ job.status \in Active /\ \E x \in Active : job' = [job EXCEPT !.status = x]
        \/ job' = [job EXCEPT !.pending = FALSE]
    BY DEF Inject, Pause, Resume, Crash, Publish, jobVars, Active
  <2>3. CASE UNCHANGED job
    BY <2>1, <2>3 DEF Types, TypeJob
  <2>4. CASE job.status \in Active /\ \E x \in Active : job' = [job EXCEPT !.status = x]
    BY <2>1, <2>4 DEF Types, TypeJob, Active
  <2>5. CASE job' = [job EXCEPT !.pending = FALSE]
    BY <2>1, <2>5 DEF Types, TypeJob
  <2> QED
    BY <2>2, <2>3, <2>4, <2>5
<1>2. TypeProgress'
  <2>1. CASE Inject(g)
    <3>1. context[g] \cup ToSet(done[g]) \subseteq Steers
      BY Members DEF Types, TypeProgress
    <3> QED
      BY <2>1, <3>1 DEF Types, TypeProgress, Inject, Stages
  <2>2. CASE Pause(g)
    BY <2>2 DEF Types, TypeProgress, Pause, progress
  <2>3. CASE Resume(g)
    BY <2>3 DEF Types, TypeProgress, Resume, Stages
  <2>4. CASE Crash(g)
    BY <2>4 DEF Types, TypeProgress, Crash, Stages
  <2>5. CASE Publish(g)
    BY <2>5 DEF Types, TypeProgress, Publish, Stages
  <2> QED
    BY <2>1, <2>2, <2>3, <2>4, <2>5
<1>3. TypeEnding'
  BY DEF Types, TypeEnding, Inject, Pause, Resume, Crash, Publish, ending
<1>4. UNCHANGED <<lists, receipts, history, faults>>
  BY DEF Inject, Pause, Resume, Crash, Publish
<1> QED
  BY <1>1, <1>2, <1>3, <1>4 DEF Types, TypeLists, TypeReceipts, TypeHistory, TypeFaults,
     lists, receipts, history

LEMMA CommitTypes ==
    ASSUME Types, NEW g \in Gens, SaveRow(g) \/ Commit(g) \/ CommitFails(g)
    PROVE  Types'
<1>1. TypeLists' /\ TypeReceipts'
  <2>1. CASE SaveRow(g) \/ CommitFails(g)
    BY <2>1 DEF Types, TypeLists, TypeReceipts, SaveRow, CommitFails, lists, receipts
  <2>2. CASE Commit(g)
    <3>1. TypeReceipts'
      BY <2>2, MarkType DEF Types, Commit, Receipts, Final
    <3>2. /\ UNCHANGED <<queue, claimed>> /\ parked' \subseteq parked
          /\ \E s : lease' = [lease EXCEPT ![s] = 0]
      BY <2>2 DEF Commit
    <3>3. lease' \in [Steers -> 0..MaxGens]
      <4>1. lease \in [Steers -> 0..MaxGens] /\ 0 \in 0..MaxGens
        BY SteeringAssumption DEF Types, TypeLists
      <4>2. PICK s : lease' = [lease EXCEPT ![s] = 0]
        BY <3>2
      <4> QED
        BY <4>1, <4>2
    <3>4. TypeLists'
      BY <3>2, <3>3 DEF Types, TypeLists
    <3> QED
      BY <3>1, <3>4
  <2> QED
    BY <2>1, <2>2
<1>2. TypeEnding'
  BY DEF Types, TypeEnding, SaveRow, Commit, CommitFails, ending
<1>3. TypeHistory'
  BY DEF Types, TypeHistory, TypeEnding, SaveRow, Commit, CommitFails, history
<1>4. UNCHANGED <<jobVars, progress, faults>>
  BY DEF SaveRow, Commit, CommitFails
<1> QED
  BY <1>1, <1>2, <1>3, <1>4 DEF Types, TypeJob, TypeProgress, TypeFaults, jobVars, progress

LEMMA EndTypes ==
    ASSUME Types, NEW g \in Gens,
           Delete(g) \/ Reap(g) \/ Expire(g) \/ \E status \in Terminal : End(g, status)
    PROVE  Types'
<1>1. TypeJob'
  <2>1. UNCHANGED epoch
    BY DEF Delete, Reap, Expire, End
  <2>2. CASE job' = NoJob
    BY <2>1, <2>2, SteeringAssumption DEF Types, TypeJob, NoJob
  <2>3. CASE \E status \in Terminal : End(g, status)
    <3>1. PICK status \in Terminal :
             job' = [job EXCEPT !.status = status, !.pending = status # "error"]
      BY <2>3 DEF End
    <3>2. job.gen = g
      BY <2>3 DEF End
    <3>3. g # 0
      BY DEF Gens
    <3> QED
      BY <2>1, <3>1, <3>2, <3>3 DEF Types, TypeJob, Terminal
  <2> QED
    BY <2>2, <2>3 DEF Delete, Reap, Expire
<1>2. TypeLists' /\ TypeReceipts'
  <2>1. CASE ParkAll
    BY <2>1, ParkType
  <2>2. CASE Delete(g)
    <3>1. queue' = <<>> /\ claimed' = {} /\ UNCHANGED <<parked, lease, receipts>>
      BY <2>2 DEF Delete
    <3> QED
      BY <3>1 DEF Types, TypeLists, TypeReceipts, receipts
  <2>3. CASE Expire(g)
    <3>1. UNCHANGED <<lists, receipts>>
      BY <2>3 DEF Expire
    <3> QED
      BY <3>1 DEF Types, TypeLists, TypeReceipts, lists, receipts
  <2> QED
    BY <2>1, <2>2, <2>3 DEF Reap, End
<1>3. TypeEnding'
  <2>1. UNCHANGED <<recovers, committed>>
    BY DEF Delete, Reap, Expire, End, ending
  <2>2. UNCHANGED claim \/ \E status \in Terminal : claim' = [claim EXCEPT ![g] = status]
    <3>1. "complete" \in Terminal
      BY DEF Terminal
    <3> QED
      BY <3>1 DEF Delete, Reap, Expire, End, ending
  <2> QED
    BY <2>1, <2>2 DEF Types, TypeEnding
<1>4. TypeHistory'
  BY MemberTypes DEF Types, TypeHistory, TypeLists, Delete, Reap, Expire, End, history
<1>5. UNCHANGED <<progress, faults>>
  BY DEF Delete, Reap, Expire, End
<1> QED
  BY <1>1, <1>2, <1>3, <1>4, <1>5 DEF Types, TypeProgress, TypeFaults, progress

LEMMA ExpireListTypes == ASSUME Types, ExpireList PROVE Types'
<1>1. TypeLists'
  <2>1. /\ queue' \in {<<>>, queue} /\ claimed' \in {{}, claimed}
        /\ UNCHANGED <<parked, lease>>
    BY DEF ExpireList
  <2>2. <<>> \in Seq(Steers)
    OBVIOUS
  <2>3. queue' \in Seq(Steers) /\ claimed' \subseteq Steers
    BY <2>1, <2>2 DEF Types, TypeLists
  <2> QED
    BY <2>1, <2>3 DEF Types, TypeLists
<1>2. UNCHANGED <<jobVars, receipts, progress, ending, history, faults>>
  BY DEF ExpireList
<1> QED
  BY <1>1, <1>2 DEF Types, TypeJob, TypeReceipts, TypeProgress, TypeEnding, TypeHistory,
     TypeFaults, jobVars, receipts, progress, ending, history

(***************************************************************************)
(* Runs, and what is written or accepted once.                             *)
(***************************************************************************)

LEMMA DistinctAppend ==
    ASSUME NEW S, NEW l \in Seq(S), NEW x \in S, Distinct(l), x \notin ToSet(l)
    PROVE  Distinct(Append(l, x))
<1> SUFFICES ASSUME NEW i \in DOMAIN Append(l, x), NEW j \in DOMAIN Append(l, x),
                    Append(l, x)[i] = Append(l, x)[j]
             PROVE  i = j
  BY DEF Distinct
<1>1. \A k \in DOMAIN l : l[k] # x
  BY Members
<1> QED
  BY <1>1, Appended DEF Distinct

LEMMA ListsGrow ==
    ASSUME IInv, [Next]_vars
    PROVE  /\ Distinct(accepted)' /\ Accepted \subseteq Accepted'
           /\ \A s \in Accepted : taken'[s] = taken[s]
<1>1. CASE UNCHANGED <<accepted, taken>>
  BY <1>1 DEF IInv, Distinct, Accepted
<1>2. CASE \E s \in Steers, g \in Gens : Enqueue(s, g)
  <2>1. PICK s \in Steers, g \in Gens : Enqueue(s, g)
    BY <1>2
  <2>2. s \notin Accepted
    BY <2>1 DEF Enqueue, IInv, Fits, Listed
  <2>3. accepted' = Append(accepted, s) /\ taken' = [taken EXCEPT ![s] = g]
    BY <2>1 DEF Enqueue
  <2>4. Distinct(accepted)' /\ Accepted \subseteq Accepted'
    BY <2>2, <2>3, DistinctAppend, Appended DEF IInv, Types, TypeHistory, Accepted, Distinct
  <2> QED
    BY <2>2, <2>3, <2>4 DEF IInv, Types, TypeReceipts
<1>3. UNCHANGED <<accepted, taken>> \/ \E s \in Steers, g \in Gens : Enqueue(s, g)
  BY DEF Next, ReadReceipt, Cancel, Discard, Create, Drain, Apply, ApplyFails, Restore,
     Inject, Pause, Resume, SaveRow, Commit, CommitFails, Publish, Crash, Delete, Reap,
     Expire, End, ExpireList, ParkAll, vars, receipts, history
<1> QED
  BY <1>1, <1>2, <1>3

\* One part is written, or none.
LEMMA PartsGrow ==
    ASSUME IInv, [Next]_vars
    PROVE  \/ UNCHANGED parts
           \/ \E g \in Gens : /\ CanApply(g) /\ pc[g] = "apply" /\ batch[g] # <<>>
                              /\ (Apply(g) \/ ApplyFails(g)) /\ WritePart(Head(batch[g]))
BY DEF Next, ReadReceipt, Cancel, Discard, Enqueue, Create, Drain, Apply, ApplyFails,
     Restore, Inject, Pause, Resume, SaveRow, Commit, CommitFails, Publish, Crash, Delete,
     Reap, Expire, End, ExpireList, vars, history, IInv, Runs

LEMMA PartsStep ==
    ASSUME IInv, [Next]_vars
    PROVE  Distinct(parts)' /\ Written \subseteq Written'
<1>1. CASE UNCHANGED parts
  BY <1>1 DEF IInv, Distinct, Written
<1>2. ASSUME NEW g \in Gens, CanApply(g), batch[g] # <<>>, WritePart(Head(batch[g]))
      PROVE  Distinct(parts)' /\ Written \subseteq Written'
  <2>1. Head(batch[g]) \in Steers
    BY <1>2, HeadOfBatch
  <2>2. Head(batch[g]) \notin Written /\ parts' = Append(parts, Head(batch[g]))
    BY <1>2, <2>1, ClaimedFacts DEF CanApply, WritePart
  <2> QED
    BY <2>1, <2>2, DistinctAppend, Appended DEF IInv, Types, TypeHistory, Written, Distinct
<1> QED
  BY <1>1, <1>2, PartsGrow

RunOf(g) ==
    /\ ToSet(done[g]) \cup context[g] \subseteq Written
    /\ pc[g] \in {"idle", "inject"} => batch[g] = <<>>
    /\ pc[g] = "apply" => batch[g] # <<>>
    /\ \A s \in ToSet(batch[g]) : s \in Accepted /\ taken[s] = g

LEMMA RunOfOther ==
    ASSUME IInv, [Next]_vars, NEW g \in Gens,
           pc'[g] = pc[g], batch'[g] = batch[g], done'[g] = done[g], context'[g] = context[g]
    PROVE  RunOf(g)'
BY PartsStep, ListsGrow DEF IInv, Runs, RunOf

LEMMA RunStops ==
    ASSUME IInv, [Next]_vars, NEW g \in Gens,
           batch'[g] = <<>>, pc'[g] # "apply", context'[g] = context[g],
           done'[g] \in {<<>>, done[g]}
    PROVE  RunOf(g)'
<1>1. ToSet(<<>>) = {}
  BY DEF ToSet
<1> QED
  BY <1>1, PartsStep DEF IInv, Runs, RunOf

\* A step of a run leaves the other runs alone.
Own(g) == \A h \in Gens \ {g} : /\ pc'[h] = pc[h] /\ batch'[h] = batch[h]
                                /\ done'[h] = done[h] /\ context'[h] = context[h]

LEMMA OwnRun ==
    ASSUME IInv, [Next]_vars, NEW g \in Gens, Own(g), RunOf(g)'
    PROVE  Runs'
BY RunOfOther DEF Own, Runs, RunOf

LEMMA OwnSteps ==
    ASSUME Types, NEW g \in Gens,
           \/ Drain(g) \/ Apply(g) \/ ApplyFails(g) \/ Restore(g) \/ Inject(g)
           \/ Resume(g) \/ Publish(g) \/ Crash(g)
    PROVE  Own(g)
<1>1. /\ pc' = [pc EXCEPT ![g] = pc'[g]] /\ batch' = [batch EXCEPT ![g] = batch'[g]]
      /\ done' = [done EXCEPT ![g] = done'[g]]
      /\ context' = [context EXCEPT ![g] = context'[g]]
  BY DEF Types, TypeProgress, Drain, Apply, ApplyFails, Restore, Inject, Resume, Publish,
         Crash
<1> QED
  BY <1>1 DEF Types, TypeProgress, Own

LEMMA DrainRuns ==
    ASSUME IInv, [Next]_vars, NEW g \in Gens, Drain(g)
    PROVE  Runs'
<1>1. CASE UNCHANGED <<pc, batch>>
  BY <1>1, RunOfOther DEF Drain, Runs, RunOf
<1>2. CASE pc' = [pc EXCEPT ![g] = "apply"] /\ batch' = [batch EXCEPT ![g] = queue]
  <2>1. /\ pc'[g] = "apply" /\ batch'[g] = queue /\ queue # <<>>
        /\ UNCHANGED <<done, context>>
    BY <1>2 DEF IInv, Types, TypeProgress, Drain
  <2>2. \A s \in Queued : s \in Accepted /\ taken[s] = g
    BY MemberTypes DEF Drain, IInv, Fits, Listed
  <2>3. RunOf(g)'
    BY <2>1, <2>2, PartsStep, ListsGrow DEF RunOf, IInv, Runs, Queued
  <2> QED
    BY <2>3, OwnRun, OwnSteps DEF IInv
<1> QED
  BY <1>1, <1>2 DEF Drain

LEMMA ApplyRuns ==
    ASSUME IInv, [Next]_vars, NEW g \in Gens, Apply(g)
    PROVE  Runs'
<1> DEFINE s == Head(batch[g])
<1>1. batch[g] # <<>> /\ batch[g] \in Seq(Steers) /\ done[g] \in Seq(Steers) /\ s \in Steers
  BY HeadOfBatch DEF IInv, Runs, Apply, Types, TypeProgress
<1>2. /\ pc'[g] = IF Len(batch[g]) = 1 THEN "inject" ELSE "apply"
      /\ batch'[g] = Tail(batch[g]) /\ done'[g] = Append(done[g], s)
      /\ UNCHANGED context
  BY DEF Apply, IInv, Types, TypeProgress
<1>3. Written' = Written \cup {s}
  BY ApplyFits
<1> HIDE DEF s
<1>4. ToSet(done'[g]) = ToSet(done[g]) \cup {s}
  BY <1>1, <1>2, Appended
<1>5. ToSet(batch'[g]) \subseteq ToSet(batch[g]) /\ (Len(batch[g]) = 1 <=> batch'[g] = <<>>)
  BY <1>1, <1>2, Split
<1>6. ToSet(done[g]) \cup context[g] \subseteq Written
  BY DEF IInv, Runs
<1>7. (ToSet(done[g]) \cup context[g] \subseteq Written)'
  BY <1>2, <1>3, <1>4, <1>6
<1>8. \A t \in ToSet(batch'[g]) : t \in Accepted' /\ taken'[t] = g
  BY <1>5, ListsGrow DEF IInv, Runs
<1>9. RunOf(g)'
  BY <1>2, <1>5, <1>7, <1>8 DEF RunOf
<1> QED
  BY <1>9, OwnRun, OwnSteps DEF IInv

LEMMA InjectRuns ==
    ASSUME IInv, [Next]_vars, NEW g \in Gens, Inject(g)
    PROVE  Runs'
<1>1. /\ pc'[g] = "idle" /\ batch'[g] = batch[g] /\ batch[g] = <<>> /\ done'[g] = <<>>
      /\ context'[g] = context[g] \cup ToSet(done[g])
  BY DEF Inject, IInv, Types, TypeProgress, Runs
<1>2. ToSet(<<>>) = {}
  BY DEF ToSet
<1>3. RunOf(g)'
  BY <1>1, <1>2, PartsStep DEF IInv, Runs, RunOf
<1> QED
  BY <1>3, OwnRun, OwnSteps DEF IInv

LEMMA StopRuns ==
    ASSUME IInv, [Next]_vars, NEW g \in Gens,
           ApplyFails(g) \/ Restore(g) \/ Resume(g) \/ Publish(g) \/ Crash(g)
    PROVE  Runs'
<1>1. CASE ApplyFails(g) \/ Publish(g)
  <2>1. /\ pc'[g] \in {"restore", "gone"}
        /\ UNCHANGED <<batch, done, context>>
    BY <1>1 DEF ApplyFails, Publish, IInv, Types, TypeProgress
  <2>2. RunOf(g)'
    BY <2>1, PartsStep, ListsGrow DEF IInv, Runs, RunOf
  <2> QED
    BY <1>1, <2>2, OwnRun, OwnSteps DEF IInv
<1>2. CASE Restore(g) \/ Resume(g) \/ Crash(g)
  <2>1. /\ pc'[g] # "apply" /\ batch'[g] = <<>> /\ done'[g] \in {<<>>, done[g]}
        /\ UNCHANGED context
    BY <1>2 DEF Restore, Resume, Crash, IInv, Types, TypeProgress
  <2>2. RunOf(g)'
    BY <2>1, RunStops
  <2> QED
    BY <1>2, <2>2, OwnRun, OwnSteps DEF IInv
<1> QED
  BY <1>1, <1>2

LEMMA CreateRuns ==
    ASSUME IInv, [Next]_vars, NEW s \in Steers \cup {NoSteer}, Create(s)
    PROVE  Runs'
<1>1. /\ epoch \in Nat /\ epoch + 1 \in Gens /\ UNCHANGED <<batch, done, context>>
      /\ pc' = [pc EXCEPT ![epoch + 1] = "idle"]
  BY SteeringAssumption DEF Create, IInv, Types, TypeJob, Gens
<1>2. batch[epoch + 1] \in Seq(Steers)
  BY <1>1 DEF IInv, Types, TypeProgress
<1>3. \A t \in ToSet(batch[epoch + 1]) : FALSE
  <2> SUFFICES ASSUME NEW t \in ToSet(batch[epoch + 1]) PROVE FALSE
    OBVIOUS
  <2>1. t \in Accepted /\ taken[t] = epoch + 1
    BY <1>1 DEF IInv, Runs
  <2>2. t \in Steers
    BY <2>1, MemberTypes DEF IInv
  <2>3. taken[t] <= epoch
    BY <2>1, <2>2 DEF IInv, Fits, Listed
  <2> QED
    BY <1>1, <2>1, <2>3
<1>4. PICK n \in Gens : n = epoch + 1
  BY <1>1
<1>5. batch[n] = <<>> /\ pc'[n] = "idle" /\ UNCHANGED <<batch, done, context>>
  BY <1>1, <1>2, <1>3, <1>4, Split DEF IInv, Types, TypeProgress
<1>6. RunOf(n)'
  BY <1>5, RunStops
<1>7. Own(n)
  BY <1>1, <1>4 DEF Own, IInv, Types, TypeProgress
<1> QED
  BY <1>6, <1>7, OwnRun

LEMMA NextRuns == IInv /\ [Next]_vars => Runs'
<1> SUFFICES ASSUME IInv, [Next]_vars PROVE Runs'
  OBVIOUS
<1>1. CASE UNCHANGED progress
  BY <1>1, RunOfOther DEF Runs, RunOf, progress
<1>2. ASSUME NEW g \in Gens,
             \/ Drain(g) \/ Apply(g) \/ ApplyFails(g) \/ Restore(g) \/ Inject(g)
             \/ Resume(g) \/ Publish(g) \/ Crash(g)
      PROVE  Runs'
  BY <1>2, DrainRuns, ApplyRuns, InjectRuns, StopRuns
<1>3. CASE \E s \in Steers \cup {NoSteer} : Create(s)
  BY <1>3, CreateRuns
<1>4. \/ UNCHANGED progress
      \/ \E s \in Steers \cup {NoSteer} : Create(s)
      \/ \E g \in Gens : \/ Drain(g) \/ Apply(g) \/ ApplyFails(g) \/ Restore(g) \/ Inject(g)
                         \/ Resume(g) \/ Publish(g) \/ Crash(g)
  BY DEF Next, ReadReceipt, Cancel, Discard, Enqueue, Pause, SaveRow, Commit, CommitFails,
     Delete, Reap, Expire, End, ExpireList, vars, progress
<1> QED
  BY <1>1, <1>2, <1>3, <1>4

(***************************************************************************)
(* The order of instructions.                                              *)
(***************************************************************************)

LEMMA EarlierOnce ==
    ASSUME TypeHistory, Distinct(accepted), NEW s, NEW t, Earlier(s, t)
    PROVE  ~Earlier(t, s) /\ s # t
<1>1. \A i \in DOMAIN accepted : i \in Nat
  BY DEF TypeHistory
<1> QED
  BY <1>1 DEF Earlier, Before, Distinct

LEMMA EarlierKept ==
    ASSUME TypeHistory, NEW s, NEW t, Earlier(s, t),
           UNCHANGED accepted \/ \E x \in Steers : accepted' = Append(accepted, x)
    PROVE  Earlier(s, t)'
<1>1. CASE UNCHANGED accepted
  BY <1>1 DEF Earlier, Before
<1>2. CASE \E x \in Steers : accepted' = Append(accepted, x)
  BY <1>2, Appended DEF Earlier, Before, TypeHistory
<1> QED
  BY <1>1, <1>2

LEMMA EarlierThanNew ==
    ASSUME TypeHistory, NEW x \in Steers, accepted' = Append(accepted, x), NEW s \in Accepted
    PROVE  Earlier(s, x)'
<1>1. PICK i \in DOMAIN accepted : accepted[i] = s
  BY Members DEF TypeHistory, Accepted
<1>2. /\ i \in DOMAIN accepted' /\ accepted'[i] = s
      /\ Len(accepted) + 1 \in DOMAIN accepted' /\ i < Len(accepted) + 1
      /\ accepted'[Len(accepted) + 1] = x
  BY <1>1, Appended DEF TypeHistory
<1> QED
  BY <1>2 DEF Earlier, Before

LEMMA Emptied == ToSet(<<>>) = {} /\ Ascending(<<>>)
BY DEF ToSet, Ascending

LEMMA DistinctQueue ==
    ASSUME IInv, OrderOfQueue
    PROVE  Distinct(queue)
<1> SUFFICES ASSUME NEW i \in DOMAIN queue, NEW j \in DOMAIN queue, queue[i] = queue[j],
                    i # j
             PROVE  FALSE
  BY DEF Distinct
<1>1. i < j \/ j < i
  BY DEF IInv, Types, TypeLists
<1>2. Earlier(queue[i], queue[j]) \/ Earlier(queue[j], queue[i])
  BY <1>1 DEF OrderOfQueue, Ascending
<1> QED
  BY <1>2, EarlierOnce DEF IInv, Types

\* Lists only shrink, and what is claimed is of the same generation or nothing.
LEMMA OrdersKept ==
    ASSUME IInv, Orders, UNCHANGED <<accepted, taken, parts>>,
           queue' \in {queue, <<>>}, claimed' \subseteq claimed,
           \A g \in Gens : batch'[g] \in {batch[g], <<>>},
           job'.gen \in {job.gen, 0} \/ claimed' = {}
    PROVE  Orders'
<1>1. \A s, t : Earlier(s, t) <=> Earlier(s, t)'
  BY DEF Earlier, Before
<1>2. Queued' \subseteq Queued /\ \A g \in Gens : ToSet(batch'[g]) \subseteq ToSet(batch[g])
  BY Emptied DEF Queued
<1>3. Ascending(queue)' /\ \A g \in Gens : Ascending(batch[g])'
  BY <1>1 DEF Orders, OrderOfQueue, OrderOfBatch, Ascending
<1>4. OrderOfQueue'
  BY <1>1, <1>2, <1>3 DEF Orders, OrderOfQueue
<1>5. OrderOfBatch'
  <2> SUFFICES ASSUME NEW g \in Gens, job'.gen = g,
                      NEW c \in claimed' \ ToSet(batch'[g]), NEW s \in ToSet(batch'[g])
               PROVE  Earlier(c, s)'
    BY <1>3 DEF OrderOfBatch
  <2>1. job.gen = g
    BY DEF Gens
  <2>2. batch'[g] = batch[g]
    BY Emptied
  <2> QED
    BY <1>1, <2>1, <2>2 DEF Orders, OrderOfBatch
<1>6. OrderOfParts'
  BY <1>1, <1>2 DEF Orders, OrderOfParts, Written
<1> QED
  BY <1>4, <1>5, <1>6 DEF Orders

LEMMA ListsAccepted ==
    ASSUME IInv
    PROVE  /\ Queued \subseteq Accepted /\ claimed \subseteq Accepted
           /\ Written \subseteq Accepted
BY MemberTypes DEF IInv, Fits, Listed, Ended, Types, TypeLists

LEMMA EnqueueOrders ==
    ASSUME IInv, Orders, NEW s \in Steers, NEW g \in Gens, Enqueue(s, g)
    PROVE  Orders'
<1>1. /\ queue' = Append(queue, s) /\ accepted' = Append(accepted, s)
      /\ taken' = [taken EXCEPT ![s] = g]
      /\ UNCHANGED <<job, claimed, batch, parts>>
  BY DEF Enqueue, jobVars, progress
<1>2. s \notin Accepted
  BY DEF Enqueue, IInv, Fits, Listed
<1>3. \A t \in Accepted : taken'[t] = taken[t] /\ Earlier(t, s)'
  BY <1>1, <1>2, EarlierThanNew DEF IInv, Types, TypeReceipts
<1>4. \A t, u : Earlier(t, u) => Earlier(t, u)'
  BY <1>1, EarlierKept DEF IInv, Types
<1>5. Queued' = Queued \cup {s}
  BY <1>1, Appended DEF Queued, IInv, Types, TypeLists
<1>6. Ascending(queue)'
  <2> SUFFICES ASSUME NEW i \in DOMAIN queue', NEW j \in DOMAIN queue', i < j
               PROVE  Earlier(queue[i], queue[j])'
    BY DEF Ascending
  <2>1. queue \in Seq(Steers)
    BY DEF IInv, Types, TypeLists
  <2>2. i \in DOMAIN queue /\ queue'[i] = queue[i]
    BY <1>1, <2>1, Appended
  <2>3. CASE j \in DOMAIN queue
    BY <1>1, <1>4, <2>1, <2>2, <2>3, Appended DEF Orders, OrderOfQueue, Ascending
  <2>4. CASE queue'[j] = s
    <3>1. queue[i] \in Accepted
      BY <2>1, <2>2, Members, ListsAccepted DEF Queued
    <3> QED
      BY <1>3, <2>2, <2>4, <3>1
  <2> QED
    BY <1>1, <2>1, <2>3, <2>4, Appended
<1>7. OrderOfQueue'
  BY <1>1, <1>3, <1>4, <1>5, <1>6, ListsAccepted DEF Orders, OrderOfQueue
<1>8. OrderOfBatch'
  BY <1>1, <1>4 DEF Orders, OrderOfBatch, Ascending
<1>9. OrderOfParts'
  <2>1. \A i \in DOMAIN parts : parts[i] \in Accepted
    BY Members, ListsAccepted DEF IInv, Types, TypeHistory, Written
  <2>2. (\A i, j \in DOMAIN parts :
            i < j /\ taken[parts[i]] = taken[parts[j]] => Earlier(parts[i], parts[j]))'
    BY <1>1, <1>3, <1>4, <2>1 DEF Orders, OrderOfParts
  <2>3. (\A t \in Written, u \in Queued : taken[t] = taken[u] => Earlier(t, u))'
    BY <1>1, <1>3, <1>4, <1>5, ListsAccepted DEF Orders, OrderOfParts, Written
  <2>4. (\A h \in Gens : \A t \in Written, u \in ToSet(batch[h]) :
            taken[t] = h => t = u \/ Earlier(t, u))'
    BY <1>1, <1>3, <1>4, ListsAccepted DEF Orders, OrderOfParts, Written
  <2> QED
    BY <2>2, <2>3, <2>4 DEF OrderOfParts
<1> QED
  BY <1>7, <1>8, <1>9 DEF Orders

LEMMA CancelOrders ==
    ASSUME IInv, Orders, NEW s \in Steers, Cancel(s)
    PROVE  Orders'
<1>1. PICK i \in DOMAIN queue : queue[i] = s /\ queue' = RemoveAt(queue, i)
  BY DEF Cancel
<1>2. UNCHANGED <<job, accepted, taken, claimed, batch, parts>>
  BY DEF Cancel, jobVars, progress
<1>3. \A t, u : Earlier(t, u) <=> Earlier(t, u)'
  BY <1>2 DEF Earlier, Before
<1>4. Distinct(queue)
  BY DistinctQueue DEF Orders
<1>5. Queued' \subseteq Queued
  BY <1>1, <1>4, Without DEF Queued, IInv, Types, TypeLists
<1>6. Ascending(queue)'
  <2> SUFFICES ASSUME NEW j \in DOMAIN queue', NEW k \in DOMAIN queue', j < k
               PROVE  Earlier(queue'[j], queue'[k])
    BY <1>3 DEF Ascending
  <2>1. \A l \in DOMAIN queue' :
           /\ queue'[l] = IF l < i THEN queue[l] ELSE queue[l + 1]
           /\ l \in Nat /\ (l < i => l \in DOMAIN queue) /\ l + 1 \in DOMAIN queue
    <3>1. queue \in Seq(Steers)
      BY DEF IInv, Types, TypeLists
    <3>2. queue' = RemoveAt(queue, i)
      BY <1>1
    <3> QED
      BY <1>4, <3>1, <3>2, Without
  <2>2. i \in Nat
    BY DEF IInv, Types, TypeLists
  <2>3. PICK m \in DOMAIN queue, n \in DOMAIN queue :
           m < n /\ queue'[j] = queue[m] /\ queue'[k] = queue[n]
    <3>1. CASE k < i
      BY <2>1, <2>2, <3>1
    <3>2. CASE j < i /\ ~(k < i)
      BY <2>1, <2>2, <3>2
    <3>3. CASE ~(j < i)
      BY <2>1, <2>2, <3>3
    <3> QED
      BY <3>1, <3>2, <3>3
  <2> QED
    BY <2>3 DEF Orders, OrderOfQueue, Ascending
<1>7. OrderOfQueue'
  BY <1>2, <1>3, <1>5, <1>6 DEF Orders, OrderOfQueue
<1>8. OrderOfBatch'
  BY <1>2, <1>3 DEF Orders, OrderOfBatch, Ascending
<1>9. OrderOfParts'
  BY <1>2, <1>3, <1>5 DEF Orders, OrderOfParts, Written
<1> QED
  BY <1>7, <1>8, <1>9 DEF Orders

LEMMA DrainOrders ==
    ASSUME IInv, Orders, NEW g \in Gens, Drain(g)
    PROVE  Orders'
<1>1. /\ queue' = <<>> /\ Queued' = {} /\ claimed' = claimed \cup Queued /\ job.gen = g
      /\ \A s \in Queued : taken[s] = g
      /\ UNCHANGED <<job, accepted, taken, parts>>
  BY Emptied DEF Drain, Open, jobVars, history, Queued
<1>2. \A t, u : Earlier(t, u) <=> Earlier(t, u)'
  BY <1>1 DEF Earlier, Before
<1>3. OrderOfQueue'
  BY <1>1, Emptied DEF OrderOfQueue, Ascending
<1>4. batch[g] = <<>>
  BY DEF Drain, IInv, Runs
<1>5. batch'[g] \in {<<>>, queue} /\ \A h \in Gens \ {g} : batch'[h] = batch[h]
  BY <1>4 DEF Drain, IInv, Types, TypeProgress
<1>6. OrderOfBatch'
  <2>1. \A h \in Gens : Ascending(batch[h])'
    BY <1>2, <1>5, Emptied DEF Orders, OrderOfQueue, OrderOfBatch, Ascending
  <2>2. \A c \in claimed' \ ToSet(batch'[g]), s \in ToSet(batch'[g]) : Earlier(c, s)'
    BY <1>1, <1>2, <1>5, Emptied DEF Orders, OrderOfQueue, Queued
  <2> QED
    BY <1>1, <2>1, <2>2 DEF OrderOfBatch
<1>7. OrderOfParts'
  <2>1. \A t \in Written, s \in ToSet(batch'[g]) : taken[t] = g => Earlier(t, s)
    BY <1>1, <1>5, Emptied DEF Orders, OrderOfParts, Queued
  <2> QED
    BY <1>1, <1>2, <1>5, <2>1 DEF Orders, OrderOfParts, Written
<1> QED
  BY <1>3, <1>6, <1>7 DEF Orders

LEMMA WriteOrders ==
    ASSUME IInv, Orders, NEW g \in Gens, CanApply(g), batch[g] # <<>>,
           WritePart(Head(batch[g])), UNCHANGED <<job, queue, accepted, taken>>,
           batch' = batch \/ batch' = [batch EXCEPT ![g] = Tail(batch[g])]
    PROVE  Orders'
<1> DEFINE s == Head(batch[g])
<1>1. /\ batch[g] \in Seq(Steers) /\ s \in Steers
      /\ ToSet(batch[g]) = {s} \cup ToSet(Tail(batch[g]))
  BY HeadOfBatch
<1>2. s \in claimed /\ s \notin Written /\ taken[s] = g /\ job.gen = g
  BY <1>1, ClaimedFacts DEF CanApply
<1>3. /\ claimed' = claimed \ {s} /\ parts' = Append(parts, s)
  BY DEF WritePart
<1>4. \A t, u : Earlier(t, u) <=> Earlier(t, u)'
  BY DEF Earlier, Before
<1>5. Written' = Written \cup {s} /\ parts \in Seq(Steers)
  BY <1>1, <1>3, Appended DEF Written, IInv, Types, TypeHistory
<1>6. batch'[g] \in {batch[g], Tail(batch[g])} /\ \A h \in Gens \ {g} : batch'[h] = batch[h]
  BY DEF IInv, Types, TypeProgress
<1>7. \A u \in ToSet(batch[g]) : u = s \/ Earlier(s, u)
  <2> SUFFICES ASSUME NEW u \in ToSet(batch[g]), u # s
               PROVE  Earlier(s, u)
    OBVIOUS
  <2>1. PICK i \in DOMAIN batch[g] : batch[g][i] = u
    BY <1>1, Members
  <2>2. s = batch[g][1] /\ 1 \in DOMAIN batch[g]
    BY <1>1, Split
  <2>3. 1 < i
    BY <1>1, <2>1, <2>2
  <2> QED
    BY <2>1, <2>2, <2>3 DEF Orders, OrderOfBatch, Ascending
<1>8. \A h \in Gens : Ascending(batch[h])'
  <2>1. Ascending(Tail(batch[g]))
    <3> SUFFICES ASSUME NEW i \in DOMAIN Tail(batch[g]), NEW j \in DOMAIN Tail(batch[g]), i < j
                 PROVE  Earlier(Tail(batch[g])[i], Tail(batch[g])[j])
      BY DEF Ascending
    <3>1. /\ i + 1 \in DOMAIN batch[g] /\ Tail(batch[g])[i] = batch[g][i + 1]
          /\ j + 1 \in DOMAIN batch[g] /\ Tail(batch[g])[j] = batch[g][j + 1]
      BY <1>1, Split
    <3>2. i + 1 < j + 1
      BY <1>1
    <3> QED
      BY <3>1, <3>2 DEF Orders, OrderOfBatch, Ascending
  <2> QED
    BY <1>4, <1>6, <2>1 DEF Orders, OrderOfBatch, Ascending
<1> HIDE DEF s
<1>9. OrderOfQueue'
  BY <1>3, <1>4 DEF Orders, OrderOfQueue, Ascending, Queued
<1>10. OrderOfBatch'
  <2>1. \A c \in claimed' \ ToSet(batch'[g]), u \in ToSet(batch'[g]) : Earlier(c, u)'
    BY <1>1, <1>2, <1>3, <1>4, <1>6 DEF Orders, OrderOfBatch
  <2> QED
    BY <1>2, <1>8, <2>1 DEF OrderOfBatch
<1>11. OrderOfParts'
  <2>1. s \in ToSet(batch[g])
    BY <1>1
  <2>2. \A t \in Written : taken[t] = g => Earlier(t, s)
    BY <1>2, <2>1 DEF Orders, OrderOfParts
  <2>3. ASSUME NEW i \in DOMAIN parts', NEW j \in DOMAIN parts', i < j,
               taken[parts'[i]] = taken[parts'[j]]
        PROVE  Earlier(parts'[i], parts'[j])
    <3>1. i \in DOMAIN parts /\ parts'[i] = parts[i] /\ parts[i] \in Written
      BY <1>1, <1>3, <1>5, <2>3, Appended, Members DEF Written
    <3>2. CASE j \in DOMAIN parts
      BY <1>1, <1>3, <1>5, <2>3, <3>1, <3>2, Appended DEF Orders, OrderOfParts
    <3>3. CASE parts'[j] = s
      BY <1>2, <2>2, <2>3, <3>1, <3>3
    <3> QED
      BY <1>1, <1>3, <1>5, <3>2, <3>3, Appended
  <2>4. \A t \in Written', u \in Queued : taken[t] = taken[u] => Earlier(t, u)
    BY <1>2, <1>5 DEF Orders, OrderOfParts, OrderOfQueue
  <2>5. ASSUME NEW h \in Gens, NEW t \in Written', NEW u \in ToSet(batch'[h]), taken[t] = h
        PROVE  t = u \/ Earlier(t, u)
    <3>1. u \in ToSet(batch[h])
      BY <1>1, <1>6
    <3>2. CASE t \in Written
      BY <2>5, <3>1, <3>2 DEF Orders, OrderOfParts
    <3>3. CASE t = s
      BY <1>2, <1>7, <2>5, <3>1, <3>3
    <3> QED
      BY <1>5, <3>2, <3>3
  <2> QED
    BY <1>4, <2>3, <2>4, <2>5 DEF OrderOfParts, Queued
<1> QED
  BY <1>9, <1>10, <1>11 DEF Orders

LEMMA RestoreOrders ==
    ASSUME IInv, Orders, NEW g \in Gens, Restore(g)
    PROVE  Orders'
<1>1. /\ UNCHANGED <<job, accepted, taken, parts>>
      /\ batch' = [batch EXCEPT ![g] = <<>>]
  BY DEF Restore, jobVars, history
<1>2. batch'[g] = <<>> /\ \A h \in Gens \ {g} : batch'[h] = batch[h]
  BY <1>1 DEF IInv, Types, TypeProgress
<1>3. CASE UNCHANGED <<claimed, queue>>
  BY <1>1, <1>2, <1>3, OrdersKept
<1>4. CASE /\ CanRestore(g)
           /\ claimed' = claimed \ ToSet(batch[g]) /\ queue' = batch[g] \o queue
  <2> DEFINE B == ToSet(batch[g])
  <2>1. /\ batch[g] \in Seq(Steers) /\ queue \in Seq(Steers) /\ B \subseteq Steers
        /\ Queued' = B \cup Queued
    BY <1>4, Members, Joined DEF IInv, Types, TypeProgress, TypeLists, Queued
  <2>2. \A s \in B : s \in claimed /\ s \notin Written /\ taken[s] = g /\ job.gen = g
    BY <1>4, <2>1, ClaimedFacts DEF CanRestore
  <2>3. B # {} => job.gen = g
    BY <2>2
  <2>4. \A t, u : Earlier(t, u) <=> Earlier(t, u)'
    BY <1>1 DEF Earlier, Before
  <2>5. job.gen = g
    BY <1>4 DEF CanRestore, Open
  <2>6. Ascending(queue)'
    <3> SUFFICES ASSUME NEW i \in DOMAIN queue', NEW j \in DOMAIN queue', i < j
                 PROVE  Earlier(queue'[i], queue'[j])
      BY <2>4 DEF Ascending
    <3>1. \A k \in DOMAIN queue' :
             \/ k \in DOMAIN batch[g] /\ queue'[k] = batch[g][k]
             \/ /\ k - Len(batch[g]) \in DOMAIN queue /\ queue'[k] = queue[k - Len(batch[g])]
                /\ \A l \in DOMAIN batch[g] : l < k
      BY <1>4, <2>1, Joined
    <3>2. i \in Nat /\ j \in Nat /\ Len(batch[g]) \in Nat
      BY <1>4, <2>1, Joined
    <3>3. CASE i \in DOMAIN batch[g] /\ queue'[i] = batch[g][i]
      <4>1. CASE j \in DOMAIN batch[g] /\ queue'[j] = batch[g][j]
        BY <3>3, <4>1 DEF Orders, OrderOfBatch, Ascending
      <4>2. CASE j - Len(batch[g]) \in DOMAIN queue /\ queue'[j] = queue[j - Len(batch[g])]
        <5>1. queue'[i] \in B
          BY <2>1, <3>3, Members
        <5>2. queue'[j] \in Queued
          BY <2>1, <4>2, Members DEF Queued
        <5> QED
          BY <2>2, <5>1, <5>2 DEF Orders, OrderOfQueue
      <4> QED
        BY <3>1, <4>1, <4>2
    <3>4. CASE /\ i - Len(batch[g]) \in DOMAIN queue /\ queue'[i] = queue[i - Len(batch[g])]
               /\ \A l \in DOMAIN batch[g] : l < i
      <4>1. j \notin DOMAIN batch[g]
        BY <3>2, <3>4
      <4>2. /\ j - Len(batch[g]) \in DOMAIN queue /\ queue'[j] = queue[j - Len(batch[g])]
            /\ i - Len(batch[g]) < j - Len(batch[g])
        BY <3>1, <3>2, <4>1
      <4> QED
        BY <3>4, <4>2 DEF Orders, OrderOfQueue, Ascending
    <3> QED
      BY <3>1, <3>3, <3>4
  <2> HIDE DEF B
  <2>7. OrderOfQueue'
    <3>1. claimed' = claimed \ B
      BY <1>4 DEF B
    <3>2. \A c \in claimed \ B, s \in B : Earlier(c, s)
      BY <2>5 DEF Orders, OrderOfBatch, B
    <3> QED
      BY <2>1, <2>4, <2>6, <3>1, <3>2 DEF Orders, OrderOfQueue
  <2>8. OrderOfBatch'
    BY <1>1, <1>2, <2>4, <2>5, Emptied DEF Orders, OrderOfBatch, Ascending
  <2>9. OrderOfParts'
    <3>1. \A t \in Written, s \in B : taken[t] = taken[s] => Earlier(t, s)
      BY <2>2 DEF Orders, OrderOfParts, B
    <3> QED
      BY <1>1, <1>2, <2>1, <2>4, <3>1, Emptied DEF Orders, OrderOfParts, Written
  <2> QED
    BY <2>7, <2>8, <2>9 DEF Orders
<1> QED
  BY <1>3, <1>4 DEF Restore

(***************************************************************************)
(* Every step keeps the invariant.                                         *)
(***************************************************************************)

LEMMA InitInv == Init => IInv /\ Orders
<1> SUFFICES ASSUME Init PROVE IInv /\ Orders
  OBVIOUS
<1>1. Types
  <2>1. TypeJob /\ TypeLists /\ TypeReceipts
    BY SteeringAssumption DEF Init, NoJob, TypeJob, TypeLists, TypeReceipts, Receipts
  <2>2. TypeProgress /\ TypeEnding
    BY DEF Init, TypeProgress, TypeEnding, Stages
  <2>3. TypeHistory /\ TypeFaults
    BY SteeringAssumption DEF Init, TypeHistory, TypeFaults
  <2> QED
    BY <2>1, <2>2, <2>3 DEF Types
<1>2. /\ Queued = {} /\ Accepted = {} /\ Written = {}
      /\ \A g \in Gens : batch[g] = <<>> /\ done[g] = <<>>
  BY Emptied DEF Init, Queued, Accepted, Written
<1>3. Fits
  <2> SUFFICES ASSUME NEW s \in Steers PROVE Listed(s) /\ Strayed(s) /\ Ended(s)
    BY DEF Fits
  <2>1. \A g \in Gens : recovers[g] # s
    BY SteeringAssumption DEF Init
  <2> QED
    BY <1>2, <2>1 DEF Init, Listed, Strayed, Ended, Final
<1>4. Runs
  BY <1>2, Emptied DEF Init, Runs
<1>5. Distinct(accepted) /\ Distinct(parts)
  BY DEF Init, Distinct
<1>6. Orders
  <2>1. DOMAIN parts = {} /\ queue = <<>> /\ claimed = {}
    BY DEF Init
  <2> QED
    BY <1>2, <2>1, Emptied DEF Orders, OrderOfQueue, OrderOfBatch, OrderOfParts, Ascending
<1> QED
  BY <1>1, <1>3, <1>4, <1>5, <1>6 DEF IInv

LEMMA NextTypes == IInv /\ Orders /\ [Next]_vars => Types'
<1> SUFFICES ASSUME IInv, Orders, [Next]_vars PROVE Types'
  OBVIOUS
<1>1. CASE UNCHANGED vars
  BY <1>1 DEF IInv, Types, TypeJob, TypeLists, TypeReceipts, TypeProgress, TypeEnding,
     TypeHistory, TypeFaults, vars, jobVars, lists, receipts, progress, ending, history
<1>2. ASSUME NEW s \in Steers,
             ReadReceipt(s) \/ Cancel(s) \/ Discard(s) \/ \E g \in Gens : Enqueue(s, g)
      PROVE  Types'
  BY <1>2, UserTypes, DistinctQueue DEF IInv, Orders
<1>3. ASSUME NEW s \in Steers \cup {NoSteer}, Create(s) PROVE Types'
  BY <1>3, CreateTypes DEF IInv
<1>4. ASSUME NEW g \in Gens, Drain(g) \/ Apply(g) \/ ApplyFails(g) \/ Restore(g)
      PROVE  Types'
  BY <1>4, DrainTypes, ApplyTypes, ApplyFailsTypes, RestoreTypes DEF IInv
<1>5. ASSUME NEW g \in Gens,
             \/ Inject(g) \/ Pause(g) \/ Resume(g) \/ Crash(g) \/ Publish(g)
             \/ SaveRow(g) \/ Commit(g) \/ CommitFails(g)
      PROVE  Types'
  BY <1>5, RunTypes, CommitTypes DEF IInv
<1>6. ASSUME NEW g \in Gens,
             Delete(g) \/ Reap(g) \/ Expire(g) \/ \E status \in Terminal : End(g, status)
      PROVE  Types'
  BY <1>6, EndTypes DEF IInv
<1>7. CASE ExpireList
  BY <1>7, ExpireListTypes DEF IInv
<1> QED
  BY <1>1, <1>2, <1>3, <1>4, <1>5, <1>6, <1>7 DEF Next

LEMMA Ending ==
    ASSUME IInv, NEW g \in Gens, Reap(g) \/ \E status \in Terminal : End(g, status)
    PROVE  /\ job.gen # 0 /\ ParkAll /\ job'.gen \in {0, job.gen}
           /\ UNCHANGED <<epoch, accepted, parts, rows, removed, stray, recovers, batch>>
<1>1. job.gen = g /\ ParkAll
  BY DEF Reap, End
<1>2. g # 0
  BY DEF Gens
<1>3. UNCHANGED <<epoch, accepted, parts, rows, removed, stray, recovers, batch>>
  BY DEF Reap, End, progress, ending, history
<1>4. job'.gen \in {0, job.gen}
  <2>1. CASE Reap(g)
    BY <2>1 DEF Reap, NoJob
  <2>2. ASSUME NEW status \in Terminal, End(g, status) PROVE job'.gen = job.gen
    <3>1. PICK pending : job' = [job EXCEPT !.status = status, !.pending = pending]
      BY <2>2, Zenon DEF End
    <3> QED
      BY <3>1 DEF IInv, Types, TypeJob
  <2> QED
    BY <2>1, <2>2
<1> QED
  BY <1>1, <1>2, <1>3, <1>4

\* Steps that move no steer.
Quiet(g) == \/ Inject(g) \/ Pause(g) \/ Resume(g) \/ Crash(g) \/ Publish(g)
            \/ CommitFails(g)

LEMMA QuietFacts ==
    ASSUME IInv, NEW g \in Gens, Quiet(g)
    PROVE  /\ UNCHANGED FitVars /\ UNCHANGED epoch /\ job'.gen = job.gen
           /\ job.status \in Active => job'.status \in Active
           /\ \A h \in Gens : batch'[h] \in {batch[h], <<>>}
<1>1. UNCHANGED FitVars
  BY DEF FitVars, Quiet, Inject, Pause, Resume, Crash, Publish, CommitFails, lists,
         receipts, history, ending
<1>2. /\ UNCHANGED epoch /\ job'.gen = job.gen
      /\ job.status \in Active => job'.status \in Active
  BY DEF Quiet, Inject, Pause, Resume, Crash, Publish, CommitFails, jobVars, Active, IInv,
         Types, TypeJob
<1>3. \A h \in Gens : batch'[h] \in {batch[h], <<>>}
  BY DEF Quiet, Inject, Pause, Resume, Crash, Publish, CommitFails, progress, IInv, Types,
         TypeProgress
<1> QED
  BY <1>1, <1>2, <1>3

LEMMA NextFits == IInv /\ Orders /\ [Next]_vars => Fits'
<1> SUFFICES ASSUME IInv, Orders, [Next]_vars PROVE Fits'
  OBVIOUS
<1>1. CASE UNCHANGED vars
  <2>1. UNCHANGED FitVars /\ UNCHANGED <<job, epoch>>
    BY <1>1 DEF vars, FitVars, jobVars, lists, receipts, ending, history
  <2> QED
    BY <2>1, FitsKept DEF IInv
<1>2. ASSUME NEW s \in Steers,
             ReadReceipt(s) \/ Cancel(s) \/ Discard(s) \/ \E g \in Gens : Enqueue(s, g)
      PROVE  Fits'
  BY <1>2, EnqueueFits, ReadReceiptFits, CancelFits, DiscardFits, DistinctQueue DEF Orders
<1>3. ASSUME NEW s \in Steers \cup {NoSteer}, Create(s) PROVE Fits'
  BY <1>3, CreateFits
<1>4. ASSUME NEW g \in Gens, Drain(g) \/ Apply(g) \/ ApplyFails(g) \/ Restore(g)
      PROVE  Fits'
  BY <1>4, DrainFits, ApplyFits, ApplyFailsFits, RestoreFits
<1>5. ASSUME NEW g \in Gens, Quiet(g) PROVE Fits'
  BY <1>5, QuietFacts, FitsKept DEF IInv
<1>6. ASSUME NEW g \in Gens,
             Reap(g) \/ \E status \in Terminal : End(g, status)
      PROVE  Fits'
  BY <1>6, Ending, ParkFits
<1>7. ASSUME NEW g \in Gens, SaveRow(g) \/ Commit(g) \/ Delete(g) \/ Expire(g)
      PROVE  Fits'
  BY <1>7, SaveRowFits, CommitFits, DeleteFits, ExpireFits
<1>8. CASE ExpireList
  BY <1>8, ExpireListFits
<1> QED
  BY <1>1, <1>2, <1>3, <1>4, <1>5, <1>6, <1>7, <1>8 DEF Next, Quiet

LEMMA NextOrders == IInv /\ Orders /\ [Next]_vars => Orders'
<1> SUFFICES ASSUME IInv, Orders, [Next]_vars PROVE Orders'
  OBVIOUS
<1>1. CASE UNCHANGED vars
  <2>1. UNCHANGED <<job, accepted, taken, parts, queue, claimed, batch>>
    BY <1>1 DEF vars, jobVars, lists, receipts, progress, history
  <2> QED
    BY <2>1, OrdersKept
<1>2. ASSUME NEW s \in Steers, Cancel(s) \/ \E g \in Gens : Enqueue(s, g)
      PROVE  Orders'
  BY <1>2, EnqueueOrders, CancelOrders
<1>3. ASSUME NEW s \in Steers, ReadReceipt(s) \/ Discard(s)
      PROVE  Orders'
  <2>1. UNCHANGED <<job, accepted, taken, parts, queue, claimed, batch>>
    BY <1>3 DEF ReadReceipt, Discard, jobVars, lists, progress, history
  <2> QED
    BY <2>1, OrdersKept
<1>4. ASSUME NEW s \in Steers \cup {NoSteer}, Create(s) PROVE Orders'
  <2>1. /\ UNCHANGED <<accepted, taken, parts, batch>> /\ queue' = <<>> /\ claimed' = {}
    BY <1>4 DEF Create, history
  <2> QED
    BY <2>1, OrdersKept
<1>5. ASSUME NEW g \in Gens, Drain(g) \/ Restore(g) PROVE Orders'
  BY <1>5, DrainOrders, RestoreOrders
<1>6. ASSUME NEW g \in Gens, Apply(g) \/ ApplyFails(g) PROVE Orders'
  <2>1. UNCHANGED <<job, queue, accepted, taken>> /\ pc[g] = "apply"
    BY <1>6 DEF Apply, ApplyFails, jobVars
  <2>2. batch' = batch \/ batch' = [batch EXCEPT ![g] = Tail(batch[g])]
    BY <1>6 DEF Apply, ApplyFails
  <2>3. batch[g] # <<>>
    BY <2>1 DEF IInv, Runs
  <2>4. CASE CanApply(g) /\ WritePart(Head(batch[g]))
    BY <2>1, <2>2, <2>3, <2>4, WriteOrders
  <2>5. CASE UNCHANGED <<claimed, parts, batch>>
    BY <2>1, <2>5, OrdersKept
  <2> QED
    BY <1>6, <2>4, <2>5 DEF Apply, ApplyFails
<1>7. ASSUME NEW g \in Gens, Quiet(g) PROVE Orders'
  BY <1>7, QuietFacts, OrdersKept DEF FitVars
<1>8. ASSUME NEW g \in Gens, Reap(g) \/ \E status \in Terminal : End(g, status)
      PROVE  Orders'
  <2>1. /\ UNCHANGED <<accepted, taken, parts, batch>> /\ queue' = <<>> /\ claimed' = {}
    BY <1>8, Ending DEF ParkAll
  <2> QED
    BY <2>1, OrdersKept
<1>9. ASSUME NEW g \in Gens, SaveRow(g) \/ Commit(g) \/ Delete(g) \/ Expire(g)
      PROVE  Orders'
  <2>1. /\ UNCHANGED <<accepted, taken, parts, batch>>
        /\ queue' \in {queue, <<>>} /\ claimed' \subseteq claimed
        /\ job'.gen \in {job.gen, 0}
    BY <1>9 DEF SaveRow, Commit, Delete, Expire, NoJob, jobVars, lists, receipts, progress,
                history
  <2> QED
    BY <2>1, OrdersKept
<1>10. CASE ExpireList
  <2>1. /\ UNCHANGED <<job, accepted, taken, parts, batch>>
        /\ queue' \in {queue, <<>>} /\ claimed' \subseteq claimed
    BY <1>10 DEF ExpireList, jobVars, receipts, progress, history
  <2> QED
    BY <2>1, OrdersKept
<1> QED
  BY <1>1, <1>2, <1>3, <1>4, <1>5, <1>6, <1>7, <1>8, <1>9, <1>10 DEF Next, Quiet

LEMMA NextInv == IInv /\ Orders /\ [Next]_vars => (IInv /\ Orders)'
BY NextTypes, NextFits, NextOrders, NextRuns, ListsGrow, PartsStep DEF IInv

(***************************************************************************)
(* The turns of recovered steers.                                          *)
(***************************************************************************)

Held == Queued \cup claimed

\* A steer that a generation was created with is not taken by a run, what was
\* taken out of the parked list stays out, and no active generation has a steer
\* as its turn that was withdrawn.
Turns ==
    /\ \A g \in Gens : g > epoch => recovers[g] = NoSteer
    /\ \A g \in Gens : recovers[g] \notin Held
    /\ \A g \in Gens : committed[g] =>
          g <= epoch /\ recovers[g] \in Steers /\ recovers[g] \notin parked
    /\ \A g, h \in Gens : g < h /\ committed[g] => recovers[h] # recovers[g]
    /\ \A s \in removed : Recovering(s) => s \in stray

\* The job stays active or ceases to be, and no other generation becomes active.
NoRevival == job'.status \in Active => job.status \in Active /\ job'.gen = job.gen

LEMMA TurnsKept ==
    ASSUME IInv, Turns, UNCHANGED <<recovers, committed, epoch>>, NoRevival,
           Held' \subseteq Held, parked' \subseteq parked \cup Held,
           \A s \in removed' : s \in removed \/ ~Recovering(s), stray \subseteq stray'
    PROVE  Turns'
<1>1. \A s : Recovering(s)' => Recovering(s)
  BY DEF Recovering, NoRevival
<1>2. (\A g \in Gens : g > epoch => recovers[g] = NoSteer)'
  BY DEF Turns
<1>3. (\A g \in Gens : recovers[g] \notin Held)'
  BY DEF Turns
<1>4. (\A g \in Gens : committed[g] =>
          g <= epoch /\ recovers[g] \in Steers /\ recovers[g] \notin parked)'
  BY DEF Turns
<1>5. (\A g, h \in Gens : g < h /\ committed[g] => recovers[h] # recovers[g])'
  BY DEF Turns
<1>6. (\A s \in removed : Recovering(s) => s \in stray)'
  BY <1>1 DEF Turns
<1> QED
  BY <1>2, <1>3, <1>4, <1>5, <1>6 DEF Turns

LEMMA ActiveGen == ASSUME Types, job.status \in Active PROVE job.gen \in Gens
BY SteeringAssumption DEF Types, TypeJob, Active, Gens

LEMMA EnqueueTurns ==
    ASSUME IInv, Turns, NEW s \in Steers, NEW g \in Gens, Enqueue(s, g)
    PROVE  Turns'
<1>1. /\ Queued' = Queued \cup {s} /\ receipt[s] = "none"
      /\ UNCHANGED <<job, epoch, claimed, parked, recovers, committed, removed, stray>>
  BY Appended DEF Enqueue, jobVars, ending, IInv, Types, TypeLists, Queued
<1>2. \A h \in Gens : recovers[h] # s
  BY <1>1 DEF IInv, Fits, Ended, Past, Listed
<1>3. \A t : Recovering(t)' <=> Recovering(t)
  BY <1>1 DEF Recovering
<1>4. Held' = Held \cup {s}
  BY <1>1 DEF Held
<1> QED
  BY <1>1, <1>2, <1>3, <1>4 DEF Turns

LEMMA WithdrawTurns ==
    ASSUME IInv, Orders, Turns, NEW s \in Steers, Cancel(s) \/ Discard(s)
    PROVE  Turns'
<1>1. /\ UNCHANGED <<job, epoch, claimed, recovers, committed, stray>>
      /\ removed' = removed \cup {s} /\ parked' \subseteq parked
  BY DEF Cancel, Discard, jobVars, ending
<1>2. ~Recovering(s) /\ Held' \subseteq Held
  <2>1. CASE Cancel(s)
    <3>1. s \in Queued /\ Queued' \subseteq Queued
      <4>1. PICK i \in DOMAIN queue : queue[i] = s /\ queue' = RemoveAt(queue, i)
        BY <2>1 DEF Cancel
      <4>2. ToSet(queue') = ToSet(queue) \ {queue[i]}
        BY <4>1, Without, DistinctQueue DEF IInv, Types, TypeLists, Orders
      <4> QED
        BY <4>1, <4>2, Members DEF Queued, IInv, Types, TypeLists
    <3>2. ~Recovering(s)
      BY <3>1, ActiveGen DEF Turns, Held, Recovering, IInv
    <3> QED
      BY <1>1, <3>1, <3>2 DEF Held
  <2>2. CASE Discard(s)
    BY <1>1, <2>2 DEF Discard, Held, Queued
  <2> QED
    BY <2>1, <2>2
<1>3. NoRevival
  BY <1>1 DEF NoRevival
<1> QED
  BY <1>1, <1>2, <1>3, TurnsKept

LEMMA CreateTurns ==
    ASSUME IInv, Turns, NEW s \in Steers \cup {NoSteer}, Create(s)
    PROVE  Turns'
<1>1. /\ epoch' = epoch + 1 /\ epoch < MaxGens /\ queue' = <<>> /\ claimed' = {}
      /\ job'.gen = epoch + 1
      /\ recovers' = [recovers EXCEPT ![epoch + 1] = s]
      /\ UNCHANGED <<committed, removed, stray>>
      /\ parked' \subseteq parked \cup Held /\ s \in parked \cup Held \cup {NoSteer}
  BY DEF Create, Held, history
<1>2. epoch \in Nat /\ epoch + 1 \in Gens
  BY <1>1, SteeringAssumption DEF IInv, Types, TypeJob, Gens
<1>3. \A g \in Gens : recovers'[g] = IF g = epoch + 1 THEN s ELSE recovers[g]
  BY <1>1 DEF IInv, Types, TypeEnding
<1>4. Held' = {}
  BY <1>1 DEF Held, Queued, ToSet
<1>5. \A g \in Gens : committed[g] =>
         /\ g <= epoch /\ recovers[g] \in Steers /\ recovers[g] \notin parked \cup Held
         /\ recovers[g] # s
  BY <1>1, SteeringAssumption DEF Turns
<1>6. (\A g \in Gens : g > epoch => recovers[g] = NoSteer)'
  <2> SUFFICES ASSUME NEW g \in Gens, g > epoch + 1 PROVE recovers'[g] = NoSteer
    BY <1>1
  <2>1. g # epoch + 1 /\ g > epoch
    BY <1>2 DEF Gens
  <2> QED
    BY <1>3, <2>1 DEF Turns
<1>7. (\A g \in Gens : committed[g] =>
          g <= epoch /\ recovers[g] \in Steers /\ recovers[g] \notin parked)'
  <2> SUFFICES ASSUME NEW g \in Gens, committed[g]
               PROVE  g <= epoch + 1 /\ recovers'[g] \in Steers /\ recovers'[g] \notin parked'
    BY <1>1
  <2>1. g <= epoch /\ g # epoch + 1 /\ g <= epoch + 1
    BY <1>2, <1>5 DEF Gens
  <2> QED
    BY <1>1, <1>3, <1>5, <2>1
<1>8. (\A g, h \in Gens : g < h /\ committed[g] => recovers[h] # recovers[g])'
  <2> SUFFICES ASSUME NEW g \in Gens, NEW h \in Gens, g < h, committed[g]
               PROVE  recovers'[h] # recovers'[g]
    BY <1>1
  <2>1. g # epoch + 1
    BY <1>2, <1>5 DEF Gens
  <2> QED
    BY <1>3, <1>5, <2>1 DEF Turns
<1>9. (\A t \in removed : Recovering(t) => t \in stray)'
  <2> SUFFICES ASSUME NEW t \in removed, t = s, t \notin stray PROVE FALSE
    BY <1>1, <1>2, <1>3 DEF Recovering
  <2>1. t \in Steers
    BY DEF IInv, Types, TypeHistory
  <2>2. Listed(t) /\ Ended(t)
    BY <2>1 DEF IInv, Fits
  <2>3. t \notin Queued \cup claimed \cup parked
    BY <2>2 DEF Listed, Ended
  <2> QED
    BY <1>1, <2>1, <2>3, SteeringAssumption DEF Held
<1> QED
  BY <1>4, <1>6, <1>7, <1>8, <1>9 DEF Turns

LEMMA CommitTurns ==
    ASSUME IInv, Turns, NEW g \in Gens, Commit(g)
    PROVE  Turns'
<1>1. /\ recovers[g] \in rows /\ job.gen = g
      /\ parked' = parked \ {recovers[g]}
      /\ committed' = [committed EXCEPT ![g] = TRUE]
      /\ UNCHANGED <<job, epoch, queue, claimed, recovers, removed, stray>>
  BY DEF Commit, CanConsume, jobVars, history
<1>2. recovers[g] \in Steers /\ g = epoch /\ epoch \in Nat
  BY <1>1, SteeringAssumption DEF IInv, Types, TypeHistory, TypeJob, Gens
<1>3. \A h \in Gens : committed'[h] <=> h = g \/ committed[h]
  BY <1>1 DEF IInv, Types, TypeEnding
<1>4. Held' = Held /\ \A t : Recovering(t)' <=> Recovering(t)
  BY <1>1 DEF Held, Queued, Recovering
<1>5. (\A h \in Gens : committed[h] =>
          h <= epoch /\ recovers[h] \in Steers /\ recovers[h] \notin parked)'
  BY <1>1, <1>2, <1>3 DEF Turns
<1>6. (\A h, k \in Gens : h < k /\ committed[h] => recovers[k] # recovers[h])'
  <2> SUFFICES ASSUME NEW h \in Gens, NEW k \in Gens, h < k, h = g \/ committed[h]
               PROVE  recovers[k] # recovers[h]
    BY <1>1, <1>3
  <2>1. CASE h = g
    <3>1. k > epoch
      BY <1>2, <2>1 DEF Gens
    <3> QED
      BY <1>2, <2>1, <3>1, SteeringAssumption DEF Turns
  <2> QED
    BY <2>1 DEF Turns
<1> QED
  BY <1>1, <1>4, <1>5, <1>6 DEF Turns

LEMMA RestoreHolds == ASSUME IInv, NEW g \in Gens, Restore(g) PROVE Held' \subseteq Held
<1>1. CASE UNCHANGED <<claimed, queue>>
  BY <1>1 DEF Held, Queued
<1>2. CASE CanRestore(g) /\ claimed' = claimed \ ToSet(batch[g]) /\ queue' = batch[g] \o queue
  <2>1. batch[g] \in Seq(Steers) /\ queue \in Seq(Steers)
    BY DEF IInv, Types, TypeLists, TypeProgress
  <2>2. Queued' = ToSet(batch[g]) \cup Queued
    BY <1>2, <2>1, Joined DEF Queued
  <2>3. ToSet(batch[g]) \subseteq claimed
    BY <1>2 DEF CanRestore, Claimed
  <2> QED
    BY <1>2, <2>2, <2>3 DEF Held
<1> QED
  BY <1>1, <1>2 DEF Restore

\* No other step creates a generation, withdraws a steer or adds one to the queue.
LEMMA StepTurns ==
    ASSUME IInv, NEW g \in Gens,
           \/ Drain(g) \/ Apply(g) \/ ApplyFails(g) \/ Restore(g) \/ Quiet(g) \/ SaveRow(g)
           \/ Delete(g) \/ Reap(g) \/ Expire(g) \/ \E status \in Terminal : End(g, status)
    PROVE  /\ UNCHANGED <<recovers, committed, epoch, removed>> /\ stray \subseteq stray'
           /\ NoRevival /\ Held' \subseteq Held /\ parked' \subseteq parked \cup Held
<1>1. CASE Drain(g)
  BY <1>1 DEF Drain, jobVars, ending, history, Held, Queued, ToSet, NoRevival
<1>2. CASE Apply(g) \/ ApplyFails(g)
  BY <1>2 DEF Apply, ApplyFails, WritePart, jobVars, ending, Held, Queued, NoRevival
<1>3. CASE Restore(g)
  BY <1>3, RestoreHolds DEF Restore, jobVars, ending, history, NoRevival
<1>4. CASE Quiet(g)
  <2>1. UNCHANGED <<recovers, committed, epoch, removed, stray, queue, claimed, parked>>
    BY <1>4 DEF Quiet, Inject, Pause, Resume, Crash, Publish, CommitFails, jobVars, lists,
       ending, history
  <2>2. NoRevival
    BY <1>4 DEF Quiet, Inject, Pause, Resume, Crash, Publish, CommitFails, jobVars, NoRevival,
       Active, IInv, Types, TypeJob
  <2> QED
    BY <2>1, <2>2 DEF Held, Queued
<1>5. CASE SaveRow(g)
  BY <1>5 DEF SaveRow, jobVars, lists, ending, Held, Queued, NoRevival
<1>6. CASE Delete(g) \/ Expire(g)
  BY <1>6 DEF Delete, Expire, NoJob, Active, Terminal, lists, ending, history, Held, Queued,
     ToSet, NoRevival
<1>7. CASE Reap(g)
  BY <1>7 DEF Reap, ParkAll, NoJob, Active, ending, history, Held, Queued, ToSet, NoRevival
<1>8. ASSUME NEW status \in Terminal, End(g, status)
      PROVE  /\ UNCHANGED <<recovers, committed, epoch, removed, stray>>
             /\ NoRevival /\ Held' \subseteq Held /\ parked' \subseteq parked \cup Held
  <2>1. job'.status = status /\ status \notin Active
    <3>1. PICK pending : job' = [job EXCEPT !.status = status, !.pending = pending]
      BY <1>8, Zenon DEF End
    <3> QED
      BY <3>1 DEF IInv, Types, TypeJob, Terminal, Active
  <2>2. /\ UNCHANGED <<recovers, committed, epoch, removed, stray>>
        /\ queue' = <<>> /\ claimed' = {} /\ parked' = parked \cup claimed \cup Queued
    BY <1>8, Zenon DEF End, ParkAll, history
  <2>3. Held' = {} /\ parked' \subseteq parked \cup Held
    BY <2>2 DEF Held, Queued, ToSet
  <2> QED
    BY <2>1, <2>2, <2>3 DEF NoRevival
<1> QED
  BY <1>1, <1>2, <1>3, <1>4, <1>5, <1>6, <1>7, <1>8

LEMMA NextTurns == IInv /\ Orders /\ Turns /\ [Next]_vars => Turns'
<1> SUFFICES ASSUME IInv, Orders, Turns, [Next]_vars PROVE Turns'
  OBVIOUS
<1>1. CASE UNCHANGED vars \/ ExpireList \/ \E s \in Steers : ReadReceipt(s)
  <2>1. /\ UNCHANGED <<recovers, committed, epoch, removed, stray, job, parked>>
        /\ queue' \in {queue, <<>>} /\ claimed' \subseteq claimed
    BY <1>1 DEF ExpireList, ReadReceipt, vars, jobVars, lists, ending, history
  <2>2. Held' \subseteq Held /\ NoRevival
    BY <2>1 DEF Held, Queued, ToSet, NoRevival
  <2> QED
    BY <2>1, <2>2, TurnsKept
<1>2. ASSUME NEW s \in Steers, Cancel(s) \/ Discard(s) \/ \E g \in Gens : Enqueue(s, g)
      PROVE  Turns'
  BY <1>2, WithdrawTurns, EnqueueTurns
<1>3. ASSUME NEW s \in Steers \cup {NoSteer}, Create(s) PROVE Turns'
  BY <1>3, CreateTurns
<1>4. ASSUME NEW g \in Gens, Commit(g) PROVE Turns'
  BY <1>4, CommitTurns
<1>5. ASSUME NEW g \in Gens,
             \/ Drain(g) \/ Apply(g) \/ ApplyFails(g) \/ Restore(g) \/ Quiet(g) \/ SaveRow(g)
             \/ Delete(g) \/ Reap(g) \/ Expire(g) \/ \E status \in Terminal : End(g, status)
      PROVE  Turns'
  <2>1. /\ UNCHANGED <<recovers, committed, epoch, removed>> /\ stray \subseteq stray'
        /\ NoRevival /\ Held' \subseteq Held /\ parked' \subseteq parked \cup Held
    BY <1>5, StepTurns
  <2> QED
    BY <2>1, TurnsKept
<1> QED
  BY <1>1, <1>2, <1>3, <1>4, <1>5 DEF Next, Quiet

LEMMA InitTurns == Init => Turns
<1> SUFFICES ASSUME Init PROVE Turns
  OBVIOUS
<1>1. \A g \in Gens : recovers[g] = NoSteer /\ committed[g] = FALSE
  BY DEF Init
<1>2. Held = {} /\ removed = {}
  BY DEF Init, Held, Queued, ToSet
<1> QED
  BY <1>1, <1>2 DEF Turns

(***************************************************************************)
(* Theorems.                                                               *)
(***************************************************************************)

LEMMA InvWellKept == IInv /\ Orders => WellKept
<1> SUFFICES ASSUME IInv, Orders PROVE WellKept
  OBVIOUS
<1>1. TypeOK
  BY TypesAreTypes DEF IInv
<1>2. ASSUME NEW s \in ToSet(accepted) \ stray
      PROVE  \E p \in Places(s) : Places(s) = {p}
  <2>1. s \in Steers /\ s \in Accepted /\ s \notin stray
    BY <1>2, MemberTypes DEF IInv, Accepted
  <2>2. /\ receipt[s] # "none" /\ receipt[s] \in Receipts
        /\ s \in Queued  <=> receipt[s] = "queued"
        /\ s \in claimed <=> receipt[s] = "claimed"
        /\ s \in parked  <=> receipt[s] = "leftover"
    BY <2>1 DEF IInv, Fits, Listed, Types, TypeReceipts
  <2>3. CASE receipt[s] = "queued"
    <3>1. Places(s) = {"queue"}
      BY <2>2, <2>3 DEF Places, Final
    <3> QED
      BY <3>1
  <2>4. CASE receipt[s] = "claimed"
    <3>1. Places(s) = {"claimed"}
      BY <2>2, <2>4 DEF Places, Final
    <3> QED
      BY <3>1
  <2>5. CASE receipt[s] = "leftover"
    <3>1. Places(s) = {"parked"}
      BY <2>2, <2>5 DEF Places, Final
    <3> QED
      BY <3>1
  <2>6. CASE receipt[s] \in Final
    <3>1. Places(s) = {"final"}
      BY <2>2, <2>6 DEF Places, Final
    <3> QED
      BY <3>1
  <2> QED
    BY <2>2, <2>3, <2>4, <2>5, <2>6 DEF Receipts
<1>3. \A i, j \in DOMAIN queue : queue[i] = queue[j] => i = j
  BY DistinctQueue DEF Orders, Distinct
<1> QED
  BY <1>1, <1>2, <1>3 DEF WellKept, OnePlace

\* What a user was told is accepted is in one list or has a final receipt, whatever
\* scripts fail and in whichever order the run, the requests, the abort and the
\* cleanup come (RedisJobStore.ts, the scripts on the steer lists).
THEOREM SteersAreKept == Spec => []WellKept
BY InitInv, NextInv, InvWellKept, PTL DEF Spec

LEMMA InvDelivered == IInv /\ Turns => DeliveredOnce
<1> SUFFICES ASSUME IInv, Turns PROVE DeliveredOnce
  OBVIOUS
<1>1. \A s \in Steers : Ended(s) /\ Strayed(s)
  BY DEF IInv, Fits
<1>2. \A i, j \in DOMAIN parts : parts[i] = parts[j] => i = j
  BY DEF IInv, Distinct
<1>3. \A s \in Steers : s \in ToSet(parts) <=> receipt[s] = "delivered"
  BY <1>1 DEF Ended, Written
<1>4. (rows \cup removed) \cap ToSet(parts) = {}
  <2> SUFFICES ASSUME NEW s \in rows \cup removed, s \in ToSet(parts) PROVE FALSE
    OBVIOUS
  <2>1. s \in Steers
    BY DEF IInv, Types, TypeHistory
  <2> QED
    BY <1>1, <2>1 DEF Ended, Strayed, Past, Written
<1>5. \A g \in Gens : context[g] \subseteq ToSet(parts)
  BY DEF IInv, Runs, Written
<1>6. \A s \in Steers : receipt[s] = "recovered" => s \in rows
  BY <1>1 DEF Ended
<1>7. \A g, h \in Gens : committed[g] =>
         /\ recovers[g] \notin parked \cup claimed \cup Queued
         /\ g < h => recovers[h] # recovers[g]
  BY DEF Turns, Held
<1>8. \A s \in removed : receipt[s] = "cancelled" /\ (Recovering(s) => s \in stray)
  BY <1>1 DEF Turns, Ended, IInv, Types, TypeHistory
<1> QED
  BY <1>2, <1>3, <1>4, <1>5, <1>6, <1>7, <1>8 DEF DeliveredOnce

\* A message reaches the model once, as a part or as a turn of its own: a turn is not
\* tried again after its steer was taken out of the parked list, and no active
\* generation has a withdrawn steer as its turn, unless it was in a hash that expired
\* (the append, cancel, discard, create and consume scripts).
THEOREM OnceToTheModel == Spec => []DeliveredOnce
<1>1. IInv /\ Orders /\ Turns /\ [Next]_vars => (IInv /\ Orders /\ Turns)'
  BY NextInv, NextTurns
<1>2. Init => IInv /\ Orders /\ Turns
  BY InitInv, InitTurns
<1>3. IInv /\ Orders /\ Turns => DeliveredOnce
  BY InvDelivered
<1> QED
  BY <1>1, <1>2, <1>3, PTL DEF Spec

LEMMA InvOrdered == IInv /\ Orders => InstructionOrder
<1> SUFFICES ASSUME IInv, Orders, NEW s \in Steers, NEW t \in Steers,
                    Earlier(s, t), taken[s] = taken[t]
             PROVE  /\ ~Before(parts, t, s)
                    /\ t \in ToSet(parts) => s \notin Queued
  BY DEF InstructionOrder, Earlier
<1>1. ~Earlier(t, s)
  BY EarlierOnce DEF IInv, Types
<1>2. ~Before(parts, t, s)
  BY <1>1 DEF Before, Orders, OrderOfParts
<1>3. t \in ToSet(parts) => s \notin Queued
  BY <1>1 DEF Orders, OrderOfParts, Written
<1> QED
  BY <1>2, <1>3

\* Of two steers of a generation the later is not written before the earlier, nor
\* while the earlier is queued (the drain, append and restore scripts).
THEOREM InTheOrderGiven == Spec => []InstructionOrder
BY InitInv, NextInv, InvOrdered, PTL DEF Spec

ReceiptsFollow == \A s \in Steers : Follows(receipt[s], receipt'[s])

LEMMA MarkFollows ==
    ASSUME NEW S, NEW state, Mark(S, state), \A s \in S \cap Steers : Follows(receipt[s], state)
    PROVE  ReceiptsFollow
BY DEF ReceiptsFollow, Mark, Follows

LEMMA ReceiptSteps == IInv /\ [Next]_vars => ReceiptsFollow
<1> SUFFICES ASSUME IInv, [Next]_vars PROVE ReceiptsFollow
  OBVIOUS
<1>1. CASE UNCHANGED receipt
  BY <1>1 DEF ReceiptsFollow, Follows
<1>2. ASSUME NEW s \in Steers, ReadReceipt(s) \/ Cancel(s) \/ Discard(s)
      PROVE  ReceiptsFollow
  BY <1>2, MarkFollows DEF ReadReceipt, Cancel, Discard, Follows
<1>3. ASSUME NEW s \in Steers, NEW g \in Gens, Enqueue(s, g) PROVE ReceiptsFollow
  BY <1>3 DEF Enqueue, ReceiptsFollow, Follows, IInv, Types, TypeReceipts
<1>4. ASSUME NEW s \in Steers \cup {NoSteer}, Create(s) PROVE ReceiptsFollow
  <2>1. CASE job.gen # 0
    <3>1. Mark(claimed \cup Queued, "leftover")
      BY <1>4, <2>1 DEF Create
    <3>2. \A t \in claimed \cup Queued : receipt[t] \in {"queued", "claimed"}
      BY <2>1, Alive DEF IInv
    <3> QED
      BY <3>1, <3>2, MarkFollows DEF Follows
  <2>2. CASE job.gen = 0
    <3>1. Mark({}, "leftover")
      BY <1>4, <2>2 DEF Create
    <3> QED
      BY <3>1, MarkFollows
  <2> QED
    BY <2>1, <2>2
<1>5. ASSUME NEW g \in Gens, Drain(g) PROVE ReceiptsFollow
  BY <1>5, MarkFollows DEF Drain, Follows
<1>6. ASSUME NEW g \in Gens, CanApply(g), batch[g] # <<>>, WritePart(Head(batch[g]))
      PROVE  ReceiptsFollow
  <2>1. receipt[Head(batch[g])] = "claimed"
    BY <1>6 DEF CanApply, Claimed
  <2> QED
    BY <1>6, <2>1, MarkFollows DEF WritePart, Follows
<1>7. ASSUME NEW g \in Gens, CanRestore(g), Mark(ToSet(batch[g]), "queued")
      PROVE  ReceiptsFollow
  BY <1>7, MarkFollows DEF CanRestore, Claimed, Follows
<1>8. ASSUME NEW g \in Gens, Reap(g) \/ \E status \in Terminal : End(g, status)
      PROVE  ReceiptsFollow
  <2>1. job.gen # 0 /\ Mark(claimed \cup Queued, "leftover")
    BY <1>8, Ending DEF ParkAll
  <2>2. \A t \in claimed \cup Queued : receipt[t] \in {"queued", "claimed"}
    BY <2>1, Alive DEF IInv
  <2> QED
    BY <2>1, <2>2, MarkFollows DEF Follows
<1>9. ASSUME NEW g \in Gens, Commit(g) PROVE ReceiptsFollow
  BY <1>9, CommitFits DEF ReceiptsFollow, Follows
<1>10. \/ UNCHANGED receipt
       \/ \E s \in Steers : ReadReceipt(s) \/ Cancel(s) \/ Discard(s)
       \/ \E s \in Steers, g \in Gens : Enqueue(s, g)
       \/ \E s \in Steers \cup {NoSteer} : Create(s)
       \/ \E g \in Gens :
             \/ Drain(g) \/ Commit(g)
             \/ CanApply(g) /\ batch[g] # <<>> /\ WritePart(Head(batch[g]))
             \/ CanRestore(g) /\ Mark(ToSet(batch[g]), "queued")
             \/ Reap(g) \/ \E status \in Terminal : End(g, status)
  BY DEF Next, Apply, ApplyFails, Restore, Inject, Pause, Resume, SaveRow, CommitFails,
         Publish, Crash, Delete, Expire, ExpireList, vars, receipts, IInv, Runs
<1> QED
  BY <1>1, <1>2, <1>3, <1>4, <1>5, <1>6, <1>7, <1>8, <1>9, <1>10

\* A receipt that a client has read is corrected only forwards, and a final one stays
\* (the receipts of RedisJobStore.ts).
THEOREM ReceiptsStay == Spec => ReceiptsAreFinal
<1>1. IInv /\ Orders /\ [Next]_vars => [ReceiptsFollow]_receipt
  BY ReceiptSteps
<1> QED
  BY <1>1, InitInv, NextInv, PTL DEF Spec, ReceiptsAreFinal, ReceiptsFollow
=============================================================================
