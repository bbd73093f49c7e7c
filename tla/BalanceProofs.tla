---------------------------- MODULE BalanceProofs ----------------------------
(***************************************************************************)
(* Proofs about Balance, for any number of requests and servers, any       *)
(* amounts, and any bounds on attempts, intervals and faults.              *)
(*                                                                         *)
(* NothingLost and ConflictsArePaidFor relate the record to what a request *)
(* has read: the first is inductive with the types, the second once it is  *)
(* strict for requests that hold credits that have changed (Stale).  The   *)
(* other two need to know what a request can have done where it is         *)
(* (Phase).                                                                *)
(***************************************************************************)
EXTENDS Balance, TLAPS

\* What r has done so far, by where it is.
Phase(r) ==
    /\ pc[r] \in {"new", "init"} =>
          job[r] = "none" /\ \A j \in Jobs : <<r, j>> \notin ok
    /\ pc[r] = "run" => \A j \in {"single", "bulk"} : <<r, j>> \notin ok
    /\ pc[r] \in {"row", "read", "write"} =>
          /\ job[r] \in Jobs
          /\ \A j \in Jobs : j = job[r] \/ j # "refill" => <<r, j>> \notin ok
    /\ pc[r] \in {"new", "init", "row", "read", "write"} => tries[r] < MaxAttempts
    /\ pc[r] = "row" => job[r] # "bulk"
    /\ pc[r] \in {"read", "write"} /\ job[r] # "bulk" => <<r, job[r]>> \in journal
    /\ pc[r] = "insert" => made[<<r, "bulk">>] > 0

Phases == \A r \in Requests : Phase(r)

\* A request that is to swap credits it has read, which have changed since, has
\* been charged fewer conflicts than there were changes.
Stale ==
    \A r \in Requests : pc[r] = "write" /\ ~Swaps(r) => conflicts[r] < changes

IInv == /\ TypeOK /\ NothingLost /\ MadeOnce /\ JournalFits
        /\ Phases /\ ConflictsArePaidFor /\ Stale

(***************************************************************************)
(* Types                                                                   *)
(***************************************************************************)

\* Credits never fall below zero.
LEMMA ClampNat ==
    ASSUME NEW n \in Int
    PROVE  Clamp(n) \in Nat
BY DEF Clamp

\* A change adds or takes a number of credits.
LEMMA AmountInt ==
    ASSUME NEW r
    PROVE  Amount(r) \in Int
BY BalanceAssumption DEF Amount

\* A record that is set to the start balance is well formed.
LEMMA SetStartTypes ==
    ASSUME TypeOK, SetStart
    PROVE  /\ credits' \in Nat \cup {None} /\ due' \in BOOLEAN /\ ledger' \in Nat
           /\ overwritten' \in BOOLEAN /\ changes' \in Nat
<1>1. credits' \in Nat \cup {None} /\ ledger' \in Nat
  BY BalanceAssumption DEF TypeOK, SetStart
<1>2. due' \in BOOLEAN
  BY DEF SetStart
<1>3. overwritten' \in BOOLEAN
  BY DEF SetStart
<1>4. changes' \in Nat
  BY DEF TypeOK, SetStart
<1> QED
  BY <1>1, <1>2, <1>3, <1>4

\* So is one that has been changed.
LEMMA SetCreditsTypes ==
    ASSUME TypeOK, NEW r \in Requests, job[r] \in Jobs, SetCredits(r)
    PROVE  /\ credits' \in Nat /\ due' \in BOOLEAN /\ ledger' \in Nat
           /\ overwritten' \in BOOLEAN /\ changes' \in Nat
           /\ made' \in [Requests \X Jobs -> Nat]
<1>1. Amount(r) \in Int
  BY AmountInt
<1>2. (IF seen[r] = None THEN 0 ELSE seen[r]) + Amount(r) \in Int
  BY <1>1 DEF TypeOK, None
<1>3. (IF credits = None THEN 0 ELSE ledger) + Amount(r) \in Int
  BY <1>1 DEF TypeOK
<1>4. credits' \in Nat /\ ledger' \in Nat
  BY <1>2, <1>3, ClampNat DEF SetCredits
<1>5. due' \in BOOLEAN /\ overwritten' \in BOOLEAN /\ changes' \in Nat
  BY DEF TypeOK, SetCredits
<1>6. made' \in [Requests \X Jobs -> Nat]
  BY DEF TypeOK, SetCredits
<1> QED
  BY <1>4, <1>5, <1>6

\* Where the end of a change leads.
LEMMA LeaveTypes ==
    ASSUME TypeOK, NEW r \in Requests, NEW balance, NEW next \in {"insert", "done"},
           Leave(r, balance, next)
    PROVE  /\ pc' = [pc EXCEPT ![r] = pc'[r]]
           /\ pc'[r] \in {"run", "refused", "insert", "done"}
           /\ pc'[r] \in {"run", "refused"} => job[r] = "refill"
           /\ pc'[r] \in {"insert", "done"} => job[r] # "refill" /\ pc'[r] = next
BY DEF TypeOK, Leave, Admit, Goto

\* And where a failed attempt leads.
LEMMA AgainTypes ==
    ASSUME TypeOK, NEW r \in Requests, Again(r)
    PROVE  /\ pc' = [pc EXCEPT ![r] = pc'[r]]
           /\ pc'[r] \in {"read", "run", "refused", "done"}
           /\ pc'[r] \in {"run", "refused"} => job[r] = "refill"
           /\ tries' = [tries EXCEPT ![r] = @ + 1]
           /\ tries[r] < MaxAttempts => tries' \in [Requests -> 0..MaxAttempts]
<1>1. CASE tries[r] + 1 < MaxAttempts
  BY <1>1, BalanceAssumption DEF TypeOK, Again, Goto
<1>2. CASE ~(tries[r] + 1 < MaxAttempts)
  <2>1. Leave(r, shown[r], "done")
    BY <1>2 DEF Again
  <2> QED
    BY <1>2, <2>1, LeaveTypes, BalanceAssumption DEF TypeOK, Again
<1> QED
  BY <1>1, <1>2

(***************************************************************************)
(* What a step leaves as it is                                             *)
(***************************************************************************)

\* Nothing of a request changes but what it has done, for which the history
\* only grows.
LEMMA PhaseKept ==
    ASSUME NEW q \in Requests, Phase(q),
           pc'[q] = pc[q], job'[q] = job[q], tries'[q] = tries[q],
           \A j \in Jobs : <<q, j>> \in ok' <=> <<q, j>> \in ok,
           journal \subseteq journal',
           made'[<<q, "bulk">>] = made[<<q, "bulk">>]
    PROVE  Phase(q)'
BY DEF Phase, Jobs

\* The properties of the effects, when a step has none.
LEMMA NoEffects ==
    ASSUME MadeOnce, JournalFits, UNCHANGED <<journal, made, lost, ok>>
    PROVE  MadeOnce' /\ JournalFits'
<1>1. MadeOnce'
  BY DEF MadeOnce
<1>2. JournalFits'
  BY DEF JournalFits
<1> QED
  BY <1>1, <1>2

\* NothingLost, when a step leaves the record.
LEMMA RecordKept ==
    ASSUME NothingLost, UNCHANGED record
    PROVE  NothingLost'
BY DEF NothingLost, record

\* Somebody who sets the start balance where there is a record overwrites it.
LEMMA SetStartLosesNothing ==
    ASSUME NothingLost, SetStart
    PROVE  NothingLost'
BY DEF NothingLost, SetStart, None

\* A swap applies a change to what all changes so far have left.
LEMMA SwapLosesNothing ==
    ASSUME NothingLost, NEW r \in Requests, Swaps(r), SetCredits(r)
    PROVE  NothingLost'
<1> SUFFICES ASSUME ~overwritten'
             PROVE  credits' = ledger'
  BY DEF NothingLost
<1>1. ~overwritten /\ ~(seen[r] = None /\ credits # None)
  BY DEF SetCredits
<1>2. seen[r] = credits
  BY <1>1 DEF Swaps
<1>3. CASE credits = None
  BY <1>2, <1>3 DEF SetCredits
<1>4. CASE credits # None
  <2>1. credits = ledger
    BY <1>1, <1>4 DEF NothingLost
  <2> QED
    BY <1>2, <1>4, <2>1 DEF SetCredits
<1> QED
  BY <1>3, <1>4

\* Conflicts, when the record is left or changed and no conflict is met: only
\* the request that goes to write what it has read must be looked at.
LEMMA NoConflict ==
    ASSUME TypeOK, ConflictsArePaidFor, Stale, UNCHANGED conflicts,
           \/ UNCHANGED <<credits, changes>> \/ changes' = changes + 1,
           \A q \in Requests : pc'[q] = "write" =>
               \/ pc[q] = "write" /\ seen'[q] = seen[q]
               \/ seen'[q] = credits'
    PROVE  ConflictsArePaidFor' /\ Stale'
<1>1. changes' >= changes /\ \A q \in Requests : conflicts[q] \in Nat
  BY DEF TypeOK
<1>2. ConflictsArePaidFor'
  BY <1>1 DEF TypeOK, ConflictsArePaidFor
<1>3. ASSUME NEW q \in Requests, pc'[q] = "write", ~Swaps(q)'
      PROVE  conflicts'[q] < changes'
  <2>1. pc[q] = "write" /\ seen'[q] = seen[q] /\ seen[q] # credits' /\ seen[q] # None
    BY <1>3 DEF Swaps
  <2>2. CASE UNCHANGED <<credits, changes>>
    BY <2>1, <2>2 DEF Stale, Swaps
  <2>3. CASE changes' = changes + 1
    BY <1>1, <2>3 DEF TypeOK, ConflictsArePaidFor
  <2> QED
    BY <2>2, <2>3
<1> QED
  BY <1>2, <1>3 DEF Stale

(***************************************************************************)
(* One lemma for each step                                                 *)
(***************************************************************************)

LEMMA InitOK == Init => IInv
<1> SUFFICES ASSUME Init
             PROVE  IInv
  OBVIOUS
<1> USE DEF Init
<1>1. TypeOK
  <2>1. credits \in Nat \cup {None} /\ ledger \in Nat
    BY BalanceAssumption
  <2>2. made \in [Requests \X Jobs -> Nat] /\ lost \in [Requests \X Jobs -> Nat]
    OBVIOUS
  <2>3. tries \in [Requests -> 0..MaxAttempts] /\ shown \in [Requests -> Nat]
        /\ seen \in [Requests -> Nat \cup {None}] /\ conflicts \in [Requests -> Nat]
    BY BalanceAssumption
  <2>4. periods \in 0..MaxPeriods /\ faults \in 0..MaxFaults /\ changes \in Nat
    BY BalanceAssumption
  <2>6. /\ visit \in [Servers -> BOOLEAN] /\ due \in BOOLEAN /\ overwritten \in BOOLEAN
        /\ journal \subseteq Requests \X Jobs /\ ok \subseteq Requests \X Jobs
    OBVIOUS
  <2>5. /\ job \in [Requests -> Jobs \cup {"none"}]
        /\ pc \in [Requests -> Over \cup {"new", "init", "row", "read", "write",
                                           "run", "insert"}]
    OBVIOUS
  <2> QED
    BY <2>1, <2>2, <2>3, <2>4, <2>5, <2>6 DEF TypeOK
<1>2. NothingLost
  BY DEF NothingLost
<1>3. MadeOnce
  BY DEF MadeOnce
<1>4. JournalFits
  <2>1. \A r \in Requests, j \in Jobs : made[<<r, j>>] = 0
    OBVIOUS
  <2>2. journal = {}
    OBVIOUS
  <2>3. {"refill", "single", "bulk"} \subseteq Jobs
    BY DEF Jobs
  <2> HIDE DEF Init
  <2> SUFFICES ASSUME NEW r \in Requests
               PROVE  /\ \A j \in {"refill", "single"} :
                            made[<<r, j>>] > 0 => <<r, j>> \in journal
                      /\ <<r, "bulk">> \in journal => made[<<r, "bulk">>] > 0
    BY DEF JournalFits
  <2>4. \A j \in {"refill", "single"} : ~ (made[<<r, j>>] > 0)
    BY <2>1, <2>3, SMT
  <2> QED
    BY <2>2, <2>4
<1>5. Phases
  <2>1. \A r \in Requests : pc[r] = "new" /\ job[r] = "none" /\ tries[r] = 0
    OBVIOUS
  <2>2. ok = {}
    OBVIOUS
  <2> HIDE DEF Init
  <2>3. 0 < MaxAttempts
    BY BalanceAssumption
  <2> SUFFICES ASSUME NEW r \in Requests
               PROVE  Phase(r)
    BY DEF Phases
  <2>4. tries[r] < MaxAttempts
    BY <2>1, <2>3
  <2>5. /\ \A j \in Jobs : <<r, j>> \notin ok
        /\ \A j \in {"single", "bulk"} : <<r, j>> \notin ok
    BY <2>2
  <2> QED
    BY <2>1, <2>4, <2>5, Zenon DEF Phase
<1>6. ConflictsArePaidFor /\ Stale
  BY DEF ConflictsArePaidFor, Stale
<1> QED
  BY <1>1, <1>2, <1>3, <1>4, <1>5, <1>6 DEF IInv

LEMMA StutterOK == IInv /\ UNCHANGED vars => IInv'
<1> SUFFICES ASSUME IInv, UNCHANGED vars
             PROVE  IInv'
  OBVIOUS
<1> USE DEF IInv, vars, record, request, effects, bounds
<1>1. TypeOK' /\ NothingLost'
  BY DEF TypeOK, NothingLost
<1>2. MadeOnce' /\ JournalFits'
  BY NoEffects
<1>3. Phases'
  BY DEF Phases, Phase
<1>4. ConflictsArePaidFor' /\ Stale'
  BY NoConflict
<1> QED
  BY <1>1, <1>2, <1>3, <1>4

LEMMA IntervalPassesOK ==
    ASSUME IInv, IntervalPasses
    PROVE  IInv'
<1> USE DEF IInv, IntervalPasses, request, effects
<1>1. TypeOK'
  <2>1. periods' \in 0..MaxPeriods
    BY BalanceAssumption DEF TypeOK
  <2> QED
    BY <2>1 DEF TypeOK
<1>2. NothingLost'
  BY DEF NothingLost
<1>3. MadeOnce' /\ JournalFits'
  BY NoEffects
<1>4. Phases'
  BY DEF Phases, Phase
<1>5. ConflictsArePaidFor' /\ Stale'
  BY NoConflict
<1> QED
  BY <1>1, <1>2, <1>3, <1>4, <1>5

LEMMA VisitFindsOK ==
    ASSUME IInv, NEW s \in Servers, VisitFinds(s)
    PROVE  IInv'
<1> USE DEF IInv, VisitFinds, record, request, effects, bounds
<1>1. TypeOK'
  BY DEF TypeOK
<1>2. NothingLost'
  BY RecordKept
<1>3. MadeOnce' /\ JournalFits'
  BY NoEffects
<1>4. Phases'
  BY DEF Phases, Phase
<1>5. ConflictsArePaidFor' /\ Stale'
  BY NoConflict
<1> QED
  BY <1>1, <1>2, <1>3, <1>4, <1>5

LEMMA VisitSetsOK ==
    ASSUME IInv, NEW s \in Servers, VisitSets(s)
    PROVE  IInv'
<1> USE DEF IInv, VisitSets, request, effects, bounds
<1>1. TypeOK'
  <2>1. visit' \in [Servers -> BOOLEAN]
    BY DEF TypeOK
  <2> QED
    BY <2>1, SetStartTypes DEF TypeOK
<1>2. NothingLost'
  BY SetStartLosesNothing
<1>3. MadeOnce' /\ JournalFits'
  BY NoEffects
<1>4. Phases'
  BY DEF Phases, Phase
<1>5. ConflictsArePaidFor' /\ Stale'
  BY NoConflict DEF SetStart
<1> QED
  BY <1>1, <1>2, <1>3, <1>4, <1>5

LEMMA CheckOK ==
    ASSUME IInv, NEW r \in Requests, Check(r)
    PROVE  IInv'
<1> USE DEF IInv, Check, record, effects, bounds
<1>1. TypeOK'
  <2>1. pc' \in [Requests -> Over \cup {"new", "init", "row", "read", "write",
                                        "run", "insert"}]
    BY DEF TypeOK, Goto, Admit, Over
  <2>2. job' \in [Requests -> Jobs \cup {"none"}] /\ shown' \in [Requests -> Nat]
    BY DEF TypeOK, Jobs
  <2> QED
    BY <2>1, <2>2 DEF TypeOK
<1>2. NothingLost'
  BY RecordKept
<1>3. MadeOnce' /\ JournalFits'
  BY NoEffects
<1>4. Phase(r)'
  <2>1. \/ pc'[r] = "row" /\ job'[r] = "refill"
        \/ pc'[r] \in {"run", "refused"} /\ job'[r] = job[r]
    BY DEF TypeOK, Goto, Admit
  <2>2. tries[r] < MaxAttempts /\ \A j \in Jobs : <<r, j>> \notin ok
    BY DEF Phases, Phase
  <2> QED
    BY <2>1, <2>2 DEF Phase, Jobs
<1>5. ASSUME NEW q \in Requests, q # r
      PROVE  Phase(q)'
  <2>1. pc'[q] = pc[q] /\ job'[q] = job[q] /\ tries'[q] = tries[q]
    BY <1>5 DEF TypeOK, Goto, Admit
  <2> QED
    BY <2>1, PhaseKept DEF Phases
<1>6. ConflictsArePaidFor' /\ Stale'
  <2>1. \A q \in Requests : pc'[q] = "write" => pc[q] = "write"
    BY DEF TypeOK, Goto, Admit
  <2> QED
    BY <2>1, NoConflict
<1> QED
  BY <1>1, <1>2, <1>3, <1>4, <1>5, <1>6 DEF Phases

LEMMA CheckFindsNoneOK ==
    ASSUME IInv, NEW r \in Requests, CheckFindsNone(r)
    PROVE  IInv'
<1> USE DEF IInv, CheckFindsNone, record, effects, bounds
<1>1. TypeOK'
  <2>1. pc' \in [Requests -> Over \cup {"new", "init", "row", "read", "write",
                                        "run", "insert"}]
    BY DEF TypeOK, Goto, Over
  <2> QED
    BY <2>1 DEF TypeOK
<1>2. NothingLost'
  BY RecordKept
<1>3. MadeOnce' /\ JournalFits'
  BY NoEffects
<1>4. Phase(r)'
  <2>1. pc'[r] = "init"
    BY DEF TypeOK, Goto
  <2>2. Phase(r) /\ pc[r] = "new"
    BY DEF Phases
  <2> QED
    BY <2>1, <2>2 DEF Phase, Jobs
<1>5. ASSUME NEW q \in Requests, q # r
      PROVE  Phase(q)'
  <2>1. pc'[q] = pc[q] /\ job'[q] = job[q] /\ tries'[q] = tries[q]
    BY <1>5 DEF TypeOK, Goto, Admit
  <2> QED
    BY <2>1, PhaseKept DEF Phases
<1>6. ConflictsArePaidFor' /\ Stale'
  <2>1. \A q \in Requests : pc'[q] = "write" => pc[q] = "write"
    BY DEF TypeOK, Goto, Admit
  <2> QED
    BY <2>1, NoConflict
<1> QED
  BY <1>1, <1>2, <1>3, <1>4, <1>5, <1>6 DEF Phases

LEMMA RunUncheckedOK ==
    ASSUME IInv, NEW r \in Requests, RunUnchecked(r)
    PROVE  IInv'
<1> USE DEF IInv, RunUnchecked, record, effects, bounds
<1>1. TypeOK'
  <2>1. pc' \in [Requests -> Over \cup {"new", "init", "row", "read", "write",
                                        "run", "insert"}]
    BY DEF TypeOK, Goto, Over
  <2> QED
    BY <2>1 DEF TypeOK
<1>2. NothingLost'
  BY RecordKept
<1>3. MadeOnce' /\ JournalFits'
  BY NoEffects
<1>4. Phase(r)'
  <2>1. pc'[r] = "run"
    BY DEF TypeOK, Goto
  <2>2. Phase(r) /\ pc[r] = "new"
    BY DEF Phases
  <2> QED
    BY <2>1, <2>2 DEF Phase, Jobs
<1>5. ASSUME NEW q \in Requests, q # r
      PROVE  Phase(q)'
  <2>1. pc'[q] = pc[q] /\ job'[q] = job[q] /\ tries'[q] = tries[q]
    BY <1>5 DEF TypeOK, Goto, Admit
  <2> QED
    BY <2>1, PhaseKept DEF Phases
<1>6. ConflictsArePaidFor' /\ Stale'
  <2>1. \A q \in Requests : pc'[q] = "write" => pc[q] = "write"
    BY DEF TypeOK, Goto, Admit
  <2> QED
    BY <2>1, NoConflict
<1> QED
  BY <1>1, <1>2, <1>3, <1>4, <1>5, <1>6 DEF Phases

LEMMA CrashOK ==
    ASSUME IInv, NEW r \in Requests, Crash(r)
    PROVE  IInv'
<1> USE DEF IInv, Crash, record, effects, bounds
<1>1. TypeOK'
  <2>1. pc' \in [Requests -> Over \cup {"new", "init", "row", "read", "write",
                                        "run", "insert"}]
    BY DEF TypeOK, Goto, Over
  <2>2. faults' \in 0..MaxFaults
    BY BalanceAssumption DEF TypeOK, Fault
  <2> QED
    BY <2>1, <2>2 DEF TypeOK
<1>2. NothingLost'
  BY RecordKept
<1>3. MadeOnce' /\ JournalFits'
  BY NoEffects
<1>4. Phase(r)'
  <2>1. pc'[r] = "dead"
    BY DEF TypeOK, Goto
  <2> QED
    BY <2>1 DEF Phase
<1>5. ASSUME NEW q \in Requests, q # r
      PROVE  Phase(q)'
  <2>1. pc'[q] = pc[q] /\ job'[q] = job[q] /\ tries'[q] = tries[q]
    BY <1>5 DEF TypeOK, Goto, Admit
  <2> QED
    BY <2>1, PhaseKept DEF Phases
<1>6. ConflictsArePaidFor' /\ Stale'
  <2>1. \A q \in Requests : pc'[q] = "write" => pc[q] = "write"
    BY DEF TypeOK, Goto, Admit
  <2> QED
    BY <2>1, NoConflict
<1> QED
  BY <1>1, <1>2, <1>3, <1>4, <1>5, <1>6 DEF Phases

LEMMA FinishOK ==
    ASSUME IInv, NEW r \in Requests, NEW kind, Finish(r, kind)
    PROVE  IInv'
<1> USE DEF IInv, Finish, record, effects, bounds
<1>1. TypeOK'
  <2>1. pc' \in [Requests -> Over \cup {"new", "init", "row", "read", "write",
                                        "run", "insert"}]
    BY DEF TypeOK, Goto, Over
  <2>2. job' \in [Requests -> Jobs \cup {"none"}]
        /\ tries' \in [Requests -> 0..MaxAttempts]
    BY BalanceAssumption DEF TypeOK, Jobs
  <2> QED
    BY <2>1, <2>2 DEF TypeOK
<1>2. NothingLost'
  BY RecordKept
<1>3. MadeOnce' /\ JournalFits'
  BY NoEffects
<1>4. Phase(r)'
  <2>1. /\ pc'[r] = (IF kind = "bulk" THEN "read" ELSE "row")
        /\ job'[r] = kind /\ tries'[r] = 0
    BY DEF TypeOK, Goto
  <2>2. \A j \in {"single", "bulk"} : <<r, j>> \notin ok
    BY DEF Phases, Phase
  <2> QED
    BY <2>1, <2>2, BalanceAssumption DEF Phase, Jobs
<1>5. ASSUME NEW q \in Requests, q # r
      PROVE  Phase(q)'
  <2>1. pc'[q] = pc[q] /\ job'[q] = job[q] /\ tries'[q] = tries[q]
    BY <1>5 DEF TypeOK, Goto, Admit
  <2> QED
    BY <2>1, PhaseKept DEF Phases
<1>6. ConflictsArePaidFor' /\ Stale'
  <2>1. \A q \in Requests : pc'[q] = "write" => pc[q] = "write"
    BY DEF TypeOK, Goto, Admit
  <2> QED
    BY <2>1, NoConflict
<1> QED
  BY <1>1, <1>2, <1>3, <1>4, <1>5, <1>6 DEF Phases

LEMMA InitRecordOK ==
    ASSUME IInv, NEW r \in Requests, InitRecord(r)
    PROVE  IInv'
<1> USE DEF IInv, InitRecord, effects, bounds
<1>1. TypeOK'
  <2>1. pc' \in [Requests -> Over \cup {"new", "init", "row", "read", "write",
                                        "run", "insert"}]
    BY DEF TypeOK, Goto, Admit, Over
  <2> QED
    BY <2>1, SetStartTypes DEF TypeOK
<1>2. NothingLost'
  BY SetStartLosesNothing
<1>3. MadeOnce' /\ JournalFits'
  BY NoEffects
<1>4. Phase(r)'
  <2>1. pc'[r] \in {"run", "refused"}
    BY DEF TypeOK, Goto, Admit
  <2>2. Phase(r)
    BY DEF Phases
  <2> QED
    BY <2>1, <2>2 DEF Phase, Jobs
<1>5. ASSUME NEW q \in Requests, q # r
      PROVE  Phase(q)'
  <2>1. pc'[q] = pc[q] /\ job'[q] = job[q] /\ tries'[q] = tries[q]
    BY <1>5 DEF TypeOK, Goto, Admit
  <2> QED
    BY <2>1, PhaseKept DEF Phases
<1>6. ConflictsArePaidFor' /\ Stale'
  <2>1. \A q \in Requests : pc'[q] = "write" => pc[q] = "write"
    BY DEF TypeOK, Goto, Admit
  <2> QED
    BY <2>1, NoConflict DEF SetStart
<1> QED
  BY <1>1, <1>2, <1>3, <1>4, <1>5, <1>6 DEF Phases

LEMMA CheckFailsOK ==
    ASSUME IInv, NEW r \in Requests, CheckFails(r)
    PROVE  IInv'
<1> USE DEF IInv, CheckFails, effects, bounds
<1>1. TypeOK'
  <2>1. pc' \in [Requests -> Over \cup {"new", "init", "row", "read", "write",
                                        "run", "insert"}]
    BY DEF TypeOK, Goto, Over
  <2>2. faults' \in 0..MaxFaults
    BY BalanceAssumption DEF TypeOK, Fault
  <2>3. CASE UNCHANGED record
    BY <2>1, <2>2, <2>3 DEF TypeOK, record
  <2>4. CASE SetStart
    BY <2>1, <2>2, <2>4, SetStartTypes DEF TypeOK
  <2> QED
    BY <2>3, <2>4
<1>2. NothingLost'
  BY RecordKept, SetStartLosesNothing
<1>3. MadeOnce' /\ JournalFits'
  BY NoEffects
<1>4. Phase(r)'
  <2>1. pc'[r] = "refused"
    BY DEF TypeOK, Goto
  <2> QED
    BY <2>1 DEF Phase
<1>5. ASSUME NEW q \in Requests, q # r
      PROVE  Phase(q)'
  <2>1. pc'[q] = pc[q] /\ job'[q] = job[q] /\ tries'[q] = tries[q]
    BY <1>5 DEF TypeOK, Goto
  <2> QED
    BY <2>1, PhaseKept DEF Phases
<1>6. ConflictsArePaidFor' /\ Stale'
  <2>1. \A q \in Requests : pc'[q] = "write" => pc[q] = "write"
    BY DEF TypeOK, Goto
  <2>2. UNCHANGED <<credits, changes>> \/ changes' = changes + 1
    BY DEF SetStart, record
  <2> QED
    BY <2>1, <2>2, NoConflict
<1> QED
  BY <1>1, <1>2, <1>3, <1>4, <1>5, <1>6 DEF Phases

LEMMA StoreRowOK ==
    ASSUME IInv, NEW r \in Requests, StoreRow(r)
    PROVE  IInv'
<1> USE DEF IInv, StoreRow, record, effects, bounds
<1> job[r] \in {"refill", "single"}
  BY DEF Phases, Phase, Jobs
<1>a. /\ pc' = [pc EXCEPT ![r] = pc'[r]]
      /\ \/ pc'[r] = "read" /\ <<r, job[r]>> \in journal'
         \/ pc'[r] \in {"run", "refused"} /\ job[r] = "refill"
         \/ pc'[r] = "done"
  <2>1. CASE Goto(r, "read") /\ <<r, job[r]>> \in journal'
    BY <2>1 DEF TypeOK, Goto
  <2>2. CASE Leave(r, shown[r], "done")
    BY <2>2, LeaveTypes
  <2> QED
    BY <2>1, <2>2
<1>b. journal' \in {journal, journal \cup {<<r, job[r]>>}}
  OBVIOUS
<1>1. TypeOK'
  <2>1. pc' \in [Requests -> Over \cup {"new", "init", "row", "read", "write",
                                        "run", "insert"}]
    BY <1>a DEF TypeOK, Over
  <2>2. faults' \in 0..MaxFaults
    BY BalanceAssumption DEF TypeOK, Fault
  <2>3. journal' \subseteq Requests \X Jobs
    BY <1>b DEF TypeOK, Jobs
  <2> QED
    BY <2>1, <2>2, <2>3 DEF TypeOK
<1>2. NothingLost'
  BY RecordKept
<1>3. MadeOnce'
  BY DEF MadeOnce
<1>4. JournalFits'
  <2>1. \A q \in Requests : <<q, "bulk">> \in journal' => <<q, "bulk">> \in journal
    BY <1>b
  <2>2. journal \subseteq journal' /\ made' = made
    BY <1>b
  <2> QED
    BY <2>1, <2>2 DEF JournalFits
<1>5. Phase(r)'
  <2>1. /\ tries'[r] < MaxAttempts /\ job'[r] = job[r]
        /\ \A j \in Jobs : j = job[r] \/ j # "refill" => <<r, j>> \notin ok'
    BY DEF Phases, Phase
  <2> QED
    BY <1>a, <2>1 DEF Phase, Jobs
<1>6. ASSUME NEW q \in Requests, q # r
      PROVE  Phase(q)'
  <2>1. pc'[q] = pc[q] /\ job'[q] = job[q] /\ tries'[q] = tries[q]
    BY <1>6, <1>a DEF TypeOK
  <2> QED
    BY <1>b, <2>1, PhaseKept DEF Phases
<1>7. ConflictsArePaidFor' /\ Stale'
  <2>1. \A q \in Requests : pc'[q] = "write" => pc[q] = "write"
    BY <1>a DEF TypeOK
  <2> QED
    BY <2>1, NoConflict
<1> QED
  BY <1>1, <1>2, <1>3, <1>4, <1>5, <1>6, <1>7 DEF Phases

LEMMA ReadOK ==
    ASSUME IInv, NEW r \in Requests, Read(r)
    PROVE  IInv'
<1> USE DEF IInv, Read, record, effects, bounds
<1>a. tries[r] < MaxAttempts
  BY DEF Phases, Phase
<1>b. /\ pc' = [pc EXCEPT ![r] = pc'[r]]
      /\ \/ /\ pc'[r] = "write" /\ tries' = tries
            /\ seen' = [seen EXCEPT ![r] = credits]
         \/ /\ pc'[r] \in {"read", "run", "refused", "done"}
            /\ pc'[r] \in {"run", "refused"} => job[r] = "refill"
            /\ pc'[r] = "read" => tries[r] + 1 < MaxAttempts
            /\ tries' = [tries EXCEPT ![r] = @ + 1] /\ seen' = seen
  <2>1. CASE Again(r) /\ UNCHANGED seen
    <3>1. pc'[r] = "read" => tries[r] + 1 < MaxAttempts
      BY <2>1, LeaveTypes DEF Again
    <3> QED
      BY <2>1, <3>1, AgainTypes
  <2>2. CASE Goto(r, "write") /\ seen' = [seen EXCEPT ![r] = credits]
             /\ UNCHANGED <<tries, faults>>
    BY <2>2 DEF TypeOK, Goto
  <2> QED
    BY <2>1, <2>2
<1>1. TypeOK'
  <2>1. pc' \in [Requests -> Over \cup {"new", "init", "row", "read", "write",
                                        "run", "insert"}]
    BY <1>b DEF TypeOK, Over
  <2>2. faults' \in 0..MaxFaults
    BY BalanceAssumption DEF TypeOK, Fault
  <2>3. tries' \in [Requests -> 0..MaxAttempts]
    BY <1>a, <1>b, BalanceAssumption DEF TypeOK
  <2>4. seen' \in [Requests -> Nat \cup {None}]
    BY <1>b DEF TypeOK
  <2> QED
    BY <2>1, <2>2, <2>3, <2>4 DEF TypeOK
<1>2. NothingLost'
  BY RecordKept
<1>3. MadeOnce' /\ JournalFits'
  BY NoEffects
<1>4. Phase(r)'
  <2>1. Phase(r) /\ pc[r] = "read"
    BY DEF Phases
  <2>2. tries[r] \in Nat /\ tries'[r] \in {tries[r], tries[r] + 1}
        /\ (pc'[r] = "write" => tries'[r] = tries[r])
        /\ (pc'[r] = "read" => tries'[r] < MaxAttempts)
    BY <1>b DEF TypeOK
  <2> QED
    BY <1>b, <2>1, <2>2 DEF Phase, Jobs
<1>5. ASSUME NEW q \in Requests, q # r
      PROVE  Phase(q)'
  <2>1. pc'[q] = pc[q] /\ job'[q] = job[q] /\ tries'[q] = tries[q]
    BY <1>5, <1>b DEF TypeOK
  <2> QED
    BY <2>1, PhaseKept DEF Phases
<1>6. ConflictsArePaidFor' /\ Stale'
  <2>1. ASSUME NEW q \in Requests, pc'[q] = "write"
        PROVE  \/ pc[q] = "write" /\ seen'[q] = seen[q]
               \/ seen'[q] = credits'
    BY <1>b, <2>1 DEF TypeOK
  <2> QED
    BY <2>1, NoConflict
<1> QED
  BY <1>1, <1>2, <1>3, <1>4, <1>5, <1>6 DEF Phases

LEMMA InsertOK ==
    ASSUME IInv, NEW r \in Requests, Insert(r)
    PROVE  IInv'
<1> USE DEF IInv, Insert, record, effects, bounds
<1>a. pc' = [pc EXCEPT ![r] = "done"]
  BY DEF Goto
<1>b. journal' \in {journal, journal \cup {<<r, "bulk">>}}
  OBVIOUS
<1>c. made[<<r, "bulk">>] > 0
  BY DEF Phases, Phase
<1>1. TypeOK'
  <2>1. pc' \in [Requests -> Over \cup {"new", "init", "row", "read", "write",
                                        "run", "insert"}]
    BY <1>a DEF TypeOK, Over
  <2>2. faults' \in 0..MaxFaults
    BY BalanceAssumption DEF TypeOK, Fault
  <2>3. journal' \subseteq Requests \X Jobs
    BY <1>b DEF TypeOK, Jobs
  <2> QED
    BY <2>1, <2>2, <2>3 DEF TypeOK
<1>2. NothingLost'
  BY RecordKept
<1>3. MadeOnce'
  BY DEF MadeOnce
<1>4. JournalFits'
  <2>1. journal \subseteq journal' /\ made' = made
    BY <1>b
  <2>2. \A q \in Requests : <<q, "bulk">> \in journal' =>
             q = r \/ <<q, "bulk">> \in journal
    BY <1>b
  <2> QED
    BY <1>c, <2>1, <2>2 DEF JournalFits
<1>5. Phase(r)'
  <2>1. pc'[r] = "done"
    BY <1>a DEF TypeOK
  <2> QED
    BY <2>1 DEF Phase
<1>6. ASSUME NEW q \in Requests, q # r
      PROVE  Phase(q)'
  <2>1. pc'[q] = pc[q] /\ job'[q] = job[q] /\ tries'[q] = tries[q]
    BY <1>6, <1>a DEF TypeOK
  <2> QED
    BY <1>b, <2>1, PhaseKept DEF Phases
<1>7. ConflictsArePaidFor' /\ Stale'
  <2>1. \A q \in Requests : pc'[q] = "write" => pc[q] = "write"
    BY <1>a DEF TypeOK
  <2> QED
    BY <2>1, NoConflict
<1> QED
  BY <1>1, <1>2, <1>3, <1>4, <1>5, <1>6, <1>7 DEF Phases

LEMMA SucceedOK ==
    ASSUME IInv, NEW r \in Requests, pc[r] = "write", Succeed(r),
           UNCHANGED <<visit, job, shown, seen, journal, periods>>
    PROVE  IInv'
<1> USE DEF IInv, Succeed
<1> DEFINE c == <<r, job[r]>>
<1>a. job[r] \in Jobs /\ c \notin ok /\ Phase(r) /\ c \in Requests \X Jobs
  BY DEF Phases, Phase
<1>b. /\ pc' = [pc EXCEPT ![r] = pc'[r]]
      /\ pc'[r] \in {"run", "refused", "insert", "done"}
      /\ pc'[r] \in {"run", "refused"} => job[r] = "refill"
      /\ pc'[r] = "insert" => job[r] = "bulk"
  <2> DEFINE next == IF job[r] = "bulk" THEN "insert" ELSE "done"
  <2>1. Leave(r, credits', next) /\ next \in {"insert", "done"}
    OBVIOUS
  <2> QED
    BY <2>1, LeaveTypes
<1>c. made' = [made EXCEPT ![c] = @ + 1] /\ ok' = ok \cup {c} /\ lost' = lost
  BY DEF SetCredits
<1>d. made'[c] = made[c] + 1 /\ made[c] \in Nat
      /\ \A d \in Requests \X Jobs : d # c => made'[d] = made[d]
  BY <1>a, <1>c DEF TypeOK
<1>1. TypeOK'
  <2>1. pc' \in [Requests -> Over \cup {"new", "init", "row", "read", "write",
                                        "run", "insert"}]
    BY <1>b DEF TypeOK, Over
  <2>2. ok' \subseteq Requests \X Jobs
    BY <1>a, <1>c DEF TypeOK
  <2> QED
    BY <1>a, <2>1, <2>2, SetCreditsTypes DEF TypeOK
<1>2. NothingLost'
  BY SwapLosesNothing
<1>3. MadeOnce'
  <2> SUFFICES ASSUME NEW d \in Requests \X Jobs
               PROVE  made'[d] = lost'[d] + (IF d \in ok' THEN 1 ELSE 0)
    BY DEF MadeOnce
  <2>1. made[d] = lost[d] + (IF d \in ok THEN 1 ELSE 0) /\ lost[d] \in Nat
    BY DEF MadeOnce, TypeOK
  <2>2. CASE d = c
    BY <1>a, <1>c, <1>d, <2>1, <2>2
  <2>3. CASE d # c
    BY <1>c, <1>d, <2>1, <2>3
  <2> QED
    BY <2>2, <2>3
<1>4. JournalFits'
  <2> SUFFICES ASSUME NEW q \in Requests
               PROVE  /\ \A j \in {"refill", "single"} :
                            made'[<<q, j>>] > 0 => <<q, j>> \in journal'
                      /\ <<q, "bulk">> \in journal' => made'[<<q, "bulk">>] > 0
    BY DEF JournalFits
  <2>1. ASSUME NEW j \in {"refill", "single"}, made'[<<q, j>>] > 0
        PROVE  <<q, j>> \in journal'
    <3>1. CASE <<q, j>> = c
      BY <1>a, <2>1, <3>1 DEF Phase
    <3>2. CASE <<q, j>> # c
      BY <1>d, <2>1, <3>2 DEF JournalFits, Jobs
    <3> QED
      BY <3>1, <3>2
  <2>2. ASSUME <<q, "bulk">> \in journal'
        PROVE  made'[<<q, "bulk">>] > 0
    <3>1. made[<<q, "bulk">>] > 0
      BY <2>2 DEF JournalFits
    <3>2. CASE <<q, "bulk">> = c
      BY <1>d, <3>1, <3>2
    <3>3. CASE <<q, "bulk">> # c
      BY <1>d, <3>1, <3>3 DEF Jobs
    <3> QED
      BY <3>2, <3>3
  <2> QED
    BY <2>1, <2>2
<1>5. Phase(r)'
  <2>1. pc'[r] = "run" => \A j \in {"single", "bulk"} : <<r, j>> \notin ok'
    BY <1>a, <1>b, <1>c DEF Phase, Jobs
  <2>2. pc'[r] = "insert" => made'[<<r, "bulk">>] > 0
    BY <1>b, <1>d
  <2> QED
    BY <1>b, <2>1, <2>2 DEF Phase
<1>6. ASSUME NEW q \in Requests, q # r
      PROVE  Phase(q)'
  <2>1. pc'[q] = pc[q] /\ job'[q] = job[q] /\ tries'[q] = tries[q]
    BY <1>6, <1>b DEF TypeOK
  <2>2. \A j \in Jobs : <<q, j>> # c
    BY <1>6
  <2>3. made'[<<q, "bulk">>] = made[<<q, "bulk">>]
    BY <1>d, <2>2 DEF Jobs
  <2> QED
    BY <1>c, <2>1, <2>2, <2>3, PhaseKept DEF Phases
<1>7. ConflictsArePaidFor' /\ Stale'
  <2>1. \A q \in Requests : pc'[q] = "write" => pc[q] = "write"
    BY <1>b DEF TypeOK
  <2>2. changes' = changes + 1
    BY DEF SetCredits
  <2> QED
    BY <2>1, <2>2, NoConflict
<1> QED
  BY <1>1, <1>2, <1>3, <1>4, <1>5, <1>6, <1>7 DEF Phases

LEMMA ConflictOK ==
    ASSUME IInv, NEW r \in Requests, pc[r] = "write", Conflict(r),
           UNCHANGED <<visit, job, shown, seen, journal, periods>>
    PROVE  IInv'
<1> USE DEF IInv, Conflict, record
<1>a. Phase(r) /\ tries[r] < MaxAttempts
  BY DEF Phases, Phase
<1>b. /\ pc' = [pc EXCEPT ![r] = pc'[r]]
      /\ pc'[r] \in {"read", "run", "refused", "done"}
      /\ pc'[r] \in {"run", "refused"} => job[r] = "refill"
      /\ tries' = [tries EXCEPT ![r] = @ + 1]
      /\ tries' \in [Requests -> 0..MaxAttempts]
  BY <1>a, AgainTypes
<1>c. pc'[r] = "read" => tries'[r] < MaxAttempts
  BY <1>b, LeaveTypes DEF Again, TypeOK
<1>1. TypeOK'
  <2>1. pc' \in [Requests -> Over \cup {"new", "init", "row", "read", "write",
                                        "run", "insert"}]
    BY <1>b DEF TypeOK, Over
  <2>2. conflicts' \in [Requests -> Nat]
    BY DEF TypeOK
  <2> QED
    BY <1>b, <2>1, <2>2 DEF TypeOK
<1>2. NothingLost'
  BY RecordKept
<1>3. MadeOnce' /\ JournalFits'
  BY NoEffects
<1>4. Phase(r)'
  BY <1>a, <1>b, <1>c DEF Phase, Jobs
<1>5. ASSUME NEW q \in Requests, q # r
      PROVE  Phase(q)'
  <2>1. pc'[q] = pc[q] /\ job'[q] = job[q] /\ tries'[q] = tries[q]
    BY <1>5, <1>b DEF TypeOK
  <2> QED
    BY <2>1, PhaseKept DEF Phases
<1>6. ASSUME NEW q \in Requests
      PROVE  conflicts'[q] <= changes' /\ (pc'[q] = "write" /\ ~Swaps(q)' =>
                                              conflicts'[q] < changes')
  <2>1. CASE q = r
    <3>1. conflicts[r] < changes /\ conflicts'[r] = conflicts[r] + 1
          /\ conflicts[r] \in Nat /\ changes \in Nat /\ changes' = changes
      BY DEF Stale, TypeOK
    <3> QED
      BY <1>b, <2>1, <3>1
  <2>2. CASE q # r
    <3>1. conflicts'[q] = conflicts[q] /\ pc'[q] = pc[q] /\ changes' = changes
          /\ seen'[q] = seen[q] /\ credits' = credits
      BY <1>b, <2>2 DEF TypeOK
    <3> QED
      BY <3>1 DEF Stale, ConflictsArePaidFor, Swaps
  <2> QED
    BY <2>1, <2>2
<1>7. ConflictsArePaidFor' /\ Stale'
  BY <1>6 DEF ConflictsArePaidFor, Stale
<1> QED
  BY <1>1, <1>2, <1>3, <1>4, <1>5, <1>7 DEF Phases

LEMMA WriteFailsOK ==
    ASSUME IInv, NEW r \in Requests, pc[r] = "write", WriteFails(r),
           UNCHANGED <<visit, job, shown, seen, journal, periods>>
    PROVE  IInv'
<1> USE DEF IInv, WriteFails
<1> DEFINE c == <<r, job[r]>>
           executed == /\ Swaps(r) /\ SetCredits(r)
                       /\ lost' = [lost EXCEPT ![c] = @ + 1]
           ignored == UNCHANGED <<record, made, lost>>
<1>0. executed \/ ignored
  OBVIOUS
<1>a. job[r] \in Jobs /\ c \in Requests \X Jobs /\ Phase(r) /\ tries[r] < MaxAttempts
  BY DEF Phases, Phase
<1>b. /\ pc' = [pc EXCEPT ![r] = pc'[r]]
      /\ pc'[r] \in {"read", "run", "refused", "done"}
      /\ pc'[r] \in {"run", "refused"} => job[r] = "refill"
      /\ tries' = [tries EXCEPT ![r] = @ + 1]
      /\ tries' \in [Requests -> 0..MaxAttempts]
  BY <1>a, AgainTypes
<1>c. pc'[r] = "read" => tries'[r] < MaxAttempts
  BY <1>b, LeaveTypes DEF Again, TypeOK
<1>d. executed => /\ made' = [made EXCEPT ![c] = @ + 1]
                  /\ made'[c] = made[c] + 1 /\ lost'[c] = lost[c] + 1
                  /\ \A d \in Requests \X Jobs : d # c =>
                        made'[d] = made[d] /\ lost'[d] = lost[d]
  BY <1>a DEF SetCredits, TypeOK
<1>e. made[c] \in Nat /\ lost[c] \in Nat
  BY <1>a DEF TypeOK
<1>1. TypeOK'
  <2>1. pc' \in [Requests -> Over \cup {"new", "init", "row", "read", "write",
                                        "run", "insert"}]
    BY <1>b DEF TypeOK, Over
  <2>2. faults' \in 0..MaxFaults
    BY BalanceAssumption DEF TypeOK, Fault
  <2>3. CASE ignored
    BY <1>b, <2>1, <2>2, <2>3 DEF TypeOK, record
  <2>4. CASE executed
    <3>1. lost' \in [Requests \X Jobs -> Nat]
      BY <1>a, <1>e, <2>4 DEF TypeOK
    <3> QED
      BY <1>a, <1>b, <2>1, <2>2, <2>4, <3>1, SetCreditsTypes DEF TypeOK
  <2> QED
    BY <1>0, <2>3, <2>4
<1>2. NothingLost'
  BY <1>0, RecordKept, SwapLosesNothing
<1>3. MadeOnce'
  <2>1. CASE ignored
    BY <2>1 DEF MadeOnce
  <2>2. CASE executed
    <3> SUFFICES ASSUME NEW d \in Requests \X Jobs
                 PROVE  made'[d] = lost'[d] + (IF d \in ok' THEN 1 ELSE 0)
      BY DEF MadeOnce
    <3>1. made[d] = lost[d] + (IF d \in ok THEN 1 ELSE 0) /\ ok' = ok
      BY DEF MadeOnce
    <3>2. CASE d = c
      BY <1>d, <1>e, <2>2, <3>1, <3>2
    <3>3. CASE d # c
      BY <1>d, <2>2, <3>1, <3>3
    <3> QED
      BY <3>2, <3>3
  <2> QED
    BY <1>0, <2>1, <2>2
<1>4. JournalFits'
  <2>1. CASE ignored
    BY <2>1 DEF JournalFits
  <2>2. CASE executed
    <3> SUFFICES ASSUME NEW q \in Requests
                 PROVE  /\ \A j \in {"refill", "single"} :
                              made'[<<q, j>>] > 0 => <<q, j>> \in journal'
                        /\ <<q, "bulk">> \in journal' => made'[<<q, "bulk">>] > 0
      BY DEF JournalFits
    <3>1. ASSUME NEW j \in {"refill", "single"}, made'[<<q, j>>] > 0
          PROVE  <<q, j>> \in journal'
      <4>1. CASE <<q, j>> = c
        BY <1>a, <3>1, <4>1 DEF Phase
      <4>2. CASE <<q, j>> # c
        BY <1>d, <2>2, <3>1, <4>2 DEF JournalFits, Jobs
      <4> QED
        BY <4>1, <4>2
    <3>2. ASSUME <<q, "bulk">> \in journal'
          PROVE  made'[<<q, "bulk">>] > 0
      <4>1. made[<<q, "bulk">>] > 0
        BY <3>2 DEF JournalFits
      <4>2. CASE <<q, "bulk">> = c
        BY <1>d, <1>e, <2>2, <4>1, <4>2
      <4>3. CASE <<q, "bulk">> # c
        BY <1>d, <2>2, <4>1, <4>3 DEF Jobs
      <4> QED
        BY <4>2, <4>3
    <3> QED
      BY <3>1, <3>2
  <2> QED
    BY <1>0, <2>1, <2>2
<1>5. Phase(r)'
  BY <1>a, <1>b, <1>c DEF Phase, Jobs
<1>6. ASSUME NEW q \in Requests, q # r
      PROVE  Phase(q)'
  <2>1. pc'[q] = pc[q] /\ job'[q] = job[q] /\ tries'[q] = tries[q]
    BY <1>6, <1>b DEF TypeOK
  <2>2. made'[<<q, "bulk">>] = made[<<q, "bulk">>]
    BY <1>0, <1>6, <1>d DEF Jobs
  <2> QED
    BY <2>1, <2>2, PhaseKept DEF Phases
<1>7. ConflictsArePaidFor' /\ Stale'
  <2>1. \A q \in Requests : pc'[q] = "write" => pc[q] = "write"
    BY <1>b DEF TypeOK
  <2>2. UNCHANGED <<credits, changes>> \/ changes' = changes + 1
    BY <1>0 DEF SetCredits, record
  <2> QED
    BY <2>1, <2>2, NoConflict
<1> QED
  BY <1>1, <1>2, <1>3, <1>4, <1>5, <1>6, <1>7 DEF Phases

(***************************************************************************)
(* The theorems                                                            *)
(***************************************************************************)

\* Every step of the program keeps the invariant.
LEMMA StepOK == IInv /\ [Next]_vars => IInv'
<1> SUFFICES ASSUME IInv, [Next]_vars
             PROVE  IInv'
  OBVIOUS
<1>1. CASE UNCHANGED vars
  BY <1>1, StutterOK
<1>2. CASE IntervalPasses
  BY <1>2, IntervalPassesOK
<1>3. ASSUME NEW s \in Servers, VisitFinds(s) \/ VisitSets(s)
      PROVE  IInv'
  BY <1>3, VisitFindsOK, VisitSetsOK
<1>4. ASSUME NEW r \in Requests, Step(r)
      PROVE  IInv'
  <2>1. CASE Check(r) \/ CheckFindsNone(r) \/ InitRecord(r) \/ CheckFails(r)
    BY <2>1, CheckOK, CheckFindsNoneOK, InitRecordOK, CheckFailsOK
  <2>2. CASE RunUnchecked(r) \/ StoreRow(r) \/ Read(r) \/ Insert(r) \/ Crash(r)
    BY <2>2, RunUncheckedOK, StoreRowOK, ReadOK, InsertOK, CrashOK
  <2>3. CASE Write(r)
    BY <2>3, SucceedOK, ConflictOK, WriteFailsOK DEF Write
  <2>4. ASSUME NEW kind \in {"bulk", "single"}, Finish(r, kind)
        PROVE  IInv'
    BY <2>4, FinishOK
  <2> QED
    BY <1>4, <2>1, <2>2, <2>3, <2>4 DEF Step
<1> QED
  BY <1>1, <1>2, <1>3, <1>4 DEF Next

\* The invariant holds in every state of every behaviour of the program.
THEOREM Invariance == Spec => []IInv
<1>1. Init => IInv
  BY InitOK
<1>2. IInv /\ [Next]_vars => IInv'
  BY StepOK
<1> QED
  BY <1>1, <1>2, PTL DEF Spec

\* The state is well formed; no more attempts are made than updateBalance allows.
THEOREM TypeCorrect == Spec => []TypeOK
<1>1. IInv => TypeOK
  BY DEF IInv
<1> QED
  BY <1>1, Invariance, PTL

\* Concurrent charges and refills of updateBalance add up, however many servers
\* charge the user at once.
THEOREM ChangesAddUp == Spec => []NothingLost
<1>1. IInv => NothingLost
  BY DEF IInv
<1> QED
  BY <1>1, Invariance, PTL

\* The retries of updateBalance make no change twice but where a reply was lost,
\* and none that is reported is missing.
THEOREM ChangesOnce == Spec => []MadeOnce
<1>1. IInv => MadeOnce
  BY DEF IInv
<1> QED
  BY <1>1, Invariance, PTL

\* What createTransaction, createAutoRefillTransaction and bulkWriteTransactions
\* store agrees with what updateBalance did, whoever fails between the two.
THEOREM JournalIsTrue == Spec => []JournalFits
<1>1. IInv => JournalFits
  BY DEF IInv
<1> QED
  BY <1>1, Invariance, PTL

\* The retries of updateBalance end: an attempt is lost to a change that was made.
THEOREM ConflictsBounded == Spec => []ConflictsArePaidFor
<1>1. IInv => ConflictsArePaidFor
  BY DEF IInv
<1> QED
  BY <1>1, Invariance, PTL
=============================================================================
