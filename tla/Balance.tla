------------------------------ MODULE Balance ------------------------------
(***************************************************************************)
(* The token credits of one user: packages/data-schemas/src/methods/       *)
(* transaction.ts, packages/api/src/middleware/{balance,checkBalance}.ts.  *)
(*                                                                         *)
(* Requests of the user run at the same time, on any server.  Each checks  *)
(* the balance, which may refill it, runs the model, and is charged.  A    *)
(* change of the balance reads the record and swaps its credits if they    *)
(* are still what was read, and starts over if they are not.  Visits of    *)
(* other pages give a user without a record one.  MongoDB executes one     *)
(* command on the record at a time.                                        *)
(***************************************************************************)
EXTENDS Integers

CONSTANTS
    Requests,     \* the requests of the user
    Servers,
    Start,        \* startBalance
    Estimate,     \* what the check of a request expects it to cost
    Cost,         \* what the request costs in the end
    Refill,       \* refillAmount
    MaxAttempts,  \* maxRetries of updateBalance
    MaxPeriods,   \* bound on the refill intervals that pass
    MaxFaults     \* bound on commands that fail and requests whose server dies

ASSUME BalanceAssumption ==
    /\ Start \in Nat /\ Estimate \in Nat /\ Cost \in Nat /\ Refill \in Nat \ {0}
    /\ MaxAttempts \in Nat \ {0} /\ MaxPeriods \in Nat /\ MaxFaults \in Nat

VARIABLES
    credits,      \* tokenCredits of the record, None without a record
    due,          \* the refill interval has passed since lastRefill
    visit,        \* a visit at the server that found no record
    pc,           \* where a request is
    job,          \* the change it makes
    shown,        \* the balance its check has read
    seen,         \* the credits its change has read
    tries,        \* attempts of that change that failed
    journal,      \* the transactions that are stored
    ledger,       \* history: the credits if no change was ever lost
    overwritten,  \* history: a record was set by somebody who had found none
    made,         \* history: how often each change was made
    lost,         \* history: how often it was made and its reply was lost
    ok,           \* history: the changes that were reported as made
    changes,      \* history: how often the record changed
    conflicts,    \* history: how often a swap met other credits
    periods, faults

record  == <<credits, due, ledger, overwritten, changes>>
request == <<pc, job, shown, seen, tries>>
effects == <<journal, made, lost, ok, conflicts>>
bounds  == <<periods, faults>>
vars == <<record, visit, request, effects, bounds>>

None == -1
Jobs == {"refill", "single", "bulk"}
Over == {"done", "refused", "dead"}

TypeOK ==
    /\ credits \in Nat \cup {None} /\ due \in BOOLEAN
    /\ visit \in [Servers -> BOOLEAN]
    /\ pc \in [Requests -> Over \cup {"new", "init", "row", "read", "write",
                                      "run", "insert"}]
    /\ job \in [Requests -> Jobs \cup {"none"}]
    /\ shown \in [Requests -> Nat] /\ seen \in [Requests -> Nat \cup {None}]
    /\ tries \in [Requests -> 0..MaxAttempts]
    /\ journal \subseteq Requests \X Jobs /\ ok \subseteq Requests \X Jobs
    /\ ledger \in Nat /\ overwritten \in BOOLEAN
    /\ made \in [Requests \X Jobs -> Nat] /\ lost \in [Requests \X Jobs -> Nat]
    /\ changes \in Nat /\ conflicts \in [Requests -> Nat]
    /\ periods \in 0..MaxPeriods /\ faults \in 0..MaxFaults

Init ==
    /\ credits \in {None, Start} /\ due = FALSE
    /\ visit = [s \in Servers |-> FALSE]
    /\ pc = [r \in Requests |-> "new"] /\ job = [r \in Requests |-> "none"]
    /\ shown = [r \in Requests |-> 0] /\ seen = [r \in Requests |-> None]
    /\ tries = [r \in Requests |-> 0]
    /\ journal = {} /\ ok = {}
    /\ ledger = (IF credits = None THEN 0 ELSE credits) /\ overwritten = FALSE
    /\ made = [c \in Requests \X Jobs |-> 0]
    /\ lost = [c \in Requests \X Jobs |-> 0]
    /\ changes = 0 /\ conflicts = [r \in Requests |-> 0]
    /\ periods = 0 /\ faults = 0

Goto(r, where) == pc' = [pc EXCEPT ![r] = where]
Fault == faults < MaxFaults /\ faults' = faults + 1
Clamp(n) == IF n < 0 THEN 0 ELSE n

(***************************************************************************)
(* The record                                                              *)
(***************************************************************************)

\* upsertBalanceFields for a user who had no record when it was read.
SetStart ==
    /\ credits' = Start /\ due' = FALSE
    /\ ledger' = IF credits = None THEN Start ELSE ledger
    /\ overwritten' = (overwritten \/ credits # None)
    /\ changes' = changes + 1

\* What the change of r adds to the credits.
Amount(r) == IF job[r] = "refill" THEN Refill ELSE -Cost

\* $set of the credits computed from what was read, and of lastRefill.
SetCredits(r) ==
    /\ credits' = Clamp((IF seen[r] = None THEN 0 ELSE seen[r]) + Amount(r))
    /\ due' = (due /\ job[r] # "refill" /\ credits # None)
    /\ ledger' = Clamp((IF credits = None THEN 0 ELSE ledger) + Amount(r))
    /\ overwritten' = (overwritten \/ (seen[r] = None /\ credits # None))
    /\ changes' = changes + 1
    /\ made' = [made EXCEPT ![<<r, job[r]>>] = @ + 1]

IntervalPasses ==
    /\ credits # None /\ ~due /\ periods < MaxPeriods
    /\ due' = TRUE /\ periods' = periods + 1
    /\ UNCHANGED <<credits, ledger, overwritten, changes, visit, request,
                   effects, faults>>

(***************************************************************************)
(* setBalanceConfig: at most one visit of the user at a server runs at a   *)
(* time.                                                                   *)
(***************************************************************************)

VisitFinds(s) ==
    /\ ~visit[s] /\ credits = None
    /\ visit' = [visit EXCEPT ![s] = TRUE]
    /\ UNCHANGED <<record, request, effects, bounds>>

VisitSets(s) ==
    /\ visit[s]
    /\ visit' = [visit EXCEPT ![s] = FALSE]
    /\ SetStart
    /\ UNCHANGED <<request, effects, bounds>>

(***************************************************************************)
(* checkBalance                                                            *)
(***************************************************************************)

Admit(r, balance) == Goto(r, IF balance >= Estimate THEN "run" ELSE "refused")

\* The record is read.  Credits that are short are refilled when that is due.
Check(r) ==
    /\ pc[r] = "new" /\ credits # None
    /\ shown' = [shown EXCEPT ![r] = credits]
    /\ IF credits - Estimate <= 0 /\ due
       THEN Goto(r, "row") /\ job' = [job EXCEPT ![r] = "refill"]
       ELSE Admit(r, credits) /\ UNCHANGED job
    /\ UNCHANGED <<record, visit, seen, tries, effects, bounds>>

CheckFindsNone(r) ==
    /\ pc[r] = "new" /\ credits = None
    /\ Goto(r, "init")
    /\ UNCHANGED <<record, visit, job, shown, seen, tries, effects, bounds>>

\* The check gives the user a record.
InitRecord(r) ==
    /\ pc[r] = "init"
    /\ SetStart
    /\ Admit(r, Start)
    /\ UNCHANGED <<visit, job, shown, seen, tries, effects, bounds>>

\* A check whose read or whose first write fails refuses the request; the
\* write may have been executed.
CheckFails(r) ==
    /\ Fault /\ pc[r] \in {"new", "init"}
    /\ Goto(r, "refused")
    /\ UNCHANGED record \/ (pc[r] = "init" /\ SetStart)
    /\ UNCHANGED <<visit, job, shown, seen, tries, effects, periods>>

\* The routes of the OpenAI and the Responses API do not check the balance.
RunUnchecked(r) ==
    /\ pc[r] = "new"
    /\ Goto(r, "run")
    /\ UNCHANGED <<record, visit, job, shown, seen, tries, effects, bounds>>

(***************************************************************************)
(* Changes of the balance                                                  *)
(***************************************************************************)

\* Faulty: the usage of a run is stored before it is charged.
FinishStored(r, kind) ==
    /\ pc[r] = "run" /\ kind \in {"bulk", "single"}
    /\ Goto(r, "row")
    /\ job' = [job EXCEPT ![r] = kind] /\ tries' = [tries EXCEPT ![r] = 0]
    /\ UNCHANGED <<record, visit, shown, seen, effects, bounds>>

\* The model has answered.  The usage of a run is charged at once and stored
\* then (bulk); that of a single call is stored first.
Finish(r, kind) ==
    /\ pc[r] = "run" /\ kind \in {"bulk", "single"}
    /\ Goto(r, IF kind = "bulk" THEN "read" ELSE "row")
    /\ job' = [job EXCEPT ![r] = kind] /\ tries' = [tries EXCEPT ![r] = 0]
    /\ UNCHANGED <<record, visit, shown, seen, effects, bounds>>

\* The change is over: a refill returns to the check, which goes on with the
\* balance it read if the refill failed.
Leave(r, balance, next) ==
    IF job[r] = "refill" THEN Admit(r, balance) ELSE Goto(r, next)

\* createAutoRefillTransaction, createTransaction: transaction.save().
StoreRow(r) ==
    /\ pc[r] = "row"
    /\ \/ /\ Goto(r, "read")
          /\ journal' = journal \cup {<<r, job[r]>>}
          /\ UNCHANGED faults
       \/ /\ Fault /\ Leave(r, shown[r], "done")
          /\ journal' \in {journal, journal \cup {<<r, job[r]>>}}
    /\ UNCHANGED <<record, visit, job, shown, seen, tries, made, lost, ok,
                   conflicts, periods>>

\* Another attempt, or the end of them.
Again(r) ==
    /\ tries' = [tries EXCEPT ![r] = @ + 1]
    /\ IF tries[r] + 1 < MaxAttempts THEN Goto(r, "read")
                                     ELSE Leave(r, shown[r], "done")

\* updateBalance: findOne.
Read(r) ==
    /\ pc[r] = "read"
    /\ \/ /\ seen' = [seen EXCEPT ![r] = credits] /\ Goto(r, "write")
          /\ UNCHANGED <<tries, faults>>
       \/ Fault /\ Again(r) /\ UNCHANGED seen
    /\ UNCHANGED <<record, visit, job, shown, effects, periods>>

\* Faulty: the credits are set whatever they are.
SwapBlindly(r) == TRUE

\* The filter of findOneAndUpdate; without a record it is an upsert.
Swaps(r) == seen[r] \in {None, credits}

\* Faulty: the loop is not left.
SucceedRetries(r) ==
    /\ Swaps(r) /\ SetCredits(r)
    /\ Again(r)
    /\ UNCHANGED <<lost, ok, conflicts, faults>>

\* The record is updated and returned.
Succeed(r) ==
    /\ Swaps(r) /\ SetCredits(r)
    /\ ok' = ok \cup {<<r, job[r]>>}
    /\ Leave(r, credits', IF job[r] = "bulk" THEN "insert" ELSE "done")
    /\ UNCHANGED <<tries, lost, conflicts, faults>>

\* The filter matches nothing: the record has changed since it was read.
Conflict(r) ==
    /\ ~Swaps(r)
    /\ conflicts' = [conflicts EXCEPT ![r] = @ + 1]
    /\ Again(r)
    /\ UNCHANGED <<record, made, lost, ok, faults>>

\* The command fails, or it is executed and its reply is lost.
WriteFails(r) ==
    /\ Fault /\ Again(r)
    /\ \/ UNCHANGED <<record, made, lost>>
       \/ /\ Swaps(r) /\ SetCredits(r)
          /\ lost' = [lost EXCEPT ![<<r, job[r]>>] = @ + 1]
    /\ UNCHANGED <<ok, conflicts>>

\* updateBalance: findOneAndUpdate.
Write(r) ==
    /\ pc[r] = "write"
    /\ Succeed(r) \/ Conflict(r) \/ WriteFails(r)
    /\ UNCHANGED <<visit, job, shown, seen, journal, periods>>

\* insertMany, after the charge.
Insert(r) ==
    /\ pc[r] = "insert"
    /\ Goto(r, "done")
    /\ \/ journal' = journal \cup {<<r, "bulk">>} /\ UNCHANGED faults
       \/ Fault /\ journal' \in {journal, journal \cup {<<r, "bulk">>}}
    /\ UNCHANGED <<record, visit, job, shown, seen, tries, made, lost, ok,
                   conflicts, periods>>

\* The server of the request dies.
Crash(r) ==
    /\ Fault /\ pc[r] \notin Over
    /\ Goto(r, "dead")
    /\ UNCHANGED <<record, visit, job, shown, seen, tries, effects, periods>>

Step(r) ==
    \/ Check(r) \/ CheckFindsNone(r) \/ InitRecord(r) \/ CheckFails(r)
    \/ RunUnchecked(r) \/ StoreRow(r) \/ Read(r) \/ Write(r) \/ Insert(r)
    \/ Crash(r)
    \/ \E kind \in {"bulk", "single"} : Finish(r, kind)

Next ==
    \/ IntervalPasses
    \/ \E s \in Servers : VisitFinds(s) \/ VisitSets(s)
    \/ \E r \in Requests : Step(r)

Spec == Init /\ [][Next]_vars

(***************************************************************************)
(* Properties                                                              *)
(***************************************************************************)

\* No charge and no refill is lost to a concurrent one: the credits are what
\* the changes would leave one after the other, as long as nobody who found no
\* record set one over a record that was created meanwhile.
NothingLost == credits # None /\ ~overwritten => credits = ledger

\* A change that is reported is made once, one that is given up not at all,
\* and either once more for every reply that was lost.
MadeOnce ==
    \A c \in Requests \X Jobs : made[c] = lost[c] + (IF c \in ok THEN 1 ELSE 0)

\* The journal and the record agree as far as they can: credits are refilled,
\* and single calls charged, only once that is stored, and no charge of a run
\* is stored that was not made.
JournalFits ==
    \A r \in Requests :
        /\ \A j \in {"refill", "single"} : made[<<r, j>>] > 0 => <<r, j>> \in journal
        /\ <<r, "bulk">> \in journal => made[<<r, "bulk">>] > 0

\* An attempt of updateBalance is wasted only when somebody's change was made
\* since its read: every change costs every request one attempt at most, so that
\* a request uses up its attempts only while others make theirs.
ConflictsArePaidFor == \A r \in Requests : conflicts[r] <= changes

=============================================================================
