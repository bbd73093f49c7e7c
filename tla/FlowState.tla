----------------------------- MODULE FlowState -----------------------------
(***************************************************************************)
(* FlowStateManager (packages/api/src/flow/manager.ts) for one flow: a key *)
(* of a shared store through which callers on any server wait for one      *)
(* another, or for an OAuth callback.                                      *)
(*                                                                         *)
(* Every read and every write of the store is a step of its own, because   *)
(* each is awaited.  Time is counted in ticks; an entry of the store       *)
(* expires.  Entries remember when the flow was created.                   *)
(*                                                                         *)
(* Names that other components have too begin with Flow, because           *)
(* CoordinationProofs extends several.                                     *)
(***************************************************************************)
EXTENDS Integers

CONSTANTS
    Callers,     \* calls of createFlow and createFlowWithHandler
    Callbacks,   \* calls of completeFlow and failFlow from elsewhere
    Ttl,         \* ttl of an entry
    Timeout,     \* monitorTimeout
    TokenLife,   \* time until a result carries an expired token
    MaxTime,     \* bound on time
    MaxOutside   \* bound on calls of initFlow and deleteFlow, and on aborts

ASSUME FlowTimeAssumption ==
    /\ Ttl \in Nat \ {0} /\ Timeout \in 1..Ttl /\ TokenLife \in Nat
    /\ MaxTime \in Nat /\ Timeout <= MaxTime /\ MaxOutside \in Nat

ASSUME ActorsAssumption == Callers \cap Callbacks = {}

Actors == Callers \cup Callbacks

VARIABLES
    now,
    store,      \* the entry under the flow's key
    retained,   \* the type is one of retainedFailureTypes
    pc,         \* where each actor is
    kind,       \* a caller with a handler of its own, or without
    held,       \* entry that completeFlow or failFlow has read
    poll,       \* entry that the poll in flight has read
    missed,     \* missingStateRetried
    aborted,    \* callers whose signal fired
    outcome,    \* how each call ended
    removed,    \* history: deleteFlow was called or an entry expired
    outside

callVars == <<pc, kind, held>>
pollVars == <<poll, missed>>
rest     == <<retained, removed, outside>>
flowVars == <<now, store, callVars, pollVars, aborted, outcome, rest>>

NoResult == [by |-> "nobody", until |-> 0]
Gone     == [st |-> "gone", res |-> NoResult, born |-> 0, exp |-> 0]
NoPoll   == [st |-> "no poll", res |-> NoResult, born |-> 0, exp |-> 0]
Again    == [st |-> "again", res |-> NoResult, born |-> 0, exp |-> 0]
Open     == [how |-> "open", res |-> NoResult]

Results  == [by : Actors \cup {"nobody"}, until : Nat]
Entries  == [st : {"PENDING", "COMPLETED", "FAILED"}, res : Results,
             born : 0..MaxTime, exp : Nat] \cup {Gone}

PCs == {"idle", "first", "second", "create", "handle", "completing", "storing",
        "failing", "storingFailure", "reread", "monitor", "aborting", "settled"}

FlowTypeOK ==
    /\ now \in 0..MaxTime
    /\ store \in Entries
    /\ retained \in BOOLEAN /\ removed \in BOOLEAN
    /\ pc \in [Actors -> PCs]
    /\ kind \in [Callers -> {"handler", "waiter"}]
    /\ held \in [Actors -> Entries]
    /\ poll \in [Callers -> Entries \cup {NoPoll, Again}]
    /\ missed \subseteq Callers /\ aborted \subseteq Callers
    /\ outcome \in
        [Callers -> [how : {"open", "resolved", "failed", "missing",
                            "timed out", "aborted"}, res : Results]]
    /\ \A c \in Callers : outcome[c].how = "open" <=> pc[c] # "settled"
    /\ outside \in 0..MaxOutside

FlowInit ==
    /\ now = 0 /\ store = Gone /\ retained \in BOOLEAN /\ removed = FALSE
    /\ pc = [a \in Actors |-> "idle"]
    /\ kind \in [Callers -> {"handler", "waiter"}]
    /\ held = [a \in Actors |-> Gone]
    /\ poll = [c \in Callers |-> NoPoll]
    /\ missed = {} /\ aborted = {} /\ outside = 0
    /\ outcome = [c \in Callers |-> Open]

(***************************************************************************)
(* The store.                                                              *)
(***************************************************************************)

Stored == IF now < store.exp THEN store ELSE Gone

Pending == [st |-> "PENDING", res |-> NoResult, born |-> now, exp |-> now + Ttl]

\* Flows are created early enough to time out before the end of time.
Early == now + Timeout <= MaxTime

\* isTokenExpired
TokenExpired(entry) == entry.st = "COMPLETED" /\ entry.res.until < now

(***************************************************************************)
(* A call until it monitors, or runs its handler.                          *)
(***************************************************************************)

Enter(a, label) == pc' = [pc EXCEPT ![a] = label]

Settle(c, how, res) ==
    /\ Enter(c, "settled")
    /\ outcome' = [outcome EXCEPT ![c] = [how |-> how, res |-> res]]

\* monitorFlow: a signal that has fired already rejects at once.
Monitor(c) ==
    IF c \in aborted THEN Settle(c, "aborted", NoResult)
                     ELSE Enter(c, "monitor") /\ UNCHANGED outcome

\* The state that makes a caller wait instead of creating the flow.
Reusable(c) ==
    Stored # Gone /\ ~(kind[c] = "handler" /\ TokenExpired(Stored))

Start(c) ==
    /\ pc[c] = "idle" /\ Early
    /\ Enter(c, "first")
    /\ UNCHANGED <<now, store, kind, held, pollVars, aborted, outcome, rest>>

\* The first and the second check, 250 ms apart.
Check(c) ==
    /\ pc[c] \in {"first", "second"}
    /\ IF Reusable(c) THEN Monitor(c)
       ELSE /\ Enter(c, IF pc[c] = "first" THEN "second" ELSE "create")
            /\ UNCHANGED outcome
    /\ UNCHANGED <<now, store, kind, held, pollVars, aborted, rest>>

Create(c) ==
    /\ pc[c] = "create"
    /\ store' = Pending
    /\ IF kind[c] = "handler" THEN Enter(c, "handle") /\ UNCHANGED outcome
                              ELSE Monitor(c)
    /\ UNCHANGED <<now, kind, held, pollVars, aborted, rest>>

\* The handler returns or throws; a callback arrives.
Finish(a) ==
    /\ pc[a] = IF a \in Callers THEN "handle" ELSE "idle"
    /\ \E label \in {"completing", "failing"} : Enter(a, label)
    /\ UNCHANGED <<now, store, kind, held, pollVars, aborted, outcome, rest>>

(***************************************************************************)
(* completeFlow and failFlow, and what createFlowWithHandler does next.    *)
(***************************************************************************)

\* A caller goes on after the update: it reads the result back, or rethrows.
After(a) ==
    IF a \in Callbacks THEN Enter(a, "settled") /\ UNCHANGED outcome
    ELSE IF pc[a] \in {"completing", "storing"}
    THEN Enter(a, "reread") /\ UNCHANGED outcome
    ELSE Settle(a, "failed", NoResult)

\* Neither updates a flow that is gone or completed.
Examine(a) ==
    /\ pc[a] \in {"completing", "failing"}
    /\ IF Stored.st \in {"gone", "COMPLETED"}
       THEN After(a) /\ UNCHANGED held
       ELSE /\ held' = [held EXCEPT ![a] = Stored]
            /\ Enter(a, IF pc[a] = "completing" THEN "storing"
                                               ELSE "storingFailure")
            /\ UNCHANGED outcome
    /\ UNCHANGED <<now, store, kind, pollVars, aborted, rest>>

Update(a) ==
    /\ pc[a] \in {"storing", "storingFailure"}
    /\ store' = [held[a] EXCEPT
          !.st = IF pc[a] = "storing" THEN "COMPLETED" ELSE "FAILED",
          !.res = IF pc[a] = "storing"
                  THEN [by |-> a, until |-> now + TokenLife] ELSE NoResult,
          !.exp = now + Ttl]
    /\ held' = [held EXCEPT ![a] = Gone]
    /\ After(a)
    /\ UNCHANGED <<now, kind, pollVars, aborted, rest>>

\* The result that is in the store wins over the handler's own.
Reread(c) ==
    /\ pc[c] = "reread"
    /\ Settle(c, "resolved", IF Stored.st = "COMPLETED" THEN Stored.res
                             ELSE [by |-> c, until |-> now + TokenLife])
    /\ UNCHANGED <<now, store, kind, held, pollVars, aborted, rest>>

(***************************************************************************)
(* monitorFlow.  A poll ends before the next one, but may outlive an abort.*)
(***************************************************************************)

\* One poll per call tries again when it finds nothing.
Poll(c) ==
    /\ pc[c] = "monitor" /\ poll[c] = NoPoll
    /\ IF Stored = Gone /\ c \notin missed
       THEN /\ poll' = [poll EXCEPT ![c] = Again]
            /\ missed' = missed \cup {c}
       ELSE poll' = [poll EXCEPT ![c] = Stored] /\ UNCHANGED missed
    /\ UNCHANGED <<now, store, callVars, aborted, outcome, rest>>

\* Faulty: it waits until there is something.
PollUntilFound(c) ==
    /\ poll[c] = Again /\ Stored # Gone
    /\ poll' = [poll EXCEPT ![c] = Stored]
    /\ UNCHANGED <<now, store, callVars, missed, aborted, outcome, rest>>

PollAgain(c) ==
    /\ poll[c] = Again
    /\ poll' = [poll EXCEPT ![c] = Stored]
    /\ UNCHANGED <<now, store, callVars, missed, aborted, outcome, rest>>

\* A promise settles once.
SettleOnce(c, how, res) ==
    IF pc[c] = "monitor" THEN Settle(c, how, res) ELSE UNCHANGED <<pc, outcome>>

Larger(a, b) == IF a > b THEN a ELSE b

\* Faulty: the failure is deleted whatever the type.
DropFailure(entry) == store' = Gone

\* Types whose failures are retained keep them for the others to see.
ConsumeFailure(entry) == IF retained THEN UNCHANGED store ELSE store' = Gone

TimedOut(entry) == now - entry.born >= Timeout

ConsumeTimeout(entry) ==
    IF retained
    THEN store' = [entry EXCEPT !.st = "FAILED",
                     !.exp = now + Larger(1, Ttl - (now - entry.born))]
    ELSE store' = Gone

\* What the poll does with the entry it has read.
Act(c) ==
    LET entry == poll[c] IN
    /\ entry \notin {NoPoll, Again}
    /\ poll' = [poll EXCEPT ![c] = NoPoll]
    /\ CASE entry = Gone ->
              SettleOnce(c, "missing", NoResult) /\ UNCHANGED store
         [] entry # Gone /\ c \in aborted ->
              SettleOnce(c, "aborted", NoResult) /\ store' = Gone
         [] entry.st = "COMPLETED" /\ c \notin aborted ->
              SettleOnce(c, "resolved", entry.res) /\ UNCHANGED store
         [] entry.st = "FAILED" /\ c \notin aborted ->
              SettleOnce(c, "failed", NoResult) /\ ConsumeFailure(entry)
         [] entry.st = "PENDING" /\ c \notin aborted ->
              IF TimedOut(entry)
              THEN SettleOnce(c, "timed out", NoResult) /\ ConsumeTimeout(entry)
              ELSE UNCHANGED <<store, pc, outcome>>
    /\ UNCHANGED <<now, kind, held, missed, aborted, rest>>

\* The signal fires; a caller that monitors deletes the flow and rejects.
Abort(c) ==
    /\ outside < MaxOutside /\ c \notin aborted
    /\ pc[c] \notin {"idle", "settled"}
    /\ aborted' = aborted \cup {c}
    /\ outside' = outside + 1
    /\ IF pc[c] = "monitor" THEN Enter(c, "aborting") ELSE UNCHANGED pc
    /\ UNCHANGED <<now, store, kind, held, pollVars, outcome, retained,
                   removed>>

AbortDelete(c) ==
    /\ pc[c] = "aborting"
    /\ store' = Gone
    /\ Settle(c, "aborted", NoResult)
    /\ UNCHANGED <<now, kind, held, pollVars, aborted, rest>>

(***************************************************************************)
(* The rest of the world.                                                  *)
(***************************************************************************)

InitFlow ==
    /\ outside < MaxOutside /\ Early
    /\ outside' = outside + 1
    /\ store' = Pending
    /\ UNCHANGED <<now, callVars, pollVars, aborted, outcome, retained,
                   removed>>

DeleteFlow ==
    /\ outside < MaxOutside
    /\ outside' = outside + 1
    /\ store' = Gone /\ removed' = TRUE
    /\ UNCHANGED <<now, callVars, pollVars, aborted, outcome, retained>>

FlowTick ==
    /\ now < MaxTime
    /\ Early => now + 1 + Timeout <= MaxTime
         \/ \A c \in Callers : pc[c] \notin {"first", "second", "create"}
    /\ now' = now + 1
    /\ removed' = (removed \/ (store # Gone /\ store.exp = now + 1))
    /\ UNCHANGED <<store, callVars, pollVars, aborted, outcome, retained,
                   outside>>

CallerStep(c) ==
    \/ Check(c) \/ Create(c) \/ Reread(c)
    \/ Poll(c) \/ PollAgain(c) \/ Act(c) \/ AbortDelete(c)

ActorStep(a) == Examine(a) \/ Update(a)

FlowNext ==
    \/ \E c \in Callers : Start(c) \/ Abort(c) \/ CallerStep(c)
    \/ \E a \in Actors : Finish(a) \/ ActorStep(a)
    \/ InitFlow \/ DeleteFlow \/ FlowTick

FlowSpec == FlowInit /\ [][FlowNext]_flowVars

\* The store answers, polls recur, time passes, and handlers end.
FlowFairness ==
    /\ WF_flowVars(FlowTick)
    /\ \A c \in Callers : WF_flowVars(CallerStep(c)) /\ WF_flowVars(Finish(c))
    /\ \A a \in Actors : WF_flowVars(ActorStep(a))

FlowFairSpec == FlowSpec /\ FlowFairness

(***************************************************************************)
(* Properties.                                                             *)
(***************************************************************************)

\* A call is rejected because the flow is not found only if the flow was
\* deleted, expired or aborted, or if its failure was consumed by another
\* waiter and is of a type that is not retained.
MissingIsExplained ==
    \A c \in Callers : outcome[c].how = "missing" =>
        \/ removed \/ aborted # {}
        \/ ~retained /\ \E d \in Callers :
                outcome[d].how \in {"failed", "timed out"}

\* Every call settles, whatever is deleted, lost, aborted or never answered.
CallsSettle == \A c \in Callers : []<>(pc[c] \in {"idle", "settled"})

=============================================================================
