------------------------------ MODULE Approval ------------------------------
(***************************************************************************)
(* Pauses for review.  An agent that meets a tool call it may not make     *)
(* alone, or a question, pauses: its segment of the run ends, the job      *)
(* waits in requires_action, and a decision of the user starts a segment   *)
(* that continues the run, in another process perhaps.  Between the pause  *)
(* and the saving of the paused response a barrier keeps decisions, Stop   *)
(* and expiry out; a barrier held for too long fails the job.              *)
(*                                                                         *)
(* Every transition is one script that compares the status, the            *)
(* generation and mostly the action id of the job hash; what a process     *)
(* read before may be stale by then.  One stream, one response row per     *)
(* generation, and time that only passes deadlines.                        *)
(***************************************************************************)
EXTENDS Integers

CONSTANTS
    Requests,    \* the requests of the user: decisions and Stops
    MaxGens,     \* bound on the generations of the stream
    MaxActions,  \* bound on the pauses
    MaxStarts,   \* bound on both together
    MaxFaults    \* bound on the replies that are lost and the readers that leave

ASSUME ApprovalAssumption ==
    /\ MaxGens \in Nat /\ MaxActions \in Nat
    /\ MaxStarts \in Nat /\ MaxFaults \in Nat

VARIABLES
    job,      \* the job hash: its gen is createdAt, 0 when there is no hash
    epoch,    \* the last generation created
    actions,  \* the last action id used
    genOf,    \* the generation that an action paused
    outcome,  \* history: what became of each action
    overdue,  \* actions whose expiresAt has passed
    sweep,    \* the expired action that a sweep has read, 0 for none
    pc,       \* where each segment of a run is
    holds,    \* the action that a segment paused for
    rows,     \* actions whose response was saved, unfinished, before release
    row,      \* the response of each generation in the database
    at,       \* where each request is
    ask,      \* what it asks for
    reqGen,   \* the generation it was made for
    reqAct,   \* the action it was made for, or the one that a Stop saw last
    reqFrom,  \* the status that a Stop saw last
    tries,    \* how often a Stop lost to a conflict
    answer,   \* what the user was told
    faults

asked == <<ask, reqGen, reqAct, reqFrom, tries>>
asks  == <<at, ask, reqGen, reqAct, reqFrom, tries, answer>>

vars == <<job, epoch, actions, genOf, outcome, overdue, sweep, pc, holds,
          rows, row, asks, faults>>

Gens     == 1..MaxGens
Actions  == 1..MaxActions
Terminal == {"complete", "aborted", "error"}
NoJob    == [gen |-> 0, status |-> "none", action |-> 0, barrier |-> FALSE]

\* A segment begins with the generation or with a decision on an action.
Segments == 1..(MaxGens + MaxActions)
After(a) == MaxGens + a
Gen(i)   == IF i <= MaxGens THEN i ELSE genOf[i - MaxGens]

Jobs     == [gen : 0..MaxGens, action : 0..MaxActions, barrier : BOOLEAN,
             status : Terminal \cup {"none", "running", "requires_action"}]
Outcomes == {"none", "open", "resolved", "expired", "stopped", "failed",
             "timedout", "errored", "replaced", "lapsed"}
Places   == {"none", "driving", "lost", "paused", "writing", "failing", "saved",
             "throwing", "final", "gone"}
Stages   == {"idle", "wait", "decide", "expire", "swap", "reread", "check", "save",
             "answered"}
Answers  == {"none", "won", "lost", "stopped", "active", "over", "unknown"}

TypeOK ==
    /\ job \in Jobs
    /\ job.gen \in {0, epoch} /\ job.action \in {0, actions}
    /\ job.status = "requires_action" <=> job.action # 0
    /\ job.barrier => job.action # 0
    /\ job.status = "none" <=> job.gen = 0
    /\ epoch \in 0..MaxGens /\ actions \in 0..MaxActions
    /\ genOf \in [Actions -> 0..MaxGens]
    /\ outcome \in [Actions -> Outcomes]
    /\ overdue \subseteq Actions
    /\ sweep \in 0..MaxActions
    /\ pc \in [Segments -> Places]
    /\ holds \in [Segments -> 0..MaxActions]
    /\ rows \subseteq Actions
    /\ row \in [Gens -> {"none", "partial", "unfinished", "finished", "stopped"}]
    /\ at \in [Requests -> Stages]
    /\ ask \in [Requests -> {"none", "decide", "expire", "stop"}]
    /\ reqGen \in [Requests -> 0..MaxGens]
    /\ reqAct \in [Requests -> 0..MaxActions]
    /\ reqFrom \in [Requests -> {"none", "running", "requires_action"}]
    /\ tries \in [Requests -> 0..3]
    /\ answer \in [Requests -> Answers]
    /\ faults \in 0..MaxFaults

Init ==
    /\ job = NoJob /\ epoch = 0 /\ actions = 0
    /\ genOf = [a \in Actions |-> 0] /\ outcome = [a \in Actions |-> "none"]
    /\ overdue = {} /\ sweep = 0
    /\ pc = [i \in Segments |-> "none"] /\ holds = [i \in Segments |-> 0]
    /\ rows = {} /\ row = [g \in Gens |-> "none"]
    /\ at = [r \in Requests |-> "idle"] /\ ask = [r \in Requests |-> "none"]
    /\ reqGen = [r \in Requests |-> 0] /\ reqAct = [r \in Requests |-> 0]
    /\ reqFrom = [r \in Requests |-> "none"] /\ tries = [r \in Requests |-> 0]
    /\ answer = [r \in Requests |-> "none"]
    /\ faults = 0

(***************************************************************************)
(* What the scripts compare and change                                     *)
(***************************************************************************)

Running(g) == job.gen = g /\ job.status = "running"
Paused(g)  == job.gen = g /\ job.status = "requires_action"
Active(g)  == Running(g) \/ Paused(g)

\* pendingActionId is the plain id of the action, or the prefixed one as long
\* as the barrier stands.
IsPlain(a)   == job.action = a /\ ~job.barrier
IsBarrier(a) == job.action = a /\ job.barrier

\* What waitForPausePersistence waits on.
Blocked(g) == Paused(g) /\ job.barrier

Becomes(status) ==
    job' = [gen |-> job.gen, status |-> status, action |-> 0, barrier |-> FALSE]

\* The action that was pending, if one was, is settled.
Settle(how) ==
    outcome' = [a \in Actions |-> IF a = job.action THEN how ELSE outcome[a]]

Fault == faults < MaxFaults /\ faults' = faults + 1

(***************************************************************************)
(* The segments of a run                                                   *)
(***************************************************************************)

Goto(i, l) == pc' = [pc EXCEPT ![i] = l]

\* A message of the user starts a generation, whatever the last one does.
Create ==
    /\ epoch < MaxGens /\ epoch + actions < MaxStarts
    /\ epoch' = epoch + 1
    /\ job' = [gen |-> epoch + 1, status |-> "running", action |-> 0,
               barrier |-> FALSE]
    /\ Settle("replaced")
    /\ Goto(epoch + 1, "driving")
    /\ UNCHANGED <<actions, genOf, overdue, sweep, holds, rows, row, asks,
                   faults>>

\* The graph is interrupted, and the pause is recorded behind a barrier.  With
\* its reply lost the segment goes on as if there had been no interrupt.
Pause(i) ==
    LET a == actions + 1
    IN  /\ pc[i] = "driving" /\ Running(Gen(i))
        /\ actions < MaxActions /\ epoch + actions < MaxStarts
        /\ actions' = a /\ genOf' = [genOf EXCEPT ![a] = Gen(i)]
        /\ job' = [gen |-> job.gen, status |-> "requires_action", action |-> a,
                   barrier |-> TRUE]
        /\ outcome' = [outcome EXCEPT ![a] = "open"]
        /\ \/ /\ Goto(i, "paused") /\ holds' = [holds EXCEPT ![i] = a]
              /\ UNCHANGED faults
           \/ Fault /\ Goto(i, "lost") /\ UNCHANGED holds
        /\ UNCHANGED <<epoch, overdue, sweep, rows, row, asks>>

\* ownsPausePersistence
Own(i) ==
    /\ pc[i] = "paused"
    /\ Goto(i, IF Paused(Gen(i)) /\ IsBarrier(holds[i]) THEN "writing" ELSE "gone")
    /\ UNCHANGED <<job, epoch, actions, genOf, outcome, overdue, sweep, holds,
                   rows, row, asks, faults>>

\* Faulty: an error of the save is logged and forgotten.
WriteRowUnchecked(i) ==
    /\ pc[i] = "writing" /\ Goto(i, "saved")
    /\ \/ /\ rows' = rows \cup {holds[i]}
          /\ row' = [row EXCEPT ![Gen(i)] = "unfinished"]
       \/ UNCHANGED <<rows, row>>
    /\ UNCHANGED <<job, epoch, actions, genOf, outcome, overdue, sweep, holds,
                   asks, faults>>

\* The response is saved as unfinished.  It was the segment's to save when it
\* asked.
WriteRow(i) ==
    /\ pc[i] = "writing"
    /\ \/ /\ Goto(i, "saved")
          /\ rows' = rows \cup {holds[i]}
          /\ row' = [row EXCEPT ![Gen(i)] = "unfinished"]
       \/ Goto(i, "failing") /\ UNCHANGED <<rows, row>>
    /\ UNCHANGED <<job, epoch, actions, genOf, outcome, overdue, sweep, holds,
                   asks, faults>>

\* failPausePersistence: the job fails if the barrier is still the segment's.
FailPause(i) ==
    /\ pc[i] = "failing" /\ Goto(i, "gone")
    /\ IF Paused(Gen(i)) /\ IsBarrier(holds[i])
       THEN Becomes("error") /\ Settle("failed")
       ELSE UNCHANGED <<job, outcome>>
    /\ UNCHANGED <<epoch, actions, genOf, overdue, sweep, holds, rows, row,
                   asks, faults>>

Released(i) ==
    IF Paused(Gen(i)) /\ IsBarrier(holds[i])
    THEN [gen |-> job.gen, status |-> job.status, action |-> job.action,
          barrier |-> FALSE]
    ELSE job

\* finishPausePersistence.  A reply that is lost is an error of the segment.
Release(i) ==
    /\ pc[i] = "saved"
    /\ \/ Goto(i, "gone") /\ job' = Released(i) /\ UNCHANGED faults
       \/ Goto(i, "throwing") /\ job' \in {job, Released(i)} /\ Fault
    /\ UNCHANGED <<epoch, actions, genOf, outcome, overdue, sweep, holds, rows,
                   row, asks>>

\* completeJob with an error, by a segment that fails; and the end of a process
\* that is shut down.  claimTerminalJob waits for the barrier and then accepts
\* a paused job too.
Error(i) ==
    /\ pc[i] \in {"driving", "throwing"} /\ ~Blocked(Gen(i))
    /\ Goto(i, "gone")
    /\ IF Active(Gen(i)) THEN Becomes("error") /\ Settle("errored")
       ELSE UNCHANGED <<job, outcome>>
    /\ UNCHANGED <<epoch, actions, genOf, overdue, sweep, holds, rows, row,
                   asks, faults>>

\* The segment reaches the end of the run and claims its completion.
Complete(i) ==
    /\ pc[i] \in {"driving", "lost"} /\ ~Blocked(Gen(i))
    /\ IF Running(Gen(i)) THEN Becomes("complete") /\ Goto(i, "final")
       ELSE UNCHANGED job /\ Goto(i, "gone")
    /\ UNCHANGED <<epoch, actions, genOf, outcome, overdue, sweep, holds, rows,
                   row, asks, faults>>

\* The winner of the completion saves the finished response.
SaveFinal(i) ==
    /\ pc[i] = "final" /\ Goto(i, "gone")
    /\ row' = [row EXCEPT ![Gen(i)] = "finished"]
    /\ UNCHANGED <<job, epoch, actions, genOf, outcome, overdue, sweep, holds, rows,
                   asks, faults>>

\* The last reader left while the generation went on: a listener of the process
\* that began it saves what there is of the response, as unfinished, in the end
\* whatever has become of the generation meanwhile.
SavePartial(g) ==
    /\ pc[g] # "none" /\ Fault
    /\ row' = [row EXCEPT ![g] = "partial"]
    /\ UNCHANGED <<job, epoch, actions, genOf, outcome, overdue, sweep, pc, holds,
                   rows, asks>>

(***************************************************************************)
(* The requests of the user                                                *)
(***************************************************************************)

Becoming(r, l)  == at' = [at EXCEPT ![r] = l]
Answer(r, what) == Becoming(r, "answered") /\ answer' = [answer EXCEPT ![r] = what]

\* A Stop notes what it is about to stop.
Sees(r) ==
    /\ Becoming(r, "swap")
    /\ reqFrom' = [reqFrom EXCEPT ![r] = job.status]
    /\ reqAct' = [reqAct EXCEPT ![r] = job.action]

\* The route reads the job.  A decision names the action it was made for; one
\* that comes after its deadline expires the action.
Begin(r, kind) ==
    /\ at[r] = "idle" /\ job.gen # 0
    /\ kind = "stop" \/ job.status = "requires_action"
    /\ kind = "expire" <=> kind # "stop" /\ job.action \in overdue
    /\ Becoming(r, "wait") /\ ask' = [ask EXCEPT ![r] = kind]
    /\ reqGen' = [reqGen EXCEPT ![r] = job.gen]
    /\ reqAct' = [reqAct EXCEPT ![r] = IF kind = "stop" THEN 0 ELSE job.action]
    /\ UNCHANGED <<reqFrom, tries, answer>>
    /\ UNCHANGED <<job, epoch, actions, genOf, outcome, overdue, sweep, pc,
                   holds, rows, row, faults>>

\* The read of resolve and of expireWithIdentity, once there is no barrier.
Ready(r) ==
    /\ at[r] = "wait" /\ ask[r] # "stop" /\ ~Blocked(reqGen[r])
    /\ IF ~Paused(reqGen[r]) THEN Answer(r, "lost")
       ELSE /\ Becoming(r, IF ask[r] = "expire" \/ job.action \in overdue
                           THEN "expire" ELSE "decide")
            /\ UNCHANGED answer
    /\ UNCHANGED asked
    /\ UNCHANGED <<job, epoch, actions, genOf, outcome, overdue, sweep, pc,
                   holds, rows, row, faults>>

\* Faulty: the transition is fenced by the generation alone.
CanDecideUnfenced(r) == job.gen = reqGen[r]

CanDecide(r) == Paused(reqGen[r]) /\ IsPlain(reqAct[r])

\* The decision wins if its action is still pending, and the winner drives the
\* run on.  When the reply is lost, the route answers with an error.
Decide(r) ==
    LET a == reqAct[r]
    IN  /\ at[r] = "decide"
        /\ \/ /\ CanDecide(r) /\ Becomes("running") /\ Settle("resolved")
              /\ Answer(r, "won") /\ Goto(After(a), "driving")
              /\ UNCHANGED faults
           \/ /\ CanDecide(r) /\ Becomes("running") /\ Settle("resolved")
              /\ Fault /\ Answer(r, "unknown") /\ UNCHANGED pc
           \/ /\ ~CanDecide(r) /\ Answer(r, "lost")
              /\ UNCHANGED <<job, outcome, pc, faults>>
        /\ UNCHANGED asked
        /\ UNCHANGED <<epoch, actions, genOf, overdue, sweep, holds, rows, row>>

Expired(r) ==
    IF Paused(reqGen[r]) /\ IsPlain(reqAct[r])
    THEN Becomes("aborted") /\ Settle("expired")
    ELSE UNCHANGED <<job, outcome>>

\* When the expiry fails, a request that came too late is answered all the same,
\* and a decision whose deadline passed meanwhile gets an error.
Expire(r) ==
    /\ at[r] = "expire"
    /\ UNCHANGED asked
    /\ \/ Expired(r) /\ Answer(r, "lost") /\ UNCHANGED faults
       \/ /\ Expired(r) \/ UNCHANGED <<job, outcome>>
          /\ Answer(r, IF ask[r] = "expire" THEN "lost" ELSE "unknown") /\ Fault
    /\ UNCHANGED <<epoch, actions, genOf, overdue, sweep, pc, holds, rows, row>>

\* abortJob reads the job, once there is no barrier.
Look(r) ==
    /\ at[r] = "wait" /\ ask[r] = "stop" /\ ~Blocked(reqGen[r])
    /\ IF ~Active(reqGen[r]) THEN Answer(r, "over") /\ UNCHANGED <<reqFrom, reqAct>>
       ELSE Sees(r) /\ UNCHANGED answer
    /\ UNCHANGED <<ask, reqGen, tries>>
    /\ UNCHANGED <<job, epoch, actions, genOf, outcome, overdue, sweep, pc,
                   holds, rows, row, faults>>

\* Faulty: any pause will do.
CanStopAnyAction(r) == job.gen = reqGen[r] /\ job.status = reqFrom[r]

CanStop(r) ==
    /\ job.gen = reqGen[r] /\ job.status = reqFrom[r]
    /\ reqFrom[r] = "requires_action" => IsPlain(reqAct[r])

\* The generation is stopped if it is still in the state that was read.
Swap(r) ==
    /\ at[r] = "swap"
    /\ IF CanStop(r)
       THEN /\ Becomes("aborted") /\ Settle("stopped")
            /\ Becoming(r, "save") /\ UNCHANGED tries
       ELSE /\ Becoming(r, "reread") /\ tries' = [tries EXCEPT ![r] = @ + 1]
            /\ UNCHANGED <<job, outcome>>
    /\ UNCHANGED <<ask, reqGen, reqAct, reqFrom, answer>>
    /\ UNCHANGED <<epoch, actions, genOf, overdue, sweep, pc, holds, rows, row,
                   faults>>

\* After a conflict the job is read again, and tried again up to three times
\* if it moved between running and paused meanwhile.
Reread(r) ==
    /\ at[r] = "reread" /\ ~Blocked(reqGen[r])
    /\ IF /\ Active(reqGen[r]) /\ tries[r] < 3
          /\ job.status # reqFrom[r] \/ job.action # reqAct[r]
       THEN Sees(r)
       ELSE Becoming(r, "check") /\ UNCHANGED <<reqFrom, reqAct>>
    /\ UNCHANGED <<ask, reqGen, tries, answer>>
    /\ UNCHANGED <<job, epoch, actions, genOf, outcome, overdue, sweep, pc,
                   holds, rows, row, faults>>

\* Faulty: a Stop that lost takes the generation to be over.
CheckNothing(r) ==
    /\ at[r] = "check" /\ Answer(r, "over")
    /\ UNCHANGED asked
    /\ UNCHANGED <<job, epoch, actions, genOf, outcome, overdue, sweep, pc,
                   holds, rows, row, faults>>

\* The answer of a Stop that gave up.
Check(r) ==
    /\ at[r] = "check"
    /\ Answer(r, IF Active(reqGen[r]) THEN "active" ELSE "over")
    /\ UNCHANGED asked
    /\ UNCHANGED <<job, epoch, actions, genOf, outcome, overdue, sweep, pc,
                   holds, rows, row, faults>>

\* The winner of a Stop saves what there is of the response, or fails to.
SaveStopped(r) ==
    /\ at[r] = "save" /\ Answer(r, "stopped")
    /\ UNCHANGED asked
    /\ row' \in {row, [row EXCEPT ![reqGen[r]] = "stopped"]}
    /\ UNCHANGED <<job, epoch, actions, genOf, outcome, overdue, sweep, pc,
                   holds, rows, faults>>

(***************************************************************************)
(* Deadlines and cleanup                                                   *)
(***************************************************************************)

DeadlinePasses ==
    /\ job.action \notin overdue \cup {0} /\ overdue' = overdue \cup {job.action}
    /\ UNCHANGED <<job, epoch, actions, genOf, outcome, sweep, pc, holds, rows,
                   row, asks, faults>>

\* Faulty: it is left to whoever waits.
FailStaleAwaited ==
    /\ job.barrier
    /\ \E r \in Requests : at[r] \in {"wait", "reread"} /\ reqGen[r] = job.gen
    /\ Becomes("error") /\ Settle("timedout")
    /\ UNCHANGED <<epoch, actions, genOf, overdue, sweep, pc, holds, rows, row, asks,
                   faults>>

\* A barrier older than PAUSE_PERSISTENCE_TIMEOUT_MS: whoever waits for it, and
\* every cleanup, fails the job.
FailStale ==
    /\ job.barrier
    /\ Becomes("error") /\ Settle("timedout")
    /\ UNCHANGED <<epoch, actions, genOf, overdue, sweep, pc, holds, rows, row, asks,
                   faults>>

\* The sweeps of the manager and of the store read an action that is overdue,
\* and expire the one they have read.
SweepReads ==
    /\ sweep = 0 /\ ~job.barrier /\ job.action \in overdue
    /\ sweep' = job.action
    /\ UNCHANGED <<job, epoch, actions, genOf, outcome, overdue, pc, holds,
                   rows, row, asks, faults>>

\* Faulty: whatever is paused by now expires.
SweepExpiresAny ==
    /\ sweep # 0 /\ sweep' = 0
    /\ IF job.action # 0 /\ ~job.barrier THEN Becomes("aborted") /\ Settle("expired")
       ELSE UNCHANGED <<job, outcome>>
    /\ UNCHANGED <<epoch, actions, genOf, overdue, pc, holds, rows, row, asks,
                   faults>>

SweepExpires ==
    /\ sweep # 0 /\ sweep' = 0
    /\ IF IsPlain(sweep) THEN Becomes("aborted") /\ Settle("expired")
       ELSE UNCHANGED <<job, outcome>>
    /\ UNCHANGED <<epoch, actions, genOf, overdue, pc, holds, rows, row, asks,
                   faults>>

\* The hash goes: of a run that is silent for too long, or of a pause that
\* outlived its time to live.  That of a job that ended is as good as gone.
Lapse ==
    /\ job.status = "running" \/ job.action \in overdue
    /\ job' = NoJob /\ Settle("lapsed")
    /\ UNCHANGED <<epoch, actions, genOf, overdue, sweep, pc, holds, rows, row,
                   asks, faults>>

(***************************************************************************)
(* Specification                                                           *)
(***************************************************************************)

Works(i) ==
    \/ Pause(i) \/ Own(i) \/ WriteRow(i) \/ FailPause(i) \/ Release(i)
    \/ Error(i) \/ Complete(i) \/ SaveFinal(i)

Serves(r) ==
    \/ Ready(r) \/ Decide(r) \/ Expire(r)
    \/ Look(r) \/ Swap(r) \/ Reread(r) \/ Check(r) \/ SaveStopped(r)

Cleans == DeadlinePasses \/ FailStale \/ SweepReads \/ SweepExpires

Next ==
    \/ Create
    \/ \E i \in Segments : Works(i)
    \/ \E g \in Gens : SavePartial(g)
    \/ \E r \in Requests : Serves(r)
    \/ \E r \in Requests, kind \in {"decide", "expire", "stop"} : Begin(r, kind)
    \/ Cleans \/ Lapse

Spec == Init /\ [][Next]_vars

\* Time passes, the cleanups are periodic, and a request is served.  A segment
\* may stop at any point: its process is gone.
FairSpec ==
    /\ Spec
    /\ \A r \in Requests : WF_vars(Serves(r))
    /\ WF_vars(DeadlinePasses) /\ WF_vars(FailStale)
    /\ WF_vars(SweepReads) /\ WF_vars(SweepExpires)

-----------------------------------------------------------------------------

\* A decision is taken once: two clicks do not run the tools twice, and a
\* generation has one segment that drives it, and none once it is paused.
OneDriver ==
    /\ \A r, q \in Requests :
          /\ answer[r] = "won" /\ answer[q] = "won"
          /\ reqAct[r] = reqAct[q]
          => r = q
    /\ \A i, k \in Segments :
          pc[i] = "driving" /\ pc[k] = "driving" /\ Gen(i) = Gen(k) => i = k
    /\ \A i \in Segments : pc[i] = "driving" => ~Paused(Gen(i))

\* The paused response is in the database before its action is decided, expired
\* or stopped.
RowBeforeDecision ==
    \A a \in Actions : outcome[a] \in {"resolved", "expired", "stopped"} => a \in rows

\* Only an action whose deadline has passed expires, however late the sweep
\* that read its predecessor.
OnlyOverdueExpires == \A a \in Actions : outcome[a] = "expired" => a \in overdue

\* Nobody is told that a decision came too late before its deadline has passed or
\* its action is settled, or that a generation is over while it can go on.
AnswersAreTrue ==
    \A r \in Requests :
        /\ answer[r] = "lost" =>
              outcome[reqAct[r]] # "open" \/ reqAct[r] \in overdue
        /\ answer[r] \in {"over", "stopped"} => ~Active(reqGen[r])

\* The response that the winner of the last transition saved is not overwritten
\* by a segment that paused before.  Only the partial response of a reader that
\* left may still come after it.
FinalRowStays ==
    [][\A g \in Gens : row[g] \in {"finished", "stopped"} =>
          row'[g] \in {row[g], "partial"}]_row

\* A pause does not last for ever, and every request is answered: whoever waits
\* for a barrier, or tries again after a conflict, comes to an end.
NothingWaitsForEver ==
    /\ job.status = "requires_action" ~> job.status # "requires_action"
    /\ \A r \in Requests : at[r] # "idle" ~> at[r] = "answered"

\* A pause that won is not undone by the error of the segment that paused.
PauseSurvivesItsSegment == \A a \in Actions : outcome[a] # "errored"
=============================================================================
