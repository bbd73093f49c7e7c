------------------------------ MODULE Steering ------------------------------
(***************************************************************************)
(* Steers: messages that a user sends while an agent runs.  A steer is     *)
(* accepted into the queue of the running generation of a stream, drained  *)
(* by the run at a tool boundary, written to the chunk log and given to    *)
(* the model.  One that is still waiting when the generation ends is       *)
(* parked, shown to the user again, and either discarded or sent as the    *)
(* first message of a new generation that leases it until the message is   *)
(* saved.  A receipt per steer remembers how far it came, so that a lost   *)
(* reply can be repeated.                                                  *)
(*                                                                         *)
(* Every script of RedisJobStore.ts is one step; between two scripts the   *)
(* run, the requests of the user, the abort and the cleanup interleave.    *)
(* One stream, one user, generation protocol 2.  The claimed list and the  *)
(* parked list are sets here: their order only orders chips on a screen.   *)
(***************************************************************************)
EXTENDS Integers, Sequences, SequencesExt

CONSTANTS
    Steers,     \* the messages, each with its clientSteerId and its steerId
    NoSteer,    \* not a message
    MaxGens,    \* bound on the generations of the stream
    QueueMax,   \* STEER_QUEUE_MAX_DEPTH
    MaxFaults   \* bound on the calls of a run that fail or lose their reply

ASSUME SteeringAssumption ==
    /\ NoSteer \notin Steers
    /\ MaxGens \in Nat /\ QueueMax \in Nat /\ MaxFaults \in Nat

VARIABLES
    job,        \* the job hash; its gen is createdAt, 0 when there is no hash
    epoch,      \* the last generation created
    queue,      \* list of queued steers
    claimed,    \* steers that a run drained and did not write yet
    parked,     \* steers that wait for the user
    lease,      \* recoveringCreatedAt of a parked steer, 0 without one
    receipt,    \* how far each steer came
    taken,      \* the generation that accepted it
    pc,         \* where the run of each generation is
    batch,      \* what it drained and has not written
    done,       \* what it wrote and has not injected
    context,    \* what it has given to the model
    recovers,   \* the steer that a generation was created with
    committed,  \* whether it has taken that steer out of the parked list
    claim,      \* the terminal claim on a generation, until it is published:
                \* "complete" by its own run, "aborted" by a Stop, "error"
    accepted,   \* history: the steers in the order of their acceptance
    parts,      \* history: applied parts in the order of the chunk log
    rows,       \* the recovered steers saved as messages
    removed,    \* history: steers whose cancel was answered removed: true
    stray,      \* history: steers held by a hash when it expired
    faults

jobVars  == <<job, epoch>>
lists    == <<queue, claimed, parked, lease>>
receipts == <<receipt, taken>>
progress == <<pc, batch, done, context>>
ending   == <<recovers, committed, claim>>
history  == <<accepted, parts, rows, removed, stray>>
vars == <<jobVars, lists, receipts, progress, ending, history, faults>>

Gens     == 1..MaxGens
Active   == {"running", "requires_action"}
Terminal == {"complete", "aborted", "error"}
Final    == {"delivered", "recovered", "cancelled"}
NoJob    == [gen |-> 0, status |-> "none", pending |-> FALSE]

TypeOK ==
    /\ job \in [gen : 0..MaxGens, status : Active \cup Terminal \cup {"none"},
                pending : BOOLEAN]
    /\ epoch \in 0..MaxGens /\ job.gen \in {0, epoch}
    /\ job.gen = 0 <=> job.status = "none"
    /\ queue \in Seq(Steers) /\ claimed \subseteq Steers /\ parked \subseteq Steers
    /\ lease \in [Steers -> 0..MaxGens] /\ taken \in [Steers -> 0..MaxGens]
    /\ receipt \in [Steers -> Final \cup {"none", "queued", "claimed", "leftover"}]
    /\ pc \in [Gens -> {"none", "idle", "apply", "restore", "inject", "gone"}]
    /\ batch \in [Gens -> Seq(Steers)] /\ done \in [Gens -> Seq(Steers)]
    /\ context \in [Gens -> SUBSET Steers]
    /\ recovers \in [Gens -> Steers \cup {NoSteer}]
    /\ committed \in [Gens -> BOOLEAN]
    /\ claim \in [Gens -> Terminal \cup {"none", "failed", "done"}]
    /\ accepted \in Seq(Steers) /\ parts \in Seq(Steers)
    /\ rows \subseteq Steers /\ removed \subseteq Steers /\ stray \subseteq Steers
    /\ faults \in 0..MaxFaults

Init ==
    /\ job = NoJob /\ epoch = 0
    /\ queue = <<>> /\ claimed = {} /\ parked = {}
    /\ lease = [s \in Steers |-> 0] /\ taken = [s \in Steers |-> 0]
    /\ receipt = [s \in Steers |-> "none"]
    /\ pc = [g \in Gens |-> "none"]
    /\ batch = [g \in Gens |-> <<>>] /\ done = [g \in Gens |-> <<>>]
    /\ context = [g \in Gens |-> {}]
    /\ recovers = [g \in Gens |-> NoSteer]
    /\ committed = [g \in Gens |-> FALSE]
    /\ claim = [g \in Gens |-> "none"]
    /\ accepted = <<>> /\ parts = <<>>
    /\ rows = {} /\ removed = {} /\ stray = {}
    /\ faults = 0

(***************************************************************************)
(* What the scripts check and change                                       *)
(***************************************************************************)

Queued == ToSet(queue)

\* The guard that the scripts of the live queue share.  steersClosed is set
\* only together with a terminal status.
Open(g) == job.gen = g /\ job.status = "running"

IsActive(g) == job.gen = g /\ job.status \in Active

\* The steer whose recovery is running.
Recovering(s) == job.status \in Active /\ recovers[job.gen] = s

\* Faulty: a lease hides its steer for good.
ShownUnleased(s) == s \in parked /\ ~job.pending /\ lease[s] = 0

\* A parked steer is shown to the user, but not while its recovery is running,
\* nor while the messages of the last generation are being saved.
Shown(s) ==
    s \in parked /\ ~job.pending /\ ~(Recovering(s) /\ lease[s] = job.gen)

Mark(S, state) ==
    receipt' = [s \in Steers |-> IF s \in S THEN state ELSE receipt[s]]

Fault == faults < MaxFaults /\ faults' = faults + 1

\* Faulty: what the run has drained is taken to be delivered.
ParkQueued ==
    /\ parked' = parked \cup Queued
    /\ claimed' = {} /\ queue' = <<>>
    /\ Mark(Queued, "leftover")
    /\ UNCHANGED <<lease, taken>>

\* A generation ends: what it did not write is parked behind what is parked.
ParkAll ==
    /\ parked' = parked \cup claimed \cup Queued
    /\ claimed' = {} /\ queue' = <<>>
    /\ Mark(claimed \cup Queued, "leftover")
    /\ UNCHANGED <<lease, taken>>

(***************************************************************************)
(* The requests of the user                                                *)
(***************************************************************************)

\* POST steer: the generation was read earlier and may be over by now.
Enqueue(s, g) ==
    /\ receipt[s] = "none"
    /\ Open(g) /\ Len(queue) < QueueMax
    /\ queue' = Append(queue, s)
    /\ receipt' = [receipt EXCEPT ![s] = "queued"]
    /\ taken' = [taken EXCEPT ![s] = g]
    /\ accepted' = Append(accepted, s)
    /\ UNCHANGED <<jobVars, claimed, parked, lease, progress, ending, parts,
                   rows, removed, stray, faults>>

\* Faulty: every receipt is corrected when its generation is over.
ReadReceiptOver(s) ==
    /\ receipt[s] # "none" /\ ~IsActive(taken[s])
    /\ Mark({s}, "leftover")
    /\ UNCHANGED <<jobVars, lists, taken, progress, ending, history, faults>>

\* The same POST again after its reply was lost, or a read before a cancel:
\* the receipt answers, corrected when its generation is over.
ReadReceipt(s) ==
    /\ \/ receipt[s] = "queued" /\ (~IsActive(taken[s]) \/ s \notin Queued)
       \/ receipt[s] = "claimed" /\ ~IsActive(taken[s])
    /\ Mark({s}, "leftover")
    /\ UNCHANGED <<jobVars, lists, taken, progress, ending, history, faults>>

\* DELETE steer while it is queued.
Cancel(s) ==
    /\ job.gen # 0
    /\ receipt[s] = "queued" /\ taken[s] = job.gen
    /\ \E i \in DOMAIN queue : queue[i] = s /\ queue' = RemoveAt(queue, i)
    /\ Mark({s}, "cancelled")
    /\ removed' = removed \cup {s}
    /\ UNCHANGED <<jobVars, claimed, parked, lease, taken, progress, ending,
                   accepted, parts, rows, stray, faults>>

\* Faulty: a steer is withdrawn although its recovery is running.
DiscardRecovering(s) ==
    /\ receipt[s] = "leftover"
    /\ parked' = parked \ {s} /\ lease' = [lease EXCEPT ![s] = 0]
    /\ Mark({s}, "cancelled")
    /\ removed' = removed \cup {s}
    /\ UNCHANGED <<jobVars, queue, claimed, taken, progress, ending, accepted,
                   parts, rows, stray, faults>>

\* DELETE steer after its generation ended.
Discard(s) ==
    /\ receipt[s] = "leftover" /\ ~Recovering(s)
    /\ parked' = parked \ {s} /\ lease' = [lease EXCEPT ![s] = 0]
    /\ Mark({s}, "cancelled")
    /\ removed' = removed \cup {s}
    /\ UNCHANGED <<jobVars, queue, claimed, taken, progress, ending, accepted,
                   parts, rows, stray, faults>>

\* A new generation, for an ordinary message (s = NoSteer) or to recover a
\* steer.  What the one before left behind is parked.  When its hash has
\* expired, its claims are dropped, and its queue too unless steers are parked.
Create(s) ==
    LET live  == job.gen # 0
        moved == IF live THEN claimed \cup Queued
                 ELSE IF parked # {} THEN Queued ELSE {}
    IN  /\ epoch < MaxGens
        /\ s \in parked \cup moved \cup {NoSteer}
        /\ ~live => s \notin Queued
        /\ epoch' = epoch + 1
        /\ job' = [gen |-> epoch + 1, status |-> "running", pending |-> FALSE]
        /\ parked' = parked \cup moved
        /\ lease' = [t \in Steers |-> IF t = s THEN epoch + 1 ELSE 0]
        /\ queue' = <<>> /\ claimed' = {}
        /\ Mark(IF live THEN moved ELSE {}, "leftover")
        /\ pc' = [pc EXCEPT ![epoch + 1] = "idle"]
        /\ recovers' = [recovers EXCEPT ![epoch + 1] = s]
        /\ UNCHANGED <<taken, batch, done, context, committed, claim, history,
                       faults>>

(***************************************************************************)
(* The run of a generation: the drain hook                                 *)
(***************************************************************************)

\* The whole queue is taken.  A reply that is lost leaves it claimed.
Drain(g) ==
    /\ pc[g] = "idle" /\ claim[g] = "none"
    /\ Open(g) /\ queue # <<>>
    /\ \A s \in Queued : receipt[s] = "queued" /\ taken[s] = g
    /\ claimed' = claimed \cup Queued /\ queue' = <<>>
    /\ Mark(Queued, "claimed")
    /\ \/ /\ pc' = [pc EXCEPT ![g] = "apply"] /\ batch' = [batch EXCEPT ![g] = queue]
          /\ UNCHANGED faults
       \/ Fault /\ UNCHANGED <<pc, batch>>
    /\ UNCHANGED <<jobVars, parked, lease, taken, done, context, ending, history>>

Claimed(s, g) == s \in claimed /\ receipt[s] = "claimed" /\ taken[s] = g

\* What the append script requires of the first steer of the batch.
CanApply(g) == Open(g) /\ Claimed(Head(batch[g]), g)

WritePart(s) ==
    /\ claimed' = claimed \ {s}
    /\ Mark({s}, "delivered")
    /\ parts' = Append(parts, s)

\* The part and its receipt are written, and the next steer is next.
Apply(g) ==
    /\ pc[g] = "apply" /\ CanApply(g)
    /\ WritePart(Head(batch[g]))
    /\ pc' = [pc EXCEPT ![g] = IF Len(batch[g]) = 1 THEN "inject" ELSE "apply"]
    /\ batch' = [batch EXCEPT ![g] = Tail(batch[g])]
    /\ done' = [done EXCEPT ![g] = Append(done[g], Head(batch[g]))]
    /\ UNCHANGED <<jobVars, queue, parked, lease, taken, context, ending,
                   accepted, rows, removed, stray, faults>>

\* The write is refused, or fails, or succeeds and its reply is lost: the run
\* takes its own part back and stops at this steer.
ApplyFails(g) ==
    /\ pc[g] = "apply"
    /\ pc' = [pc EXCEPT ![g] = "restore"]
    /\ \/ ~CanApply(g) /\ UNCHANGED <<claimed, receipt, parts, faults>>
       \/ Fault /\ UNCHANGED <<claimed, receipt, parts>>
       \/ Fault /\ CanApply(g) /\ WritePart(Head(batch[g]))
    /\ UNCHANGED <<jobVars, queue, parked, lease, taken, batch, done, context,
                   ending, accepted, rows, removed, stray>>

CanRestore(g) == Open(g) /\ \A s \in ToSet(batch[g]) : Claimed(s, g)

\* Faulty: they go back behind what came meanwhile.
RestoreBehind(g) ==
    /\ pc[g] = "restore"
    /\ pc' = [pc EXCEPT ![g] = "inject"] /\ batch' = [batch EXCEPT ![g] = <<>>]
    /\ \/ /\ CanRestore(g)
          /\ claimed' = claimed \ ToSet(batch[g])
          /\ queue' = queue \o batch[g]
          /\ Mark(ToSet(batch[g]), "queued")
          /\ UNCHANGED faults
       \/ ~CanRestore(g) /\ UNCHANGED <<claimed, queue, receipt, faults>>
       \/ Fault /\ UNCHANGED <<claimed, queue, receipt>>
    /\ UNCHANGED <<jobVars, parked, lease, taken, done, context, ending, history>>

\* The steers that were not written go back to the front of the queue, all or
\* none.
Restore(g) ==
    /\ pc[g] = "restore"
    /\ pc' = [pc EXCEPT ![g] = "inject"] /\ batch' = [batch EXCEPT ![g] = <<>>]
    /\ \/ /\ CanRestore(g)
          /\ claimed' = claimed \ ToSet(batch[g])
          /\ queue' = batch[g] \o queue
          /\ Mark(ToSet(batch[g]), "queued")
          /\ UNCHANGED faults
       \/ ~CanRestore(g) /\ UNCHANGED <<claimed, queue, receipt, faults>>
       \/ Fault /\ UNCHANGED <<claimed, queue, receipt>>
    /\ UNCHANGED <<jobVars, parked, lease, taken, done, context, ending, history>>

\* The model is given what was written.
Inject(g) ==
    /\ pc[g] = "inject"
    /\ pc' = [pc EXCEPT ![g] = "idle"] /\ done' = [done EXCEPT ![g] = <<>>]
    /\ context' = [context EXCEPT ![g] = context[g] \cup ToSet(done[g])]
    /\ UNCHANGED <<jobVars, lists, receipts, batch, ending, history, faults>>

(***************************************************************************)
(* The end of a generation                                                 *)
(***************************************************************************)

\* The run pauses for an approval, and a process continues it.
Pause(g) ==
    /\ job.gen = g /\ job.status = "running" /\ pc[g] = "idle"
    /\ job' = [job EXCEPT !.status = "requires_action"]
    /\ UNCHANGED <<epoch, lists, receipts, progress, ending, history, faults>>

Resume(g) ==
    /\ job.gen = g /\ job.status = "requires_action"
    /\ job' = [job EXCEPT !.status = "running"]
    /\ pc' = [pc EXCEPT ![g] = "idle"]
    /\ batch' = [batch EXCEPT ![g] = <<>>] /\ done' = [done EXCEPT ![g] = <<>>]
    /\ UNCHANGED <<epoch, lists, receipts, context, ending, history, faults>>

\* The terminal transition: the run completes or fails, or the generation is
\* aborted.  Completion and abort save messages before they publish.  A run that
\* finds its signal aborted ends as "aborted", and saves as one that completes.
End(g, status) ==
    /\ job.gen = g /\ job.status \in Active
    /\ status = "complete" => job.status = "running" /\ pc[g] = "idle"
    /\ job' = [job EXCEPT !.status = status, !.pending = status # "error"]
    /\ ParkAll
    /\ \/ claim' = [claim EXCEPT ![g] = status]
       \/ /\ status = "aborted" /\ job.status = "running" /\ pc[g] = "idle"
          /\ claim' = [claim EXCEPT ![g] = "complete"]
    /\ UNCHANGED <<epoch, progress, recovers, committed, history, faults>>

\* The message of a recovered steer is saved under its own id, by its run from
\* the start on, and again by whoever ended the generation.
SaveRow(g) ==
    /\ recovers[g] # NoSteer /\ recovers[g] \notin rows
    /\ pc[g] \notin {"none", "gone"} \/ claim[g] \in {"complete", "aborted"}
    /\ rows' = rows \cup {recovers[g]}
    /\ UNCHANGED <<jobVars, lists, receipts, progress, ending, accepted, parts,
                   removed, stray, faults>>

\* What the consume script requires; without parked steers it has nothing to do.
CanConsume(g) ==
    LET s == recovers[g]
    IN  /\ job.gen = g
        /\ parked # {} => s \in parked /\ lease[s] = g /\ receipt[s] = "leftover"

\* The recovered steer leaves the parked list once its message is saved: before
\* a pause is released, or after the completion was claimed.
Commit(g) ==
    LET s == recovers[g]
    IN  /\ s \in rows /\ ~committed[g] /\ CanConsume(g)
        /\ \/ claim[g] = "complete"
           \/ job.status = "requires_action" /\ pc[g] = "idle"
        /\ parked' = parked \ {s} /\ lease' = [lease EXCEPT ![s] = 0]
        /\ Mark(parked \cap {s}, "recovered")
        /\ committed' = [committed EXCEPT ![g] = TRUE]
        /\ UNCHANGED <<jobVars, queue, claimed, taken, progress, recovers, claim,
                       history, faults>>

\* The completion cannot take the steer: its response is not published.
CommitFails(g) ==
    /\ recovers[g] \in rows /\ ~committed[g] /\ ~CanConsume(g)
    /\ claim[g] = "complete"
    /\ claim' = [claim EXCEPT ![g] = "failed"]
    /\ UNCHANGED <<jobVars, lists, receipts, progress, recovers, committed,
                   history, faults>>

\* The final event is stored and published, and the run is over.
Publish(g) ==
    /\ \/ claim[g] = "complete" /\ (recovers[g] = NoSteer \/ committed[g])
       \/ claim[g] \in {"aborted", "error", "failed"}
    /\ claim' = [claim EXCEPT ![g] = "done"] /\ pc' = [pc EXCEPT ![g] = "gone"]
    /\ job' = IF job.gen = g THEN [job EXCEPT !.pending = FALSE] ELSE job
    /\ UNCHANGED <<epoch, lists, receipts, batch, done, context, recovers,
                   committed, history, faults>>

\* A process stops in the middle of what it does for the generation.
Crash(g) ==
    /\ pc[g] \notin {"none", "gone"} \/ claim[g] \notin {"none", "done"}
    /\ pc' = [pc EXCEPT ![g] = "gone"]
    /\ batch' = [batch EXCEPT ![g] = <<>>] /\ done' = [done EXCEPT ![g] = <<>>]
    /\ claim' = [claim EXCEPT ![g] = IF claim[g] = "none" THEN "none" ELSE "done"]
    /\ UNCHANGED <<jobVars, lists, receipts, context, recovers, committed,
                   history, faults>>

(***************************************************************************)
(* Cleanup                                                                 *)
(***************************************************************************)

\* The hash of a generation that ended is deleted, by its owner or when it
\* expires.  A reader has published in place of an owner that stopped.
Delete(g) ==
    /\ job.gen = g /\ job.status \in Terminal /\ claim[g] = "done"
    /\ job' = NoJob /\ queue' = <<>> /\ claimed' = {}
    /\ UNCHANGED <<epoch, parked, lease, receipts, progress, ending, history,
                   faults>>

\* The cleanup finds a running generation that was silent for too long.
Reap(g) ==
    /\ job.gen = g /\ job.status = "running"
    /\ job' = NoJob
    /\ ParkAll
    /\ UNCHANGED <<epoch, progress, ending, history, faults>>

\* Redis expires the hash of a running generation that was silent for as long.
Expire(g) ==
    /\ job.gen = g /\ job.status = "running"
    /\ job' = NoJob
    /\ stray' = stray \cup claimed \cup Queued
    /\ UNCHANGED <<epoch, lists, receipts, progress, ending, accepted, parts,
                   rows, removed, faults>>

\* The lists have a time to live of their own.
ExpireList ==
    /\ job.gen = 0
    /\ \/ queue # <<>> /\ queue' = <<>> /\ UNCHANGED claimed
       \/ claimed # {} /\ claimed' = {} /\ UNCHANGED queue
    /\ UNCHANGED <<jobVars, parked, lease, receipts, progress, ending, history,
                   faults>>

(***************************************************************************)
(* Specification                                                           *)
(***************************************************************************)

Next ==
    \/ \E s \in Steers :
          ReadReceipt(s) \/ Cancel(s) \/ Discard(s) \/ \E g \in Gens : Enqueue(s, g)
    \/ \E s \in Steers \cup {NoSteer} : Create(s)
    \/ \E g \in Gens :
          \/ Drain(g) \/ Apply(g) \/ ApplyFails(g) \/ Restore(g) \/ Inject(g)
          \/ Pause(g) \/ Resume(g) \/ SaveRow(g) \/ Commit(g) \/ CommitFails(g)
          \/ Publish(g) \/ Crash(g) \/ Delete(g) \/ Reap(g) \/ Expire(g)
          \/ \E status \in Terminal : End(g, status)
    \/ ExpireList

Spec == Init /\ [][Next]_vars

\* The steps of a process that has not stopped, approvals that expire, and the
\* periodic cleanup: a generation does not last forever.
Works(g) ==
    \/ Drain(g) \/ Apply(g) \/ ApplyFails(g) \/ Restore(g) \/ Inject(g)
    \/ SaveRow(g) \/ Commit(g) \/ CommitFails(g) \/ Publish(g) \/ Delete(g)

Ends(g) ==
    \/ End(g, "complete")
    \/ job.status = "requires_action" /\ End(g, "aborted")
    \/ pc[g] = "gone" /\ (Reap(g) \/ Expire(g))

FairSpec == Spec /\ \A g \in Gens : WF_vars(Works(g)) /\ WF_vars(Ends(g))

-----------------------------------------------------------------------------

\* Where a steer can be found.
Places(s) ==
    {p \in {"queue", "claimed", "parked", "final"} :
        \/ p = "queue"   /\ s \in Queued
        \/ p = "claimed" /\ s \in claimed
        \/ p = "parked"  /\ s \in parked
        \/ p = "final"   /\ receipt[s] \in Final}

\* Nothing that was accepted is lost or held twice: it is in one list, once, or
\* its receipt is final.  Only a hash that expired loses it.
OnePlace ==
    /\ \A i, j \in DOMAIN queue : queue[i] = queue[j] => i = j
    /\ \A s \in ToSet(accepted) \ stray : \E p \in Places(s) : Places(s) = {p}

\* The same, in a well-formed job: its lists, receipts and claims fit together.
WellKept == TypeOK /\ OnePlace

\* A message reaches the model once: as a part that was written before it was
\* injected, or as a turn of its own.  The turn is tried again only while no
\* generation has taken the steer out of the parked list, and what one has taken
\* is in no list again.  No active generation has a withdrawn steer as its turn:
\* one that was over when the cancel was answered may still save the row, and
\* nothing else.  Only a steer of an expired hash may come back after its cancel.
DeliveredOnce ==
    /\ \A i, j \in DOMAIN parts : parts[i] = parts[j] => i = j
    /\ \A s \in Steers : s \in ToSet(parts) <=> receipt[s] = "delivered"
    /\ (rows \cup removed) \cap ToSet(parts) = {}
    /\ \A g \in Gens : context[g] \subseteq ToSet(parts)
    /\ \A s \in Steers : receipt[s] = "recovered" => s \in rows
    /\ \A g, h \in Gens : committed[g] =>
          /\ recovers[g] \notin parked \cup claimed \cup Queued
          /\ g < h => recovers[h] # recovers[g]
    /\ \A s \in removed : receipt[s] = "cancelled" /\ (Recovering(s) => s \in stray)

Before(list, s, t) == \E i, j \in DOMAIN list : i < j /\ list[i] = s /\ list[j] = t

\* Instructions keep their order: of two steers of one generation the later is
\* not written while the earlier can still be, nor before it.
InstructionOrder ==
    \A s, t \in Steers :
        Before(accepted, s, t) /\ taken[s] = taken[t] =>
            /\ ~Before(parts, t, s)
            /\ t \in ToSet(parts) => s \notin Queued

\* What a receipt may turn into.
Follows(old, new) ==
    \/ old = new
    \/ old = "none"     /\ new = "queued"
    \/ old = "queued"   /\ new \in {"claimed", "cancelled", "leftover"}
    \/ old = "claimed"  /\ new \in {"queued", "delivered", "leftover"}
    \/ old = "leftover" /\ new \in {"recovered", "cancelled"}

\* A receipt that a client has read stays true: a generation that is over does
\* not take its steers back, and a final receipt is final.
ReceiptsAreFinal ==
    [][\A s \in Steers : Follows(receipt[s], receipt'[s])]_receipt

\* An accepted steer is delivered, withdrawn, sent as a turn, or shown to the
\* user again, unless its hash expired.
WordsComeBack ==
    \A s \in Steers :
        s \in ToSet(accepted) ~> receipt[s] \in Final \/ s \in stray \/ Shown(s)
=============================================================================
