-------------------------- MODULE ApprovalProofs --------------------------
(***************************************************************************)
(* Proofs about the pauses of Approval, for any requests and bounds.       *)
(*                                                                         *)
(* What a process has read may be stale when it acts on it.  The proofs    *)
(* rest on what cannot change back: a generation that has ended does not   *)
(* become active again, an action that is settled stays settled, and a     *)
(* barrier that was released does not return for the same action.          *)
(***************************************************************************)
EXTENDS Approval, TLAPS

\* An action is open exactly while the job waits for it, and belongs to the
\* generation of the job.
ActionsInv ==
    /\ \A a \in Actions : a <= actions => genOf[a] \in 1..epoch
    /\ \A a \in Actions : a > actions =>
          outcome[a] = "none" /\ pc[After(a)] = "none"
    /\ \A g \in Gens : g > epoch => pc[g] = "none" /\ row[g] = "none"
    /\ \A a \in Actions : outcome[a] = "open" <=> job.action = a
    /\ job.action # 0 => genOf[job.action] = job.gen

\* What is plain has its row, and what is swept or has expired is overdue.
DecisionsInv ==
    /\ job.action # 0 /\ ~job.barrier => job.action \in rows
    /\ \A i \in Segments : pc[i] = "saved" => holds[i] \in rows
    /\ sweep # 0 => sweep \in overdue
    /\ \A r \in Requests : ask[r] = "expire" => reqAct[r] \in overdue
    /\ \A r \in Requests : at[r] = "expire" =>
          reqAct[r] \in overdue \/ outcome[reqAct[r]] # "open"

\* What a request has read may be stale, but only in one way.
Informed(r) ==
    /\ at[r] = "idle" <=> ask[r] = "none"
    /\ at[r] # "idle" => reqGen[r] \in 1..epoch
    /\ at[r] \in {"idle", "wait"} => tries[r] = 0
    /\ at[r] \in {"swap", "reread", "check", "save"} => ask[r] = "stop"
    /\ at[r] = "swap" => reqFrom[r] # "none" /\ tries[r] < 3
    /\ at[r] \in {"decide", "expire"} => ask[r] \in {"decide", "expire"}
    /\ ask[r] \in {"decide", "expire"} =>
          reqAct[r] \in 1..actions /\ genOf[reqAct[r]] = reqGen[r]
    /\ at[r] \in {"decide", "expire"} =>
          outcome[reqAct[r]] # "open" \/ ~job.barrier
    /\ answer[r] # "none" => at[r] = "answered"
    /\ answer[r] \in {"won", "lost"} => ask[r] \in {"decide", "expire"}
    /\ answer[r] = "won" => outcome[reqAct[r]] = "resolved"
    /\ at[r] = "save" => ~Active(reqGen[r])

RequestsInv == \A r \in Requests : Informed(r)

\* Whoever is about to write the row of a generation is alone in it.
RowsInv ==
    /\ \A g \in Gens : row[g] \in {"finished", "stopped"} => ~Active(g)
    /\ \A i \in Segments : holds[i] <= actions
    /\ \A i \in Segments : pc[i] \in {"paused", "writing"} => holds[i] # 0
    /\ \A i, k \in Segments : holds[i] = holds[k] /\ holds[i] # 0 => i = k
    /\ \A i \in Segments : pc[i] = "writing" =>
          /\ row[Gen(i)] \notin {"finished", "stopped"}
          /\ Active(Gen(i)) => Paused(Gen(i)) /\ IsBarrier(holds[i])
    /\ \A i \in Segments : pc[i] = "final" =>
          ~Active(Gen(i)) /\ row[Gen(i)] # "stopped"
    /\ \A i, k \in Segments : pc[i] = "writing" /\ pc[k] = "final" => Gen(i) # Gen(k)
    /\ \A r \in Requests : at[r] = "save" =>
          /\ row[reqGen[r]] # "finished"
          /\ \A i \in Segments : pc[i] \in {"writing", "final"} => Gen(i) # reqGen[r]

IInv == /\ TypeOK /\ ActionsInv /\ DecisionsInv /\ RequestsInv /\ RowsInv
        /\ OneDriver /\ RowBeforeDecision /\ OnlyOverdueExpires /\ AnswersAreTrue

(***************************************************************************)
(* What a step does to the job and to the actions                          *)
(***************************************************************************)

JobOK ==
    /\ job \in Jobs
    /\ job.gen \in {0, epoch} /\ job.action \in {0, actions}
    /\ job.status = "requires_action" <=> job.action # 0
    /\ job.barrier => job.action # 0
    /\ job.status = "none" <=> job.gen = 0
    /\ epoch \in 0..MaxGens /\ actions \in 0..MaxActions

ActionsOK == genOf \in [Actions -> 0..MaxGens] /\ outcome \in [Actions -> Outcomes]

Quiet == UNCHANGED <<job, epoch, actions, genOf, outcome>>

\* The job ends, and with it the action that was pending.
Ends ==
    /\ UNCHANGED <<epoch, actions, genOf>>
    /\ \/ job' = NoJob
       \/ job.gen # 0 /\ \E s \in Terminal : Becomes(s)
    /\ \/ UNCHANGED outcome /\ job.action = 0
       \/ \E how \in Outcomes \ {"none", "open", "resolved"} : Settle(how)

\* A decision that wins.
Wins(r) ==
    /\ Decide(r) /\ CanDecide(r) /\ Becomes("running") /\ Settle("resolved")
    /\ UNCHANGED <<epoch, actions, genOf>>

LEMMA GenIsTyped ==
    ASSUME TypeOK, NEW i \in Segments
    PROVE  Gen(i) \in 0..MaxGens
BY ApprovalAssumption DEF TypeOK, Segments, Gen, Actions

\* Each step leaves them alone, or is one of a few.
LEMMA JobSteps ==
    ASSUME TypeOK, RequestsInv, [Next]_vars
    PROVE  \/ Quiet \/ Ends \/ Create
           \/ \E i \in Segments : Pause(i)
           \/ \E i \in Segments : Release(i) /\ job' = Released(i)
           \/ \E r \in Requests : Wins(r)
<1>1. CASE \E i \in Segments : Works(i)
  <2>1. PICK i \in Segments : Works(i)
    BY <1>1
  <2>2. CASE Own(i) \/ WriteRow(i) \/ SaveFinal(i)
    BY <2>2 DEF Own, WriteRow, SaveFinal, Quiet
  <2>3. CASE FailPause(i)
    BY <2>3, GenIsTyped DEF TypeOK, FailPause, Quiet, Ends, Terminal, Outcomes, Paused, Jobs
  <2>4. CASE Error(i)
    BY <2>4 DEF TypeOK, Error, Active, Running, Paused, Quiet, Ends, Terminal, Outcomes
  <2>5. CASE Complete(i)
    BY <2>5 DEF TypeOK, Complete, Running, Quiet, Ends, Terminal
  <2>6. CASE Release(i)
    BY <2>6 DEF Release, Quiet
  <2> QED
    BY <2>1, <2>2, <2>3, <2>4, <2>5, <2>6 DEF Works
<1>2. CASE \E r \in Requests : Serves(r)
  <2>1. PICK r \in Requests : Serves(r)
    BY <1>2
  <2>2. CASE Ready(r) \/ Look(r) \/ Reread(r) \/ Check(r) \/ SaveStopped(r)
    BY <2>2 DEF Ready, Look, Reread, Check, SaveStopped, Quiet
  <2>3. CASE Decide(r)
    BY <2>3 DEF Decide, Wins, Quiet
  <2>4. CASE Expire(r)
    BY <2>4 DEF TypeOK, Expire, Expired, Paused, Quiet, Ends, Terminal, Outcomes
  <2>5. CASE Swap(r)
    BY <2>5 DEF TypeOK, RequestsInv, Informed, Swap, CanStop, Quiet, Ends, Terminal, Outcomes
  <2> QED
    BY <2>1, <2>2, <2>3, <2>4, <2>5 DEF Serves
<1>3. CASE \E r \in Requests, kind \in {"decide", "expire", "stop"} : Begin(r, kind)
  BY <1>3 DEF Begin, Quiet
<1>4. CASE DeadlinePasses \/ SweepReads
  BY <1>4 DEF DeadlinePasses, SweepReads, Quiet
<1>5. CASE FailStale
  BY <1>5 DEF TypeOK, FailStale, Ends, Terminal, Outcomes
<1>6. CASE SweepExpires
  BY <1>6 DEF TypeOK, SweepExpires, IsPlain, Quiet, Ends, Terminal, Outcomes
<1>7. CASE Lapse
  BY <1>7 DEF Lapse, Ends, Outcomes
<1>8. CASE UNCHANGED vars \/ \E g \in Gens : SavePartial(g)
  BY <1>8 DEF vars, SavePartial, Quiet
<1> QED
  BY <1>1, <1>2, <1>3, <1>4, <1>5, <1>6, <1>7, <1>8 DEF Next, Cleans

LEMMA JobStaysTyped ==
    ASSUME TypeOK, RequestsInv, [Next]_vars
    PROVE  JobOK' /\ ActionsOK'
<1> USE ApprovalAssumption DEF JobOK, ActionsOK, Jobs, Actions
<1>1. CASE Quiet
  BY <1>1 DEF TypeOK, Quiet
<1>2. CASE Ends
  <2>1. JobOK'
    <3>1. CASE job' = NoJob
      BY <1>2, <3>1 DEF TypeOK, Ends, NoJob
    <3>2. ASSUME NEW s \in Terminal, Becomes(s), job.gen # 0
          PROVE  JobOK'
      BY <1>2, <3>2 DEF TypeOK, Ends, Becomes, Terminal
    <3> QED
      BY <1>2, <3>1, <3>2 DEF Ends
  <2>2. ActionsOK'
    <3>1. CASE UNCHANGED outcome
      BY <1>2, <3>1 DEF TypeOK, Ends
    <3>2. ASSUME NEW how \in Outcomes, Settle(how)
          PROVE  ActionsOK'
      BY <1>2, <3>2 DEF TypeOK, Ends, Settle
    <3> QED
      BY <1>2, <3>1, <3>2 DEF Ends
  <2> QED
    BY <2>1, <2>2
<1>3. CASE Create
  BY <1>3 DEF TypeOK, Create, Settle, Outcomes
<1>4. ASSUME NEW i \in Segments, Pause(i)
      PROVE  JobOK' /\ ActionsOK'
  <2>1. JobOK'
    BY <1>4, GenIsTyped DEF TypeOK, Pause, Running
  <2>2. genOf' \in [Actions -> 0..MaxGens]
    BY <1>4, GenIsTyped DEF TypeOK, Pause
  <2>3. outcome' \in [Actions -> Outcomes]
    BY <1>4 DEF TypeOK, Pause, Outcomes
  <2> QED
    BY <2>1, <2>2, <2>3
<1>5. ASSUME NEW i \in Segments, Release(i), job' = Released(i)
      PROVE  JobOK' /\ ActionsOK'
  <2>1. CASE Paused(Gen(i)) /\ IsBarrier(holds[i])
    BY <1>5, <2>1 DEF TypeOK, Release, Released
  <2>2. CASE ~(Paused(Gen(i)) /\ IsBarrier(holds[i]))
    BY <1>5, <2>2 DEF TypeOK, Release, Released
  <2> QED
    BY <2>1, <2>2
<1>6. ASSUME NEW r \in Requests, Wins(r)
      PROVE  JobOK' /\ ActionsOK'
  BY <1>6 DEF TypeOK, Wins, CanDecide, Paused, Becomes, Settle, Outcomes, Terminal
<1> QED
  BY <1>1, <1>2, <1>3, <1>4, <1>5, <1>6, JobSteps

(***************************************************************************)
(* Types                                                                   *)
(***************************************************************************)

SegmentsOK ==
    /\ overdue \subseteq Actions
    /\ sweep \in 0..MaxActions
    /\ pc \in [Segments -> Places]
    /\ holds \in [Segments -> 0..MaxActions]
    /\ rows \subseteq Actions
    /\ row \in [Gens -> {"none", "partial", "unfinished", "finished", "stopped"}]
    /\ faults \in 0..MaxFaults

AsksOK ==
    /\ at \in [Requests -> Stages]
    /\ ask \in [Requests -> {"none", "decide", "expire", "stop"}]
    /\ reqGen \in [Requests -> 0..MaxGens]
    /\ reqAct \in [Requests -> 0..MaxActions]
    /\ reqFrom \in [Requests -> {"none", "running", "requires_action"}]
    /\ tries \in [Requests -> 0..3]
    /\ answer \in [Requests -> Answers]

LEMMA GotoTyped ==
    ASSUME TypeOK, NEW i \in Segments, NEW l \in Places, Goto(i, l)
    PROVE  pc' \in [Segments -> Places]
BY DEF TypeOK, Goto

LEMMA SegmentsStayTyped ==
    ASSUME TypeOK, RequestsInv, RowsInv, [Next]_vars
    PROVE  SegmentsOK'
<1> USE ApprovalAssumption DEF TypeOK, SegmentsOK, Fault
<1>1. CASE Create
  <2>1. epoch + 1 \in Segments
    BY <1>1 DEF Create, Segments
  <2> QED
    BY <1>1, <2>1, GotoTyped DEF Create, Places
<1>2. ASSUME NEW i \in Segments, Works(i)
      PROVE  SegmentsOK'
  <2>1. CASE Pause(i)
    <3>1. pc' \in [Segments -> Places]
      BY <2>1, GotoTyped DEF Pause, Places
    <3>2. holds' \in [Segments -> 0..MaxActions] /\ faults' \in 0..MaxFaults
      BY <2>1 DEF Pause
    <3> QED
      BY <2>1, <3>1, <3>2 DEF Pause
  <2>2. CASE Own(i)
    BY <2>2, GotoTyped DEF Own, Places
  <2>3. CASE WriteRow(i)
    <3>1. pc' \in [Segments -> Places]
      BY <2>3, GotoTyped DEF WriteRow, Places
    <3>2. rows' \subseteq Actions
      <4>1. holds[i] \in Actions
        BY <2>3 DEF WriteRow, RowsInv, Actions
      <4> QED
        BY <2>3, <4>1 DEF WriteRow
    <3> QED
      BY <2>3, <3>1, <3>2 DEF WriteRow
  <2>4. CASE FailPause(i) \/ Error(i) \/ Complete(i)
    BY <2>4, GotoTyped DEF FailPause, Error, Complete, Places
  <2>5. CASE Release(i)
    BY <2>5, GotoTyped DEF Release, Places
  <2>6. CASE SaveFinal(i)
    BY <2>6, GotoTyped DEF SaveFinal, Places
  <2> QED
    BY <1>2, <2>1, <2>2, <2>3, <2>4, <2>5, <2>6 DEF Works
<1>3. ASSUME NEW r \in Requests, Serves(r)
      PROVE  SegmentsOK'
  <2>1. CASE Decide(r)
    <3>1. reqAct[r] \in Actions
      BY <2>1 DEF Decide, RequestsInv, Informed, Actions
    <3>2. After(reqAct[r]) \in Segments
      BY <3>1 DEF After, Actions, Segments
    <3> QED
      BY <2>1, <3>2, GotoTyped DEF Decide, Places
  <2>2. CASE SaveStopped(r)
    BY <2>2 DEF SaveStopped
  <2> QED
    BY <1>3, <2>1, <2>2 DEF Serves, Ready, Expire, Look, Swap, Reread, Check
<1>4. CASE DeadlinePasses
  <2>1. job.action \in Actions
    BY <1>4 DEF DeadlinePasses, Jobs, Actions
  <2> QED
    BY <1>4, <2>1 DEF DeadlinePasses
<1>5. CASE SweepReads \/ SweepExpires
  BY <1>5 DEF SweepReads, SweepExpires, Jobs
<1>6. CASE FailStale \/ Lapse
  BY <1>6 DEF FailStale, Lapse
<1>7. CASE \E r \in Requests, kind \in {"decide", "expire", "stop"} : Begin(r, kind)
  BY <1>7 DEF Begin
<1>8. CASE UNCHANGED vars \/ \E g \in Gens : SavePartial(g)
  BY <1>8 DEF vars, SavePartial
<1> QED
  BY <1>1, <1>2, <1>3, <1>4, <1>5, <1>6, <1>7, <1>8 DEF Next, Cleans

LEMMA AsksStayTyped ==
    ASSUME TypeOK, RequestsInv, [Next]_vars
    PROVE  AsksOK'
<1> USE DEF TypeOK, AsksOK, Stages, Answers, Becoming, Answer, asked, asks
<1>1. ASSUME NEW r \in Requests, Serves(r)
      PROVE  AsksOK'
  <2>1. CASE Ready(r) \/ Decide(r) \/ Expire(r)
    BY <2>1 DEF Ready, Decide, Expire
  <2>2. CASE Look(r)
    BY <2>2 DEF Look, Sees, Active, Running, Paused, Jobs
  <2>3. CASE Swap(r)
    BY <2>3 DEF Swap, RequestsInv, Informed
  <2>4. CASE Reread(r)
    BY <2>4 DEF Reread, Sees, Active, Running, Paused, Jobs
  <2>5. CASE Check(r) \/ SaveStopped(r)
    BY <2>5 DEF Check, SaveStopped
  <2> QED
    BY <1>1, <2>1, <2>2, <2>3, <2>4, <2>5 DEF Serves
<1>2. ASSUME NEW r \in Requests, NEW kind \in {"decide", "expire", "stop"}, Begin(r, kind)
      PROVE  AsksOK'
  BY <1>2, ApprovalAssumption DEF Begin, Jobs
<1>3. CASE UNCHANGED asks
  BY <1>3
<1> QED
  BY <1>1, <1>2, <1>3 DEF Next, Works, Cleans, vars, SavePartial, Create, Pause, Own, WriteRow, FailPause,
     Release, Error, Complete, SaveFinal, DeadlinePasses, FailStale, SweepReads, SweepExpires,
     Lapse

LEMMA TypeStep ==
    ASSUME TypeOK, RequestsInv, RowsInv, [Next]_vars
    PROVE  TypeOK'
BY JobStaysTyped, SegmentsStayTyped, AsksStayTyped
   DEF TypeOK, JobOK, ActionsOK, SegmentsOK, AsksOK

(***************************************************************************)
(* What cannot change back                                                 *)
(***************************************************************************)

LEMMA ActionGenStays ==
    ASSUME TypeOK, RequestsInv, [Next]_vars, NEW a \in Actions, a <= actions
    PROVE  genOf'[a] = genOf[a]
<1>1. ASSUME NEW i \in Segments, Pause(i)
      PROVE  genOf'[a] = genOf[a]
  BY <1>1 DEF TypeOK, Pause, Actions
<1> QED
  BY <1>1, JobSteps DEF Quiet, Ends, Create, Release, Wins

LEMMA SettledStays ==
    ASSUME TypeOK, ActionsInv, RequestsInv, [Next]_vars,
           NEW a \in Actions, a <= actions, outcome[a] # "open"
    PROVE  outcome'[a] = outcome[a]
<1> USE DEF ActionsInv, TypeOK
<1>1. ASSUME NEW i \in Segments, Pause(i)
      PROVE  outcome'[a] = outcome[a]
  BY <1>1 DEF Pause, Actions
<1> QED
  BY <1>1, JobSteps DEF Quiet, Ends, Create, Release, Wins, Settle

LEMMA EndedStays ==
    ASSUME TypeOK, RequestsInv, [Next]_vars, NEW g \in 1..epoch, ~Active(g)
    PROVE  ~Active(g)'
<1> USE DEF TypeOK, Active, Running, Paused
<1>1. CASE Quiet
  BY <1>1 DEF Quiet
<1>2. CASE Ends
  BY <1>2 DEF Ends, Becomes, Terminal, NoJob
<1>3. CASE Create
  BY <1>3 DEF Create
<1>4. ASSUME NEW i \in Segments, Pause(i)
      PROVE  ~Active(g)'
  BY <1>4 DEF Pause
<1>5. ASSUME NEW i \in Segments, Release(i), job' = Released(i)
      PROVE  ~Active(g)'
  BY <1>5 DEF Released
<1>6. ASSUME NEW r \in Requests, Wins(r)
      PROVE  ~Active(g)'
  BY <1>6 DEF Wins, CanDecide, Becomes
<1> QED
  BY <1>1, <1>2, <1>3, <1>4, <1>5, <1>6, JobSteps

LEMMA PlainStays ==
    ASSUME TypeOK, ActionsInv, RequestsInv, [Next]_vars,
           NEW a \in Actions, a <= actions, outcome[a] # "open" \/ ~job.barrier
    PROVE  outcome'[a] # "open" \/ ~job'.barrier
<1>1. CASE outcome[a] # "open"
  BY <1>1, SettledStays
<1>2. CASE outcome[a] = "open" /\ ~job.barrier
  <2>1. job.action = a
    BY <1>2 DEF ActionsInv
  <2>2. CASE Quiet
    BY <1>2, <2>2 DEF Quiet
  <2>3. CASE Ends
    BY <2>3 DEF Ends, Becomes, NoJob
  <2>4. CASE Create
    BY <2>4 DEF Create
  <2>5. ASSUME NEW i \in Segments, Pause(i)
        PROVE  FALSE
    BY <2>1, <2>5 DEF TypeOK, Pause, Running, Actions
  <2>6. ASSUME NEW i \in Segments, Release(i), job' = Released(i)
        PROVE  ~job'.barrier
    BY <1>2, <2>6 DEF Released
  <2>7. ASSUME NEW r \in Requests, Wins(r)
        PROVE  ~job'.barrier
    BY <2>7 DEF Wins, Becomes
  <2> QED
    BY <2>2, <2>3, <2>4, <2>5, <2>6, <2>7, JobSteps
<1> QED
  BY <1>1, <1>2

\* A segment that has begun is one of a generation that was created, and of no
\* other ever.
LEMMA BegunGen ==
    ASSUME TypeOK, ActionsInv, NEW i \in Segments, pc[i] # "none"
    PROVE  Gen(i) \in 1..epoch
<1>1. CASE i <= MaxGens
  BY <1>1 DEF TypeOK, ActionsInv, Segments, Gens, Gen
<1>2. CASE ~(i <= MaxGens)
  <2>1. i - MaxGens \in Actions /\ After(i - MaxGens) = i
    BY <1>2, ApprovalAssumption DEF Segments, Actions, After
  <2> QED
    BY <1>2, <2>1 DEF TypeOK, ActionsInv, Gen, Actions
<1> QED
  BY <1>1, <1>2

LEMMA BegunGenStays ==
    ASSUME TypeOK, ActionsInv, RequestsInv, [Next]_vars, NEW i \in Segments, pc[i] # "none"
    PROVE  Gen(i)' = Gen(i)
<1>1. CASE i <= MaxGens
  BY <1>1 DEF Gen
<1>2. CASE ~(i <= MaxGens)
  <2>1. i - MaxGens \in Actions /\ After(i - MaxGens) = i
    BY <1>2, ApprovalAssumption DEF Segments, Actions, After
  <2>2. i - MaxGens <= actions
    BY <2>1 DEF TypeOK, ActionsInv, Actions
  <2> QED
    BY <1>2, <2>1, <2>2, ActionGenStays DEF Gen
<1> QED
  BY <1>1, <1>2

\* What changes the place of a segment: the segment itself, the message that
\* begins it or the decision that begins it.
LEMMA PlaceSteps ==
    ASSUME TypeOK, RequestsInv, [Next]_vars, NEW i \in Segments
    PROVE  \/ pc'[i] = pc[i]
           \/ pc[i] # "none" /\ Works(i) /\ pc'[i] \notin {"none", "driving"}
           \/ Create /\ i = epoch + 1 /\ pc'[i] = "driving"
           \/ \E r \in Requests : Wins(r) /\ i = After(reqAct[r]) /\ pc'[i] = "driving"
<1>1. ASSUME NEW k \in Segments, Works(k)
      PROVE  pc'[i] = pc[i] \/ (i = k /\ pc[i] # "none" /\ pc'[i] \notin {"none", "driving"})
  BY <1>1 DEF TypeOK, Works, Pause, Own, WriteRow, FailPause, Release, Error, Complete,
     SaveFinal, Goto
<1>2. ASSUME NEW r \in Requests, Serves(r)
      PROVE  pc'[i] = pc[i] \/ (Wins(r) /\ i = After(reqAct[r]) /\ pc'[i] = "driving")
  <2>1. CASE Decide(r)
    BY <1>2, <2>1 DEF TypeOK, Decide, Wins, Goto
  <2> QED
    BY <1>2, <2>1 DEF Serves, Ready, Expire, Look, Swap, Reread, Check, SaveStopped
<1>3. CASE Create
  BY <1>3 DEF TypeOK, Create, Goto
<1>4. CASE Cleans \/ Lapse \/ UNCHANGED vars \/ \E g \in Gens : SavePartial(g)
  BY <1>4 DEF Cleans, DeadlinePasses, FailStale, SweepReads, SweepExpires, Lapse, vars,
     SavePartial
<1>5. CASE \E r \in Requests, kind \in {"decide", "expire", "stop"} : Begin(r, kind)
  BY <1>5 DEF Begin
<1> QED
  BY <1>1, <1>2, <1>3, <1>4, <1>5 DEF Next

\* What a pause changes.
LEMMA PauseEffect ==
    ASSUME TypeOK, ActionsInv, NEW i \in Segments, Pause(i)
    PROVE  /\ job.status = "running" /\ job.action = 0 /\ job.gen = Gen(i)
           /\ actions + 1 \in Actions /\ actions' = actions + 1 /\ UNCHANGED epoch
           /\ job'.action = actions + 1 /\ job'.gen = Gen(i) /\ Gen(i) \in 1..epoch
           /\ genOf'[actions + 1] = Gen(i) /\ outcome'[actions + 1] = "open"
           /\ \A a \in Actions : a # actions + 1 =>
                 genOf'[a] = genOf[a] /\ outcome'[a] = outcome[a]
<1>1. /\ job.status = "running" /\ job.action = 0 /\ job.gen = Gen(i)
      /\ actions + 1 \in Actions /\ actions' = actions + 1 /\ UNCHANGED epoch
      /\ job'.action = actions + 1 /\ job'.gen = Gen(i)
  <2>1. job.status = "running" /\ job.action = 0 /\ job.gen = Gen(i)
    BY DEF TypeOK, Pause, Running
  <2>2. actions + 1 \in Actions
    BY ApprovalAssumption DEF TypeOK, Pause, Actions
  <2>3. actions' = actions + 1 /\ UNCHANGED epoch
    BY DEF Pause
  <2>4. job'.action = actions + 1 /\ job'.gen = job.gen
    BY DEF Pause
  <2> QED
    BY <2>1, <2>2, <2>3, <2>4
<1>2. Gen(i) \in 1..epoch
  BY BegunGen DEF Pause
<1>3. genOf'[actions + 1] = Gen(i) /\ outcome'[actions + 1] = "open"
  BY <1>1 DEF TypeOK, Pause
<1>4. ASSUME NEW a \in Actions, a # actions + 1
      PROVE  genOf'[a] = genOf[a] /\ outcome'[a] = outcome[a]
  BY <1>4 DEF TypeOK, Pause
<1> QED
  BY <1>1, <1>2, <1>3, <1>4

\* What the end of a job changes.
LEMMA EndsEffect ==
    ASSUME TypeOK, ActionsInv, Ends
    PROVE  /\ job'.action = 0 /\ job'.gen \in {0, job.gen}
           /\ job'.status \notin {"running", "requires_action"}
           /\ \A a \in Actions : outcome'[a] # "open"
           /\ \A a \in Actions : outcome[a] = "none" => outcome'[a] = "none"
<1>1. /\ job'.action = 0 /\ job'.gen \in {0, job.gen}
      /\ job'.status \notin {"running", "requires_action"}
  BY DEF Ends, Becomes, NoJob, Terminal
<1>2. CASE UNCHANGED outcome /\ job.action = 0
  BY <1>1, <1>2 DEF ActionsInv, Actions
<1>3. ASSUME NEW how \in Outcomes \ {"none", "open", "resolved"}, Settle(how), NEW a \in Actions
      PROVE  outcome'[a] # "open" /\ (outcome[a] = "none" => outcome'[a] = "none")
  BY <1>3 DEF ActionsInv, Settle
<1> QED
  BY <1>1, <1>2, <1>3 DEF Ends

\* The responses are written by segments and by Stops.
LEMMA RowSteps ==
    ASSUME TypeOK, RequestsInv, [Next]_vars
    PROVE  \/ UNCHANGED row
           \/ \E i \in Segments : WriteRow(i) \/ SaveFinal(i)
           \/ \E r \in Requests : SaveStopped(r)
           \/ \E g \in Gens : SavePartial(g)
BY DEF Next, Works, Serves, Cleans, vars, Create, Pause, Own, FailPause, Release, Error,
   Complete, Begin, Ready, Decide, Expire, Look, Swap, Reread, Check, DeadlinePasses,
   FailStale, SweepReads, SweepExpires, Lapse

(***************************************************************************)
(* The invariant, part by part                                             *)
(***************************************************************************)

LEMMA ActionsStep ==
    ASSUME TypeOK, ActionsInv, RequestsInv, RowsInv, [Next]_vars
    PROVE  ActionsInv'
<1> USE DEF TypeOK, ActionsInv
<1>a. TypeOK'
  BY TypeStep
<1>1. \A a \in Actions : a <= actions' => genOf'[a] \in 1..epoch'
  <2>1. CASE Quiet \/ Ends
    BY <2>1 DEF Quiet, Ends
  <2>2. CASE Create
    BY <2>2 DEF Create
  <2>3. ASSUME NEW i \in Segments, Pause(i), NEW a \in Actions, a <= actions'
        PROVE  genOf'[a] \in 1..epoch'
    BY <2>3, PauseEffect DEF Actions
  <2>4. ASSUME NEW i \in Segments, Release(i)
        PROVE  UNCHANGED <<genOf, actions, epoch>>
    BY <2>4 DEF Release
  <2> QED
    BY <2>1, <2>2, <2>3, <2>4, JobSteps DEF Wins
<1>2. ASSUME NEW a \in Actions, a > actions'
      PROVE  outcome'[a] = "none" /\ pc'[After(a)] = "none"
  <2>1. a > actions
    BY <1>2, JobSteps DEF Quiet, Ends, Create, Pause, Release, Wins, Actions
  <2>2. outcome'[a] = "none"
    <3>1. ASSUME NEW i \in Segments, Pause(i)
          PROVE  outcome'[a] = "none"
      BY <1>2, <2>1, <3>1, PauseEffect
    <3> QED
      BY <2>1, <3>1, JobSteps, EndsEffect DEF Quiet, Create, Release, Wins, Settle
  <2>3. After(a) \in Segments /\ After(a) > MaxGens
    BY ApprovalAssumption DEF Actions, Segments, After
  <2>4. ASSUME NEW r \in Requests, Wins(r), After(a) = After(reqAct[r])
        PROVE  FALSE
    <3>1. reqAct[r] = a
      BY <2>4, ApprovalAssumption DEF After, Actions
    <3> QED
      BY <2>1, <2>4, <3>1 DEF Wins, CanDecide, IsPlain, Actions
  <2>5. ASSUME Create, After(a) = epoch + 1
        PROVE  FALSE
    BY <2>3, <2>5, ApprovalAssumption DEF Create, Segments
  <2> QED
    BY <2>1, <2>2, <2>3, <2>4, <2>5, PlaceSteps
<1>3. ASSUME NEW g \in Gens, g > epoch'
      PROVE  pc'[g] = "none" /\ row'[g] = "none"
  <2>1. /\ g > epoch /\ pc[g] = "none" /\ row[g] = "none"
        /\ Create => g # epoch + 1
    BY <1>3, JobSteps DEF Quiet, Ends, Create, Pause, Release, Wins, Gens
  <2>2. pc'[g] = "none"
    <3>1. g \in Segments
      BY ApprovalAssumption DEF Gens, Segments
    <3>2. ASSUME NEW r \in Requests, Wins(r)
          PROVE  g # After(reqAct[r])
      <4>1. reqAct[r] \in 1..actions
        BY <3>2 DEF Wins, Decide, RequestsInv, Informed
      <4> QED
        BY <4>1, ApprovalAssumption DEF After, Gens
    <3> QED
      BY <2>1, <3>1, <3>2, PlaceSteps
  <2>3. row'[g] = "none"
    <3>1. ASSUME NEW i \in Segments, WriteRow(i) \/ SaveFinal(i)
          PROVE  row'[g] = row[g]
      BY <2>1, <3>1, BegunGen DEF WriteRow, SaveFinal
    <3>2. ASSUME NEW r \in Requests, SaveStopped(r)
          PROVE  row'[g] = row[g]
      BY <2>1, <3>2 DEF SaveStopped, RequestsInv, Informed
    <3>3. ASSUME NEW h \in Gens, SavePartial(h)
          PROVE  row'[g] = row[g]
      BY <2>1, <3>3 DEF SavePartial
    <3> QED
      BY <2>1, <3>1, <3>2, <3>3, RowSteps
  <2> QED
    BY <2>2, <2>3
<1>4. \A a \in Actions : outcome'[a] = "open" <=> job'.action = a
  <2>1. CASE Quiet
    BY <2>1 DEF Quiet
  <2>2. CASE Ends
    BY <2>2, EndsEffect DEF Actions
  <2>3. CASE Create
    BY <2>3 DEF Create, Settle, Actions
  <2>4. ASSUME NEW i \in Segments, Pause(i)
        PROVE  \A a \in Actions : outcome'[a] = "open" <=> job'.action = a
    BY <2>4, PauseEffect DEF Actions
  <2>5. ASSUME NEW i \in Segments, Release(i), job' = Released(i)
        PROVE  \A a \in Actions : outcome'[a] = "open" <=> job'.action = a
    BY <2>5 DEF Release, Released
  <2>6. ASSUME NEW r \in Requests, Wins(r)
        PROVE  \A a \in Actions : outcome'[a] = "open" <=> job'.action = a
    BY <2>6 DEF Wins, Settle, Becomes, Actions
  <2> QED
    BY <2>1, <2>2, <2>3, <2>4, <2>5, <2>6, JobSteps
<1>5. job'.action # 0 => genOf'[job'.action] = job'.gen
  <2>1. CASE Quiet
    BY <2>1 DEF Quiet
  <2>2. CASE Ends
    BY <2>2 DEF Ends, Becomes, NoJob
  <2>3. CASE Create
    BY <2>3 DEF Create
  <2>4. ASSUME NEW i \in Segments, Pause(i)
        PROVE  genOf'[job'.action] = job'.gen
    BY <2>4, PauseEffect
  <2>5. ASSUME NEW i \in Segments, Release(i), job' = Released(i)
        PROVE  job'.action # 0 => genOf'[job'.action] = job'.gen
    BY <2>5 DEF Release, Released
  <2>6. ASSUME NEW r \in Requests, Wins(r)
        PROVE  job'.action = 0
    BY <2>6 DEF Wins, Becomes
  <2> QED
    BY <2>1, <2>2, <2>3, <2>4, <2>5, <2>6, JobSteps
<1> QED
  BY <1>1, <1>2, <1>3, <1>4, <1>5 DEF After

\* A step leaves a request as it is, or is one of its own.
Same(r) ==
    /\ at'[r] = at[r] /\ ask'[r] = ask[r] /\ reqGen'[r] = reqGen[r]
    /\ reqAct'[r] = reqAct[r] /\ reqFrom'[r] = reqFrom[r] /\ tries'[r] = tries[r]
    /\ answer'[r] = answer[r]

LEMMA AskSteps ==
    ASSUME TypeOK, [Next]_vars, NEW r \in Requests
    PROVE  Same(r) \/ Serves(r) \/ \E kind \in {"decide", "expire", "stop"} : Begin(r, kind)
<1> USE DEF TypeOK, Same, Becoming, Answer, asked, asks
<1>1. ASSUME NEW q \in Requests, Serves(q), q # r
      PROVE  Same(r)
  BY <1>1 DEF Serves, Ready, Decide, Expire, Look, Swap, Reread, Check, SaveStopped, Sees
<1>2. ASSUME NEW q \in Requests, NEW kind \in {"decide", "expire", "stop"}, Begin(q, kind), q # r
      PROVE  Same(r)
  BY <1>2 DEF Begin
<1>3. CASE UNCHANGED asks
  BY <1>3
<1> QED
  BY <1>1, <1>2, <1>3 DEF Next, Works, Cleans, vars, SavePartial, Create, Pause, Own, WriteRow, FailPause,
     Release, Error, Complete, SaveFinal, DeadlinePasses, FailStale, SweepReads, SweepExpires,
     Lapse

LEMMA CountersGrow ==
    ASSUME TypeOK, RequestsInv, [Next]_vars
    PROVE  /\ epoch' \in Nat /\ epoch <= epoch'
           /\ actions' \in Nat /\ actions <= actions'
BY JobSteps DEF TypeOK, Quiet, Ends, Create, Pause, Release, Wins

LEMMA RequestsStep ==
    ASSUME TypeOK, ActionsInv, RequestsInv, RowsInv, [Next]_vars
    PROVE  RequestsInv'
<1> SUFFICES ASSUME NEW r \in Requests
             PROVE  Informed(r)'
  BY DEF RequestsInv
<1>a. TypeOK'
  BY TypeStep
<1>b. Informed(r)
  BY DEF RequestsInv
<1>1. CASE Same(r)
  <2>1. at[r] # "idle" => reqGen'[r] \in 1..epoch'
    BY <1>1, <1>b, CountersGrow DEF Same, Informed, TypeOK
  <2>2. ASSUME ask[r] \in {"decide", "expire"}
        PROVE  /\ reqAct'[r] \in 1..actions' /\ genOf'[reqAct'[r]] = reqGen'[r]
               /\ at[r] \in {"decide", "expire"} => outcome'[reqAct[r]] # "open" \/ ~job'.barrier
               /\ outcome[reqAct[r]] = "resolved" => outcome'[reqAct[r]] = "resolved"
    <3>1. reqAct[r] \in 1..actions /\ reqAct[r] \in Actions /\ reqAct[r] <= actions
      BY <1>b, <2>2 DEF Informed, TypeOK, Actions
    <3>2. reqAct[r] \in 1..actions'
      BY <3>1, CountersGrow DEF TypeOK
    <3>3. genOf'[reqAct[r]] = reqGen[r]
      BY <1>b, <2>2, <3>1, ActionGenStays DEF Informed
    <3>4. at[r] \in {"decide", "expire"} => outcome'[reqAct[r]] # "open" \/ ~job'.barrier
      BY <1>b, <3>1, PlainStays DEF Informed
    <3>5. outcome[reqAct[r]] = "resolved" => outcome'[reqAct[r]] = "resolved"
      BY <3>1, SettledStays
    <3> QED
      BY <1>1, <3>2, <3>3, <3>4, <3>5 DEF Same
  <2>3. at[r] = "save" => ~Active(reqGen[r])'
    BY <1>1, <1>b, EndedStays DEF Same, Informed
  <2> QED
    BY <1>1, <1>b, <2>1, <2>2, <2>3 DEF Same, Informed
<1>2. CASE Serves(r)
  <2> USE <1>b DEF TypeOK, Informed, Becoming, Answer, asked
  <2>1. CASE Ready(r)
    BY <2>1 DEF Ready, Blocked, Paused, Active, Running
  <2>2. CASE Decide(r)
    <3>1. CanDecide(r) => job.action = reqAct[r] /\ reqAct[r] \in Actions
      BY <2>2 DEF Decide, CanDecide, IsPlain, Actions
    <3> QED
      BY <2>2, <3>1 DEF Decide, Settle
  <2>3. CASE Expire(r)
    BY <2>3 DEF Expire
  <2>4. CASE Look(r)
    BY <2>4 DEF Look, Sees, Active, Running, Paused
  <2>5. CASE Swap(r)
    BY <2>5 DEF Swap, Becomes, Active, Running, Paused
  <2>6. CASE Reread(r)
    BY <2>6 DEF Reread, Sees, Active, Running, Paused
  <2>7. CASE Check(r) \/ SaveStopped(r)
    BY <2>7 DEF Check, SaveStopped
  <2> QED
    BY <1>2, <2>1, <2>2, <2>3, <2>4, <2>5, <2>6, <2>7 DEF Serves
<1>3. ASSUME NEW kind \in {"decide", "expire", "stop"}, Begin(r, kind)
      PROVE  Informed(r)'
  BY <1>3, <1>b DEF TypeOK, Informed, Begin, Becoming, ActionsInv, Actions
<1> QED
  BY <1>1, <1>2, <1>3, AskSteps

LEMMA SetsGrow ==
    ASSUME [Next]_vars
    PROVE  rows \subseteq rows' /\ overdue \subseteq overdue'
BY DEF Next, Works, Serves, Cleans, vars, SavePartial, Create, Pause, Own, WriteRow, FailPause, Release,
   Error, Complete, SaveFinal, Begin, Ready, Decide, Expire, Look, Swap, Reread, Check,
   SaveStopped, DeadlinePasses, FailStale, SweepReads, SweepExpires, Lapse

\* Only a pause takes hold of an action, one that is new.
LEMMA HoldSteps ==
    ASSUME TypeOK, [Next]_vars, NEW i \in Segments
    PROVE  \/ holds'[i] = holds[i]
           \/ Pause(i) /\ holds'[i] = actions + 1 /\ pc'[i] = "paused"
<1>1. ASSUME NEW k \in Segments, Works(k)
      PROVE  \/ holds'[i] = holds[i]
             \/ Pause(i) /\ holds'[i] = actions + 1 /\ pc'[i] = "paused"
  BY <1>1 DEF TypeOK, Works, Pause, Own, WriteRow, FailPause, Release, Error, Complete,
     SaveFinal, Goto
<1> QED
  BY <1>1 DEF Next, Serves, Cleans, vars, SavePartial, Create, Begin, Ready, Decide, Expire, Look, Swap,
     Reread, Check, SaveStopped, DeadlinePasses, FailStale, SweepReads, SweepExpires, Lapse

LEMMA DecisionsStep ==
    ASSUME TypeOK, ActionsInv, DecisionsInv, RequestsInv, RowsInv, [Next]_vars
    PROVE  DecisionsInv'
<1> USE DEF TypeOK, DecisionsInv
<1>1. job'.action # 0 /\ ~job'.barrier => job'.action \in rows'
  <2>1. CASE Quiet
    BY <2>1, SetsGrow DEF Quiet
  <2>2. CASE Ends
    BY <2>2, EndsEffect
  <2>3. CASE Create
    BY <2>3 DEF Create
  <2>4. ASSUME NEW i \in Segments, Pause(i)
        PROVE  job'.barrier
    BY <2>4 DEF Pause
  <2>5. ASSUME NEW i \in Segments, Release(i), job' = Released(i)
        PROVE  job'.action # 0 /\ ~job'.barrier => job'.action \in rows'
    BY <2>5, SetsGrow DEF Release, Released, IsBarrier
  <2>6. ASSUME NEW r \in Requests, Wins(r)
        PROVE  job'.action = 0
    BY <2>6 DEF Wins, Becomes
  <2> QED
    BY <2>1, <2>2, <2>3, <2>4, <2>5, <2>6, JobSteps
<1>2. ASSUME NEW i \in Segments, pc'[i] = "saved"
      PROVE  holds'[i] \in rows'
  <2>1. holds'[i] = holds[i]
    BY <1>2, HoldSteps
  <2>2. CASE pc[i] = "saved"
    BY <2>1, <2>2, SetsGrow
  <2>3. CASE WriteRow(i)
    BY <1>2, <2>1, <2>3 DEF WriteRow, Goto
  <2>4. Works(i) => WriteRow(i)
    BY <1>2 DEF Works, Pause, Own, FailPause, Release, Error, Complete, SaveFinal, Goto
  <2> QED
    BY <1>2, <2>2, <2>3, <2>4, PlaceSteps
<1>3. sweep' # 0 => sweep' \in overdue'
  BY SetsGrow DEF Next, Works, Serves, Cleans, vars, SavePartial, Create, Pause, Own, WriteRow, FailPause,
     Release, Error, Complete, SaveFinal, Begin, Ready, Decide, Expire, Look, Swap, Reread,
     Check, SaveStopped, DeadlinePasses, FailStale, SweepReads, SweepExpires, Lapse
<1>4. ASSUME NEW r \in Requests
      PROVE  /\ ask'[r] = "expire" => reqAct'[r] \in overdue'
             /\ at'[r] = "expire" => reqAct'[r] \in overdue' \/ outcome'[reqAct'[r]] # "open"
  <2>1. CASE Same(r)
    <3>1. ASSUME at[r] = "expire"
          PROVE  reqAct[r] \in Actions /\ reqAct[r] <= actions
      BY <3>1 DEF RequestsInv, Informed, Actions
    <3> QED
      BY <2>1, <3>1, SetsGrow, SettledStays DEF Same
  <2>2. CASE Serves(r)
    <3> USE DEF RequestsInv, Informed, Becoming, Answer, asked
    <3>1. CASE Ready(r)
      BY <3>1 DEF Ready, Paused, ActionsInv, Actions
    <3>2. CASE Decide(r) \/ Expire(r) \/ Check(r) \/ SaveStopped(r)
      BY <3>2, SetsGrow DEF Decide, Expire, Check, SaveStopped
    <3>3. CASE Look(r) \/ Swap(r) \/ Reread(r)
      BY <3>3 DEF Look, Swap, Reread, Sees
    <3> QED
      BY <2>2, <3>1, <3>2, <3>3 DEF Serves
  <2>3. ASSUME NEW kind \in {"decide", "expire", "stop"}, Begin(r, kind)
        PROVE  /\ ask'[r] = "expire" => reqAct'[r] \in overdue'
               /\ at'[r] # "expire"
    BY <2>3 DEF Begin, Becoming
  <2> QED
    BY <2>1, <2>2, <2>3, AskSteps
<1> QED
  BY <1>1, <1>2, <1>3, <1>4

(***************************************************************************)
(* The properties                                                          *)
(***************************************************************************)

LEMMA OneDriverStep ==
    ASSUME TypeOK, ActionsInv, RequestsInv, RowsInv, OneDriver, [Next]_vars
    PROVE  OneDriver'
<1>1. ASSUME NEW r \in Requests, NEW q \in Requests,
             answer'[r] = "won", answer'[q] = "won", reqAct'[r] = reqAct'[q], r # q
      PROVE  FALSE
  <2>1. ASSUME NEW p \in Requests, answer'[p] = "won"
        PROVE  \/ Same(p) /\ answer[p] = "won" /\ outcome[reqAct[p]] = "resolved"
               \/ Wins(p) /\ reqAct'[p] = reqAct[p] /\ outcome[reqAct[p]] = "open"
    <3>1. CASE Same(p)
      BY <2>1, <3>1 DEF Same, RequestsInv, Informed
    <3>2. CASE Serves(p)
      <4>1. answer[p] # "won"
        BY <3>2 DEF TypeOK, RequestsInv, Informed, Serves, Ready, Decide, Expire, Look, Swap,
           Reread, Check, SaveStopped
      <4>2. Wins(p) /\ reqAct'[p] = reqAct[p]
        BY <2>1, <3>2, <4>1 DEF TypeOK, Serves, Ready, Decide, Expire, Look, Swap, Reread, Check,
           SaveStopped, Sees, Becoming, Answer, Wins, asked
      <4>3. reqAct[p] \in Actions
        BY <3>2, <4>2 DEF TypeOK, RequestsInv, Informed, Wins, Decide, Actions
      <4> QED
        BY <4>2, <4>3 DEF Wins, CanDecide, IsPlain, ActionsInv
    <3>3. ASSUME NEW kind \in {"decide", "expire", "stop"}, Begin(p, kind)
          PROVE  FALSE
      BY <2>1, <3>3 DEF TypeOK, RequestsInv, Informed, Begin
    <3> QED
      BY <3>1, <3>2, <3>3, AskSteps
  <2>2. CASE Same(r) /\ Same(q)
    BY <1>1, <2>1, <2>2 DEF Same, OneDriver
  <2>3. ~(Wins(r) /\ Wins(q))
    <3>1. Wins(r) => Becoming(r, "answered")
      BY DEF Wins, Decide, Answer
    <3>2. Wins(q) => at[q] = "decide" /\ Becoming(q, "answered")
      BY DEF Wins, Decide, Answer
    <3> QED
      BY <1>1, <3>1, <3>2 DEF TypeOK, Becoming
  <2>4. ASSUME NEW p \in {r, q}, NEW o \in {r, q}, Wins(p), reqAct'[p] = reqAct[p],
               outcome[reqAct[p]] = "open", Same(o), outcome[reqAct[o]] = "resolved"
        PROVE  FALSE
    BY <1>1, <2>4 DEF Same
  <2> QED
    BY <1>1, <2>1, <2>2, <2>3, <2>4
<1>2. ASSUME NEW i \in Segments, NEW k \in Segments, pc'[i] = "driving", pc'[k] = "driving",
             Gen(i)' = Gen(k)', i # k
      PROVE  FALSE
  <2>1. ASSUME NEW j \in Segments, pc'[j] = "driving"
        PROVE  \/ pc[j] = "driving" /\ Gen(j)' = Gen(j) /\ Gen(j) \in 1..epoch /\ ~Paused(Gen(j))
               \/ Create /\ j = epoch + 1 /\ Gen(j)' = epoch + 1
               \/ \E r \in Requests : /\ Wins(r) /\ j = After(reqAct[r])
                                      /\ Paused(Gen(j)') /\ reqAct[r] = job.action
    <3>1. CASE pc[j] = "driving"
      BY <3>1, BegunGen, BegunGenStays DEF OneDriver
    <3>2. CASE Create /\ j = epoch + 1
      <4>1. j <= MaxGens
        BY <3>2, ApprovalAssumption DEF Create, TypeOK
      <4> QED
        BY <3>2, <4>1 DEF Gen
    <3>3. ASSUME NEW r \in Requests, Wins(r), j = After(reqAct[r])
          PROVE  Paused(Gen(j)') /\ reqAct[r] = job.action
      <4>1. reqAct[r] = job.action /\ Paused(reqGen[r])
        BY <3>3 DEF Wins, CanDecide, IsPlain
      <4>2. reqAct[r] \in 1..actions /\ genOf[reqAct[r]] = reqGen[r]
        BY <3>3 DEF RequestsInv, Informed, Wins, Decide
      <4>3. Gen(j)' = genOf[reqAct[r]]
        BY <3>3, <4>2, ApprovalAssumption DEF TypeOK, Gen, After, Wins
      <4> QED
        BY <4>1, <4>2, <4>3
    <3> QED
      BY <2>1, <3>1, <3>2, <3>3, PlaceSteps
  <2> QED
    BY <1>2, <2>1 DEF OneDriver, Wins, Create, TypeOK, Paused
<1>3. ASSUME NEW i \in Segments, pc'[i] = "driving"
      PROVE  ~Paused(Gen(i))'
  <2>1. CASE pc[i] = "driving"
    <3>1. ~Paused(Gen(i)) /\ Gen(i)' = Gen(i) /\ Gen(i) \in 1..epoch
      BY <2>1, BegunGen, BegunGenStays DEF OneDriver
    <3>2. ASSUME NEW k \in Segments, Pause(k)
          PROVE  Gen(k) # Gen(i)
      BY <1>3, <2>1, <3>2 DEF TypeOK, OneDriver, Pause, Goto
    <3>3. ASSUME NEW k \in Segments, Pause(k)
          PROVE  job'.gen # Gen(i)
      BY <3>2, <3>3, PauseEffect
    <3>4. CASE Quiet
      BY <3>1, <3>4 DEF Quiet, Paused
    <3>5. CASE Ends
      BY <3>5, EndsEffect DEF Paused
    <3>6. CASE Create
      BY <3>6 DEF Create, Paused
    <3>7. ASSUME NEW k \in Segments, Release(k), job' = Released(k)
          PROVE  ~Paused(Gen(i))'
      BY <3>1, <3>7 DEF Released, Paused
    <3>8. ASSUME NEW r \in Requests, Wins(r)
          PROVE  ~Paused(Gen(i))'
      BY <3>8 DEF Wins, Becomes, Paused
    <3> QED
      BY <3>1, <3>3, <3>4, <3>5, <3>6, <3>7, <3>8, JobSteps DEF Paused
  <2>2. CASE Create
    BY <2>2 DEF Create, Paused
  <2>3. ASSUME NEW r \in Requests, Wins(r)
        PROVE  ~Paused(Gen(i))'
    BY <2>3 DEF Wins, Becomes, Paused
  <2> QED
    BY <1>3, <2>1, <2>2, <2>3, PlaceSteps
<1> QED
  BY <1>1, <1>2, <1>3 DEF OneDriver

\* An action is decided, stopped or expired only once its pause was released,
\* and expires only when it is overdue.
LEMMA OutcomeSteps ==
    ASSUME TypeOK, ActionsInv, DecisionsInv, RequestsInv, [Next]_vars,
           NEW a \in Actions, outcome'[a] # outcome[a]
    PROVE  /\ outcome'[a] \in {"resolved", "expired", "stopped"} => a \in rows
           /\ outcome'[a] = "expired" => a \in overdue
<1> DEFINE Goal == /\ outcome'[a] \in {"resolved", "expired", "stopped"} => a \in rows
                   /\ outcome'[a] = "expired" => a \in overdue
<1> USE DEF TypeOK, ActionsInv
<1>1. ASSUME NEW how \in Outcomes, Settle(how)
      PROVE  outcome'[a] = how /\ job.action = a /\ a # 0
  BY <1>1 DEF Settle, Actions
<1>2. job.action = a /\ ~job.barrier => a \in rows
  BY DEF DecisionsInv, Actions
<1>3. ASSUME NEW i \in Segments, Works(i)
      PROVE  Goal
  <2>1. CASE Pause(i)
    BY <2>1, PauseEffect
  <2> QED
    BY <1>1, <1>3, <2>1 DEF Works, Own, WriteRow, FailPause, Release, Error, Complete, SaveFinal,
       Outcomes
<1>4. ASSUME NEW r \in Requests, Serves(r)
      PROVE  Goal
  <2>1. CASE Decide(r)
    BY <1>1, <1>2, <2>1 DEF Decide, CanDecide, IsPlain, Outcomes
  <2>2. CASE Expire(r)
    BY <1>1, <1>2, <2>2 DEF Expire, Expired, IsPlain, Outcomes, DecisionsInv
  <2>3. CASE Swap(r)
    BY <1>1, <1>2, <2>3 DEF Swap, CanStop, IsPlain, Outcomes
  <2> QED
    BY <1>4, <2>1, <2>2, <2>3 DEF Serves, Ready, Look, Reread, Check, SaveStopped
<1>5. CASE SweepExpires
  BY <1>1, <1>2, <1>5 DEF SweepExpires, IsPlain, Outcomes, DecisionsInv
<1>6. CASE Create \/ FailStale \/ Lapse
  BY <1>1, <1>6 DEF Create, FailStale, Lapse, Outcomes
<1>7. ASSUME NEW r \in Requests, NEW kind \in {"decide", "expire", "stop"}, Begin(r, kind)
      PROVE  FALSE
  BY <1>7 DEF Begin
<1> QED
  BY <1>3, <1>4, <1>5, <1>6, <1>7 DEF Next, Cleans, DeadlinePasses, SweepReads, SavePartial,
     vars

LEMMA DecisionsAreSound ==
    ASSUME TypeOK, ActionsInv, DecisionsInv, RequestsInv, RowBeforeDecision,
           OnlyOverdueExpires, [Next]_vars
    PROVE  RowBeforeDecision' /\ OnlyOverdueExpires'
<1> SUFFICES ASSUME NEW a \in Actions
             PROVE  /\ outcome'[a] \in {"resolved", "expired", "stopped"} => a \in rows'
                    /\ outcome'[a] = "expired" => a \in overdue'
  BY DEF RowBeforeDecision, OnlyOverdueExpires
<1>1. CASE outcome'[a] = outcome[a]
  BY <1>1, SetsGrow DEF RowBeforeDecision, OnlyOverdueExpires
<1>2. CASE outcome'[a] # outcome[a]
  BY <1>2, SetsGrow, OutcomeSteps
<1> QED
  BY <1>1, <1>2

LEMMA AnswersStep ==
    ASSUME TypeOK, ActionsInv, DecisionsInv, RequestsInv, AnswersAreTrue, [Next]_vars
    PROVE  AnswersAreTrue'
<1> SUFFICES ASSUME NEW r \in Requests
             PROVE  /\ answer'[r] = "lost" =>
                          outcome'[reqAct'[r]] # "open" \/ reqAct'[r] \in overdue'
                    /\ answer'[r] \in {"over", "stopped"} => ~Active(reqGen[r])'
  BY DEF AnswersAreTrue
<1> USE DEF TypeOK
<1>1. CASE Same(r)
  <2>1. ASSUME answer[r] = "lost"
        PROVE  outcome'[reqAct[r]] # "open" \/ reqAct[r] \in overdue'
    <3>1. reqAct[r] \in Actions /\ reqAct[r] <= actions
      BY <2>1 DEF RequestsInv, Informed, Actions
    <3> QED
      BY <2>1, <3>1, SettledStays, SetsGrow DEF AnswersAreTrue
  <2>2. ASSUME answer[r] \in {"over", "stopped"}
        PROVE  ~Active(reqGen[r])'
    BY <1>1, <2>2, EndedStays DEF Same, AnswersAreTrue, RequestsInv, Informed
  <2> QED
    BY <1>1, <2>1, <2>2 DEF Same
<1>2. CASE Serves(r)
  <2> USE DEF RequestsInv, Informed, Becoming, Answer, asked
  <2>1. ASSUME outcome[reqAct[r]] = "open", ask[r] \in {"decide", "expire"}
        PROVE  /\ job.action = reqAct[r] /\ Paused(reqGen[r])
               /\ at[r] \in {"decide", "expire"} => IsPlain(reqAct[r])
    BY <2>1 DEF ActionsInv, Actions, Paused, IsPlain
  <2>2. CASE Ready(r)
    BY <2>1, <2>2 DEF Ready
  <2>3. CASE Decide(r)
    BY <2>1, <2>3 DEF Decide, CanDecide
  <2>4. CASE Expire(r)
    <3>1. CASE ask[r] = "expire"
      BY <2>4, <3>1, SetsGrow DEF Expire, DecisionsInv
    <3>2. CASE ask[r] # "expire"
      <4>1. reqAct[r] \in Actions
        BY <2>4 DEF Expire, Actions
      <4>2. Expired(r) => outcome'[reqAct[r]] # "open"
        BY <2>1, <2>4, <4>1 DEF Expire, Expired, Settle, IsPlain
      <4> QED
        BY <2>4, <3>2, <4>2 DEF Expire
    <3> QED
      BY <3>1, <3>2
  <2>5. CASE Look(r)
    BY <2>5 DEF Look, Sees, Active, Running, Paused
  <2>6. CASE Swap(r) \/ Reread(r)
    BY <2>6 DEF Swap, Reread, Sees
  <2>7. CASE Check(r)
    BY <2>7 DEF Check, Active, Running, Paused
  <2>8. CASE SaveStopped(r)
    BY <2>8 DEF SaveStopped, Active, Running, Paused
  <2> QED
    BY <1>2, <2>2, <2>3, <2>4, <2>5, <2>6, <2>7, <2>8 DEF Serves
<1>3. ASSUME NEW kind \in {"decide", "expire", "stop"}, Begin(r, kind)
      PROVE  answer'[r] = "none"
  BY <1>3 DEF Begin, RequestsInv, Informed
<1> QED
  BY <1>1, <1>2, <1>3, AskSteps

LEMMA RowStaysFinal ==
    ASSUME TypeOK, ActionsInv, RequestsInv, RowsInv, [Next]_vars,
           NEW g \in Gens, row[g] \in {"finished", "stopped"}
    PROVE  row'[g] \in {row[g], "partial"}
<1> USE DEF TypeOK, RowsInv
<1>1. ASSUME NEW i \in Segments, WriteRow(i)
      PROVE  row'[g] = row[g]
  BY <1>1 DEF WriteRow
<1>2. ASSUME NEW i \in Segments, SaveFinal(i)
      PROVE  row'[g] = row[g]
  BY <1>2 DEF SaveFinal
<1>3. ASSUME NEW r \in Requests, SaveStopped(r)
      PROVE  row'[g] = row[g]
  BY <1>3 DEF SaveStopped
<1>4. ASSUME NEW h \in Gens, SavePartial(h)
      PROVE  row'[g] \in {row[g], "partial"}
  BY <1>4 DEF SavePartial
<1> QED
  BY <1>1, <1>2, <1>3, <1>4, RowSteps

(***************************************************************************)
(* Who may write the row                                                   *)
(***************************************************************************)

LEMMA WritingSteps ==
    ASSUME TypeOK, RequestsInv, [Next]_vars, NEW i \in Segments, pc'[i] = "writing",
           pc[i] # "writing"
    PROVE  Own(i) /\ pc[i] = "paused" /\ Paused(Gen(i)) /\ IsBarrier(holds[i]) /\ Quiet
<1>1. Works(i)
  BY PlaceSteps
<1>2. Own(i)
  BY <1>1 DEF TypeOK, Works, Pause, WriteRow, FailPause, Release, Error, Complete, SaveFinal, Goto
<1> QED
  BY <1>2 DEF TypeOK, Own, Goto, Quiet

LEMMA FinalSteps ==
    ASSUME TypeOK, RequestsInv, [Next]_vars, NEW i \in Segments, pc'[i] = "final",
           pc[i] # "final"
    PROVE  Complete(i) /\ pc[i] # "none" /\ Running(Gen(i)) /\ Becomes("complete")
<1>1. Works(i)
  BY PlaceSteps
<1>2. Complete(i)
  BY <1>1 DEF TypeOK, Works, Pause, Own, WriteRow, FailPause, Release, Error, SaveFinal, Goto
<1> QED
  BY <1>2 DEF TypeOK, Complete, Goto

LEMMA SavingSteps ==
    ASSUME TypeOK, RequestsInv, [Next]_vars, NEW r \in Requests, at'[r] = "save"
    PROVE  reqGen'[r] = reqGen[r] /\ (at[r] = "save" \/ (Swap(r) /\ CanStop(r)))
<1>1. CASE Same(r)
  BY <1>1 DEF Same
<1> USE DEF TypeOK, Becoming, Answer
<1>2. CASE Swap(r)
  BY <1>2 DEF Swap
<1>3. CASE Ready(r) \/ Decide(r) \/ Expire(r) \/ Check(r) \/ SaveStopped(r)
  BY <1>3 DEF Ready, Decide, Expire, Check, SaveStopped
<1>4. CASE Look(r) \/ Reread(r)
  BY <1>4 DEF Look, Reread, Sees
<1>5. ASSUME NEW kind \in {"decide", "expire", "stop"}, Begin(r, kind)
      PROVE  FALSE
  BY <1>5 DEF Begin
<1> QED
  BY <1>1, <1>2, <1>3, <1>4, <1>5, AskSteps DEF Serves

\* What a Stop wins is a generation that is active, and behind no barrier.
LEMMA StopWins ==
    ASSUME TypeOK, RequestsInv, NEW r \in Requests, Swap(r), CanStop(r)
    PROVE  Active(reqGen[r]) /\ ~job.barrier
BY DEF TypeOK, RequestsInv, Informed, Swap, CanStop, Active, Running, Paused, IsPlain

LEMMA HoldsStep ==
    ASSUME TypeOK, RequestsInv, RowsInv, [Next]_vars
    PROVE  /\ \A i \in Segments : holds'[i] <= actions'
           /\ \A i \in Segments : pc'[i] \in {"paused", "writing"} => holds'[i] # 0
           /\ \A i, k \in Segments : holds'[i] = holds'[k] /\ holds'[i] # 0 => i = k
<1> USE DEF TypeOK, RowsInv
<1>1. ASSUME NEW i \in Segments
      PROVE  holds'[i] <= actions'
  BY HoldSteps, CountersGrow DEF Pause
<1>2. ASSUME NEW i \in Segments, pc'[i] \in {"paused", "writing"}
      PROVE  holds'[i] # 0
  <2>1. CASE Pause(i) /\ holds'[i] = actions + 1
    BY <2>1
  <2>2. CASE pc[i] \in {"paused", "writing"}
    BY <2>2, HoldSteps
  <2>3. CASE Works(i)
    BY <1>2, <2>2, <2>3 DEF Works, Pause, Own, WriteRow, FailPause, Release, Error, Complete,
       SaveFinal, Goto
  <2> QED
    BY <1>2, <2>2, <2>3, PlaceSteps
<1>3. ASSUME NEW i \in Segments, NEW k \in Segments, holds'[i] = holds'[k], holds'[i] # 0, i # k
      PROVE  FALSE
  <2>1. ASSUME NEW j \in Segments, NEW l \in Segments, j # l, Pause(j)
        PROVE  holds'[l] = holds[l]
    BY <2>1 DEF Pause
  <2> QED
    BY <1>3, <2>1, HoldSteps
<1> QED
  BY <1>1, <1>2, <1>3

\* Nobody but the segment itself takes its barrier away without ending the job.
LEMMA BarrierStays ==
    ASSUME TypeOK, ActionsInv, RequestsInv, RowsInv, [Next]_vars,
           NEW i \in Segments, pc[i] = "writing", NEW g \in 1..epoch,
           Paused(g), IsBarrier(holds[i])
    PROVE  ~Active(g)' \/ (Paused(g) /\ IsBarrier(holds[i]))'
<1> USE DEF TypeOK, Active, Running, Paused, IsBarrier
<1>a. holds'[i] = holds[i]
  BY HoldSteps DEF Pause
<1>1. CASE Quiet
  BY <1>a, <1>1 DEF Quiet
<1>2. CASE Ends
  BY <1>2, EndsEffect
<1>3. CASE Create
  BY <1>3 DEF Create
<1>4. ASSUME NEW k \in Segments, Pause(k)
      PROVE  FALSE
  BY <1>4 DEF Pause
<1>5. ASSUME NEW k \in Segments, Release(k), job' = Released(k)
      PROVE  UNCHANGED job
  BY <1>5 DEF Release, Released, RowsInv
<1>6. ASSUME NEW r \in Requests, Wins(r)
      PROVE  FALSE
  BY <1>6 DEF Wins, CanDecide, IsPlain
<1> QED
  BY <1>a, <1>1, <1>2, <1>3, <1>4, <1>5, <1>6, JobSteps

LEMMA RowsStep ==
    ASSUME TypeOK, ActionsInv, RequestsInv, RowsInv, [Next]_vars
    PROVE  RowsInv'
<1>1. ASSUME NEW g \in Gens, row'[g] \in {"finished", "stopped"}
      PROVE  ~Active(g)'
  <2>1. CASE row'[g] = row[g]
    <3>1. g \in 1..epoch /\ ~Active(g)
      BY <1>1, <2>1 DEF TypeOK, RowsInv, ActionsInv, Gens
    <3> QED
      BY <3>1, EndedStays
  <2>2. ASSUME NEW i \in Segments, WriteRow(i) \/ SaveFinal(i), row'[g] # row[g]
        PROVE  ~Active(g)'
    <3>1. SaveFinal(i) /\ g = Gen(i)
      BY <1>1, <2>2 DEF TypeOK, WriteRow, SaveFinal
    <3> QED
      BY <3>1 DEF RowsInv, SaveFinal, Active, Running, Paused
  <2>3. ASSUME NEW r \in Requests, SaveStopped(r), row'[g] # row[g]
        PROVE  ~Active(g)'
    <3>1. g = reqGen[r] /\ ~Active(g)
      BY <2>3 DEF TypeOK, SaveStopped, RequestsInv, Informed
    <3> QED
      BY <2>3, <3>1 DEF SaveStopped, Active, Running, Paused
  <2>4. ASSUME NEW h \in Gens, SavePartial(h), row'[g] # row[g]
        PROVE  FALSE
    BY <1>1, <2>4 DEF TypeOK, SavePartial
  <2> QED
    BY <2>1, <2>2, <2>3, <2>4, RowSteps
<1>2. ASSUME NEW i \in Segments, pc'[i] = "writing"
      PROVE  /\ Gen(i)' = Gen(i) /\ Gen(i) \in 1..epoch
             /\ row'[Gen(i)] \notin {"finished", "stopped"}
             /\ Active(Gen(i))' => (Paused(Gen(i)) /\ IsBarrier(holds[i]))'
  <2>a. pc[i] # "none"
    BY <1>2, PlaceSteps
  <2>b. Gen(i)' = Gen(i) /\ Gen(i) \in 1..epoch /\ Gen(i) \in Gens
    <3>1. Gen(i)' = Gen(i) /\ Gen(i) \in 1..epoch
      BY <2>a, BegunGen, BegunGenStays
    <3> QED
      BY <3>1, ApprovalAssumption DEF TypeOK, Gens
  <2>1. CASE pc[i] = "writing"
    <3>1. row'[Gen(i)] \notin {"finished", "stopped"}
      <4>1. ASSUME NEW k \in Segments, SaveFinal(k)
            PROVE  Gen(k) # Gen(i)
        BY <2>1, <4>1 DEF RowsInv, SaveFinal
      <4>2. ASSUME NEW r \in Requests, SaveStopped(r)
            PROVE  reqGen[r] # Gen(i)
        BY <2>1, <4>2 DEF RowsInv, SaveStopped
      <4>3. row[Gen(i)] \notin {"finished", "stopped"}
        BY <2>1 DEF RowsInv
      <4> QED
        BY <2>b, <4>1, <4>2, <4>3, RowSteps
        DEF TypeOK, WriteRow, SaveFinal, SaveStopped, SavePartial
    <3>2. Active(Gen(i))' => (Paused(Gen(i)) /\ IsBarrier(holds[i]))'
      <4>1. CASE Active(Gen(i))
        BY <2>1, <2>b, <4>1, BarrierStays DEF RowsInv, Active, Running, Paused, IsBarrier
      <4>2. CASE ~Active(Gen(i))
        BY <2>b, <4>2, EndedStays DEF Active, Running, Paused
      <4> QED
        BY <4>1, <4>2
    <3> QED
      BY <2>b, <3>1, <3>2
  <2>2. CASE pc[i] # "writing"
    <3>1. Own(i) /\ Paused(Gen(i)) /\ IsBarrier(holds[i]) /\ UNCHANGED <<job, row, holds>>
      BY <1>2, <2>2, WritingSteps DEF Own
    <3>2. row[Gen(i)] \notin {"finished", "stopped"}
      BY <2>b, <3>1 DEF RowsInv, Active
    <3> QED
      BY <2>b, <3>1, <3>2 DEF Paused, IsBarrier
  <2> QED
    BY <2>1, <2>2
<1>3. ASSUME NEW i \in Segments, pc'[i] = "final"
      PROVE  /\ Gen(i)' = Gen(i) /\ Gen(i) \in 1..epoch
             /\ ~Active(Gen(i))' /\ row'[Gen(i)] # "stopped"
  <2>a. pc[i] # "none"
    BY <1>3, PlaceSteps
  <2>b. Gen(i)' = Gen(i) /\ Gen(i) \in 1..epoch /\ Gen(i) \in Gens
    <3>1. Gen(i)' = Gen(i) /\ Gen(i) \in 1..epoch
      BY <2>a, BegunGen, BegunGenStays
    <3> QED
      BY <3>1, ApprovalAssumption DEF TypeOK, Gens
  <2>1. CASE pc[i] = "final"
    <3>1. ASSUME NEW r \in Requests, SaveStopped(r)
          PROVE  reqGen[r] # Gen(i)
      BY <2>1, <3>1 DEF RowsInv, SaveStopped
    <3>2. row[Gen(i)] # "stopped" /\ ~Active(Gen(i))
      BY <2>1 DEF RowsInv
    <3>3. row'[Gen(i)] # "stopped"
      BY <2>b, <3>1, <3>2, RowSteps
        DEF TypeOK, WriteRow, SaveFinal, SaveStopped, SavePartial
    <3> QED
      BY <2>b, <3>2, <3>3, EndedStays DEF Active, Running, Paused
  <2>2. CASE pc[i] # "final"
    <3>1. Complete(i) /\ Running(Gen(i)) /\ Becomes("complete") /\ UNCHANGED row
      BY <1>3, <2>2, FinalSteps DEF Complete
    <3>2. row[Gen(i)] # "stopped"
      BY <2>b, <3>1 DEF RowsInv, Active
    <3> QED
      BY <2>b, <3>1, <3>2 DEF Becomes, Active, Running, Paused
  <2> QED
    BY <2>1, <2>2
<1>4. ASSUME NEW i \in Segments, NEW k \in Segments, pc'[i] = "writing", pc'[k] = "final"
      PROVE  Gen(i) # Gen(k)
  <2>1. pc[i] = "writing" \/ (Own(i) /\ Paused(Gen(i)))
    BY <1>4, WritingSteps
  <2>2. pc[k] = "final" \/ (Complete(k) /\ Running(Gen(k)))
    BY <1>4, FinalSteps
  <2> QED
    BY <1>4, <2>1, <2>2 DEF RowsInv, Active, Running, Paused
<1>5. ASSUME NEW r \in Requests, at'[r] = "save"
      PROVE  /\ reqGen'[r] = reqGen[r] /\ row'[reqGen[r]] # "finished"
             /\ \A i \in Segments : pc'[i] \in {"writing", "final"} => Gen(i) # reqGen[r]
  <2>a. reqGen'[r] = reqGen[r] /\ reqGen[r] \in 1..epoch
    BY <1>5, SavingSteps DEF RequestsInv, Informed, Swap
  <2>b. reqGen[r] \in Gens
    BY <2>a DEF TypeOK, Gens
  <2>1. CASE at[r] = "save"
    <3>a. ~Active(reqGen[r])
      BY <2>1 DEF RequestsInv, Informed
    <3>1. row'[reqGen[r]] # "finished"
      <4>1. ASSUME NEW k \in Segments, SaveFinal(k)
            PROVE  Gen(k) # reqGen[r]
        BY <2>1, <4>1 DEF RowsInv, SaveFinal
      <4>2. row[reqGen[r]] # "finished"
        BY <2>1 DEF RowsInv
      <4> QED
        BY <2>b, <4>1, <4>2, RowSteps
        DEF TypeOK, WriteRow, SaveFinal, SaveStopped, SavePartial
    <3>2. ASSUME NEW i \in Segments, pc'[i] \in {"writing", "final"}
          PROVE  Gen(i) # reqGen[r]
      BY <2>1, <3>a, <3>2, WritingSteps, FinalSteps DEF RowsInv, Active
    <3> QED
      BY <2>a, <3>1, <3>2
  <2>2. CASE Swap(r) /\ CanStop(r)
    <3>a. Active(reqGen[r]) /\ ~job.barrier
      BY <2>2, StopWins
    <3>1. UNCHANGED <<row, pc>>
      BY <2>2 DEF Swap
    <3>2. row[reqGen[r]] # "finished"
      BY <2>b, <3>a DEF RowsInv
    <3>3. ASSUME NEW i \in Segments, pc[i] \in {"writing", "final"}
          PROVE  Gen(i) # reqGen[r]
      BY <3>a, <3>3 DEF RowsInv, IsBarrier
    <3> QED
      BY <2>a, <3>1, <3>2, <3>3
  <2> QED
    BY <1>5, <2>1, <2>2, SavingSteps
<1>6. ASSUME NEW i \in Segments, NEW k \in Segments, pc'[i] = "writing", pc'[k] = "final"
      PROVE  Gen(i)' # Gen(k)'
  BY <1>2, <1>3, <1>4, <1>6
<1>7. ASSUME NEW r \in Requests, at'[r] = "save", NEW i \in Segments,
             pc'[i] \in {"writing", "final"}
      PROVE  Gen(i)' # reqGen'[r]
  BY <1>2, <1>3, <1>5, <1>7
<1> QED
  BY <1>1, <1>2, <1>3, <1>5, <1>6, <1>7, HoldsStep DEF RowsInv

(***************************************************************************)
(* The theorems                                                            *)
(***************************************************************************)

LEMMA InitInv ==
    ASSUME Init
    PROVE  IInv
<1>1. TypeOK
  BY ApprovalAssumption DEF Init, TypeOK, NoJob, Jobs, Outcomes, Places, Stages, Answers, Terminal
<1>2. ActionsInv /\ DecisionsInv
  BY ApprovalAssumption DEF Init, NoJob, ActionsInv, DecisionsInv, Actions, Gens, Segments, After
<1>3. RequestsInv /\ RowsInv
  BY DEF Init, RequestsInv, Informed, RowsInv, Segments, Gens
<1>4. OneDriver /\ RowBeforeDecision /\ OnlyOverdueExpires /\ AnswersAreTrue
  BY DEF Init, OneDriver, RowBeforeDecision, OnlyOverdueExpires, AnswersAreTrue
<1> QED
  BY <1>1, <1>2, <1>3, <1>4 DEF IInv

LEMMA StepInv ==
    ASSUME IInv, [Next]_vars
    PROVE  IInv'
BY TypeStep, ActionsStep, DecisionsStep, RequestsStep, RowsStep, OneDriverStep,
   DecisionsAreSound, AnswersStep DEF IInv

\* The invariant holds in every state: what decides an action, drives a run or
\* writes its row is settled by the job's own history, which no step rewrites.
THEOREM Invariance == Spec => []IInv
<1>1. Init => IInv
  BY InitInv
<1>2. IInv /\ [Next]_vars => IInv'
  BY StepInv
<1> QED
  BY <1>1, <1>2, PTL DEF Spec

\* The variables keep their types, for any number of requests, generations,
\* pauses and lost replies.
THEOREM TypeCorrect == Spec => []TypeOK
<1>1. IInv => TypeOK
  BY DEF IInv
<1> QED
  BY <1>1, Invariance, PTL

\* Two clicks do not resume a run twice, and a paused generation has no segment
\* that drives it: resolve, and the scripts behind it.
THEOREM DecidedOnce == Spec => []OneDriver
<1>1. IInv => OneDriver
  BY DEF IInv
<1> QED
  BY <1>1, Invariance, PTL

\* The barrier of beginPausePersistence keeps decisions, Stops and expiry out
\* until the paused response is saved.
THEOREM PausedRowIsSaved == Spec => []RowBeforeDecision
<1>1. IInv => RowBeforeDecision
  BY DEF IInv
<1> QED
  BY <1>1, Invariance, PTL

\* A sweep that is late expires nothing but what it has read.
THEOREM ExpiryIsDue == Spec => []OnlyOverdueExpires
<1>1. IInv => OnlyOverdueExpires
  BY DEF IInv
<1> QED
  BY <1>1, Invariance, PTL

\* Whoever is told that it is too late, or over, is told the truth, although
\* what decided the answer was read before.
THEOREM AnswersHold == Spec => []AnswersAreTrue
<1>1. IInv => AnswersAreTrue
  BY DEF IInv
<1> QED
  BY <1>1, Invariance, PTL

\* The row that completion or Stop has written is not overwritten by a segment
\* that was writing the row of its pause; only the listener of a reader that left
\* may still write.
THEOREM RowsAreFinal == Spec => FinalRowStays
<1>1. ASSUME IInv, [Next]_vars
      PROVE  [\A g \in Gens : row[g] \in {"finished", "stopped"} =>
                 row'[g] \in {row[g], "partial"}]_row
  BY <1>1, RowStaysFinal DEF IInv
<1> QED
  BY <1>1, Invariance, PTL DEF Spec, FinalRowStays
=============================================================================
