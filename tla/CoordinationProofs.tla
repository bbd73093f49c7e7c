------------------------- MODULE CoordinationProofs -------------------------
(***************************************************************************)
(* Proofs about processes that coordinate through a store they share: the  *)
(* servers that elect a leader through a key of Redis (LeaderElection), the*)
(* callers that meet under the key of a flow (FlowState), and the runs that*)
(* rebuild the collection behind an alias of Qdrant (IngestAlias).         *)
(***************************************************************************)
EXTENDS LeaderElection, FlowState, IngestAlias, WellFoundedInduction, TLAPS

(***************************************************************************)
(* The leader of LeaderElection.  A lease is followed from the moment it was*)
(* last extended: work is late by at most MaxLate ticks between two ticks at*)
(* which nothing is due, once after an election and once when a renewal is *)
(* due, so that a lease longer than the interval and twice that delay does *)
(* not end under a timer that runs.                                        *)
(***************************************************************************)

Commands ==
    [op : {"get", "set"}, id : Calls,
     res : {"sent", "error", "ok", "mine", "other", "none"}]
    \cup [op : {"renew"}, id : 1..(Attempts + 1), res : {"sent", "error", "ok", "lost"}]
    \cup [op : {"del"}, id : {0}, res : {"sent", "error", "ok"}]

Waiting == [2..(Attempts + 1) -> Nat]
Answers == {"idle", "asking", "waiting", "electing", "yes", "no"}

TypeLease == /\ key \in Nodes \cup {Nobody} /\ ttl \in 0..Lease
             /\ (key = Nobody) <=> (ttl = 0)
TypeNodes == alive \subseteq Nodes /\ resigned \subseteq Nodes
TypeTimer == running \subseteq alive /\ left \in [Nodes -> 0..Interval]
TypeRetries == retries \in [Nodes -> Waiting]
TypeConn == conn \in [Nodes -> Seq(Commands)]
TypeCall == call \in [Nodes -> [Calls -> Answers]]
TypeBound == late \in 0..MaxLate /\ faults \in 0..MaxFaults

Types == /\ TypeLease /\ TypeNodes /\ TypeTimer /\ TypeRetries /\ TypeConn
         /\ TypeCall /\ TypeBound

LEMMA TypesAreTypes == Types => TypeOK
<1> SUFFICES ASSUME Types PROVE TypeOK
  OBVIOUS
<1>1. ASSUME NEW n \in Nodes, NEW i \in DOMAIN conn[n]
      PROVE  conn[n][i] \in Commands
  BY DEF Types, TypeConn
<1> QED
  BY <1>1 DEF Types, TypeLease, TypeNodes, TypeTimer, TypeRetries, TypeCall, TypeBound,
              TypeOK, Commands, Waiting, Answers

\* Only a server that was told to stop deletes the key.
DeletesWhenResigned ==
    \A n \in Nodes : \A i \in DOMAIN conn[n] : conn[n][i].op = "del" => n \in resigned

Has(s, op, res) == \E i \in DOMAIN s : s[i].op = op /\ s[i].res = res

\* A renewal has not been executed, or is to be attempted again.
Unresolved(s, waits) ==
    \/ \E i \in DOMAIN s : s[i].op = "renew" /\ s[i].res # "ok"
    \/ \E a \in 2..(Attempts + 1) : waits[a] > 0

\* The server has won, and does not know it yet.
Won(n) ==
    n \in alive \ resigned /\ Has(conn[n], "set", "ok") =>
        key = n /\ Lease <= ttl + late

\* The timer runs.
Holds(n) ==
    n \in running \ resigned =>
        /\ key = n
        /\ Lease <= ttl + late + MaxLate + Interval
        /\ \/ left[n] = 0 \/ Unresolved(conn[n], retries[n])
           \/ Lease + left[n] <= ttl + MaxLate + Interval

LeaseInv == \A n \in Nodes : Won(n) /\ Holds(n)

IInv == Types /\ DeletesWhenResigned

(***************************************************************************)
(* Connections.                                                            *)
(***************************************************************************)

LEMMA Appending ==
    ASSUME NEW s \in Seq(Commands), NEW c \in Commands
    PROVE  /\ Append(s, c) \in Seq(Commands)
           /\ DOMAIN Append(s, c) = DOMAIN s \cup {Len(s) + 1}
           /\ \A i \in DOMAIN s : Append(s, c)[i] = s[i]
           /\ Append(s, c)[Len(s) + 1] = c
OBVIOUS

LEMMA Replying ==
    ASSUME NEW s \in Seq(Commands), s # <<>>
    PROVE  /\ Tail(s) \in Seq(Commands) /\ Head(s) = s[1] /\ 1 \in DOMAIN s
           /\ Head(s) \in Commands
           /\ \A i \in DOMAIN Tail(s) : i + 1 \in DOMAIN s /\ Tail(s)[i] = s[i + 1]
           /\ \A i \in DOMAIN s : i = 1 \/ i - 1 \in DOMAIN Tail(s)
OBVIOUS

\* What conn becomes when the command i of the server n has the outcome r.
Marks(n, i, r) ==
    /\ conn' \in [Nodes -> Seq(Commands)]
    /\ \A m \in Nodes \ {n} : conn'[m] = conn[m]
    /\ DOMAIN conn'[n] = DOMAIN conn[n]
    /\ \A j \in DOMAIN conn[n] : j # i => conn'[n][j] = conn[n][j]
    /\ conn'[n][i].op = conn[n][i].op /\ conn'[n][i].id = conn[n][i].id
    /\ conn'[n][i].res = r

LEMMA Marking ==
    ASSUME TypeConn, NEW n \in Nodes, NEW i \in DOMAIN conn[n], NEW r,
           [conn[n][i] EXCEPT !.res = r] \in Commands,
           conn' = [conn EXCEPT ![n][i].res = r]
    PROVE  Marks(n, i, r)
<1>1. conn[n] \in Seq(Commands) /\ conn[n][i] \in Commands
  BY DEF TypeConn
<1>2. conn'[n] = [conn[n] EXCEPT ![i] = [@ EXCEPT !.res = r]]
  BY DEF TypeConn
<1>3. conn'[n] \in Seq(Commands)
  BY <1>1, <1>2
<1>4. \A m \in Nodes \ {n} : conn'[m] = conn[m]
  BY DEF TypeConn
<1>5. conn' \in [Nodes -> Seq(Commands)]
  BY <1>3, <1>4 DEF TypeConn
<1>6. conn'[n][i] = [conn[n][i] EXCEPT !.res = r]
  BY <1>1, <1>2
<1>7. /\ conn'[n][i].op = conn[n][i].op /\ conn'[n][i].id = conn[n][i].id
      /\ conn'[n][i].res = r
  BY <1>1, <1>6 DEF Commands
<1> QED
  BY <1>1, <1>2, <1>4, <1>5, <1>7 DEF Marks

Adds(n, c) == /\ conn' = [conn EXCEPT ![n] = Append(@, c)] /\ c \in Commands
              /\ n \in Nodes
Removes(n) == /\ conn' = [conn EXCEPT ![n] = Tail(@)] /\ conn[n] # <<>>
              /\ n \in Nodes

LEMMA AddsCommand ==
    ASSUME TypeConn, NEW n, NEW c, Adds(n, c)
    PROVE  /\ TypeConn' /\ conn'[n] = Append(conn[n], c) /\ conn[n] \in Seq(Commands)
           /\ \A m \in Nodes \ {n} : conn'[m] = conn[m]
BY Appending DEF TypeConn, Adds

LEMMA RemovesCommand ==
    ASSUME TypeConn, NEW n, Removes(n)
    PROVE  /\ TypeConn' /\ conn'[n] = Tail(conn[n]) /\ conn[n] \in Seq(Commands)
           /\ \A m \in Nodes \ {n} : conn'[m] = conn[m]
<1>1. conn[n] \in Seq(Commands) /\ Tail(conn[n]) \in Seq(Commands)
  BY Replying DEF TypeConn, Removes
<1> QED
  BY <1>1 DEF TypeConn, Removes

(***************************************************************************)
(* Types, and who deletes the key.                                         *)
(***************************************************************************)

LEMMA SendKeeps ==
    ASSUME IInv, NEW n, NEW c, Adds(n, c), resigned \subseteq resigned',
           c.op = "del" => n \in resigned'
    PROVE  TypeConn' /\ DeletesWhenResigned'
<1>1. /\ TypeConn' /\ conn'[n] = Append(conn[n], c) /\ conn[n] \in Seq(Commands)
      /\ \A m \in Nodes \ {n} : conn'[m] = conn[m]
  BY AddsCommand DEF IInv, Types
<1>2. ASSUME NEW m \in Nodes, NEW i \in DOMAIN conn'[m], conn'[m][i].op = "del"
      PROVE  m \in resigned'
  <2>1. CASE m # n
    BY <1>1, <1>2, <2>1 DEF IInv, DeletesWhenResigned
  <2>2. CASE m = n
    BY <1>1, <1>2, <2>2, Appending DEF IInv, DeletesWhenResigned, Adds
  <2> QED
    BY <2>1, <2>2
<1> QED
  BY <1>1, <1>2 DEF DeletesWhenResigned

LEMMA ReplyKeeps ==
    ASSUME IInv, NEW n, Removes(n), UNCHANGED resigned
    PROVE  TypeConn' /\ DeletesWhenResigned'
<1>1. /\ TypeConn' /\ conn'[n] = Tail(conn[n]) /\ conn[n] \in Seq(Commands)
      /\ \A m \in Nodes \ {n} : conn'[m] = conn[m]
  BY RemovesCommand DEF IInv, Types
<1>2. ASSUME NEW m \in Nodes, NEW i \in DOMAIN conn'[m], conn'[m][i].op = "del"
      PROVE  m \in resigned'
  <2>1. CASE m # n
    BY <1>1, <1>2, <2>1 DEF IInv, DeletesWhenResigned
  <2>2. CASE m = n
    BY <1>1, <1>2, <2>2, Replying DEF IInv, DeletesWhenResigned, Removes
  <2> QED
    BY <2>1, <2>2
<1> QED
  BY <1>1, <1>2 DEF DeletesWhenResigned

LEMMA MarkKeeps ==
    ASSUME IInv, NEW n \in Nodes, NEW i \in DOMAIN conn[n], NEW r, Marks(n, i, r),
           UNCHANGED resigned
    PROVE  TypeConn' /\ DeletesWhenResigned'
<1>1. ASSUME NEW m \in Nodes, NEW j \in DOMAIN conn'[m], conn'[m][j].op = "del"
      PROVE  m \in resigned'
  <2>1. CASE m # n
    BY <1>1, <2>1 DEF IInv, DeletesWhenResigned, Marks
  <2>2. CASE m = n
    BY <1>1, <2>2 DEF IInv, DeletesWhenResigned, Marks
  <2> QED
    BY <2>1, <2>2
<1> QED
  BY <1>1 DEF DeletesWhenResigned, TypeConn, Marks

LEMMA ResultType ==
    ASSUME NEW n \in Nodes, NEW c \in Commands
    PROVE  [c EXCEPT !.res = Result(c.op, n)] \in Commands
<1>1. CASE c.op = "get"
  BY <1>1 DEF Commands, Result
<1>2. CASE c.op = "set"
  BY <1>2 DEF Commands, Result
<1>3. CASE c.op = "renew"
  BY <1>3 DEF Commands, Result
<1>4. CASE c.op = "del"
  BY <1>4 DEF Commands, Result
<1> QED
  BY <1>1, <1>2, <1>3, <1>4 DEF Commands

\* What the execution of a command does to the lease.
Effects(n, op) ==
    \/ op = "get" /\ UNCHANGED leaseVars
    \/ op = "set" /\ Set(n)
    \/ op = "renew" /\ Renew(n)
    \/ op = "del" /\ Delete(n) /\ n \in resigned

LEMMA Executing ==
    ASSUME IInv, NEW n \in Nodes, Execute(n)
    PROVE  \E i \in DOMAIN conn[n] :
              Marks(n, i, Result(conn[n][i].op, n)) /\ Effects(n, conn[n][i].op)
<1>1. PICK i \in DOMAIN conn[n] :
         /\ conn' = [conn EXCEPT ![n][i].res = Result(conn[n][i].op, n)]
         /\ \/ conn[n][i].op = "get" /\ UNCHANGED leaseVars
            \/ conn[n][i].op = "set" /\ Set(n)
            \/ conn[n][i].op = "renew" /\ Renew(n)
            \/ conn[n][i].op = "del" /\ Delete(n)
  BY DEF Execute
<1>2. conn[n][i] \in Commands
  BY DEF IInv, Types, TypeConn
<1>3. Marks(n, i, Result(conn[n][i].op, n))
  BY <1>1, <1>2, ResultType, Marking DEF IInv, Types
<1> QED
  BY <1>1, <1>3 DEF Effects, IInv, DeletesWhenResigned

LEMMA Failing ==
    ASSUME IInv, NEW n \in Nodes, Fail(n)
    PROVE  \E i \in DOMAIN conn[n] : Marks(n, i, "error")
<1>1. PICK i \in DOMAIN conn[n] : conn' = [conn EXCEPT ![n][i].res = "error"]
  BY DEF Fail
<1>2. conn[n][i] \in Commands
  BY DEF IInv, Types, TypeConn
<1>3. [conn[n][i] EXCEPT !.res = "error"] \in Commands
  BY <1>2 DEF Commands
<1> QED
  BY <1>1, <1>3, Marking DEF IInv, Types

LEMMA EffectsType ==
    ASSUME TypeLease, NEW n \in Nodes, NEW op, Effects(n, op)
    PROVE  TypeLease'
<1>1. Lease \in Nat /\ Lease > 0 /\ n # Nobody
  BY TimingAssumption, NodesAssumption
<1>2. CASE UNCHANGED leaseVars
  BY <1>2 DEF TypeLease, leaseVars
<1>3. CASE key' = n /\ ttl' = Lease
  BY <1>1, <1>3 DEF TypeLease
<1>4. CASE key' = Nobody /\ ttl' = 0
  BY <1>1, <1>4 DEF TypeLease
<1>5. CASE ttl' = Lease /\ key' = key /\ key = n
  BY <1>1, <1>5 DEF TypeLease
<1> QED
  BY <1>2, <1>3, <1>4, <1>5 DEF Effects, Set, Renew, Delete, Free

LEMMA GotoType ==
    ASSUME TypeCall, NEW n \in Nodes, NEW c \in Calls, NEW a \in Answers, Goto(n, c, a)
    PROVE  TypeCall'
BY DEF TypeCall, Goto

LEMMA ClearType ==
    ASSUME TypeTimer, NEW n \in Nodes, ClearTimer(n), alive' \in {alive, alive \ {n}}
    PROVE  TypeTimer'
BY TimingAssumption DEF TypeTimer, ClearTimer

LEMMA StartType ==
    ASSUME TypeTimer, NEW n \in alive, TypeNodes, StartTimer(n), UNCHANGED alive
    PROVE  TypeTimer'
BY TimingAssumption DEF TypeTimer, StartTimer, TypeNodes

LEMMA CallSteps ==
    ASSUME IInv, NEW n \in Nodes, NEW c \in Calls, Ask(n, c) \/ ElectSelf(n, c)
    PROVE  IInv'
<1>1. PICK op \in {"get", "set"} : Send(n, op, c)
  BY DEF Ask, ElectSelf
<1>2. Adds(n, Command(op, c)) /\ Command(op, c).op # "del"
  BY <1>1 DEF Send, Adds, Command, Commands
<1>3. TypeConn' /\ DeletesWhenResigned'
  BY <1>2, SendKeeps DEF Ask, ElectSelf, nodeVars
<1>4. TypeCall'
  BY GotoType DEF Ask, ElectSelf, Answers, IInv, Types
<1>5. UNCHANGED <<nodeVars, leaseVars, timerVars, retries, boundVars>>
  BY DEF Ask, ElectSelf
<1> QED
  BY <1>3, <1>4, <1>5 DEF IInv, Types, TypeLease, TypeNodes, TypeTimer, TypeRetries,
     TypeBound, nodeVars, leaseVars, timerVars, boundVars

LEMMA RefreshStep ==
    ASSUME IInv, NEW n \in Nodes, RefreshTimer(n)
    PROVE  IInv'
<1>1. Adds(n, Command("renew", 1)) /\ Command("renew", 1).op # "del"
  BY TimingAssumption DEF RefreshTimer, Send, Adds, Command, Commands
<1>2. TypeConn' /\ DeletesWhenResigned'
  BY <1>1, SendKeeps DEF RefreshTimer, nodeVars
<1>3. TypeTimer'
  BY TimingAssumption DEF RefreshTimer, nodeVars, IInv, Types, TypeTimer
<1>4. UNCHANGED <<nodeVars, leaseVars, retries, call, boundVars>>
  BY DEF RefreshTimer
<1> QED
  BY <1>2, <1>3, <1>4 DEF IInv, Types, TypeLease, TypeNodes, TypeRetries, TypeCall,
     TypeBound, nodeVars, leaseVars, boundVars

LEMMA RetryStep ==
    ASSUME IInv, NEW n \in Nodes, Retry(n)
    PROVE  IInv'
<1>1. PICK a \in 2..(Attempts + 1) :
         /\ retries[n][a] > 0 /\ retries' = [retries EXCEPT ![n][a] = @ - 1]
         /\ Send(n, "renew", a)
  BY DEF Retry
<1>2. Adds(n, Command("renew", a)) /\ Command("renew", a).op # "del"
  BY <1>1, TimingAssumption DEF Send, Adds, Command, Commands
<1>3. TypeConn' /\ DeletesWhenResigned'
  BY <1>2, SendKeeps DEF Retry, nodeVars
<1>4. retries[n] \in Waiting /\ retries[n][a] - 1 \in Nat
  <2>1. retries[n] \in Waiting
    BY DEF IInv, Types, TypeRetries
  <2>2. retries[n][a] \in Nat
    BY <2>1 DEF Waiting
  <2> QED
    BY <1>1, <2>1, <2>2
<1>5. TypeRetries'
  BY <1>1, <1>4 DEF IInv, Types, TypeRetries, Waiting
<1>6. UNCHANGED <<nodeVars, leaseVars, timerVars, call, boundVars>>
  BY DEF Retry
<1> QED
  BY <1>3, <1>5, <1>6 DEF IInv, Types, TypeLease, TypeNodes, TypeTimer, TypeCall,
     TypeBound, nodeVars, leaseVars, timerVars, boundVars

LEMMA ResignStep ==
    ASSUME IInv, NEW n \in Nodes, Resign(n)
    PROVE  IInv'
<1>1. Adds(n, Command("del", 0)) /\ n \in resigned'
  BY DEF Resign, Send, Adds, Command, Commands
<1>2. TypeConn' /\ DeletesWhenResigned'
  BY <1>1, SendKeeps DEF Resign
<1>3. TypeTimer'
  BY ClearType DEF Resign, IInv, Types
<1>4. TypeNodes' /\ TypeBound'
  BY TimingAssumption DEF Resign, IInv, Types, TypeNodes, TypeBound, Fault
<1>5. UNCHANGED <<leaseVars, retries, call>>
  BY DEF Resign
<1> QED
  BY <1>2, <1>3, <1>4, <1>5 DEF IInv, Types, TypeLease, TypeRetries, TypeCall, leaseVars

LEMMA CrashStep ==
    ASSUME IInv, NEW n \in Nodes, Crash(n)
    PROVE  IInv'
<1>1. TypeTimer'
  BY ClearType DEF Crash, IInv, Types
<1>2. TypeNodes' /\ TypeBound'
  BY TimingAssumption DEF Crash, IInv, Types, TypeNodes, TypeBound, Fault
<1>3. TypeRetries' /\ TypeCall'
  BY DEF Crash, IInv, Types, TypeRetries, TypeCall, Waiting, NoRetries, Answers, NoCalls
<1>4. UNCHANGED <<resigned, leaseVars, conn>>
  BY DEF Crash
<1> QED
  BY <1>1, <1>2, <1>3, <1>4 DEF IInv, Types, TypeLease, TypeConn, DeletesWhenResigned,
     leaseVars

LEMMA ExecuteStep ==
    ASSUME IInv, NEW n \in Nodes, Execute(n)
    PROVE  IInv'
<1>1. PICK i \in DOMAIN conn[n] :
         Marks(n, i, Result(conn[n][i].op, n)) /\ Effects(n, conn[n][i].op)
  BY Executing
<1>2. UNCHANGED <<nodeVars, timerVars, retries, call, boundVars>>
  BY DEF Execute
<1>3. TypeConn' /\ DeletesWhenResigned'
  BY <1>1, <1>2, MarkKeeps DEF nodeVars
<1>4. TypeLease'
  BY <1>1, EffectsType DEF IInv, Types
<1> QED
  BY <1>2, <1>3, <1>4 DEF IInv, Types, TypeNodes, TypeTimer, TypeRetries, TypeCall,
     TypeBound, nodeVars, timerVars, boundVars

LEMMA FailStep ==
    ASSUME IInv, NEW n \in Nodes, Fail(n)
    PROVE  IInv'
<1>1. PICK i \in DOMAIN conn[n] : Marks(n, i, "error")
  BY Failing
<1>2. UNCHANGED <<nodeVars, leaseVars, timerVars, retries, call, late>> /\ Fault
  BY DEF Fail
<1>3. TypeConn' /\ DeletesWhenResigned'
  BY <1>1, <1>2, MarkKeeps DEF nodeVars
<1>4. TypeBound'
  BY <1>2, TimingAssumption DEF IInv, Types, TypeBound, Fault
<1> QED
  BY <1>2, <1>3, <1>4 DEF IInv, Types, TypeNodes, TypeTimer, TypeRetries, TypeCall,
     TypeLease, nodeVars, timerVars, leaseVars

\* What a server does with a reply.
Handles(n, c) ==
    \/ c.op = "get" /\ Asked(n, c.id, c.res) /\ UNCHANGED <<timerVars, retries>>
    \/ c.op = "set" /\ Elected(n, c.id, c.res) /\ UNCHANGED retries
    \/ c.op = "renew" /\ Renewed(n, c.id, c.res) /\ UNCHANGED call
    \/ c.op = "del" /\ UNCHANGED <<timerVars, retries, call>>

LEMMA Replies ==
    ASSUME IInv, NEW n \in Nodes, Reply(n)
    PROVE  /\ Removes(n) /\ n \in alive /\ conn[n][1] \in Commands
           /\ conn[n] \in Seq(Commands) /\ 1 \in DOMAIN conn[n]
           /\ conn[n][1].res # "sent" /\ Handles(n, conn[n][1])
           /\ UNCHANGED <<nodeVars, leaseVars, boundVars>>
<1>1. conn[n] \in Seq(Commands) /\ conn[n] # <<>>
  BY DEF IInv, Types, TypeConn, Reply
<1>2. Head(conn[n]) = conn[n][1] /\ conn[n][1] \in Commands /\ 1 \in DOMAIN conn[n]
  BY <1>1, Replying
<1> QED
  BY <1>1, <1>2 DEF Reply, Removes, Handles

LEMMA ReplyStep ==
    ASSUME IInv, NEW n \in Nodes, Reply(n)
    PROVE  IInv'
<1> DEFINE c == conn[n][1]
<1>1. /\ Removes(n) /\ n \in alive /\ c \in Commands /\ Handles(n, c)
      /\ UNCHANGED <<nodeVars, leaseVars, boundVars>>
  BY Replies
<1>2. TypeConn' /\ DeletesWhenResigned'
  BY <1>1, ReplyKeeps DEF nodeVars
<1>3. TypeTimer'
  <2>1. CASE UNCHANGED timerVars
    BY <1>1, <2>1 DEF IInv, Types, TypeTimer, timerVars, nodeVars
  <2>2. CASE StartTimer(n)
    BY <1>1, <2>2, StartType DEF IInv, Types, nodeVars
  <2>3. CASE ClearTimer(n)
    BY <1>1, <2>3, ClearType DEF IInv, Types, nodeVars
  <2> QED
    BY <1>1, <2>1, <2>2, <2>3 DEF Handles, Elected, Renewed
<1>4. TypeRetries'
  <2>1. CASE UNCHANGED retries
    BY <2>1 DEF IInv, Types, TypeRetries
  <2>2. CASE /\ c.op = "renew" /\ c.id <= Attempts
             /\ retries' = [retries EXCEPT ![n][c.id + 1] = @ + 1]
    <3>1. c.id + 1 \in 2..(Attempts + 1)
      BY <1>1, <2>2, TimingAssumption DEF Commands
    <3> HIDE DEF c
    <3>2. retries[n] \in Waiting /\ retries[n][c.id + 1] \in Nat
      <4>1. retries[n] \in Waiting
        BY DEF IInv, Types, TypeRetries
      <4> QED
        BY <3>1, <4>1 DEF Waiting
    <3>3. retries[n][c.id + 1] + 1 \in Nat
      BY <3>2
    <3> QED
      BY <2>2, <3>1, <3>2, <3>3 DEF IInv, Types, TypeRetries, Waiting
  <2> QED
    BY <1>1, <2>1, <2>2 DEF Handles, Renewed
<1>5. TypeCall'
  <2>1. CASE UNCHANGED call
    BY <2>1 DEF IInv, Types, TypeCall
  <2>2. CASE c.op \in {"get", "set"} /\ \E a \in Answers : Goto(n, c.id, a)
    <3>1. c.id \in Calls
      BY <1>1, <2>2 DEF Commands
    <3> QED
      BY <2>2, <3>1, GotoType DEF IInv, Types
  <2>3. Leader(n, c.res) \in Answers
    BY DEF Leader, Answers
  <2> QED
    BY <1>1, <2>1, <2>2, <2>3 DEF Handles, Asked, Elected, Answers
<1> QED
  BY <1>1, <1>2, <1>3, <1>4, <1>5 DEF IInv, Types, TypeLease, TypeNodes, TypeBound,
     leaseVars, nodeVars, boundVars

LEMMA TickStep ==
    ASSUME IInv, Tick
    PROVE  IInv'
<1>1. TypeLease'
  BY TimingAssumption, NodesAssumption DEF Tick, IInv, Types, TypeLease, Free
<1>2. TypeTimer'
  <2>1. \A n \in Nodes : left[n] \in 0..Interval
    BY DEF IInv, Types, TypeTimer
  <2>2. left' \in [Nodes -> 0..Interval]
    BY <2>1, TimingAssumption DEF Tick
  <2> QED
    BY <2>2 DEF Tick, IInv, Types, TypeTimer, nodeVars
<1>3. TypeCall'
  BY DEF Tick, IInv, Types, TypeCall, Answers
<1>4. TypeBound'
  BY TimingAssumption DEF Tick, IInv, Types, TypeBound
<1>5. UNCHANGED <<nodeVars, retries, conn>>
  BY DEF Tick
<1> QED
  BY <1>1, <1>2, <1>3, <1>4, <1>5 DEF IInv, Types, TypeNodes, TypeRetries, TypeConn,
     DeletesWhenResigned, nodeVars

LEMMA InitIInv == Init => IInv
<1> SUFFICES ASSUME Init PROVE IInv
  OBVIOUS
<1>1. TypeLease /\ TypeNodes /\ TypeTimer
  BY TimingAssumption DEF Init, TypeLease, TypeNodes, TypeTimer
<1>2. TypeRetries /\ TypeCall
  BY DEF Init, TypeRetries, Waiting, NoRetries, TypeCall, Answers, NoCalls
<1>3. TypeConn /\ TypeBound /\ DeletesWhenResigned
  BY TimingAssumption DEF Init, TypeConn, TypeBound, DeletesWhenResigned
<1> QED
  BY <1>1, <1>2, <1>3 DEF IInv, Types

LEMMA NextIInv == IInv /\ [Next]_vars => IInv'
<1> SUFFICES ASSUME IInv, [Next]_vars PROVE IInv'
  OBVIOUS
<1>1. CASE UNCHANGED vars
  BY <1>1 DEF IInv, Types, TypeLease, TypeNodes, TypeTimer, TypeRetries, TypeConn,
     TypeCall, TypeBound, DeletesWhenResigned, vars, nodeVars, leaseVars, timerVars,
     boundVars
<1>2. CASE Tick
  BY <1>2, TickStep
<1>3. ASSUME NEW n \in Nodes, NodeStep(n)
      PROVE  IInv'
  BY <1>3, CallSteps, RefreshStep, RetryStep, ExecuteStep, ReplyStep, ResignStep,
     FailStep, CrashStep DEF NodeStep, Work
<1> QED
  BY <1>1, <1>2, <1>3 DEF Next

\* The shapes of TypeOK in every state of every election.
THEOREM LeaderTypeCorrect == Spec => []TypeOK
<1>1. IInv => TypeOK
  BY TypesAreTypes DEF IInv
<1> QED
  BY <1>1, InitIInv, NextIInv, PTL DEF Spec

(***************************************************************************)
(* How a lease ends.                                                       *)
(***************************************************************************)

Ends == \A n \in Nodes : key = n /\ key' # n =>
            key' = Nobody /\ (ttl = 1 \/ n \in resigned)

LEMMA EndsInStep == IInv /\ [Next]_vars => Ends
<1> SUFFICES ASSUME IInv, [Next]_vars, NEW n \in Nodes, key = n, key' # n
             PROVE  key' = Nobody /\ (ttl = 1 \/ n \in resigned)
  BY DEF Ends
<1>1. n # Nobody /\ ttl \in Nat /\ ttl # 0
  BY NodesAssumption, TimingAssumption DEF IInv, Types, TypeLease
<1>2. CASE Tick
  BY <1>1, <1>2 DEF Tick, Free
<1>3. CASE \E m \in Nodes : Execute(m)
  <2>1. PICK m \in Nodes : \E op : Effects(m, op)
    BY <1>3, Executing
  <2>2. PICK op : Effects(m, op)
    BY <2>1
  <2> QED
    BY <1>1, <2>2 DEF Effects, Set, Renew, Delete, Free, leaseVars
<1>4. UNCHANGED key \/ Tick \/ \E m \in Nodes : Execute(m)
  BY DEF Next, NodeStep, Work, Ask, ElectSelf, RefreshTimer, Retry, Reply, Resign, Fail,
         Crash, vars, leaseVars
<1> QED
  BY <1>2, <1>3, <1>4

\* A lease ends only when it expires or when its owner resigns, and then nobody holds
\* it: no script and no election takes it from a server (LeaderElection.ts, the
\* scripts that check the owner).
THEOREM NobodyIsOusted == Spec => LeaseEnds
<1>1. IInv /\ [Next]_vars => [Ends]_vars
  BY EndsInStep
<1> QED
  BY <1>1, InitIInv, NextIInv, PTL DEF Spec, LeaseEnds, Ends

(***************************************************************************)
(* A timer that runs holds the lease.                                      *)
(***************************************************************************)

Unhurried == Interval + 2 * MaxLate < Lease

LEMMA Numbers ==
    ASSUME Types, NEW n \in Nodes
    PROVE  /\ n # Nobody /\ late \in Nat /\ late <= MaxLate /\ MaxLate \in Nat
           /\ ttl \in Nat /\ ttl <= Lease /\ Lease \in Nat /\ Interval \in Nat
           /\ Interval > 0 /\ left[n] \in Nat /\ left[n] <= Interval
BY NodesAssumption, TimingAssumption DEF Types, TypeLease, TypeTimer, TypeBound

\* Nothing changes for n but possibly the lease, and that of another.
LEMMA OthersStep ==
    ASSUME NEW n \in Nodes, Won(n), Holds(n),
           conn'[n] = conn[n], retries'[n] = retries[n], left'[n] = left[n], late' = late,
           n \in running' \ resigned' => n \in running \ resigned,
           n \in alive' \ resigned' => n \in alive \ resigned,
           UNCHANGED leaseVars \/ key # n
    PROVE  Won(n)' /\ Holds(n)'
<1>1. Won(n)'
  BY DEF Won, leaseVars
<1>2. Holds(n)'
  BY DEF Holds, leaseVars
<1> QED
  BY <1>1, <1>2

LEMMA LeaseOfOthers ==
    ASSUME IInv, NEW n \in Nodes, NEW m \in Nodes \ {n}, NodeStep(m), Won(n), Holds(n)
    PROVE  Won(n)' /\ Holds(n)'
<1>1. n # Nobody
  BY NodesAssumption
<1>2. conn'[n] = conn[n]
  <2>1. conn \in [Nodes -> Seq(Commands)]
    BY DEF IInv, Types, TypeConn
  <2> QED
    BY <2>1 DEF NodeStep, Work, Ask, ElectSelf, RefreshTimer, Retry, Execute, Reply,
                Resign, Fail, Crash, Send
<1>3. retries'[n] = retries[n]
  <2>1. retries \in [Nodes -> Waiting]
    BY DEF IInv, Types, TypeRetries
  <2> QED
    BY <2>1 DEF NodeStep, Work, Ask, ElectSelf, RefreshTimer, Retry, Execute, Reply,
                Resign, Fail, Crash, Renewed
<1>4. left'[n] = left[n] /\ (n \in running' => n \in running)
  <2>1. left \in [Nodes -> 0..Interval]
    BY DEF IInv, Types, TypeTimer
  <2>2. ClearTimer(m) \/ StartTimer(m) \/ UNCHANGED timerVars \/ RefreshTimer(m)
    BY DEF NodeStep, Work, Ask, ElectSelf, Retry, Execute, Reply, Resign, Fail, Crash,
           Renewed, Elected
  <2> QED
    BY <2>1, <2>2 DEF ClearTimer, StartTimer, RefreshTimer, timerVars
<1>5. late' = late /\ alive' \subseteq alive /\ resigned \subseteq resigned'
  BY DEF NodeStep, Work, Ask, ElectSelf, RefreshTimer, Retry, Execute, Reply, Resign,
         Fail,
         Crash, nodeVars, boundVars
<1>6. UNCHANGED leaseVars \/ key # n
  <2>1. CASE Execute(m)
    <3>1. PICK op : Effects(m, op)
      BY <2>1, Executing
    <3> QED
      BY <1>1, <3>1 DEF Effects, Set, Renew, Delete
  <2> QED
    BY <2>1 DEF NodeStep, Work, Ask, ElectSelf, RefreshTimer, Retry, Reply, Resign, Fail,
                Crash
<1> QED
  BY <1>2, <1>3, <1>4, <1>5, <1>6, OthersStep

\* What n sends takes nothing from what it has sent.
LEMMA Sending ==
    ASSUME IInv, NEW n, NEW c, Adds(n, c), c.res = "sent"
    PROVE  /\ Has(conn'[n], "set", "ok") => Has(conn[n], "set", "ok")
           /\ \A i \in DOMAIN conn[n] : i \in DOMAIN conn'[n] /\ conn'[n][i] = conn[n][i]
           /\ \E i \in DOMAIN conn'[n] : conn'[n][i] = c
<1>1. conn'[n] = Append(conn[n], c) /\ conn[n] \in Seq(Commands)
  BY AddsCommand DEF IInv, Types
<1>2. c \in Commands
  BY DEF Adds
<1>3. /\ DOMAIN conn'[n] = DOMAIN conn[n] \cup {Len(conn[n]) + 1}
      /\ \A i \in DOMAIN conn[n] : conn'[n][i] = conn[n][i]
      /\ conn'[n][Len(conn[n]) + 1] = c
  BY <1>1, <1>2, Appending
<1>4. Has(conn'[n], "set", "ok") => Has(conn[n], "set", "ok")
  BY <1>3 DEF Has
<1> QED
  BY <1>3, <1>4

LEMMA LeaseOfSender ==
    ASSUME IInv, NEW n \in Nodes, Won(n), Holds(n),
           RefreshTimer(n) \/ Retry(n) \/ \E c \in Calls : Ask(n, c) \/ ElectSelf(n, c)
    PROVE  Won(n)' /\ Holds(n)'
<1>1. CASE \E c \in Calls : Ask(n, c) \/ ElectSelf(n, c)
  <2>1. PICK op \in {"get", "set"}, c \in Calls : Send(n, op, c)
    BY <1>1 DEF Ask, ElectSelf
  <2>2. Adds(n, Command(op, c)) /\ Command(op, c).res = "sent"
    BY <2>1 DEF Send, Adds, Command, Commands
  <2>3. UNCHANGED <<nodeVars, leaseVars, timerVars, retries, boundVars>>
    BY <1>1 DEF Ask, ElectSelf
  <2>4. Won(n)'
    BY <2>2, <2>3, Sending DEF Won, nodeVars, leaseVars, boundVars
  <2>5. Unresolved(conn[n], retries[n]) => Unresolved(conn'[n], retries'[n])
    BY <2>2, <2>3, Sending DEF Unresolved
  <2>6. Holds(n)'
    BY <2>3, <2>5 DEF Holds, nodeVars, leaseVars, boundVars, timerVars
  <2> QED
    BY <2>4, <2>6
<1>2. CASE RefreshTimer(n) \/ Retry(n)
  <2>1. PICK a \in 1..(Attempts + 1) : Send(n, "renew", a)
    BY <1>2, TimingAssumption DEF RefreshTimer, Retry
  <2>2. /\ Adds(n, Command("renew", a)) /\ Command("renew", a).res = "sent"
        /\ Command("renew", a).op = "renew"
    BY <2>1 DEF Send, Adds, Command, Commands
  <2>3. UNCHANGED <<nodeVars, leaseVars, running, late>>
    BY <1>2 DEF RefreshTimer, Retry, timerVars, boundVars
  <2>4. Won(n)'
    BY <2>2, <2>3, Sending DEF Won, nodeVars, leaseVars
  <2>5. Unresolved(conn'[n], retries'[n])
    BY <2>2, Sending DEF Unresolved
  <2>6. Holds(n)'
    BY <2>3, <2>5 DEF Holds, nodeVars, leaseVars
  <2> QED
    BY <2>4, <2>6
<1> QED
  BY <1>1, <1>2

LEMMA LeaseOfExecutor ==
    ASSUME IInv, NEW n \in Nodes, Won(n), Holds(n), Execute(n)
    PROVE  Won(n)' /\ Holds(n)'
<1>1. PICK i \in DOMAIN conn[n] :
         Marks(n, i, Result(conn[n][i].op, n)) /\ Effects(n, conn[n][i].op)
  BY Executing
<1>2. UNCHANGED <<nodeVars, timerVars, retries, late>>
  BY DEF Execute, boundVars
<1>3. CASE key' = n /\ ttl' = Lease
  <2>1. Won(n)'
    BY <1>2, <1>3, Numbers DEF Won, IInv, Types
  <2>2. Holds(n)'
    BY <1>2, <1>3, Numbers DEF Holds, IInv, Types, timerVars
  <2> QED
    BY <2>1, <2>2
<1>4. CASE n \in resigned
  BY <1>2, <1>4 DEF Won, Holds, nodeVars
<1>5. CASE UNCHANGED leaseVars /\ (conn[n][i].op = "set" => key # Nobody)
                               /\ (conn[n][i].op = "renew" => key # n)
  <2>1. Has(conn'[n], "set", "ok") => Has(conn[n], "set", "ok")
    <3>1. Result("set", n) # "ok" \/ conn[n][i].op # "set"
      BY <1>5 DEF Result
    <3> QED
      BY <1>1, <3>1 DEF Has, Marks
  <2>2. Won(n)'
    BY <1>2, <1>5, <2>1 DEF Won, leaseVars, nodeVars
  <2>3. key = n /\ Unresolved(conn[n], retries[n]) => Unresolved(conn'[n], retries'[n])
    BY <1>1, <1>2, <1>5 DEF Unresolved, Marks
  <2>4. Holds(n)'
    BY <1>2, <1>5, <2>3 DEF Holds, leaseVars, nodeVars, timerVars
  <2> QED
    BY <2>2, <2>4
<1>6. n # Nobody
  BY NodesAssumption
<1> QED
  BY <1>1, <1>3, <1>4, <1>5, <1>6 DEF Effects, Set, Renew

LEMMA LeaseOfFailed ==
    ASSUME IInv, NEW n \in Nodes, Won(n), Holds(n), Fail(n)
    PROVE  Won(n)' /\ Holds(n)'
<1>1. PICK i \in DOMAIN conn[n] : Marks(n, i, "error")
  BY Failing
<1>2. UNCHANGED <<nodeVars, leaseVars, timerVars, retries, late>>
  BY DEF Fail
<1>3. Has(conn'[n], "set", "ok") => Has(conn[n], "set", "ok")
  BY <1>1 DEF Has, Marks
<1>4. Unresolved(conn[n], retries[n]) => Unresolved(conn'[n], retries'[n])
  BY <1>1, <1>2 DEF Unresolved, Marks
<1>5. Won(n)'
  BY <1>2, <1>3 DEF Won, leaseVars, nodeVars
<1>6. Holds(n)'
  BY <1>2, <1>4 DEF Holds, leaseVars, nodeVars, timerVars
<1> QED
  BY <1>5, <1>6

LEMMA LeaseOfReplied ==
    ASSUME IInv, NEW n \in Nodes, Won(n), Holds(n), Reply(n)
    PROVE  Won(n)' /\ Holds(n)'
<1> DEFINE c == conn[n][1]
<1>1. /\ Removes(n) /\ n \in alive /\ c \in Commands /\ Handles(n, c)
      /\ 1 \in DOMAIN conn[n] /\ UNCHANGED <<nodeVars, leaseVars, late>>
  BY Replies DEF boundVars
<1>2. conn'[n] = Tail(conn[n]) /\ conn[n] \in Seq(Commands) /\ conn[n] # <<>>
  BY <1>1, RemovesCommand DEF IInv, Types, Removes
<1>3. Has(conn'[n], "set", "ok") => Has(conn[n], "set", "ok")
  BY <1>2, Replying DEF Has
<1>4. Won(n)'
  BY <1>1, <1>3 DEF Won, leaseVars, nodeVars
<1>5. ASSUME UNCHANGED retries, Unresolved(conn[n], retries[n]),
             c.op # "renew" \/ c.res = "ok"
      PROVE  Unresolved(conn'[n], retries'[n])
  <2>1. CASE \E a \in 2..(Attempts + 1) : retries[n][a] > 0
    BY <1>5, <2>1 DEF Unresolved
  <2>2. CASE \E i \in DOMAIN conn[n] : conn[n][i].op = "renew" /\ conn[n][i].res # "ok"
    <3>1. PICK i \in DOMAIN conn[n] : conn[n][i].op = "renew" /\ conn[n][i].res # "ok"
      BY <2>2
    <3>2. i # 1
      BY <1>5, <3>1
    <3>3. i - 1 \in DOMAIN conn'[n] /\ conn'[n][i - 1] = conn[n][i]
      BY <1>2, <3>2
    <3> QED
      BY <3>1, <3>3 DEF Unresolved
  <2> QED
    BY <1>5, <2>1, <2>2 DEF Unresolved
<1>6. CASE UNCHANGED <<timerVars, retries>> /\ (c.op # "renew" \/ c.res = "ok")
  BY <1>1, <1>4, <1>5, <1>6 DEF Holds, leaseVars, nodeVars, timerVars
<1>7. CASE StartTimer(n) /\ c.op = "set" /\ c.res = "ok"
  <2>1. Has(conn[n], "set", "ok")
    BY <1>1, <1>7 DEF Has
  <2>2. left'[n] = Interval
    BY <1>7 DEF StartTimer, IInv, Types, TypeTimer
  <2>3. n \notin resigned => key = n /\ Lease <= ttl + late
    BY <1>1, <2>1 DEF Won
  <2> QED
    BY <1>1, <1>4, <2>2, <2>3, Numbers DEF Holds, IInv, leaseVars, nodeVars
<1>8. CASE ClearTimer(n)
  BY <1>4, <1>8 DEF ClearTimer, Holds
<1>9. CASE /\ c.op = "renew" /\ c.id <= Attempts
           /\ retries' = [retries EXCEPT ![n][c.id + 1] = @ + 1] /\ UNCHANGED timerVars
  <2>1. c.id + 1 \in 2..(Attempts + 1)
    BY <1>1, <1>9, TimingAssumption DEF Commands
  <2> HIDE DEF c
  <2>2. retries[n] \in Waiting /\ retries[n][c.id + 1] \in Nat
    <3>1. retries[n] \in Waiting
      BY DEF IInv, Types, TypeRetries
    <3> QED
      BY <2>1, <3>1 DEF Waiting
  <2>3. retries'[n][c.id + 1] = retries[n][c.id + 1] + 1
    BY <1>9, <2>1, <2>2 DEF IInv, Types, TypeRetries, Waiting
  <2>4. Unresolved(conn'[n], retries'[n])
    BY <2>1, <2>2, <2>3 DEF Unresolved
  <2> QED
    BY <1>1, <1>4, <1>9, <2>4 DEF Holds, leaseVars, nodeVars, timerVars
<1> QED
  BY <1>1, <1>4, <1>6, <1>7, <1>8, <1>9 DEF Handles, Elected, Renewed, timerVars

LEMMA Weaker ==
    ASSUME NEW a \in Nat, NEW b \in Nat, NEW c \in Nat, NEW d \in Nat, NEW e \in Nat,
           NEW f \in Nat, a + b <= c + d + e
    PROVE  a <= c + f + d + e
OBVIOUS

LEMMA LeaseOfTick ==
    ASSUME Unhurried, IInv, NEW n \in Nodes, Won(n), Holds(n), Tick
    PROVE  Won(n)' /\ Holds(n)'
<1>1. UNCHANGED <<nodeVars, running, retries, conn>>
  BY DEF Tick
<1>2. left'[n] = IF left[n] > 0 THEN left[n] - 1 ELSE 0
  BY DEF Tick
<1>3. CASE Due(n)
  <2>1. late < MaxLate /\ late' = late + 1
    BY <1>3 DEF Tick
  <2>2. Won(n)'
    <3> SUFFICES ASSUME key = n, Lease <= ttl + late
                 PROVE  key' = n /\ Lease <= ttl' + late'
      BY <1>1 DEF Won, nodeVars
    <3>1. ttl > 1
      BY <2>1, Numbers DEF Unhurried, IInv
    <3>2. key' = n /\ ttl' = ttl - 1
      BY <3>1, Numbers DEF Tick, IInv
    <3> QED
      BY <2>1, <3>2, Numbers DEF IInv
  <2>3. Holds(n)'
    <3> SUFFICES ASSUME n \in running \ resigned
                 PROVE  /\ key' = n
                        /\ Lease <= ttl' + late' + MaxLate + Interval
                        /\ \/ left'[n] = 0 \/ Unresolved(conn[n], retries[n])
                           \/ Lease + left'[n] <= ttl' + MaxLate + Interval
      BY <1>1 DEF Holds, nodeVars
    <3>1. key = n /\ Lease <= ttl + late + MaxLate + Interval
      BY DEF Holds
    <3>2. ttl > 1
      BY <2>1, <3>1, Numbers DEF Unhurried, IInv
    <3>3. key' = n /\ ttl' = ttl - 1
      BY <3>1, <3>2, Numbers DEF Tick, IInv
    <3>4. \/ left[n] = 0 \/ Unresolved(conn[n], retries[n])
          \/ Lease + left[n] <= ttl + MaxLate + Interval
      BY DEF Holds
    <3>5. Lease <= ttl' + late' + MaxLate + Interval
      BY <2>1, <3>1, <3>3, Numbers DEF IInv
    <3>6. Lease + left[n] <= ttl + MaxLate + Interval =>
             left'[n] = 0 \/ Lease + left'[n] <= ttl' + MaxLate + Interval
      BY <1>2, <3>3, Numbers DEF IInv
    <3> QED
      BY <1>2, <3>3, <3>4, <3>5, <3>6
  <2> QED
    BY <2>2, <2>3
<1>4. CASE ~Due(n)
  <2>1. (late < MaxLate /\ late' = late + 1) \/ late' = 0
    BY DEF Tick
  <2>2. n \in alive => ~Has(conn[n], "set", "ok")
    BY <1>4 DEF Due, Has
  <2>3. Won(n)'
    BY <1>1, <2>2 DEF Won, nodeVars
  <2>4. Holds(n)'
    <3> SUFFICES ASSUME n \in running \ resigned
                 PROVE  /\ key' = n
                        /\ Lease <= ttl' + late' + MaxLate + Interval
                        /\ Lease + left'[n] <= ttl' + MaxLate + Interval
      BY <1>1 DEF Holds, nodeVars
    <3>1. n \in alive /\ conn[n] = <<>> /\ left[n] # 0
      BY <1>4 DEF Due, IInv, Types, TypeTimer
    <3>2. ~Unresolved(conn[n], retries[n])
      BY <1>4, <3>1 DEF Due, Unresolved
    <3>3. key = n /\ Lease + left[n] <= ttl + MaxLate + Interval
      BY <3>1, <3>2 DEF Holds
    <3>4. ttl > 1
      BY <3>1, <3>3, Numbers DEF Unhurried, IInv
    <3>5. key' = n /\ ttl' = ttl - 1
      BY <3>3, <3>4, Numbers DEF Tick, IInv
    <3>6. left'[n] = left[n] - 1 /\ late' \in Nat
      BY <1>2, <2>1, <3>1, Numbers DEF IInv
    <3>7. left[n] \in Nat /\ ttl \in Nat /\ MaxLate \in Nat /\ Interval \in Nat /\ Lease \in Nat
      BY Numbers DEF IInv
    <3>8. Lease + left'[n] <= ttl' + MaxLate + Interval
      BY <3>3, <3>5, <3>6, <3>7
    <3>9. left'[n] \in Nat /\ ttl' \in Nat /\ late' \in Nat
      <4>1. left'[n] \in Nat
        BY <3>1, <3>6, <3>7
      <4>2. ttl' \in Nat
        BY <3>4, <3>5, <3>7
      <4> QED
        BY <3>6, <4>1, <4>2
    <3>10. Lease <= ttl' + late' + MaxLate + Interval
      BY <3>7, <3>8, <3>9, Weaker
    <3> QED
      BY <3>5, <3>8, <3>10
  <2> QED
    BY <2>3, <2>4
<1> QED
  BY <1>3, <1>4

LEMMA NextLeaseInv == Unhurried /\ IInv /\ LeaseInv /\ [Next]_vars => LeaseInv'
<1> SUFFICES ASSUME Unhurried, IInv, LeaseInv, [Next]_vars, NEW n \in Nodes
             PROVE  Won(n)' /\ Holds(n)'
  BY DEF LeaseInv
<1>1. Won(n) /\ Holds(n)
  BY DEF LeaseInv
<1>2. CASE UNCHANGED vars
  BY <1>1, <1>2, OthersStep DEF vars, nodeVars, timerVars, boundVars
<1>3. CASE Tick
  BY <1>1, <1>3, LeaseOfTick
<1>4. ASSUME NEW m \in Nodes \ {n}, NodeStep(m)
      PROVE  Won(n)' /\ Holds(n)'
  BY <1>1, <1>4, LeaseOfOthers
<1>5. CASE Resign(n) \/ Crash(n)
  <2>1. n \notin running' /\ (n \in resigned' \/ n \notin alive')
    BY <1>5 DEF Resign, Crash, ClearTimer
  <2> QED
    BY <2>1 DEF Won, Holds
<1>6. CASE NodeStep(n)
  BY <1>1, <1>5, <1>6, LeaseOfSender, LeaseOfExecutor, LeaseOfFailed, LeaseOfReplied
     DEF NodeStep, Work
<1> QED
  BY <1>2, <1>3, <1>4, <1>6 DEF Next

LEMMA InitLeaseInv == Init => LeaseInv
BY DEF Init, LeaseInv, Won, Holds, Has

LEMMA LeaseInvHolds == IInv /\ LeaseInv => TimerHoldsLease
<1>1. IInv => running \subseteq Nodes
  BY DEF IInv, Types, TypeTimer, TypeNodes
<1> QED
  BY <1>1 DEF LeaseInv, Holds, TimerHoldsLease

\* With a lease longer than the interval and twice the lateness, a server whose
\* refresh timer runs holds the lease, whatever commands fail (renewLeadership,
\* clearRefreshTimer).
THEOREM LeaseIsHeld == ASSUME Unhurried PROVE Spec => []TimerHoldsLease
<1>1. Init => IInv /\ LeaseInv
  BY InitIInv, InitLeaseInv
<1>2. IInv /\ LeaseInv /\ [Next]_vars => (IInv /\ LeaseInv)'
  BY NextIInv, NextLeaseInv
<1>3. IInv /\ LeaseInv => TimerHoldsLease
  BY LeaseInvHolds
<1> QED
  BY <1>1, <1>2, <1>3, PTL DEF Spec

AnswersTrue == \A n \in Nodes \ resigned, c \in Calls : AnswersYes(n, c) => key' = n

LEMMA AnswerInStep == IInv /\ LeaseInv /\ [Next]_vars => AnswersTrue
<1> SUFFICES ASSUME IInv, LeaseInv, [Next]_vars, NEW n \in Nodes \ resigned,
                    NEW c \in Calls, call[n][c] # "yes", call'[n][c] = "yes"
             PROVE  key' = n
  BY DEF AnswersTrue, AnswersYes
<1>1. call \in [Nodes -> [Calls -> Answers]]
  BY DEF IInv, Types, TypeCall
<1>2. ASSUME NEW m \in Nodes, NEW d, NEW a, Goto(m, d, a)
      PROVE  n = m /\ c = d /\ a = "yes"
  BY <1>1, <1>2 DEF Goto
<1>3. ~Tick /\ call' # call
  BY <1>1 DEF Tick
<1>4. PICK m \in Nodes : NodeStep(m)
  BY <1>3 DEF Next, vars
<1>5. ~Crash(m)
  BY <1>1 DEF Crash, NoCalls
<1>6. \A d \in Calls : ~Ask(m, d) /\ ~ElectSelf(m, d)
  BY <1>2 DEF Ask, ElectSelf
<1>7. Reply(m)
  BY <1>3, <1>4, <1>5, <1>6 DEF NodeStep, Work, RefreshTimer, Retry, Execute, Resign, Fail
<1> DEFINE r == conn[m][1]
<1>8. /\ m \in alive /\ Handles(m, r) /\ 1 \in DOMAIN conn[m]
      /\ UNCHANGED <<nodeVars, leaseVars>>
  BY <1>7, Replies
<1> HIDE DEF r
<1>9. CASE r.op = "get" /\ Asked(m, r.id, r.res)
  <2>1. n = m /\ m \in running
    BY <1>2, <1>9 DEF Asked, Leader
  <2> QED
    BY <1>8, <2>1 DEF LeaseInv, Holds, leaseVars
<1>10. CASE r.op = "set" /\ Elected(m, r.id, r.res)
  <2>1. n = m /\ r.res = "ok"
    BY <1>2, <1>10 DEF Elected
  <2>2. Has(conn[m], "set", "ok")
    BY <1>8, <1>10, <2>1 DEF Has, r
  <2> QED
    BY <1>8, <2>1, <2>2 DEF LeaseInv, Won, leaseVars
<1> QED
  BY <1>3, <1>8, <1>9, <1>10 DEF Handles

\* Under the same condition a server that answers yes holds the lease when it does
\* (isLeader, electSelf).
THEOREM LeadersLead == ASSUME Unhurried PROVE Spec => YesIsTrue
<1>1. Init => IInv /\ LeaseInv
  BY InitIInv, InitLeaseInv
<1>2. IInv /\ LeaseInv /\ [Next]_vars => (IInv /\ LeaseInv)'
  BY NextIInv, NextLeaseInv
<1>3. IInv /\ LeaseInv /\ [Next]_vars => [AnswersTrue]_vars
  BY AnswerInStep
<1> QED
  BY <1>1, <1>2, <1>3, PTL DEF Spec, YesIsTrue, AnswersTrue

(***************************************************************************)
(* The flow of FlowState.  A flow that is not found was lost for one of the*)
(* reasons of the property, and stays so; otherwise a call that monitors   *)
(* finds it, and so does its poll.                                         *)
(***************************************************************************)

FlowClock == /\ now \in 0..MaxTime
             /\ store \in Entries
             /\ outside \in 0..MaxOutside
FlowFlags == retained \in BOOLEAN /\ removed \in BOOLEAN
FlowCalls == /\ pc \in [Actors -> PCs]
             /\ kind \in [Callers -> {"handler", "waiter"}]
             /\ held \in [Actors -> Entries]
Outcomes == [how : {"open", "resolved", "failed", "missing", "timed out", "aborted"},
             res : Results]
FlowEnds == /\ outcome \in [Callers -> Outcomes]
            /\ \A c \in Callers : outcome[c].how = "open" <=> pc[c] # "settled"
FlowPolls == /\ poll \in [Callers -> Entries \cup {NoPoll, Again}]
             /\ missed \subseteq Callers /\ aborted \subseteq Callers

FlowTypes == FlowClock /\ FlowFlags /\ FlowCalls /\ FlowEnds /\ FlowPolls

LEMMA FlowTypesAreTypes == FlowTypes => FlowTypeOK
BY DEF FlowTypes, FlowClock, FlowFlags, FlowCalls, FlowEnds, FlowPolls, FlowTypeOK,
       Outcomes

\* The reasons the property allows for a flow that is not found.
Excused ==
    \/ removed \/ aborted # {}
    \/ ~retained /\ \E d \in Callers : outcome[d].how \in {"failed", "timed out"}

\* Otherwise a call that monitors finds the flow, and so does its poll.
Found ==
    /\ Gone # store => now < store.exp \/ removed
    /\ \A c \in Callers :
          /\ pc[c] = "aborting" => c \in aborted
          /\ poll[c] # NoPoll => pc[c] = "monitor" \/ aborted # {}
          /\ pc[c] = "monitor" => store # Gone \/ Excused
          /\ poll[c] \in {Gone, Again} => Excused
          /\ outcome[c].how = "missing" => Excused
    /\ \A a \in Actors : pc[a] \in {"storing", "storingFailure"} => held[a] # Gone

LEMMA ExcusedStays ==
    ASSUME FlowTypes, FlowTypes', removed => removed', aborted \subseteq aborted',
           retained' = retained,
           \A c \in Callers : outcome[c].how # "open" => outcome'[c] = outcome[c]
    PROVE  Excused => Excused'
BY DEF Excused, FlowTypes, FlowEnds, Outcomes

LEMMA EntryTypes ==
    ASSUME FlowClock
    PROVE  /\ Stored \in Entries /\ Gone \in Entries
           /\ Pending \in Entries
           /\ Pending # Gone /\ Pending.exp > now
           /\ NoResult \in Results
           /\ Gone # NoPoll /\ Gone # Again
           /\ NoPoll \notin Entries /\ Again \notin Entries
<1>1. NoResult \in Results
  BY DEF NoResult, Results
<1>2. Gone \in Entries /\ Stored \in Entries
  BY DEF Entries, Stored, FlowClock
<1>3. Pending \in Entries
  BY <1>1, FlowTimeAssumption DEF Pending, Entries, FlowClock
<1>4. Pending # Gone /\ Pending.exp > now
  BY FlowTimeAssumption DEF Pending, Gone, FlowClock
<1> QED
  BY <1>1, <1>2, <1>3, <1>4 DEF Entries, NoPoll, Again, Gone

LEMMA InitFlowTypes == FlowInit => FlowTypes
<1> SUFFICES ASSUME FlowInit PROVE FlowTypes
  OBVIOUS
<1> USE DEF FlowInit
<1>0. FlowFlags
  BY Zenon DEF FlowFlags
<1>1. FlowClock
  BY FlowTimeAssumption DEF FlowClock, Entries
<1>2. FlowCalls
  BY DEF FlowCalls, PCs, Entries
<1>3. FlowEnds
  <2>1. Open \in Outcomes /\ Open.how = "open"
    BY DEF Open, Outcomes, NoResult, Results
  <2> QED
    BY <2>1 DEF FlowEnds, Actors
<1>4. FlowPolls
  BY DEF FlowPolls
<1> QED
  BY <1>0, <1>1, <1>2, <1>3, <1>4 DEF FlowTypes

\* A call goes somewhere else, or settles.
LEMMA GotoTypes ==
    ASSUME FlowTypes, NEW a \in Actors, NEW label \in PCs, Enter(a, label),
           label # "settled" \/ a \notin Callers,
           a \in Callers => pc[a] # "settled",
           UNCHANGED outcome
    PROVE  pc' \in [Actors -> PCs] /\ FlowEnds'
BY DEF FlowTypes, FlowCalls, FlowEnds, Enter

LEMMA SettleTypes ==
    ASSUME FlowTypes, NEW c \in Callers, NEW how, NEW res \in Results,
           how \in {"resolved", "failed", "missing", "timed out", "aborted"},
           Settle(c, how, res)
    PROVE  /\ pc' \in [Actors -> PCs] /\ FlowEnds'
           /\ outcome'[c].how = how /\ pc'[c] = "settled"
           /\ \A d \in Callers \ {c} : outcome'[d] = outcome[d]
           /\ \A d \in Actors \ {c} : pc'[d] = pc[d]
<1>1. c \in Actors /\ "settled" \in PCs
  BY DEF Actors, PCs
<1>2. pc' \in [Actors -> PCs] /\ pc'[c] = "settled"
      /\ \A d \in Actors \ {c} : pc'[d] = pc[d]
  BY <1>1 DEF FlowTypes, FlowCalls, Settle, Enter
<1>3. [how |-> how, res |-> res] \in Outcomes
  BY DEF Outcomes
<1>4. outcome' = [outcome EXCEPT ![c] = [how |-> how, res |-> res]]
  BY DEF Settle
<1>5. outcome' \in [Callers -> Outcomes] /\ outcome'[c].how = how
      /\ \A d \in Callers \ {c} : outcome'[d] = outcome[d]
  BY <1>3, <1>4 DEF FlowTypes, FlowEnds
<1>6. \A d \in Callers : outcome'[d].how = "open" <=> pc'[d] # "settled"
  BY <1>2, <1>5 DEF FlowTypes, FlowEnds, Actors
<1> QED
  BY <1>2, <1>5, <1>6 DEF FlowEnds

\* What a step does to the calls: one goes on, or settles while it is open.
Goes(a, label) ==
    /\ Enter(a, label) /\ label \in PCs \ {"idle"} /\ UNCHANGED outcome
    /\ label # "settled" \/ a \notin Callers
    /\ a \in Callers => pc[a] # "settled"
EndsWith(c, how) ==
    /\ c \in Callers /\ pc[c] # "settled"
    /\ how \in {"resolved", "failed", "missing", "timed out", "aborted"}
    /\ \E res \in Results : Settle(c, how, res)

LEMMA CallsGoOn ==
    ASSUME FlowTypes, NEW a \in Actors, kind' = kind,
           held' \in [Actors -> Entries],
           \/ UNCHANGED <<pc, outcome>>
           \/ \E label \in PCs : Goes(a, label)
           \/ \E how \in {"resolved", "failed", "missing", "timed out", "aborted"} :
                 EndsWith(a, how)
    PROVE  /\ FlowCalls' /\ FlowEnds'
           /\ \A c \in Callers : outcome[c].how # "open" => outcome'[c] = outcome[c]
           /\ \A d \in Actors \ {a} : pc'[d] = pc[d]
           /\ \A d \in Callers \ {a} : outcome'[d] = outcome[d]
<1>1. CASE UNCHANGED <<pc, outcome>>
  BY <1>1 DEF FlowTypes, FlowCalls, FlowEnds
<1>2. CASE \E label \in PCs : Goes(a, label)
  <2>1. PICK label \in PCs : Goes(a, label)
    BY <1>2
  <2>2. pc' \in [Actors -> PCs] /\ FlowEnds'
    BY <2>1, GotoTypes DEF Goes
  <2> QED
    BY <2>1, <2>2 DEF Goes, Enter, FlowTypes, FlowCalls
<1>3. CASE \E how \in {"resolved", "failed", "missing", "timed out", "aborted"} :
              EndsWith(a, how)
  <2>1. PICK how \in {"resolved", "failed", "missing", "timed out", "aborted"} :
             EndsWith(a, how)
    BY <1>3
  <2>2. PICK res \in Results : Settle(a, how, res)
    BY <2>1 DEF EndsWith
  <2>3. a \in Callers /\ pc[a] # "settled"
    BY <2>1 DEF EndsWith
  <2>4. /\ pc' \in [Actors -> PCs] /\ FlowEnds'
        /\ \A d \in Callers \ {a} : outcome'[d] = outcome[d]
        /\ \A d \in Actors \ {a} : pc'[d] = pc[d]
    BY <2>2, <2>3, SettleTypes
  <2> QED
    BY <2>3, <2>4 DEF FlowTypes, FlowCalls, FlowEnds
<1> QED
  BY <1>1, <1>2, <1>3

LEMMA EndShows ==
    ASSUME FlowTypes, NEW c, NEW how, EndsWith(c, how)
    PROVE  outcome'[c].how = how /\ pc'[c] = "settled"
<1>1. /\ c \in Callers
      /\ how \in {"resolved", "failed", "missing", "timed out", "aborted"}
  BY DEF EndsWith
<1>2. PICK res \in Results : Settle(c, how, res)
  BY DEF EndsWith
<1> QED
  BY <1>1, <1>2, SettleTypes

\* A step of a caller towards the monitor.
LEMMA MonitorGoes ==
    ASSUME FlowTypes, NEW c \in Callers, Monitor(c), pc[c] # "settled"
    PROVE  \/ Goes(c, "monitor")
           \/ EndsWith(c, "aborted") /\ aborted # {}
BY EntryTypes DEF Monitor, Goes, EndsWith, PCs, FlowTypes

(***************************************************************************)
(* What each step does to the calls, the store and the polls.              *)
(***************************************************************************)

GoodFlow == FlowTypes' /\ Found'

\* A step of one actor, while nobody else's call, poll or entry changes.
LEMMA OneActor ==
    ASSUME FlowTypes, Found, FlowTypes', NEW a \in Actors,
           Excused => Excused', aborted \subseteq aborted',
           Gone # store' => now' < store'.exp \/ removed',
           store # Gone => store' # Gone \/ Excused',
           \A d \in Actors \ {a} : pc'[d] = pc[d] /\ held'[d] = held[d],
           \A d \in Callers \ {a} : outcome'[d] = outcome[d] /\ poll'[d] = poll[d],
           pc'[a] \in {"storing", "storingFailure"} => held'[a] # Gone,
           a \in Callers =>
              /\ pc'[a] = "aborting" => a \in aborted'
              /\ poll'[a] # NoPoll => pc'[a] = "monitor" \/ aborted' # {}
              /\ pc'[a] = "monitor" => store' # Gone \/ Excused'
              /\ poll'[a] \in {Gone, Again} => Excused'
              /\ outcome'[a].how = "missing" => Excused'
    PROVE  Found'
BY DEF Found, Actors

LEMMA StartIsGood ==
    ASSUME FlowTypes, Found, NEW c \in Callers, Start(c)
    PROVE  GoodFlow
<1>1. c \in Actors /\ Goes(c, "first") /\ "first" \in PCs
  BY DEF Start, Goes, Actors, PCs
<1>2. kind' = kind /\ held' \in [Actors -> Entries]
  BY DEF Start, FlowTypes, FlowCalls
<1>3. FlowCalls' /\ FlowEnds' /\ \A d \in Actors \ {c} : pc'[d] = pc[d]
  BY <1>1, <1>2, CallsGoOn
<1>4. pc'[c] = "first" /\ outcome' = outcome
  BY <1>1 DEF Goes, Enter, FlowTypes, FlowCalls
<1>5. FlowTypes'
  BY <1>3 DEF Start, FlowTypes, FlowClock, FlowFlags, FlowPolls, rest, pollVars
<1>6. Excused' <=> Excused
  BY <1>4 DEF Start, Excused, rest
<1>7. Found'
  BY <1>3, <1>4, <1>6 DEF Start, Found, pollVars, rest, Actors
<1> QED
  BY <1>5, <1>7 DEF GoodFlow

LEMMA CheckIsGood ==
    ASSUME FlowTypes, Found, NEW c \in Callers, Check(c)
    PROVE  GoodFlow
<1>1. c \in Actors /\ pc[c] \in {"first", "second"}
  BY DEF Check, Actors
<1>2. \/ Reusable(c) /\ Goes(c, "monitor")
      \/ EndsWith(c, "aborted") /\ aborted # {}
      \/ \E label \in {"second", "create"} : Goes(c, label)
  <2>1. CASE Reusable(c)
    BY <1>1, <2>1, MonitorGoes DEF Check
  <2>2. CASE ~Reusable(c)
    BY <1>1, <2>2 DEF Check, Goes, PCs
  <2> QED
    BY <2>1, <2>2
<1>3. kind' = kind /\ held' \in [Actors -> Entries] /\ "monitor" \in PCs
      /\ "second" \in PCs /\ "create" \in PCs
  BY DEF Check, FlowTypes, FlowCalls, PCs
<1>4. /\ FlowCalls' /\ FlowEnds' /\ \A d \in Actors \ {c} : pc'[d] = pc[d]
      /\ \A d \in Callers : outcome[d].how # "open" => outcome'[d] = outcome[d]
      /\ \A d \in Callers \ {c} : outcome'[d] = outcome[d]
  BY <1>1, <1>2, <1>3, CallsGoOn
<1>5. FlowTypes'
  BY <1>4 DEF Check, FlowTypes, FlowClock, FlowFlags, FlowPolls, rest, pollVars
<1>6. Excused => Excused'
  BY <1>4, <1>5, ExcusedStays DEF Check, rest
<1>7. /\ pc'[c] \in {"monitor", "second", "create", "settled"}
      /\ pc'[c] = "monitor" => store # Gone
      /\ outcome'[c].how = "missing" => outcome'[c] = outcome[c]
      /\ pc'[c] = "settled" => aborted # {}
  <2>1. CASE Reusable(c) /\ Goes(c, "monitor")
    BY <2>1, <1>1 DEF Goes, Enter, FlowTypes, FlowCalls, Reusable, Stored
  <2>2. CASE EndsWith(c, "aborted") /\ aborted # {}
    BY <2>2, EndShows
  <2>3. CASE \E label \in {"second", "create"} : Goes(c, label)
    BY <2>3, <1>1 DEF Goes, Enter, FlowTypes, FlowCalls
  <2> QED
    BY <1>2, <2>1, <2>2, <2>3
<1>8. /\ store' = store /\ now' = now /\ removed' = removed /\ poll' = poll
      /\ aborted' = aborted /\ held' = held
  BY DEF Check, pollVars, rest
<1>9. Found'
  BY <1>1, <1>4, <1>6, <1>7, <1>8 DEF Found, Actors, Excused
<1> QED
  BY <1>5, <1>9 DEF GoodFlow

LEMMA CreateIsGood ==
    ASSUME FlowTypes, Found, NEW c \in Callers, Create(c)
    PROVE  GoodFlow
<1>1. c \in Actors /\ pc[c] = "create" /\ store' = Pending
  BY DEF Create, Actors
<1>2. \/ Goes(c, "monitor") \/ Goes(c, "handle")
      \/ EndsWith(c, "aborted") /\ aborted # {}
  <2>1. CASE kind[c] = "handler"
    BY <1>1, <2>1 DEF Create, Goes, PCs
  <2>2. CASE kind[c] # "handler"
    BY <1>1, <2>2, MonitorGoes DEF Create
  <2> QED
    BY <2>1, <2>2
<1>3. kind' = kind /\ held' = held /\ held' \in [Actors -> Entries]
      /\ "monitor" \in PCs /\ "handle" \in PCs
  BY DEF Create, FlowTypes, FlowCalls, PCs
<1>4. /\ FlowCalls' /\ FlowEnds' /\ \A d \in Actors \ {c} : pc'[d] = pc[d]
      /\ \A d \in Callers : outcome[d].how # "open" => outcome'[d] = outcome[d]
      /\ \A d \in Callers \ {c} : outcome'[d] = outcome[d]
  BY <1>1, <1>2, <1>3, CallsGoOn
<1>5. /\ Pending \in Entries /\ Pending # Gone /\ now < Pending.exp
  BY EntryTypes DEF FlowTypes
<1>6. FlowTypes'
  BY <1>1, <1>4, <1>5 DEF Create, FlowTypes, FlowClock, FlowFlags, FlowPolls, rest,
                          pollVars
<1>7. Excused => Excused'
  BY <1>4, <1>6, ExcusedStays DEF Create, rest
<1>8. /\ pc'[c] \in {"monitor", "handle", "settled"}
      /\ outcome'[c].how = "missing" => outcome'[c] = outcome[c]
      /\ pc'[c] = "settled" => aborted # {}
  <2>1. CASE Goes(c, "monitor") \/ Goes(c, "handle")
    BY <2>1, <1>1 DEF Goes, Enter, FlowTypes, FlowCalls
  <2>2. CASE EndsWith(c, "aborted") /\ aborted # {}
    BY <2>2, EndShows
  <2> QED
    BY <1>2, <2>1, <2>2
<1>9. now' = now /\ removed' = removed /\ poll' = poll /\ aborted' = aborted
  BY DEF Create, pollVars, rest
<1>10. poll[c] = NoPoll \/ aborted # {}
  BY <1>1 DEF Found
<1>11. outcome'[c].how = "missing" => Excused'
  BY <1>7, <1>8 DEF Found
<1>12. Found'
  BY <1>1, <1>3, <1>4, <1>5, <1>6, <1>7, <1>8, <1>9, <1>10, <1>11, OneActor
     DEF Found
<1> QED
  BY <1>6, <1>12 DEF GoodFlow

LEMMA RereadIsGood ==
    ASSUME FlowTypes, Found, NEW c \in Callers, Reread(c)
    PROVE  GoodFlow
<1>1. c \in Actors /\ pc[c] = "reread"
  BY DEF Reread, Actors
<1>2. EndsWith(c, "resolved")
  <2>1. Stored \in Entries
    BY EntryTypes DEF FlowTypes
  <2>2. Stored.st = "COMPLETED" => Stored.res \in Results
    BY <2>1 DEF Entries, Gone
  <2>3. [by |-> c, until |-> now + TokenLife] \in Results
    BY <1>1, FlowTimeAssumption DEF Results, FlowTypes, FlowClock
  <2> QED
    BY <1>1, <2>2, <2>3 DEF Reread, EndsWith
<1>3. kind' = kind /\ held' = held /\ held' \in [Actors -> Entries]
  BY DEF Reread, FlowTypes, FlowCalls
<1>4. /\ FlowCalls' /\ FlowEnds' /\ \A d \in Actors \ {c} : pc'[d] = pc[d]
      /\ \A d \in Callers : outcome[d].how # "open" => outcome'[d] = outcome[d]
      /\ \A d \in Callers \ {c} : outcome'[d] = outcome[d]
  BY <1>1, <1>2, <1>3, CallsGoOn
<1>5. FlowTypes'
  BY <1>4 DEF Reread, FlowTypes, FlowClock, FlowFlags, FlowPolls, rest, pollVars
<1>6. Excused => Excused'
  BY <1>4, <1>5, ExcusedStays DEF Reread, rest
<1>7. pc'[c] = "settled" /\ outcome'[c].how = "resolved"
  BY <1>2, EndShows
<1>8. /\ now' = now /\ removed' = removed /\ poll' = poll /\ aborted' = aborted
      /\ store' = store
  BY DEF Reread, pollVars, rest
<1>9. poll[c] = NoPoll \/ aborted # {}
  BY <1>1 DEF Found
<1>10. Found'
  BY <1>1, <1>3, <1>4, <1>5, <1>6, <1>7, <1>8, <1>9, OneActor DEF Found
<1> QED
  BY <1>5, <1>10 DEF GoodFlow

\* A poll finds nothing only if the flow was lost for one of the reasons.
LEMMA NothingFound ==
    ASSUME FlowTypes, Found, NEW c \in Callers, pc[c] = "monitor", Stored = Gone
    PROVE  Excused
BY DEF Found, Stored, Excused

LEMMA PollIsGood ==
    ASSUME FlowTypes, Found, NEW c \in Callers, Poll(c) \/ PollAgain(c)
    PROVE  GoodFlow
<1>1. /\ UNCHANGED <<now, store, pc, kind, held, aborted, outcome, retained, removed,
                     outside>>
      /\ missed' \subseteq Callers
      /\ \/ poll' = [poll EXCEPT ![c] = Again] \/ poll' = [poll EXCEPT ![c] = Stored]
  BY DEF Poll, PollAgain, callVars, rest, FlowTypes, FlowPolls
<1>2. Stored \in Entries /\ Stored # NoPoll /\ Stored # Again
      /\ Gone # Again /\ Again # NoPoll /\ Gone # NoPoll
  BY EntryTypes DEF FlowTypes, Again, NoPoll
<1>3. FlowPolls'
  BY <1>1, <1>2 DEF FlowTypes, FlowPolls
<1>4. FlowTypes'
  BY <1>1, <1>3 DEF FlowTypes, FlowClock, FlowFlags, FlowCalls, FlowEnds
<1>5. Excused' <=> Excused
  BY <1>1 DEF Excused
<1>6. pc[c] = "monitor" \/ aborted # {}
  BY <1>2 DEF Poll, PollAgain, Found
<1>7. poll'[c] \in {Gone, Again} => Excused
  <2>1. CASE Poll(c)
    <3>1. pc[c] = "monitor"
      BY <2>1 DEF Poll
    <3>2. poll'[c] \in {Gone, Again} => Stored = Gone
      BY <2>1, <1>2 DEF Poll, FlowTypes, FlowPolls
    <3> QED
      BY <3>1, <3>2, NothingFound
  <2>2. CASE PollAgain(c)
    BY <2>2 DEF PollAgain, Found
  <2> QED
    BY <2>1, <2>2
<1>8. \A d \in Callers \ {c} : poll'[d] = poll[d]
  BY <1>1 DEF FlowTypes, FlowPolls
<1>9. Found'
  BY <1>1, <1>5, <1>6, <1>7, <1>8 DEF Found
<1> QED
  BY <1>4, <1>9 DEF GoodFlow

\* What a poll stores, and why nothing is left where it leaves nothing.
LEMMA Consumed ==
    ASSUME FlowTypes, Found, NEW c \in Callers, Act(c)
    PROVE  /\ store' \in Entries
           /\ Gone # store' => now < store'.exp \/ removed
           /\ \/ UNCHANGED <<pc, outcome>>
              \/ \E how \in {"resolved", "failed", "missing", "timed out", "aborted"} :
                    EndsWith(c, how)
           /\ pc'[c] # "monitor" => pc'[c] = pc[c] \/ pc'[c] = "settled"
           /\ store' = Gone => store' = store \/ Excused'
           /\ outcome'[c].how = "missing" => Excused
<1> DEFINE entry == poll[c]
<1>1. entry \in Entries /\ entry \notin {NoPoll, Again}
  BY DEF Act, FlowTypes, FlowPolls
<1>2. c \in Actors /\ NoResult \in Results /\ (pc[c] = "monitor" \/ aborted # {})
  BY <1>1, EntryTypes DEF FlowTypes, Actors, Found
<1>3. UNCHANGED <<now, aborted, retained, removed>>
  BY DEF Act, rest
<1>4. \A how \in {"resolved", "failed", "missing", "timed out", "aborted"} :
        \A res \in Results : SettleOnce(c, how, res) =>
            /\ UNCHANGED <<pc, outcome>> \/ EndsWith(c, how)
            /\ pc[c] = "monitor" => outcome'[c].how = how /\ pc'[c] = "settled"
            /\ outcome'[c].how = "missing" => outcome' = outcome \/ how = "missing"
            /\ pc'[c] = pc[c] \/ pc'[c] = "settled"
  <2> SUFFICES ASSUME NEW how \in {"resolved", "failed", "missing", "timed out", "aborted"},
                      NEW res \in Results, SettleOnce(c, how, res)
               PROVE  /\ UNCHANGED <<pc, outcome>> \/ EndsWith(c, how)
                      /\ pc[c] = "monitor" => outcome'[c].how = how /\ pc'[c] = "settled"
                      /\ outcome'[c].how = "missing" =>
                            outcome' = outcome \/ how = "missing"
                      /\ pc'[c] = pc[c] \/ pc'[c] = "settled"
    OBVIOUS
  <2>1. CASE pc[c] = "monitor"
    <3>1. EndsWith(c, how)
      BY <2>1 DEF SettleOnce, EndsWith
    <3> QED
      BY <2>1, <3>1, EndShows
  <2>2. CASE pc[c] # "monitor"
    BY <2>2 DEF SettleOnce
  <2> QED
    BY <2>1, <2>2
<1>5. CASE entry = Gone
  <2>1. SettleOnce(c, "missing", NoResult) /\ UNCHANGED store
    BY <1>5 DEF Act, Gone
  <2>2. Excused
    BY <1>5 DEF Found
  <2> QED
    BY <2>1, <2>2, <1>2, <1>3, <1>4 DEF Found, FlowTypes, FlowClock
<1>6. CASE entry # Gone /\ c \in aborted
  <2>1. SettleOnce(c, "aborted", NoResult) /\ store' = Gone
    BY <1>6 DEF Act, Gone
  <2>2. Excused /\ Excused'
    BY <1>6, <1>3 DEF Excused
  <2> QED
    BY <2>1, <2>2, <1>2, <1>3, <1>4, EntryTypes DEF FlowTypes
<1>7. CASE entry # Gone /\ c \notin aborted
  <2>1. /\ entry.st \in {"PENDING", "COMPLETED", "FAILED"} /\ entry.res \in Results
        /\ entry.born \in 0..MaxTime /\ entry.exp \in Nat
    BY <1>1, <1>7 DEF Entries
  <2>2. outcome[c].how = "missing" => Excused
    BY DEF Found
  <2>3. CASE entry.st = "COMPLETED"
    <3>1. SettleOnce(c, "resolved", entry.res) /\ UNCHANGED store
      BY <1>7, <2>3 DEF Act
    <3> QED
      BY <3>1, <2>1, <2>2, <1>3, <1>4 DEF Found, FlowTypes, FlowClock
  <2>4. CASE entry.st = "FAILED"
    <3>1. SettleOnce(c, "failed", NoResult) /\ ConsumeFailure(entry)
      BY <1>7, <2>4 DEF Act
    <3>2. store' \in Entries
      BY <3>1, EntryTypes DEF ConsumeFailure, FlowTypes, FlowClock
    <3>3. store' = Gone => store' = store \/ Excused'
      BY <3>1, <1>2, <1>3, <1>4 DEF ConsumeFailure, Excused, FlowTypes, FlowFlags
    <3> QED
      BY <3>1, <3>2, <3>3, <2>2, <1>2, <1>3, <1>4 DEF Found, ConsumeFailure
  <2>5. CASE entry.st = "PENDING" /\ TimedOut(entry)
    <3>1. SettleOnce(c, "timed out", NoResult) /\ ConsumeTimeout(entry)
      BY <1>7, <2>5 DEF Act
    <3> DEFINE kept == [entry EXCEPT !.st = "FAILED",
                            !.exp = now + Larger(1, Ttl - (now - entry.born))]
    <3>2. now + Larger(1, Ttl - (now - entry.born)) \in Nat
          /\ now < now + Larger(1, Ttl - (now - entry.born))
      BY <2>1, FlowTimeAssumption DEF Larger, FlowTypes, FlowClock
    <3>3. kept \in Entries /\ now < kept.exp /\ kept # Gone
      BY <1>1, <1>7, <3>2 DEF Entries, Gone
    <3>4. store' = kept \/ (store' = Gone /\ ~retained)
      BY <3>1 DEF ConsumeTimeout
    <3>5. store' = Gone => store' = store \/ Excused'
      BY <3>1, <3>3, <3>4, <1>2, <1>3, <1>4 DEF Excused
    <3> HIDE DEF kept
    <3> QED
      BY <3>1, <3>3, <3>4, <3>5, <2>2, <1>2, <1>3, <1>4, EntryTypes DEF FlowTypes
  <2>6. CASE entry.st = "PENDING" /\ ~TimedOut(entry)
    <3>1. UNCHANGED <<store, pc, outcome>>
      BY <1>7, <2>6 DEF Act
    <3> QED
      BY <3>1, <2>2, <1>3 DEF Found, FlowTypes, FlowClock
  <2> QED
    BY <2>1, <2>3, <2>4, <2>5, <2>6
<1> QED
  BY <1>5, <1>6, <1>7

LEMMA ActIsGood ==
    ASSUME FlowTypes, Found, NEW c \in Callers, Act(c)
    PROVE  GoodFlow
<1>1. c \in Actors
  BY DEF Actors
<1>2. kind' = kind /\ held' = held /\ held' \in [Actors -> Entries]
      /\ UNCHANGED <<now, missed, aborted, retained, removed, outside>>
      /\ poll' = [poll EXCEPT ![c] = NoPoll] /\ poll[c] \in Entries
      /\ poll[c] # NoPoll
  BY DEF Act, rest, FlowTypes, FlowCalls, FlowPolls
<1>3. /\ FlowCalls' /\ FlowEnds' /\ \A d \in Actors \ {c} : pc'[d] = pc[d]
      /\ \A d \in Callers : outcome[d].how # "open" => outcome'[d] = outcome[d]
      /\ \A d \in Callers \ {c} : outcome'[d] = outcome[d]
  BY <1>1, <1>2, Consumed, CallsGoOn
<1>4. FlowTypes'
  <2>1. FlowClock' /\ FlowFlags'
    BY <1>2, Consumed DEF FlowTypes, FlowClock, FlowFlags
  <2>2. FlowPolls'
    BY <1>2 DEF FlowTypes, FlowPolls
  <2> QED
    BY <1>3, <2>1, <2>2 DEF FlowTypes
<1>5. Excused => Excused'
  BY <1>2, <1>3, <1>4, ExcusedStays
<1>6. /\ poll'[c] = NoPoll /\ \A d \in Callers \ {c} : poll'[d] = poll[d]
      /\ NoPoll # Gone /\ NoPoll # Again
  BY <1>2, EntryTypes DEF FlowTypes, FlowPolls, NoPoll, Again
<1>7. pc'[c] = "monitor" => store' # Gone \/ Excused'
  <2>1. pc'[c] = "monitor" => pc[c] = "monitor" \/ aborted # {}
    BY <1>2 DEF Found
  <2> QED
    BY <1>2, <1>5, <2>1, Consumed DEF Found, Excused
<1>8. /\ pc'[c] \in {"storing", "storingFailure"} => held'[c] # Gone
      /\ pc'[c] = "aborting" => c \in aborted'
  BY <1>1, <1>2, Consumed DEF Found
<1>9. store # Gone => store' # Gone \/ Excused'
  BY Consumed
<1>10. Gone # store' => now' < store'.exp \/ removed'
  BY <1>2, Consumed
<1>11. outcome'[c].how = "missing" => Excused'
  BY <1>5, Consumed
<1>12. Found'
  BY <1>1, <1>2, <1>3, <1>4, <1>5, <1>6, <1>7, <1>8, <1>9, <1>10, <1>11, OneActor
<1> QED
  BY <1>4, <1>12 DEF GoodFlow

LEMMA AbortIsGood ==
    ASSUME FlowTypes, Found, NEW c \in Callers, Abort(c)
    PROVE  GoodFlow
<1>1. c \in Actors /\ aborted' = aborted \cup {c} /\ pc[c] # "settled"
      /\ "aborting" \in PCs
  BY DEF Abort, Actors, PCs
<1>2. pc' = [pc EXCEPT ![c] = "aborting"] \/ pc' = pc
  BY DEF Abort, Enter
<1>3. /\ pc' \in [Actors -> PCs]
      /\ \A d \in Actors \ {c} : pc'[d] = pc[d]
      /\ pc'[c] = "aborting" \/ pc'[c] = pc[c]
  BY <1>1, <1>2 DEF FlowTypes, FlowCalls
<1>4. FlowTypes'
  <2>1. UNCHANGED <<now, store, kind, held, poll, missed, outcome, retained, removed>>
        /\ outside' \in 0..MaxOutside
    BY FlowTimeAssumption DEF Abort, pollVars, FlowTypes, FlowClock
  <2>2. FlowCalls'
    BY <2>1, <1>3 DEF FlowTypes, FlowCalls
  <2>3. \A d \in Callers : pc'[d] # "settled" <=> pc[d] # "settled"
    BY <1>1, <1>3 DEF Actors
  <2>4. FlowEnds'
    BY <2>1, <2>3 DEF FlowTypes, FlowEnds
  <2> QED
    BY <1>1, <2>1, <2>2, <2>4 DEF FlowTypes, FlowClock, FlowFlags, FlowPolls
<1>5. Excused'
  BY <1>1 DEF Excused
<1>6. UNCHANGED <<now, store, held, poll, outcome, removed>>
  BY DEF Abort, pollVars
<1>7. \A d \in Callers : pc'[d] = "aborting" => d \in aborted'
  BY <1>1, <1>3 DEF Found, Actors
<1>8. \A d \in Actors :
        pc'[d] \in {"storing", "storingFailure"} => held'[d] # Gone
  BY <1>1, <1>3, <1>6 DEF Found
<1>9. Found'
  BY <1>1, <1>5, <1>6, <1>7, <1>8 DEF Found
<1> QED
  BY <1>4, <1>9 DEF GoodFlow

LEMMA AbortDeleteIsGood ==
    ASSUME FlowTypes, Found, NEW c \in Callers, AbortDelete(c)
    PROVE  GoodFlow
<1>1. c \in Actors /\ pc[c] = "aborting" /\ c \in aborted /\ store' = Gone
      /\ UNCHANGED <<now, kind, held, poll, missed, aborted, retained, removed, outside>>
  BY DEF AbortDelete, Actors, Found, pollVars, rest
<1>2. EndsWith(c, "aborted")
  BY <1>1, EntryTypes DEF AbortDelete, EndsWith, FlowTypes
<1>3. /\ FlowCalls' /\ FlowEnds' /\ \A d \in Actors \ {c} : pc'[d] = pc[d]
      /\ \A d \in Callers \ {c} : outcome'[d] = outcome[d]
  BY <1>1, <1>2, CallsGoOn DEF FlowTypes, FlowCalls
<1>4. FlowTypes'
  BY <1>1, <1>3, EntryTypes DEF FlowTypes, FlowClock, FlowFlags, FlowPolls
<1>5. Excused /\ Excused'
  BY <1>1 DEF Excused
<1>6. pc'[c] = "settled"
  BY <1>2, EndShows
<1>7. Found'
  BY <1>1, <1>3, <1>4, <1>5, <1>6, OneActor DEF Found
<1> QED
  BY <1>4, <1>7 DEF GoodFlow

LEMMA FinishIsGood ==
    ASSUME FlowTypes, Found, NEW a \in Actors, Finish(a)
    PROVE  GoodFlow
<1>1. pc[a] \in {"handle", "idle"} /\ \E label \in {"completing", "failing"} : Goes(a, label)
  BY DEF Finish, Goes, PCs
<1>2. /\ UNCHANGED <<now, store, kind, held, poll, missed, aborted, outcome, retained,
                     removed, outside>>
      /\ held' \in [Actors -> Entries]
      /\ "completing" \in PCs /\ "failing" \in PCs
  BY DEF Finish, pollVars, rest, FlowTypes, FlowCalls, PCs
<1>3. /\ FlowCalls' /\ FlowEnds' /\ \A d \in Actors \ {a} : pc'[d] = pc[d]
  BY <1>1, <1>2, CallsGoOn
<1>4. FlowTypes'
  BY <1>2, <1>3 DEF FlowTypes, FlowClock, FlowFlags, FlowPolls
<1>5. pc'[a] \in {"completing", "failing"}
  BY <1>1 DEF Goes, Enter, FlowTypes, FlowCalls
<1>6. Excused' <=> Excused
  BY <1>2 DEF Excused
<1>7. Found'
  BY <1>1, <1>2, <1>3, <1>4, <1>5, <1>6, OneActor DEF Found
<1> QED
  BY <1>4, <1>7 DEF GoodFlow

\* After the update, an actor reads the result back, rejects or is done.
LEMMA AfterGoes ==
    ASSUME FlowTypes, NEW a \in Actors, After(a),
           pc[a] \in {"completing", "storing", "failing", "storingFailure"}
    PROVE  \/ \E label \in {"settled", "reread"} : Goes(a, label)
           \/ EndsWith(a, "failed")
<1>1. CASE a \in Callbacks
  BY <1>1, ActorsAssumption DEF After, Goes, PCs, FlowTypes
<1>2. CASE a \notin Callbacks
  BY <1>2, EntryTypes DEF After, Goes, EndsWith, PCs, FlowTypes, Actors
<1> QED
  BY <1>1, <1>2

LEMMA ExamineIsGood ==
    ASSUME FlowTypes, Found, NEW a \in Actors, Examine(a)
    PROVE  GoodFlow
<1>1. /\ pc[a] \in {"completing", "failing"}
      /\ UNCHANGED <<now, store, kind, poll, missed, aborted, retained, removed, outside>>
  BY DEF Examine, pollVars, rest
<1>2. Stored \in Entries
  BY EntryTypes DEF FlowTypes
<1>3. \/ /\ held' = held
         /\ (\E label \in {"settled", "reread"} : Goes(a, label)) \/ EndsWith(a, "failed")
      \/ /\ held' = [held EXCEPT ![a] = Stored] /\ Stored # Gone
         /\ \E label \in {"storing", "storingFailure"} : Goes(a, label)
  <2>1. CASE Stored.st \in {"gone", "COMPLETED"}
    BY <1>1, <2>1, AfterGoes DEF Examine
  <2>2. CASE Stored.st \notin {"gone", "COMPLETED"}
    BY <1>1, <2>2 DEF Examine, Goes, PCs, Gone
  <2> QED
    BY <2>1, <2>2
<1>4. /\ held' \in [Actors -> Entries]
      /\ \A d \in Actors \ {a} : held'[d] = held[d]
  BY <1>2, <1>3 DEF FlowTypes, FlowCalls
<1>5. \/ \E label \in PCs : Goes(a, label)
      \/ \E how \in {"resolved", "failed", "missing", "timed out", "aborted"} :
            EndsWith(a, how)
  BY <1>3 DEF Goes
<1>6. /\ FlowCalls' /\ FlowEnds' /\ \A d \in Actors \ {a} : pc'[d] = pc[d]
      /\ \A d \in Callers : outcome[d].how # "open" => outcome'[d] = outcome[d]
      /\ \A d \in Callers \ {a} : outcome'[d] = outcome[d]
  BY <1>1, <1>4, <1>5, CallsGoOn
<1>7. FlowTypes'
  BY <1>1, <1>6 DEF FlowTypes, FlowClock, FlowFlags, FlowPolls
<1>8. Excused => Excused'
  BY <1>1, <1>6, <1>7, ExcusedStays
<1>9. /\ pc'[a] \in {"settled", "reread", "storing", "storingFailure"}
      /\ pc'[a] \in {"storing", "storingFailure"} => held'[a] # Gone
      /\ a \in Callers => outcome'[a] = outcome[a] \/ outcome'[a].how = "failed"
  <2>1. CASE EndsWith(a, "failed")
    BY <2>1, EndShows
  <2>2. CASE \E label \in {"settled", "reread"} : Goes(a, label)
    BY <2>2 DEF Goes, Enter, FlowTypes, FlowCalls
  <2>3. CASE /\ held' = [held EXCEPT ![a] = Stored] /\ Stored # Gone
             /\ \E label \in {"storing", "storingFailure"} : Goes(a, label)
    BY <2>3 DEF Goes, Enter, FlowTypes, FlowCalls
  <2> QED
    BY <1>3, <2>1, <2>2, <2>3
<1>10. a \in Callers => poll[a] = NoPoll \/ aborted # {}
  BY <1>1 DEF Found
<1>11. a \in Callers => (outcome'[a].how = "missing" => Excused')
  BY <1>8, <1>9 DEF Found
<1>12. Found'
  BY <1>1, <1>4, <1>6, <1>7, <1>8, <1>9, <1>10, <1>11, OneActor DEF Found
<1> QED
  BY <1>7, <1>12 DEF GoodFlow

LEMMA UpdateIsGood ==
    ASSUME FlowTypes, Found, NEW a \in Actors, Update(a)
    PROVE  GoodFlow
<1>1. /\ pc[a] \in {"storing", "storingFailure"} /\ held[a] # Gone
      /\ held' = [held EXCEPT ![a] = Gone]
      /\ UNCHANGED <<now, kind, poll, missed, aborted, retained, removed, outside>>
  BY DEF Update, pollVars, rest, Found
<1>2. store' \in Entries /\ store' # Gone /\ now < store'.exp
  <2>1. held[a] \in Entries /\ NoResult \in Results
    BY EntryTypes DEF FlowTypes, FlowCalls
  <2>2. [by |-> a, until |-> now + TokenLife] \in Results
    BY FlowTimeAssumption DEF Results, FlowTypes, FlowClock
  <2>3. /\ now + Ttl \in Nat /\ now < now + Ttl
    BY FlowTimeAssumption DEF FlowTypes, FlowClock
  <2>4. held[a] \in [st : {"PENDING", "COMPLETED", "FAILED"}, res : Results,
                     born : 0..MaxTime, exp : Nat]
    BY <1>1, <2>1 DEF Entries
  <2>5. PICK res \in Results : \E st \in {"COMPLETED", "FAILED"} :
           store' = [held[a] EXCEPT !.st = st, !.res = res, !.exp = now + Ttl]
    BY <2>1, <2>2 DEF Update
  <2>6. PICK st \in {"COMPLETED", "FAILED"} :
           store' = [held[a] EXCEPT !.st = st, !.res = res, !.exp = now + Ttl]
    BY <2>5
  <2>7. store' \in [st : {"PENDING", "COMPLETED", "FAILED"}, res : Results,
                    born : 0..MaxTime, exp : Nat] /\ store'.exp = now + Ttl
    BY <2>3, <2>4, <2>6
  <2> QED
    BY <2>3, <2>7 DEF Entries, Gone
<1>3. (\E label \in {"settled", "reread"} : Goes(a, label)) \/ EndsWith(a, "failed")
  BY <1>1, AfterGoes DEF Update
<1>4. /\ held' \in [Actors -> Entries]
      /\ \A d \in Actors \ {a} : held'[d] = held[d]
  BY <1>1, EntryTypes DEF FlowTypes, FlowCalls
<1>5. \/ \E label \in PCs : Goes(a, label)
      \/ \E how \in {"resolved", "failed", "missing", "timed out", "aborted"} :
            EndsWith(a, how)
  BY <1>3 DEF Goes
<1>6. /\ FlowCalls' /\ FlowEnds' /\ \A d \in Actors \ {a} : pc'[d] = pc[d]
      /\ \A d \in Callers : outcome[d].how # "open" => outcome'[d] = outcome[d]
      /\ \A d \in Callers \ {a} : outcome'[d] = outcome[d]
  BY <1>1, <1>4, <1>5, CallsGoOn
<1>7. FlowTypes'
  BY <1>1, <1>2, <1>6 DEF FlowTypes, FlowClock, FlowFlags, FlowPolls
<1>8. Excused => Excused'
  BY <1>1, <1>6, <1>7, ExcusedStays
<1>9. /\ pc'[a] \in {"settled", "reread"}
      /\ a \in Callers => outcome'[a] = outcome[a] \/ outcome'[a].how = "failed"
  <2>1. CASE EndsWith(a, "failed")
    BY <2>1, EndShows
  <2>2. CASE \E label \in {"settled", "reread"} : Goes(a, label)
    BY <2>2 DEF Goes, Enter, FlowTypes, FlowCalls
  <2> QED
    BY <1>3, <2>1, <2>2
<1>10. a \in Callers => poll[a] = NoPoll \/ aborted # {}
  BY <1>1 DEF Found
<1>11. a \in Callers => (outcome'[a].how = "missing" => Excused')
  BY <1>8, <1>9 DEF Found
<1>12. Found'
  BY <1>1, <1>2, <1>4, <1>6, <1>7, <1>8, <1>9, <1>10, <1>11, OneActor DEF Found
<1> QED
  BY <1>7, <1>12 DEF GoodFlow

LEMMA WorldIsGood ==
    ASSUME FlowTypes, Found, InitFlow \/ DeleteFlow \/ FlowTick
    PROVE  GoodFlow
<1>1. UNCHANGED <<pc, kind, held, poll, missed, aborted, outcome, retained>>
  BY DEF InitFlow, DeleteFlow, FlowTick, callVars, pollVars
<1>2. FlowCalls' /\ FlowEnds' /\ FlowPolls'
  BY <1>1 DEF FlowTypes, FlowCalls, FlowEnds, FlowPolls
<1>3. CASE InitFlow
  <2>1. /\ store' = Pending /\ now' = now /\ removed' = removed
        /\ outside' \in 0..MaxOutside
    BY <1>3, FlowTimeAssumption DEF InitFlow, FlowTypes, FlowClock
  <2>2. Pending \in Entries /\ Pending # Gone /\ now < Pending.exp
    BY EntryTypes DEF FlowTypes
  <2>3. FlowTypes'
    BY <1>1, <1>2, <2>1, <2>2 DEF FlowTypes, FlowClock, FlowFlags
  <2>4. Found'
    BY <1>1, <2>1, <2>2 DEF Found, Excused
  <2> QED
    BY <2>3, <2>4 DEF GoodFlow
<1>4. CASE DeleteFlow
  <2>1. /\ store' = Gone /\ now' = now /\ removed' = TRUE
        /\ outside' \in 0..MaxOutside
    BY <1>4, FlowTimeAssumption DEF DeleteFlow, FlowTypes, FlowClock
  <2>2. FlowTypes'
    BY <1>1, <1>2, <2>1, EntryTypes DEF FlowTypes, FlowClock, FlowFlags
  <2>3. Excused'
    BY <2>1 DEF Excused
  <2>4. Found'
    BY <1>1, <2>1, <2>3 DEF Found
  <2> QED
    BY <2>2, <2>4 DEF GoodFlow
<1>5. CASE FlowTick
  <2>1. /\ store' = store /\ now' = now + 1 /\ now' \in 0..MaxTime /\ outside' = outside
        /\ removed' = (removed \/ (store # Gone /\ store.exp = now + 1))
    BY <1>5, FlowTimeAssumption DEF FlowTick, FlowTypes, FlowClock
  <2>2. FlowFlags'
    <3>1. removed' \in BOOLEAN
      BY Zenon, <2>1
    <3> QED
      BY Zenon, <1>1, <3>1 DEF FlowTypes, FlowFlags
  <2>3. FlowTypes'
    BY <1>2, <2>1, <2>2 DEF FlowTypes, FlowClock
  <2>4. Gone # store => now' < store.exp \/ removed'
    <3> SUFFICES ASSUME Gone # store, ~removed' PROVE now' < store.exp
      OBVIOUS
    <3>1. store.exp \in Nat
      BY DEF FlowTypes, FlowClock, Entries
    <3>2. ~removed /\ store.exp # now + 1
      BY <2>1
    <3>3. now < store.exp
      BY <3>2 DEF Found
    <3> QED
      BY <2>1, <3>1, <3>2, <3>3 DEF FlowTypes, FlowClock
  <2>5. Excused => Excused'
    BY <1>1, <2>1 DEF Excused
  <2>6. Found'
    BY <1>1, <2>1, <2>4, <2>5 DEF Found
  <2> QED
    BY <2>3, <2>6 DEF GoodFlow
<1> QED
  BY <1>3, <1>4, <1>5

LEMMA InitFound == FlowInit => FlowTypes /\ Found
<1> SUFFICES ASSUME FlowInit PROVE Found
  BY InitFlowTypes
<1>1. /\ store = Gone /\ \A a \in Actors : pc[a] = "idle"
      /\ \A c \in Callers : poll[c] = NoPoll /\ outcome[c].how = "open" /\ c \in Actors
  BY DEF FlowInit, Open, Actors
<1>2. NoPoll # Gone /\ NoPoll # Again
  BY DEF NoPoll, Gone, Again
<1> QED
  BY <1>1, <1>2 DEF Found

LEMMA StepFound == FlowTypes /\ Found /\ [FlowNext]_flowVars => GoodFlow
<1> SUFFICES ASSUME FlowTypes, Found, [FlowNext]_flowVars PROVE GoodFlow
  OBVIOUS
<1>1. ASSUME NEW c \in Callers, Start(c) \/ Abort(c) \/ CallerStep(c)
      PROVE  GoodFlow
  BY <1>1, StartIsGood, AbortIsGood, CheckIsGood, CreateIsGood, RereadIsGood, PollIsGood,
     ActIsGood, AbortDeleteIsGood DEF CallerStep
<1>2. ASSUME NEW a \in Actors, Finish(a) \/ ActorStep(a)
      PROVE  GoodFlow
  BY <1>2, FinishIsGood, ExamineIsGood, UpdateIsGood DEF ActorStep
<1>3. CASE UNCHANGED flowVars
  <2>1. UNCHANGED <<now, store, retained, pc, kind, held, poll, missed, aborted, outcome,
                    removed, outside>>
    BY <1>3 DEF flowVars, callVars, pollVars, rest
  <2>2. FlowTypes'
    BY <2>1 DEF FlowTypes, FlowClock, FlowFlags, FlowCalls, FlowEnds, FlowPolls
  <2>3. Found'
    BY <2>1 DEF Found, Excused
  <2> QED
    BY <2>2, <2>3 DEF GoodFlow
<1> QED
  BY <1>1, <1>2, <1>3, WorldIsGood DEF FlowNext

\* The state of the flow manager is well formed, and a call ends exactly when it
\* has an outcome, as the promises of createFlow and createFlowWithHandler do.
THEOREM FlowTypeCorrect == FlowSpec => []FlowTypeOK
<1>1. FlowInit => FlowTypes /\ Found
  BY InitFound
<1>2. FlowTypes /\ Found /\ [FlowNext]_flowVars => (FlowTypes /\ Found)'
  BY StepFound DEF GoodFlow
<1> QED
  BY <1>1, <1>2, FlowTypesAreTypes, PTL DEF FlowSpec

\* A caller of createFlow or createFlowWithHandler is rejected because its flow is
\* not found only if the flow was deleted, expired or aborted, or if another waiter
\* consumed its failure (consumeTerminalFailure in monitorFlow).
THEOREM MissingFlowIsExplained == FlowSpec => []MissingIsExplained
<1>1. FlowInit => FlowTypes /\ Found
  BY InitFound
<1>2. FlowTypes /\ Found /\ [FlowNext]_flowVars => (FlowTypes /\ Found)'
  BY StepFound DEF GoodFlow
<1>3. Found => MissingIsExplained
  BY DEF Found, Excused, MissingIsExplained
<1> QED
  BY <1>1, <1>2, <1>3, PTL DEF FlowSpec

(***************************************************************************)
(* The alias of IngestAlias.  Types hold for any number of runs.  What the *)
(* alias serves is sound when one run goes at a time, as the documents of  *)
(* the repository have it (Alone): then nothing moves the alias that a run *)
(* has read, and each collection that holds points is the target, the target*)
(* before, or the one that the run is filling.                             *)
(***************************************************************************)

Holdings == {"empty", "partial", "full"}
IngestLabels == {"idle", "create", "index", "upsert", "count", "discard", "swap", "list",
           "drop", "candidates", "rollback"}

IngestStore == /\ created \in 0..MaxCollections
             /\ Existing \subseteq 1..created /\ content \in [Existing -> Holdings]
             /\ alias \in Existing \cup {0} /\ former \in 0..created
IngestRuns == /\ stage \in [Runs -> IngestLabels]
            /\ name \in [Runs -> 0..created] /\ previous \in [Runs -> 0..created]
            /\ todo \in [Runs -> SUBSET (1..created)]
IngestCounts == /\ kills \in 0..MaxKills /\ failures \in 0..MaxFailures
              /\ stranded \in 0..MaxStranded /\ rollbacks \in 0..MaxRollbacks

IngestTypes == IngestStore /\ IngestRuns /\ IngestCounts

LEMMA IngestTypesAreTypes == IngestTypes => IngestTypeOK
BY DEF IngestTypes, IngestTypeOK, IngestStore, IngestRuns, IngestCounts, IngestLabels,
       Holdings

Smaller == {p \in Nat \X Nat : p[1] < p[2]}

LEMMA SmallerIsWellFounded == IsWellFoundedOn(Smaller, Nat)
BY NatLessThanWellFounded DEF OpToRel, Smaller

\* A set of collections has a newest one.
LEMMA LargestOf ==
    ASSUME NEW n \in Nat, NEW S, S \subseteq 1..n, S # {}
    PROVE  Max(S) \in S /\ \A c \in S : Max(S) >= c
<1>1. PICK T : T = {k \in Nat : \E c \in S : k = n - c}
  OBVIOUS
<1>2. T \subseteq Nat /\ T # {}
  <2>1. PICK c \in S : TRUE
    OBVIOUS
  <2>2. n - c \in T
    BY <1>1
  <2> QED
    BY <1>1, <2>2
<1>3. \E x \in T : \A y \in T : ~(<<y, x>> \in Smaller)
  BY <1>2, SmallerIsWellFounded, WFMin
<1>4. PICK x \in T : \A y \in T : ~(<<y, x>> \in Smaller)
  BY <1>3
<1>5. PICK m \in S : x = n - m
  BY <1>1
<1>6. ASSUME NEW c \in S PROVE m >= c
  <2>1. n - c \in T /\ n - c \in Nat /\ n - m \in Nat
    BY <1>1
  <2>2. ~(n - c < n - m)
    BY <1>4, <1>5, <2>1 DEF Smaller
  <2> QED
    BY <2>2
<1> QED
  BY <1>6 DEF Max

(***************************************************************************)
(* IngestTypes                                                                   *)
(***************************************************************************)

LEMMA InitIngestTypes == IngestInit => IngestTypes
BY IngestAssumption DEF IngestInit, IngestTypes, IngestStore, IngestRuns, IngestCounts,
                        IngestLabels, Holdings,
                        Existing

LEMMA GotoLabel ==
    ASSUME stage \in [Runs -> IngestLabels], NEW r, NEW l \in IngestLabels, Proceed(r, l)
    PROVE  stage' \in [Runs -> IngestLabels]
BY DEF Proceed

LEMMA DeleteTypes ==
    ASSUME IngestStore, NEW c, DeleteCollection(c), UNCHANGED <<created, former>>
    PROVE  IngestStore' /\ Existing' = Existing \ {c}
           /\ \A d \in Existing \ {c} : content'[d] = content[d]
<1>1. Existing' = Existing \ {c} /\ \A d \in Existing \ {c} : content'[d] = content[d]
  BY DEF DeleteCollection, Without, Existing
<1>2. content' \in [Existing' -> Holdings]
  BY <1>1 DEF DeleteCollection, Without, IngestStore
<1>3. alias' \in Existing' \cup {0}
  BY <1>1 DEF DeleteCollection, IngestStore
<1> QED
  BY <1>1, <1>2, <1>3 DEF IngestStore

LEMMA CreateStore ==
    ASSUME IngestTypes, NEW r \in Runs, CreateCollection(r)
    PROVE  /\ IngestStore' /\ created' \in Nat /\ created' = created + 1
           /\ created' \notin Existing /\ Existing' = Existing \cup {created'}
           /\ content'[created'] = "empty"
           /\ \A c \in Existing : content'[c] = content[c]
<1>1. /\ created \in Nat /\ created' = created + 1 /\ created' \in 1..MaxCollections
      /\ created' \notin Existing
  BY IngestAssumption DEF CreateCollection, IngestTypes, IngestStore
<1>2. Existing' = Existing \cup {created'}
  BY DEF CreateCollection, Existing
<1>3. content'[created'] = "empty" /\ \A c \in Existing : content'[c] = content[c]
  BY <1>1, <1>2 DEF CreateCollection
<1>4. content' \in [Existing' -> Holdings]
  BY <1>1, <1>2 DEF CreateCollection, IngestTypes, IngestStore, Holdings
<1>5. Existing' \subseteq 1..created' /\ alias' \in Existing' \cup {0}
      /\ former' \in 0..created'
  BY <1>1, <1>2 DEF CreateCollection, IngestTypes, IngestStore
<1> QED
  BY <1>1, <1>2, <1>3, <1>4, <1>5 DEF IngestStore

LEMMA CreateTypes ==
    ASSUME IngestTypes, NEW r \in Runs, CreateCollection(r)
    PROVE  IngestTypes'
<1>1. IngestStore' /\ created' \in Nat /\ created' = created + 1
  BY CreateStore
<1>2. stage' \in [Runs -> IngestLabels]
  BY GotoLabel DEF CreateCollection, IngestLabels, IngestTypes, IngestRuns
<1>3. created \in Nat /\ 0..created \subseteq 0..created' /\ created' \in 0..created'
  BY <1>1, IngestAssumption DEF IngestTypes, IngestStore
<1>4. name' \in [Runs -> 0..created'] /\ previous' \in [Runs -> 0..created']
  BY <1>3 DEF CreateCollection, IngestTypes, IngestRuns
<1>5. 1..created \subseteq 1..created'
  BY <1>1, <1>3
<1>6. todo' \in [Runs -> SUBSET (1..created')]
  BY <1>5 DEF CreateCollection, IngestTypes, IngestRuns
<1>7. IngestCounts'
  BY DEF CreateCollection, countVars, IngestTypes, IngestCounts
<1> QED
  BY <1>1, <1>2, <1>4, <1>6, <1>7 DEF IngestTypes, IngestRuns

LEMMA UpsertStore ==
    ASSUME IngestTypes, NEW r \in Runs, Upsert(r)
    PROVE  /\ IngestStore' /\ Existing' = Existing
           /\ \A c \in Existing \ {name[r]} : content'[c] = content[c]
           /\ stage' = stage \/ Proceed(r, "count") \/ Proceed(r, "discard")
<1>1. CASE name[r] \notin Existing
  BY <1>1 DEF Upsert, IngestTypes, IngestStore, Existing
<1>2. CASE name[r] \in Existing
  <2>1. PICK h \in Holdings : content' = [content EXCEPT ![name[r]] = h]
    BY <1>2 DEF Upsert, Holdings
  <2>2. Existing' = Existing /\ \A c \in Existing \ {name[r]} : content'[c] = content[c]
    BY <2>1 DEF Existing
  <2>3. content' \in [Existing' -> Holdings]
    BY <2>1, <2>2 DEF IngestTypes, IngestStore
  <2>4. IngestStore'
    BY <2>2, <2>3 DEF Upsert, IngestTypes, IngestStore
  <2> QED
    BY <1>2, <2>2, <2>4 DEF Upsert
<1> QED
  BY <1>1, <1>2

LEMMA ChosenTarget ==
    ASSUME IngestTypes, NEW r \in Runs, Candidates(r) # {}
    PROVE  Max(Candidates(r)) \in Candidates(r)
<1>1. created \in Nat
  BY IngestAssumption DEF IngestTypes, IngestStore
<1>2. Candidates(r) \subseteq Existing
  BY DEF Candidates
<1>3. Candidates(r) \subseteq 1..created
  BY <1>2 DEF IngestTypes, IngestStore
<1> QED
  BY <1>1, <1>3, LargestOf

LEMMA SwapTypes ==
    ASSUME IngestTypes, NEW r \in Runs, SwapAlias(r)
    PROVE  IngestTypes'
<1>1. IngestStore'
  <2>1. Existing' = Existing
    BY DEF SwapAlias, Existing
  <2> QED
    BY <2>1 DEF SwapAlias, IngestTypes, IngestStore
<1>2. stage' \in [Runs -> IngestLabels]
  <2>1. \E l \in {"list", "idle"} : Proceed(r, l)
    BY DEF SwapAlias
  <2> QED
    BY <2>1, GotoLabel DEF IngestLabels, IngestTypes, IngestRuns
<1>3. IngestRuns'
  BY <1>2 DEF SwapAlias, IngestTypes, IngestRuns
<1> QED
  BY <1>1, <1>3 DEF SwapAlias, countVars, IngestTypes, IngestCounts

LEMMA DropTypes ==
    ASSUME IngestTypes, NEW r \in Runs, Drop(r)
    PROVE  IngestTypes'
<1>1. /\ UNCHANGED <<created, name, previous, former>> /\ UNCHANGED countVars
  BY DEF Drop
<1>2. CASE todo[r] = {}
  <2>1. Proceed(r, "idle") /\ UNCHANGED <<content, alias, todo>>
    BY <1>2 DEF Drop
  <2>2. stage' \in [Runs -> IngestLabels]
    BY <2>1, GotoLabel DEF IngestLabels, IngestTypes, IngestRuns
  <2>3. IngestStore'
    BY <1>1, <2>1 DEF IngestTypes, IngestStore, Existing
  <2> QED
    BY <1>1, <2>1, <2>2, <2>3 DEF IngestTypes, IngestRuns, IngestCounts, countVars
<1>3. CASE todo[r] # {}
  <2>1. PICK c \in todo[r] : DeleteCollection(c) /\ todo' = [todo EXCEPT ![r] = @ \ {c}]
    BY <1>3 DEF Drop
  <2>2. IngestStore'
    BY <1>1, <2>1, DeleteTypes DEF IngestTypes
  <2>3. todo' \in [Runs -> SUBSET (1..created)]
    BY <2>1 DEF IngestTypes, IngestRuns
  <2>4. stage' = stage
    BY <1>3 DEF Drop
  <2> QED
    BY <1>1, <2>2, <2>3, <2>4 DEF IngestTypes, IngestRuns, IngestCounts, countVars
<1> QED
  BY <1>2, <1>3

LEMMA DiscardTypes ==
    ASSUME IngestTypes, NEW r \in Runs, Discard(r)
    PROVE  IngestTypes'
<1>1. IngestStore'
  BY DeleteTypes DEF Discard, DeleteHalfBuilt, IngestTypes
<1>2. stage' \in [Runs -> IngestLabels]
  BY GotoLabel DEF Discard, IngestLabels, IngestTypes, IngestRuns
<1> QED
  BY <1>1, <1>2 DEF Discard, IngestTypes, IngestRuns, IngestCounts, countVars

LEMMA UpsertTypes ==
    ASSUME IngestTypes, NEW r \in Runs, Upsert(r)
    PROVE  IngestTypes'
<1>1. IngestStore' /\ (stage' = stage \/ Proceed(r, "count") \/ Proceed(r, "discard"))
  BY UpsertStore
<1>2. stage' \in [Runs -> IngestLabels]
  BY <1>1, GotoLabel DEF IngestLabels, IngestTypes, IngestRuns
<1> QED
  BY <1>1, <1>2 DEF Upsert, IngestTypes, IngestRuns, IngestCounts, countVars

\* Steps after which the store is as it was.
Still(r) ==
    \/ ReadTarget(r) \/ CreatePayloadIndex(r) \/ CheckNewCollection(r) \/ Raise(r) \/ ListOld(r)
    \/ Strand(r) \/ ReadCurrent(r) \/ ChooseTarget(r) \/ Kill(r)

LEMMA StillStore ==
    ASSUME IngestTypes, NEW r \in Runs, Still(r)
    PROVE  IngestStore' /\ UNCHANGED <<created, content, alias, former>>
<1>1. UNCHANGED <<created, content, alias, former>>
  BY DEF Still, ReadTarget, CreatePayloadIndex, CheckNewCollection, Raise, ListOld,
         Strand,
         ReadCurrent, ChooseTarget, Kill
<1> QED
  BY <1>1 DEF IngestTypes, IngestStore, Existing

LEMMA StillTypes ==
    ASSUME IngestTypes, NEW r \in Runs, Still(r)
    PROVE  IngestTypes'
<1>1. IngestStore' /\ UNCHANGED created
  BY StillStore
<1>2. \E l \in IngestLabels : Proceed(r, l)
  BY DEF Still, ReadTarget, CreatePayloadIndex, CheckNewCollection, Raise, ListOld,
         Strand,
         ReadCurrent, ChooseTarget, Kill, IngestLabels
<1>3. stage' \in [Runs -> IngestLabels]
  BY <1>2, GotoLabel DEF IngestTypes, IngestRuns
<1>4. name' \in [Runs -> 0..created]
  <2>1. CASE ChooseTarget(r) /\ Candidates(r) # {}
    <3>1. PICK m \in Candidates(r) : m = Max(Candidates(r))
      BY <2>1, ChosenTarget
    <3>2. m \in Existing /\ created \in Nat /\ Existing \subseteq 1..created
      BY IngestAssumption DEF Candidates, IngestTypes, IngestStore
    <3>3. m \in 0..created
      BY <3>2
    <3>4. name' = [name EXCEPT ![r] = m]
      BY <2>1, <3>1 DEF ChooseTarget
    <3> QED
      BY <3>3, <3>4 DEF IngestTypes, IngestRuns
  <2>2. CASE ~(ChooseTarget(r) /\ Candidates(r) # {})
    BY <2>2 DEF Still, ReadTarget, CreatePayloadIndex, CheckNewCollection, Raise,
                ListOld, Strand,
                ReadCurrent, ChooseTarget, Kill, IngestTypes, IngestRuns
  <2> QED
    BY <2>1, <2>2
<1>5. previous' \in [Runs -> 0..created]
  <2>1. previous' = previous \/ previous' = [previous EXCEPT ![r] = alias]
    BY DEF Still, ReadTarget, CreatePayloadIndex, CheckNewCollection, Raise, ListOld,
           Strand,
           ReadCurrent, ChooseTarget, Kill
  <2>2. alias \in 0..created
    BY IngestAssumption DEF IngestTypes, IngestStore
  <2> QED
    BY <2>1, <2>2 DEF IngestTypes, IngestRuns
<1>6. todo' \in [Runs -> SUBSET (1..created)]
  <2>1. todo' = todo \/ todo' = [todo EXCEPT ![r] = Existing \ Kept(r)]
    BY DEF Still, ReadTarget, CreatePayloadIndex, CheckNewCollection, Raise, ListOld,
           Strand,
           ReadCurrent, ChooseTarget, Kill
  <2>2. Existing \ Kept(r) \subseteq 1..created
    BY DEF IngestTypes, IngestStore
  <2> QED
    BY <2>1, <2>2 DEF IngestTypes, IngestRuns
<1>7. IngestCounts'
  BY IngestAssumption
     DEF Still, ReadTarget, CreatePayloadIndex, CheckNewCollection, Raise, ListOld, Strand,
         ReadCurrent, ChooseTarget, Kill, countVars, IngestTypes, IngestCounts
<1> QED
  BY <1>1, <1>3, <1>4, <1>5, <1>6, <1>7 DEF IngestTypes, IngestRuns

LEMMA NextIngestTypes == IngestTypes /\ [IngestNext]_ingestVars => IngestTypes'
<1> SUFFICES ASSUME IngestTypes, [IngestNext]_ingestVars PROVE IngestTypes'
  OBVIOUS
<1>1. CASE UNCHANGED ingestVars
  BY <1>1 DEF ingestVars, runVars, countVars, IngestTypes, IngestStore, IngestRuns,
              IngestCounts, Existing
<1>2. ASSUME NEW r \in Runs, Ingest(r) \/ Rollback(r) \/ Kill(r) PROVE IngestTypes'
  BY <1>2, CreateTypes, SwapTypes, DropTypes, DiscardTypes, UpsertTypes, StillTypes
     DEF Ingest, Rollback, Still
<1> QED
  BY <1>1, <1>2 DEF IngestNext

\* IngestTypes hold for any number of runs at a time.
THEOREM IngestTypeCorrect == IngestSpec => []IngestTypeOK
BY InitIngestTypes, NextIngestTypes, IngestTypesAreTypes, PTL DEF IngestSpec

(***************************************************************************)
(* One run at a time                                                       *)
(***************************************************************************)

Alone == \A q, r \in Runs : q = r

Filling  == {"upsert", "count", "discard", "swap"}
Building == Filling \cup {"index"}

\* The new collection of a run is not the target, and nobody moves the target
\* that the run has read.
OwnFits(r) ==
    /\ stage[r] \in Building =>
          name[r] \in Existing /\ name[r] # alias
    /\ stage[r] \in Building \cup {"create", "candidates", "rollback"} =>
          previous[r] = alias
    /\ stage[r] = "swap" => content[name[r]] = "full"
    /\ stage[r] = "rollback" =>
          name[r] \in Existing /\ name[r] # alias /\ content[name[r]] # "empty"

\* After the swap the run keeps its collection and the one it has replaced.
SwapFits(r) ==
    /\ stage[r] \in {"list", "drop"} =>
          /\ alias = name[r] /\ previous[r] = former /\ name[r] \in Existing
          /\ previous[r] \in Existing \cup {0}
    /\ stage[r] = "drop" =>
          /\ alias \notin todo[r] /\ former \notin todo[r]
          /\ Existing \subseteq {alias, former} \cup todo[r]

\* No run is filling the collection.
Settled(c) == \A r \in Runs : ~(stage[r] \in Filling /\ name[r] = c)

Holding == {c \in Existing : content[c] # "empty" /\ Settled(c)}

\* What holds points and is not being filled was checked.
FullWhenSettled == CleanedUp => \A c \in Holding : content[c] = "full"

\* Besides the target before the last swap there is one such collection.
OneBesides ==
    CleanedUp /\ (\A r \in Runs : stage[r] \notin {"list", "drop"}) =>
        \A c, d \in Holding \ {former} : c = d

TargetFits ==
    /\ alias = 0 => former = 0
    /\ CleanedUp /\ alias # 0 => alias \in Holding

IngestInv == /\ IngestTypes /\ FullWhenSettled /\ OneBesides /\ TargetFits
        /\ \A r \in Runs : OwnFits(r) /\ SwapFits(r)

LEMMA InitInv == IngestInit => IngestInv
<1> SUFFICES ASSUME IngestInit PROVE IngestInv
  OBVIOUS
<1>1. IngestTypes
  BY InitIngestTypes
<1>2. Existing = {}
  BY DEF IngestInit, Existing
<1>3. \A r \in Runs : stage[r] = "idle"
  BY DEF IngestInit
<1>4. \A r \in Runs : OwnFits(r) /\ SwapFits(r)
  BY <1>3 DEF OwnFits, SwapFits, Building, Filling
<1>5. FullWhenSettled /\ OneBesides
  BY <1>2 DEF FullWhenSettled, OneBesides, Holding
<1>6. TargetFits
  BY DEF IngestInit, TargetFits
<1> QED
  BY <1>1, <1>4, <1>5, <1>6 DEF IngestInv

\* What the run at hand does is all that happens.
LEMMA Moves ==
    ASSUME Alone, IngestTypes, NEW r \in Runs, NEW l, Proceed(r, l)
    PROVE  /\ stage'[r] = l /\ Runs = {r}
           /\ \A c : Settled(c)  <=> ~(stage[r] \in Filling /\ name[r] = c)
           /\ \A c : Settled(c)' <=> ~(l \in Filling /\ name'[r] = c)
<1>1. stage'[r] = l
  BY DEF Proceed, IngestTypes, IngestRuns
<1>2. Runs = {r}
  BY DEF Alone
<1> QED
  BY <1>1, <1>2 DEF Settled

\* What a step that leaves the store alone may do unless something is left behind.
LEMMA StillFills ==
    ASSUME Alone, IngestTypes, NEW r \in Runs, Still(r), CleanedUp'
    PROVE  /\ CleanedUp
           /\ stage[r] \in Filling  => stage'[r] \in Filling  /\ name'[r] = name[r]
           /\ stage'[r] \in Filling => stage[r] \in Building  /\ name'[r] = name[r]
           /\ stage[r] \in {"list", "drop"} => stage'[r] \in {"list", "drop"}
<1>1. kills \in Nat /\ stranded \in Nat
  BY IngestAssumption DEF IngestTypes, IngestCounts
<1>2. ~Kill(r) /\ ~Strand(r) /\ CleanedUp
  BY <1>1 DEF Still, ReadTarget, CreatePayloadIndex, CheckNewCollection, Raise,
              ListOld, Strand,
              ReadCurrent, ChooseTarget, Kill, CleanedUp, countVars
<1>3. CASE ReadTarget(r) \/ ReadCurrent(r) \/ ListOld(r) \/ ChooseTarget(r)
  <2>1. \E l \in {"create", "candidates", "drop", "idle", "rollback"} :
           Proceed(r, l) /\ (stage[r] = "list" => l = "drop")
    BY <1>3 DEF ReadTarget, ReadCurrent, ListOld, ChooseTarget
  <2>2. stage[r] \in {"idle", "list", "candidates"}
    BY <1>3 DEF ReadTarget, ReadCurrent, ListOld, ChooseTarget
  <2> QED
    BY <1>2, <2>1, <2>2, Moves DEF Filling
<1>4. CASE CreatePayloadIndex(r) \/ CheckNewCollection(r) \/ Raise(r)
  <2>1. name' = name
    BY <1>4 DEF CreatePayloadIndex, CheckNewCollection, Raise
  <2>2. \E l \in {"upsert", "idle", "swap", "discard"} :
           /\ Proceed(r, l)
           /\ \/ stage[r] = "index" /\ l \in {"upsert", "idle"}
              \/ stage[r] \in {"upsert", "count"} /\ l \in {"swap", "discard"}
              \/ stage[r] = "candidates" /\ l = "idle"
    BY <1>4 DEF CreatePayloadIndex, CheckNewCollection, Raise
  <2> QED
    BY <1>2, <2>1, <2>2, Moves DEF Filling, Building
<1> QED
  BY <1>2, <1>3, <1>4 DEF Still

LEMMA StillChecked ==
    ASSUME Alone, IngestInv, NEW r \in Runs, Still(r)
    PROVE  (FullWhenSettled /\ OneBesides /\ TargetFits)'
<1>1. UNCHANGED <<content, alias, former, Existing>>
  BY StillStore DEF IngestInv, Existing
<1>2. CASE ~CleanedUp'
  BY <1>1, <1>2 DEF IngestInv, FullWhenSettled, OneBesides, TargetFits
<1>3. CASE CleanedUp'
  <2>1. /\ CleanedUp
        /\ stage[r] \in Filling  => stage'[r] \in Filling  /\ name'[r] = name[r]
        /\ stage'[r] \in Filling => stage[r] \in Building  /\ name'[r] = name[r]
        /\ stage[r] \in {"list", "drop"} => stage'[r] \in {"list", "drop"}
    BY <1>3, StillFills DEF IngestInv
  <2>2. Runs = {r}
    BY DEF Alone
  <2>3. Holding' \subseteq Holding
    BY <1>1, <2>1, <2>2 DEF Holding, Settled
  <2>4. alias # 0 => alias \in Holding'
    BY <1>1, <2>1, <2>2 DEF Holding, Settled, IngestInv, TargetFits, OwnFits
  <2>5. FullWhenSettled'
    BY <1>1, <2>1, <2>3 DEF IngestInv, FullWhenSettled
  <2>6. OneBesides'
    BY <1>1, <2>1, <2>2, <2>3 DEF IngestInv, OneBesides
  <2>7. TargetFits'
    BY <1>1, <2>4 DEF IngestInv, TargetFits
  <2> QED
    BY <2>5, <2>6, <2>7
<1> QED
  BY <1>2, <1>3

LEMMA StillRun ==
    ASSUME Alone, IngestInv, NEW r \in Runs, Still(r)
    PROVE  OwnFits(r)' /\ SwapFits(r)'
<1>1. UNCHANGED <<content, alias, former, Existing>>
  BY StillStore DEF IngestInv, Existing
<1>2. IngestTypes /\ OwnFits(r) /\ SwapFits(r)
  BY DEF IngestInv
<1>3. CASE \E l \in {"idle", "create", "candidates"} : Proceed(r, l)
  <2>1. stage'[r] \in {"idle", "create", "candidates"}
    BY <1>2, <1>3, Moves
  <2>2. stage'[r] \in {"create", "candidates"} => previous'[r] = alias
    BY <1>2, <1>3, <2>1
       DEF Still, ReadTarget, CreatePayloadIndex, CheckNewCollection, Raise, ListOld, Strand,
           ReadCurrent, ChooseTarget, Kill, Proceed, IngestTypes, IngestRuns
  <2> QED
    BY <1>1, <2>1, <2>2 DEF OwnFits, SwapFits, Building, Filling
<1>4. CASE (CreatePayloadIndex(r) \/ CheckNewCollection(r) \/ Raise(r)) /\ ~Proceed(r, "idle")
  <2>1. UNCHANGED <<name, previous, todo>>
    BY <1>4 DEF CreatePayloadIndex, CheckNewCollection, Raise
  <2>2. /\ stage[r] \in Building
        /\ \E l \in {"upsert", "swap", "discard"} :
              Proceed(r, l) /\ (l = "swap" => content[name[r]] = "full")
    BY <1>4 DEF CreatePayloadIndex, CheckNewCollection, Raise, CheckedCollection,
                Building, Filling
  <2>3. stage'[r] \in {"upsert", "swap", "discard"}
        /\ (stage'[r] = "swap" => content[name[r]] = "full")
    BY <1>2, <2>2, Moves
  <2> QED
    BY <1>1, <1>2, <2>1, <2>2, <2>3 DEF OwnFits, SwapFits, Building, Filling
<1>5. CASE ListOld(r)
  <2>1. UNCHANGED <<name, previous>> /\ stage[r] = "list" /\ Proceed(r, "drop")
        /\ todo' = [todo EXCEPT ![r] = Existing \ Kept(r)]
    BY <1>5 DEF ListOld
  <2>2. stage'[r] = "drop" /\ todo'[r] = Existing \ {name[r], previous[r]}
    BY <1>2, <2>1, Moves DEF IngestTypes, IngestRuns, Kept
  <2> QED
    BY <1>1, <1>2, <2>1, <2>2 DEF OwnFits, SwapFits, Building, Filling
<1>6. CASE ChooseTarget(r) /\ Candidates(r) # {}
  <2>1. PICK m \in Candidates(r) : m = Max(Candidates(r))
    BY <1>2, <1>6, ChosenTarget
  <2>2. name' = [name EXCEPT ![r] = m] /\ Proceed(r, "rollback") /\ previous' = previous
        /\ stage[r] = "candidates"
    BY <1>6, <2>1 DEF ChooseTarget
  <2>3. stage'[r] = "rollback" /\ name'[r] = m
    BY <1>2, <2>2, Moves DEF IngestTypes, IngestRuns
  <2>4. m \in Existing /\ m # alias /\ content[m] # "empty" /\ previous[r] = alias
    BY <1>2, <2>2 DEF Candidates, OwnFits
  <2> QED
    BY <1>1, <2>2, <2>3, <2>4 DEF OwnFits, SwapFits, Building, Filling
<1> QED
  BY <1>3, <1>4, <1>5, <1>6
     DEF Still, ReadTarget, Strand, ReadCurrent, ChooseTarget, Kill

\* The run that fills a collection goes on.
LEMMA CreateInv ==
    ASSUME Alone, IngestInv, NEW r \in Runs, CreateCollection(r)
    PROVE  /\ OwnFits(r)' /\ SwapFits(r)'
           /\ (FullWhenSettled /\ OneBesides /\ TargetFits)'
<1>1. /\ created' \notin Existing /\ Existing' = Existing \cup {created'}
      /\ content'[created'] = "empty" /\ \A c \in Existing : content'[c] = content[c]
      /\ created' = created + 1 /\ created \in Nat
  BY CreateStore, IngestAssumption DEF IngestInv, IngestTypes, IngestStore
<1>2. /\ UNCHANGED <<alias, previous, former, kills, stranded>> /\ stage[r] = "create"
      /\ name' = [name EXCEPT ![r] = created'] /\ Proceed(r, "index")
  BY DEF CreateCollection, countVars
<1>3. stage'[r] = "index" /\ name'[r] = created' /\ Runs = {r}
  BY <1>2, Moves DEF IngestInv, IngestTypes, IngestRuns
<1>4. alias \in Existing \cup {0} /\ created' # 0
  BY <1>1 DEF IngestInv, IngestTypes, IngestStore
<1>5. OwnFits(r)' /\ SwapFits(r)'
  BY <1>1, <1>2, <1>3, <1>4 DEF IngestInv, OwnFits, SwapFits, Building, Filling
<1>6. Holding' = Holding
  BY <1>1, <1>2, <1>3 DEF Holding, Settled, Filling
<1>7. FullWhenSettled'
  BY <1>1, <1>2, <1>6 DEF IngestInv, FullWhenSettled, CleanedUp, Holding
<1>8. OneBesides'
  BY <1>2, <1>3, <1>6 DEF IngestInv, OneBesides, CleanedUp
<1>9. TargetFits'
  BY <1>2, <1>6 DEF IngestInv, TargetFits, CleanedUp
<1> QED
  BY <1>5, <1>7, <1>8, <1>9

LEMMA UpsertInv ==
    ASSUME Alone, IngestInv, NEW r \in Runs, Upsert(r)
    PROVE  /\ OwnFits(r)' /\ SwapFits(r)'
           /\ (FullWhenSettled /\ OneBesides /\ TargetFits)'
<1>1. /\ Existing' = Existing /\ \A c \in Existing \ {name[r]} : content'[c] = content[c]
      /\ stage' = stage \/ Proceed(r, "count") \/ Proceed(r, "discard")
  BY UpsertStore DEF IngestInv
<1>2. /\ UNCHANGED <<alias, name, previous, former, kills, stranded>>
      /\ stage[r] = "upsert"
  BY DEF Upsert, countVars
<1>3. stage'[r] \in {"upsert", "count", "discard"} /\ Runs = {r}
  BY <1>1, <1>2, Moves DEF IngestInv, Alone
<1>4. OwnFits(r)' /\ SwapFits(r)'
  BY <1>1, <1>2, <1>3 DEF IngestInv, OwnFits, SwapFits, Building, Filling
<1>5. Holding' = Holding
  BY <1>1, <1>2, <1>3 DEF Holding, Settled, Filling
<1>6. FullWhenSettled'
  BY <1>1, <1>2, <1>3, <1>5 DEF IngestInv, FullWhenSettled, CleanedUp, Holding,
                                Settled, Filling
<1>7. OneBesides'
  BY <1>2, <1>3, <1>5 DEF IngestInv, OneBesides, CleanedUp
<1>8. TargetFits'
  BY <1>2, <1>5 DEF IngestInv, TargetFits, CleanedUp
<1> QED
  BY <1>4, <1>6, <1>7, <1>8

LEMMA DiscardInv ==
    ASSUME Alone, IngestInv, NEW r \in Runs, Discard(r)
    PROVE  /\ OwnFits(r)' /\ SwapFits(r)'
           /\ (FullWhenSettled /\ OneBesides /\ TargetFits)'
<1>1. /\ UNCHANGED <<created, name, previous, former, kills, stranded>>
      /\ stage[r] = "discard" /\ Proceed(r, "idle") /\ DeleteCollection(name[r])
  BY DEF Discard, DeleteHalfBuilt, countVars
<1>2. stage'[r] = "idle" /\ Runs = {r}
  BY <1>1, Moves DEF IngestInv
<1>3. name[r] # alias /\ alias' = alias
  BY <1>1 DEF IngestInv, OwnFits, Building, Filling, DeleteCollection
<1>4. /\ Existing' = Existing \ {name[r]}
      /\ \A d \in Existing \ {name[r]} : content'[d] = content[d]
  BY <1>1, DeleteTypes DEF IngestInv, IngestTypes
<1>5. OwnFits(r)' /\ SwapFits(r)'
  BY <1>2 DEF OwnFits, SwapFits, Building, Filling
<1>6. Holding' = Holding
  BY <1>1, <1>2, <1>4 DEF Holding, Settled, Filling
<1>7. FullWhenSettled'
  BY <1>1, <1>4, <1>6 DEF IngestInv, FullWhenSettled, CleanedUp, Holding
<1>8. OneBesides'
  BY <1>1, <1>2, <1>6 DEF IngestInv, OneBesides, CleanedUp
<1>9. TargetFits'
  BY <1>1, <1>3, <1>6 DEF IngestInv, TargetFits, CleanedUp
<1> QED
  BY <1>5, <1>7, <1>8, <1>9

LEMMA SwapInv ==
    ASSUME Alone, IngestInv, NEW r \in Runs, SwapAlias(r)
    PROVE  /\ OwnFits(r)' /\ SwapFits(r)'
           /\ (FullWhenSettled /\ OneBesides /\ TargetFits)'
<1>1. /\ stage[r] \in {"swap", "rollback"} /\ name[r] \in Existing /\ previous[r] = alias
      /\ UNCHANGED <<created, content, name, previous, kills, stranded>>
      /\ alias' = name[r] /\ former' = IF stage[r] = "swap" THEN alias ELSE former
      /\ Proceed(r, IF stage[r] = "swap" THEN "list" ELSE "idle")
  BY DEF SwapAlias, countVars, IngestInv, OwnFits, Building, Filling
<1>2. stage'[r] = (IF stage[r] = "swap" THEN "list" ELSE "idle") /\ Runs = {r}
  BY <1>1, Moves DEF IngestInv
<1>3. Existing' = Existing /\ alias \in Existing \cup {0} /\ name[r] # 0
  BY <1>1 DEF Existing, IngestInv, IngestTypes, IngestStore
<1>4. OwnFits(r)' /\ SwapFits(r)'
  BY <1>1, <1>2, <1>3 DEF OwnFits, SwapFits, Building, Filling
<1>5. CASE stage[r] = "swap"
  <2>1. content[name[r]] = "full"
    BY <1>5 DEF IngestInv, OwnFits
  <2>2. Holding' = Holding \cup {name[r]}
    BY <1>1, <1>2, <1>3, <1>5, <2>1 DEF Holding, Settled, Filling
  <2>3. FullWhenSettled'
    BY <1>1, <2>1, <2>2 DEF IngestInv, FullWhenSettled, CleanedUp
  <2>4. OneBesides'
    BY <1>2, <1>5 DEF OneBesides
  <2>5. TargetFits'
    BY <1>1, <1>3, <2>2 DEF TargetFits
  <2> QED
    BY <1>4, <2>3, <2>4, <2>5
<1>6. CASE stage[r] = "rollback"
  <2>1. Holding' = Holding /\ name[r] \in Holding /\ former' = former
    BY <1>1, <1>2, <1>3, <1>6 DEF Holding, Settled, Filling, IngestInv, OwnFits
  <2>2. FullWhenSettled'
    BY <1>1, <2>1 DEF IngestInv, FullWhenSettled, CleanedUp
  <2>3. OneBesides'
    BY <1>1, <1>2, <1>6, <2>1 DEF IngestInv, OneBesides, CleanedUp
  <2>4. TargetFits'
    BY <1>1, <1>3, <2>1 DEF IngestInv, TargetFits
  <2> QED
    BY <1>4, <2>2, <2>3, <2>4
<1> QED
  BY <1>1, <1>5, <1>6

LEMMA DropInv ==
    ASSUME Alone, IngestInv, NEW r \in Runs, Drop(r)
    PROVE  /\ OwnFits(r)' /\ SwapFits(r)'
           /\ (FullWhenSettled /\ OneBesides /\ TargetFits)'
<1>1. /\ UNCHANGED <<name, previous, former, kills, stranded>> /\ UNCHANGED created
      /\ stage[r] = "drop" /\ Runs = {r}
  BY DEF Drop, countVars, Alone
<1>2. /\ alias = name[r] /\ previous[r] = former /\ name[r] \in Existing
      /\ previous[r] \in Existing \cup {0}
      /\ alias \notin todo[r] /\ former \notin todo[r]
      /\ Existing \subseteq {alias, former} \cup todo[r]
  BY <1>1 DEF IngestInv, SwapFits
<1>3. CASE todo[r] = {}
  <2>1. UNCHANGED <<content, alias, todo>> /\ Proceed(r, "idle")
    BY <1>3 DEF Drop
  <2>2. stage'[r] = "idle" /\ Existing' = Existing
    BY <2>1, Moves DEF IngestInv, Existing
  <2>3. Holding' = Holding
    BY <1>1, <2>1, <2>2 DEF Holding, Settled, Filling
  <2>4. OwnFits(r)' /\ SwapFits(r)'
    BY <2>2 DEF OwnFits, SwapFits, Building, Filling
  <2>5. FullWhenSettled' /\ TargetFits'
    BY <1>1, <2>1, <2>3 DEF IngestInv, FullWhenSettled, TargetFits, CleanedUp
  <2>6. Holding \subseteq {alias, former}
    BY <1>2, <1>3 DEF Holding
  <2>7. OneBesides'
    BY <1>1, <2>1, <2>3, <2>6 DEF OneBesides
  <2> QED
    BY <2>4, <2>5, <2>7
<1>4. CASE todo[r] # {}
  <2>1. PICK c \in todo[r] : DeleteCollection(c) /\ todo' = [todo EXCEPT ![r] = @ \ {c}]
    BY <1>4 DEF Drop
  <2>2. stage' = stage /\ alias' = alias /\ todo'[r] = todo[r] \ {c} /\ c \notin {alias, former}
    BY <1>2, <1>4, <2>1 DEF Drop, DeleteCollection, IngestInv, IngestTypes, IngestRuns
  <2>3. /\ Existing' = Existing \ {c}
        /\ \A d \in Existing \ {c} : content'[d] = content[d]
    BY <1>1, <2>1, DeleteTypes DEF IngestInv, IngestTypes
  <2>4. OwnFits(r)' /\ SwapFits(r)'
    BY <1>1, <1>2, <2>2, <2>3 DEF OwnFits, SwapFits, Building, Filling
  <2>5. Holding' = Holding \ {c}
    BY <1>1, <2>2, <2>3 DEF Holding, Settled
  <2>6. FullWhenSettled'
    BY <1>1, <2>3, <2>5 DEF IngestInv, FullWhenSettled, CleanedUp, Holding
  <2>7. OneBesides'
    BY <1>1, <2>2 DEF OneBesides
  <2>8. TargetFits'
    BY <1>1, <2>2, <2>5 DEF IngestInv, TargetFits, CleanedUp
  <2> QED
    BY <2>4, <2>6, <2>7, <2>8
<1> QED
  BY <1>3, <1>4

LEMMA NextInv == ASSUME Alone PROVE IngestInv /\ [IngestNext]_ingestVars => IngestInv'
<1> SUFFICES ASSUME IngestInv, [IngestNext]_ingestVars PROVE IngestInv'
  OBVIOUS
<1>1. IngestTypes'
  BY NextIngestTypes DEF IngestInv
<1>2. CASE UNCHANGED ingestVars
  BY <1>1, <1>2
     DEF ingestVars, runVars, countVars, IngestInv, FullWhenSettled, OneBesides, TargetFits,
         OwnFits, SwapFits, Holding, Settled, CleanedUp, Existing
<1>3. ASSUME NEW r \in Runs, Ingest(r) \/ Rollback(r) \/ Kill(r) PROVE IngestInv'
  <2>1. /\ OwnFits(r)' /\ SwapFits(r)'
        /\ (FullWhenSettled /\ OneBesides /\ TargetFits)'
    BY <1>3, CreateInv, UpsertInv, DiscardInv, SwapInv, DropInv, StillChecked, StillRun
       DEF Ingest, Rollback, Still
  <2>2. \A q \in Runs : q = r
    BY DEF Alone
  <2> QED
    BY <1>1, <2>1, <2>2 DEF IngestInv
<1> QED
  BY <1>2, <1>3 DEF IngestNext

LEMMA Invariance == ASSUME Alone PROVE IngestSpec => []IngestInv
BY InitInv, NextInv, PTL DEF IngestSpec

(***************************************************************************)
(* Theorems                                                                *)
(***************************************************************************)

LEMMA InvSound == ASSUME IngestInv PROVE AliasIsSound
<1>1. AliasIsChecked
  BY DEF IngestInv, AliasIsChecked, TargetFits, FullWhenSettled
<1>2. ASSUME NEW r \in Runs, stage[r] = "drop", todo[r] = {}
      PROVE  Existing = {name[r], previous[r]} \ {0} /\ alias = name[r]
  <2>1. 0 \notin Existing
    BY DEF IngestInv, IngestTypes, IngestStore
  <2> QED
    BY <1>2, <2>1 DEF IngestInv, SwapFits
<1> QED
  BY <1>1, <1>2 DEF AliasIsSound, Tidy

\* With one run at a time the alias points to a checked collection unless a failed run
\* could not clean up, and a run that ends well leaves its collection, which serves, and
\* the one before (check_new_collection, swap_alias, drop_old_collections).
THEOREM TargetIsChecked == ASSUME Alone PROVE IngestSpec => []AliasIsSound
BY Invariance, InvSound, PTL

LEMMA ServedStays == ASSUME Alone, IngestInv, [IngestNext]_ingestVars, Served PROVE Served'
<1>1. alias \in Existing
  BY DEF IngestInv, IngestTypes, IngestStore, Served
<1>2. CASE UNCHANGED ingestVars
  BY <1>2 DEF ingestVars, Served
<1>3. ASSUME NEW r \in Runs, CreateCollection(r) PROVE Served'
  <2>1. content'[alias] = content[alias] /\ alias' = alias
    BY <1>1, <1>3, CreateStore DEF IngestInv, CreateCollection
  <2> QED
    BY <2>1 DEF Served
<1>4. ASSUME NEW r \in Runs, Upsert(r) PROVE Served'
  <2>1. name[r] # alias /\ alias' = alias
    BY <1>4 DEF Upsert, IngestInv, OwnFits, Building, Filling
  <2>2. content'[alias] = content[alias]
    BY <1>1, <1>4, <2>1, UpsertStore DEF IngestInv
  <2> QED
    BY <2>1, <2>2 DEF Served
<1>5. ASSUME NEW r \in Runs, Discard(r) \/ Drop(r) PROVE Served'
  <2>1. UNCHANGED <<created, former>>
    BY <1>5 DEF Discard, Drop
  <2>2. UNCHANGED <<content, alias>> \/ \E c : DeleteCollection(c) /\ c # alias
    BY <1>5 DEF Discard, DeleteHalfBuilt, Drop, IngestInv, OwnFits, SwapFits, Building,
                Filling
  <2>3. ASSUME NEW c, DeleteCollection(c), c # alias PROVE Served'
    <3>1. content'[alias] = content[alias] /\ alias' = alias
      BY <1>1, <2>1, <2>3, DeleteTypes DEF IngestInv, IngestTypes, DeleteCollection
    <3> QED
      BY <3>1 DEF Served
  <2> QED
    BY <2>2, <2>3 DEF Served
<1>6. ASSUME NEW r \in Runs, SwapAlias(r) PROVE Served'
  <2>1. name[r] \in Existing /\ name[r] # 0 /\ content[name[r]] # "empty"
    BY <1>6 DEF SwapAlias, IngestInv, OwnFits, Building, Filling, IngestTypes, IngestStore
  <2> QED
    BY <1>6, <2>1 DEF SwapAlias, Served
<1>7. ASSUME NEW r \in Runs, Still(r) PROVE Served'
  BY <1>7, StillStore DEF IngestInv, Served
<1> QED
  BY <1>2, <1>3, <1>4, <1>5, <1>6, <1>7 DEF IngestNext, Ingest, Rollback, Still

\* Once the alias serves it serves for ever, whatever calls raise and whenever a run is
\* killed, with one run at a time (ingest, rollback).
THEOREM TargetServes == ASSUME Alone PROVE IngestSpec => AliasServes
<1>1. IngestInv /\ [IngestNext]_ingestVars => [Served => Served']_ingestVars
  BY ServedStays
<1> QED
  BY <1>1, Invariance, PTL DEF IngestSpec, AliasServes

LEMMA ReturnsToFormer ==
    ASSUME Alone, IngestInv, NEW r \in Runs, [IngestNext]_ingestVars, stage[r] = "rollback", CleanedUp,
           alias' # alias, former # 0, alias # former
    PROVE  alias' = former
<1>1. SwapAlias(r)
  <2>1. IngestNext
    BY DEF ingestVars
  <2>2. PICK q \in Runs : Ingest(q) \/ Rollback(q) \/ Kill(q)
    BY <2>1 DEF IngestNext
  <2>3. q = r
    BY DEF Alone
  <2>4. ~Still(r)
    BY StillStore DEF IngestInv
  <2>5. ~(CreateCollection(r) \/ Upsert(r) \/ Discard(r) \/ Drop(r))
    BY DEF CreateCollection, Upsert, Discard, Drop
  <2> QED
    BY <2>2, <2>3, <2>4, <2>5 DEF Ingest, Rollback, Still
<1>2. Runs = {r}
  BY DEF Alone
<1>3. name[r] \in Existing /\ name[r] # alias /\ content[name[r]] # "empty"
  BY DEF IngestInv, OwnFits
<1>4. alias' = name[r]
  BY <1>1, <1>3 DEF SwapAlias
<1>5. name[r] \in Holding
  BY <1>2, <1>3 DEF Holding, Settled, Filling
<1>6. alias \in Holding
  BY DEF IngestInv, TargetFits
<1> QED
  BY <1>2, <1>3, <1>4, <1>5, <1>6 DEF IngestInv, OneBesides

\* A rollback returns to the target before the last swap, if every failed run could
\* clean up and one run goes at a time (rollback).
THEOREM RollbackIsExact == ASSUME Alone PROVE IngestSpec => RollbackReturns
<1>1. IngestInv /\ [IngestNext]_ingestVars =>
        [\A r \in Runs :
            stage[r] = "rollback" /\ CleanedUp /\ alias' # alias
              /\ former # 0 /\ alias # former
              => alias' = former]_ingestVars
  BY ReturnsToFormer
<1> QED
  BY <1>1, Invariance, PTL DEF IngestSpec, RollbackReturns

=============================================================================
