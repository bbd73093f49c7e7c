-------------------------- MODULE LeaderElection --------------------------
(***************************************************************************)
(* packages/api/src/cluster/LeaderElection.ts: the servers of a cluster    *)
(* elect a leader through a key of Redis that holds the leader's UUID and  *)
(* expires unless the leader renews it.                                    *)
(*                                                                         *)
(* A node is one process: its UUID dies with it.  Each node sends its      *)
(* commands over one connection, which executes them and returns their     *)
(* replies in order.  Time is counted in ticks.  Work that is due is done  *)
(* at most MaxLate ticks later.                                            *)
(***************************************************************************)
EXTENDS Integers, Sequences, FiniteSets

CONSTANTS
    Nodes,        \* the processes
    Calls,        \* calls of isLeader() that a node may have open at once
    Lease,        \* LEADER_LEASE_DURATION, in ticks
    Interval,     \* LEADER_RENEW_INTERVAL, in ticks
    Attempts,     \* LEADER_RENEW_ATTEMPTS: retries after a failed renewal
    MaxLate,      \* ticks by which work that is due may be late
    MaxFaults     \* bound on crashes, resignations, and commands that fail or
                  \* whose reply is lost

ASSUME TimingAssumption ==
    /\ Interval \in Nat \ {0} /\ Lease \in Nat /\ Interval < Lease
    /\ Attempts \in Nat
    /\ MaxLate \in Nat /\ MaxFaults \in Nat

Nobody == "nobody"

ASSUME NodesAssumption == Nobody \notin Nodes

VARIABLES
    key,        \* LEADER_KEY: the leader's UUID
    ttl,        \* ticks until the key expires
    alive,      \* processes that run
    resigned,   \* processes that were told to shut down
    running,    \* refreshTimer is set
    left,       \* ticks until the refresh timer fires
    retries,    \* renewals that wait to be attempted again, by attempt
    conn,       \* commands of the node without a reply so far
    call,       \* where each call of isLeader() is, or what it answered
    late,       \* ticks since the last one at which nothing was due
    faults

nodeVars   == <<alive, resigned>>
leaseVars  == <<key, ttl>>
timerVars  == <<running, left>>
boundVars  == <<late, faults>>
vars == <<nodeVars, leaseVars, timerVars, retries, conn, call, boundVars>>

\* A command and its outcome; id is the call, or the attempt of a renewal.
Command(op, id) == [op |-> op, id |-> id, res |-> "sent"]

TypeOK ==
    /\ key \in Nodes \cup {Nobody} /\ ttl \in 0..Lease
    /\ (key = Nobody) <=> (ttl = 0)
    /\ alive \subseteq Nodes /\ resigned \subseteq Nodes
    /\ running \subseteq alive
    /\ left \in [Nodes -> 0..Interval]
    /\ retries \in [Nodes -> [2..(Attempts + 1) -> Nat]]
    /\ \A n \in Nodes : \A i \in DOMAIN conn[n] :
        conn[n][i] \in
          [op : {"get", "set"}, id : Calls,
           res : {"sent", "error", "ok", "mine", "other", "none"}]
          \cup [op : {"renew"}, id : 1..(Attempts + 1),
                res : {"sent", "error", "ok", "lost"}]
          \cup [op : {"del"}, id : {0}, res : {"sent", "error", "ok"}]
    /\ call \in [Nodes -> [Calls ->
          {"idle", "asking", "waiting", "electing", "yes", "no"}]]
    /\ late \in 0..MaxLate /\ faults \in 0..MaxFaults

NoRetries == [a \in 2..(Attempts + 1) |-> 0]
NoCalls   == [c \in Calls |-> "idle"]

Init ==
    /\ key = Nobody /\ ttl = 0
    /\ alive = Nodes /\ resigned = {} /\ running = {}
    /\ left = [n \in Nodes |-> 0]
    /\ retries = [n \in Nodes |-> NoRetries]
    /\ conn = [n \in Nodes |-> <<>>]
    /\ call = [n \in Nodes |-> NoCalls]
    /\ late = 0 /\ faults = 0

Fault == faults < MaxFaults /\ faults' = faults + 1

Send(n, op, id) == conn' = [conn EXCEPT ![n] = Append(@, Command(op, id))]

(***************************************************************************)
(* Redis executes the commands of a connection in order, those of a node   *)
(* that has crashed since included.                                        *)
(***************************************************************************)

Free == key' = Nobody /\ ttl' = 0

\* SET LEADER_KEY uuid EX lease NX.
Set(n) ==
    IF key = Nobody THEN key' = n /\ ttl' = Lease
                    ELSE UNCHANGED leaseVars

\* Faulty: the renewal only checks who holds the key.
RenewWithoutExpire(n) == UNCHANGED leaseVars

\* The script that checks the owner and extends the lease.
Renew(n) ==
    IF key = n THEN ttl' = Lease /\ UNCHANGED key
               ELSE UNCHANGED leaseVars

\* Faulty: DEL whoever holds the key.
DeleteAnyone(n) == Free

\* The script that checks the owner and deletes the key.
Delete(n) == IF key = n THEN Free ELSE UNCHANGED leaseVars

Result(op, n) ==
    CASE op = "get" -> IF key = n THEN "mine"
                       ELSE IF key = Nobody THEN "none" ELSE "other"
      [] op = "set" -> IF key = Nobody THEN "ok" ELSE "other"
      [] op = "renew" -> IF key = n THEN "ok" ELSE "lost"
      [] op = "del" -> "ok"

Oldest(n, i) ==
    /\ conn[n][i].res = "sent"
    /\ \A j \in 1..(i - 1) : conn[n][j].res # "sent"

Execute(n) ==
    /\ \E i \in DOMAIN conn[n] :
        LET c == conn[n][i] IN
        /\ Oldest(n, i)
        /\ conn' = [conn EXCEPT ![n][i].res = Result(c.op, n)]
        /\ \/ c.op = "get" /\ UNCHANGED leaseVars
           \/ c.op = "set" /\ Set(n)
           \/ c.op = "renew" /\ Renew(n)
           \/ c.op = "del" /\ Delete(n)
    /\ UNCHANGED <<nodeVars, timerVars, retries, call, boundVars>>

\* A command is never executed, or it is and the reply is lost.
Fail(n) ==
    /\ Fault
    /\ \E i \in DOMAIN conn[n] :
        /\ conn[n][i].res # "error"
        /\ \A j \in 1..(i - 1) : conn[n][j].res # "sent"
        /\ conn' = [conn EXCEPT ![n][i].res = "error"]
    /\ UNCHANGED <<nodeVars, leaseVars, timerVars, retries, call, late>>

(***************************************************************************)
(* isLeader() and electSelf().                                             *)
(***************************************************************************)

Goto(n, c, where) == call' = [call EXCEPT ![n][c] = where]

Ask(n, c) ==
    /\ n \in alive /\ call[n][c] = "idle"
    /\ Goto(n, c, "asking")
    /\ Send(n, "get", c)
    /\ UNCHANGED <<nodeVars, leaseVars, timerVars, retries, boundVars>>

\* Faulty: a node that holds the key trusts it without its timer.
LeaderByKey(n, res) == IF res = "mine" THEN "yes" ELSE "no"

\* The node that holds the key is the leader as long as it renews it.
Leader(n, res) == IF res = "mine" /\ n \in running THEN "yes" ELSE "no"

\* The leader's UUID has arrived; without one the node waits for a random
\* time and tries to elect itself.
Asked(n, c, res) ==
    Goto(n, c, IF res = "none" THEN "waiting" ELSE Leader(n, res))

ElectSelf(n, c) ==
    /\ n \in alive /\ call[n][c] = "waiting"
    /\ Goto(n, c, "electing")
    /\ Send(n, "set", c)
    /\ UNCHANGED <<nodeVars, leaseVars, timerVars, retries, boundVars>>

ClearTimer(n) ==
    /\ running' = running \ {n}
    /\ left' = [left EXCEPT ![n] = 0]

\* Faulty: the old timer is cleared after the new one was set.
SetThenClear(n) == ClearTimer(n)

\* clearRefreshTimer and setInterval.
StartTimer(n) ==
    /\ running' = running \cup {n}
    /\ left' = [left EXCEPT ![n] = Interval]

Elected(n, c, res) ==
    /\ Goto(n, c, IF res = "ok" THEN "yes" ELSE "no")
    /\ IF res = "ok" THEN StartTimer(n) ELSE UNCHANGED timerVars

(***************************************************************************)
(* Renewal and resignation.                                                *)
(***************************************************************************)

RefreshTimer(n) ==
    /\ n \in running /\ left[n] = 0
    /\ left' = [left EXCEPT ![n] = Interval]
    /\ Send(n, "renew", 1)
    /\ UNCHANGED <<nodeVars, leaseVars, running, retries, call, boundVars>>

\* renewLeadership: a renewal that fails is attempted again after a while, up
\* to Attempts times, whether or not the timer still runs by then.
Renewed(n, a, res) ==
    IF res = "error" /\ a <= Attempts
    THEN /\ retries' = [retries EXCEPT ![n][a + 1] = @ + 1]
         /\ UNCHANGED timerVars
    ELSE /\ IF res = "ok" THEN UNCHANGED timerVars ELSE ClearTimer(n)
         /\ UNCHANGED retries

Retry(n) ==
    /\ n \in alive
    /\ \E a \in 2..(Attempts + 1) :
        /\ retries[n][a] > 0
        /\ retries' = [retries EXCEPT ![n][a] = @ - 1]
        /\ Send(n, "renew", a)
    /\ UNCHANGED <<nodeVars, leaseVars, timerVars, call, boundVars>>

\* resign(), once, when the process is told to stop.
Resign(n) ==
    /\ n \in alive \ resigned /\ Fault
    /\ resigned' = resigned \cup {n}
    /\ ClearTimer(n)
    /\ Send(n, "del", 0)
    /\ UNCHANGED <<alive, leaseVars, retries, call, late>>

Reply(n) ==
    /\ n \in alive /\ conn[n] # <<>>
    /\ LET c == Head(conn[n]) IN
        /\ c.res # "sent"
        /\ \/ /\ c.op = "get"
              /\ Asked(n, c.id, c.res)
              /\ UNCHANGED <<timerVars, retries>>
           \/ /\ c.op = "set"
              /\ Elected(n, c.id, c.res)
              /\ UNCHANGED retries
           \/ /\ c.op = "renew"
              /\ Renewed(n, c.id, c.res)
              /\ UNCHANGED call
           \/ /\ c.op = "del"
              /\ UNCHANGED <<timerVars, retries, call>>
    /\ conn' = [conn EXCEPT ![n] = Tail(@)]
    /\ UNCHANGED <<nodeVars, leaseVars, boundVars>>

(***************************************************************************)
(* Crashes and time.                                                       *)
(***************************************************************************)

\* The memory of the process is gone; what it sent may still be executed.
Crash(n) ==
    /\ n \in alive /\ Fault
    /\ alive' = alive \ {n}
    /\ ClearTimer(n)
    /\ retries' = [retries EXCEPT ![n] = NoRetries]
    /\ call' = [call EXCEPT ![n] = NoCalls]
    /\ UNCHANGED <<resigned, leaseVars, conn, late>>

\* Something a live node would have done by now.
Due(n) ==
    /\ n \in alive
    /\ \/ conn[n] # <<>>
       \/ \E a \in 2..(Attempts + 1) : retries[n][a] > 0
       \/ n \in running /\ left[n] = 0

\* Callers that have an answer wait for the next tick before they ask again.
Tick ==
    /\ IF \E n \in Nodes : Due(n)
       THEN late < MaxLate /\ late' = late + 1 ELSE late' = 0
    /\ IF ttl <= 1 THEN Free ELSE ttl' = ttl - 1 /\ UNCHANGED key
    /\ left' = [n \in Nodes |-> IF left[n] > 0 THEN left[n] - 1 ELSE 0]
    /\ call' = [n \in Nodes |-> [c \in Calls |->
                  IF call[n][c] \in {"yes", "no"} THEN "idle" ELSE call[n][c]]]
    /\ UNCHANGED <<nodeVars, running, retries, conn, faults>>

\* What the server and its connection do as soon as they can.
Work(n) ==
    \/ \E c \in Calls : Ask(n, c) \/ ElectSelf(n, c)
    \/ RefreshTimer(n) \/ Retry(n) \/ Execute(n) \/ Reply(n)

NodeStep(n) == Work(n) \/ Resign(n) \/ Fail(n) \/ Crash(n)

Next == Tick \/ \E n \in Nodes : NodeStep(n)

Spec == Init /\ [][Next]_vars

\* Time passes, and no server with something to do stops for ever: Redis and
\* the event loop make progress, the random wait ends, and servers keep asking
\* (the services that need a leader poll isLeader()).
Fairness == WF_vars(Tick) /\ \A n \in Nodes : WF_vars(Work(n))

FairSpec == Spec /\ Fairness

(***************************************************************************)
(* Properties.                                                             *)
(***************************************************************************)

\* A server whose refresh timer runs holds the lease, as long as it was not
\* told to stop and the cluster is not slower than the lease allows: renewals
\* come in time, and a server that cannot renew gives up before others can win.
TimerHoldsLease == \A n \in running \ resigned : key = n

\* When isLeader() says yes, the server holds the lease at that moment, though
\* Redis gave the answer some time ago.
AnswersYes(n, c) == call[n][c] # "yes" /\ call'[n][c] = "yes"
YesIsTrue ==
    [][\A n \in Nodes \ resigned, c \in Calls :
        AnswersYes(n, c) => key' = n]_vars

\* A server loses the lease only because it expired or because the server
\* resigned: neither a late resignation nor an election ends another's lease.
LeaseEnds ==
    [][\A n \in Nodes : key = n /\ key' # n =>
        key' = Nobody /\ (ttl = 1 \/ n \in resigned)]_vars

\* As long as a server is left, there is again and again a leader that renews
\* its lease, whatever crashed, was lost or resigned.
Leading == key \in running
LeaderReturns == []<>(Leading \/ alive = {})

=============================================================================
