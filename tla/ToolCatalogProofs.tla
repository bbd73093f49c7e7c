------------------------- MODULE ToolCatalogProofs -------------------------
(***************************************************************************)
(* Proofs about ToolCatalog.  Shape says of each replica how its           *)
(* connection, its load, its refresh and its queue fit together; KeepsTrack*)
(* is part of it.  QuietIsCurrent follows from a mark: a revision and, for *)
(* each replica, a count of changes after which every list is current.     *)
(***************************************************************************)
EXTENDS ToolCatalog, TLAPS

Tasks == [pc : {"idle", "reserve", "fetch", "listed"},
          target : Nat, epoch : Nat, rev : Nat, tools : Nat]
Queues == [stage : {"idle", "read", "mint", "write"}, work : Events \cup {None},
           newer : BOOLEAN, latest : Events \cup {None}, timer : BOOLEAN]
Asks == [pc : {"idle", "fetch", "listed", "await", "write"},
         rev : Nat, epoch : Nat, changes : Nat, tools : Nat]

TypeCatalog == version \in Nat /\ counter \in Nat /\ entry \in Events \cup {None}
TypeSession ==
    /\ conn \in [Replicas -> {"boot", "none", "up", "down",
                              "closing", "draining"}]
    /\ load \in [Replicas -> {"no", "attach", "start", "fetch", "listed",
                              "publish", "refresh"}]
    /\ first \in [Replicas -> Nat] /\ note \in [Replicas -> Nat]
TypeFlags ==
    /\ moved \in [Replicas -> BOOLEAN] /\ retry \in [Replicas -> BOOLEAN]
    /\ knows \in [Replicas -> BOOLEAN]
TypeCounts ==
    /\ epoch \in [Replicas -> Nat] /\ changes \in [Replicas -> Nat]
    /\ handled \in [Replicas -> Nat]
TypeTask == task \in [Replicas -> Tasks]
TypePublished == published \in [Replicas -> {None} \cup Lists]
TypeQueue == queue \in [Replicas -> Queues]
TypeRequest == request \in [Replicas -> Asks]

Types == /\ TypeCatalog /\ TypeSession /\ TypeFlags /\ TypeCounts /\ TypeTask
         /\ TypePublished /\ TypeQueue /\ TypeRequest

LEMMA TypesAreTypes == TypeOK <=> Types /\ spent \in 0..MaxEvents
BY DEF TypeOK, Types, TypeCatalog, TypeSession, TypeFlags, TypeCounts, TypeTask,
       TypePublished, TypeQueue, TypeRequest, Tasks, Queues, Asks

LEMMA BeginType ==
    ASSUME NEW e \in Events
    PROVE  Begin(e) \in Queues
BY CatalogAssumption DEF Begin, Queues, Events

LEMMA EmptyType == Empty \in Queues /\ NoAsk \in Asks /\ Idle \in Tasks
BY DEF Empty, Queues, NoAsk, Asks, Idle, Tasks

LEMMA NotifiedType ==
    ASSUME NEW q \in Queues, NEW e \in Events
    PROVE  Notified(q, e) \in Queues
BY BeginType DEF Notified, Queues

LEMMA DoneType ==
    ASSUME NEW q \in Queues, q.newer => q.latest # None
    PROVE  Done(q) \in Queues
BY BeginType, EmptyType DEF Done, Queues

LEMMA ThrownType ==
    ASSUME NEW q \in Queues
    PROVE  Thrown(q) \in Queues
BY EmptyType DEF Thrown, Queues

LEMMA StartedType ==
    ASSUME NEW n \in Nat, NEW e \in Nat
    PROVE  Started(n, e) \in Tasks
BY DEF Started, Tasks

(***************************************************************************)
(* What a replica looks like                                               *)
(***************************************************************************)

QueueShape(q) ==
    /\ q.stage = "idle" => q.work = None /\ ~q.newer
    /\ q.stage # "idle" => q.work # None /\ ~q.timer
    /\ q.stage \in {"read", "mint"} => q.work.by # None
    /\ q.stage = "idle" /\ ~q.timer => q.latest = None
    /\ q.newer \/ q.timer => q.latest # None
    /\ q.stage # "idle" /\ ~q.newer /\ q.latest # None
       => q.latest.by = q.work.by /\ (q.work.by = None => q.latest = q.work)

Connected(r) == conn[r] \in {"up", "down"}

ConnShape(r) ==
    /\ ~Connected(r) => /\ load[r] = "no" /\ task[r].pc = "idle"
                    /\ handled[r] = changes[r]
    /\ published[r] # None => conn[r] = "up" /\ published[r].changes <= changes[r]
    /\ knows[r] => conn[r] = "up" /\ load[r] \notin {"attach", "start"}
    /\ task[r].target <= changes[r] /\ handled[r] <= changes[r]
    /\ conn[r] = "up" /\ handled[r] < changes[r] => task[r].pc # "idle" \/ retry[r]

QueueFits(r) ==
    /\ load[r] \in {"attach", "start"} => queue[r] = Empty
    /\ load[r] \in {"fetch", "listed"} /\ ~moved[r] => queue[r] = Empty
    /\ conn[r] \in {"boot", "none"} => queue[r] = Empty
    /\ conn[r] = "draining" => /\ queue[r].latest = None
                               /\ ~queue[r].newer /\ ~queue[r].timer

Shape(r) == ConnShape(r) /\ QueueShape(queue[r]) /\ QueueFits(r)

Local(r) == <<conn[r], load[r], moved[r], changes[r], handled[r], retry[r], task[r],
              published[r], queue[r], knows[r]>>

LEMMA SameShape ==
    ASSUME NEW r \in Replicas, Shape(r), Local(r)' = Local(r)
    PROVE  Shape(r)'
BY DEF Shape, ConnShape, Connected, QueueShape, QueueFits, Local

LEMMA EmptyShape == QueueShape(Empty)
BY DEF QueueShape, Empty

LEMMA BeginShape ==
    ASSUME NEW e \in Events
    PROVE  QueueShape(Begin(e))
BY CatalogAssumption DEF QueueShape, Begin, Events

LEMMA NotifiedShape ==
    ASSUME NEW q \in Queues, NEW e \in Events, QueueShape(q)
    PROVE  QueueShape(Notified(q, e))
<1>1. CASE q.stage = "idle"
  BY <1>1, BeginShape DEF Notified
<1>2. CASE q.stage # "idle"
  <2> SUFFICES ASSUME NEW n, n = Notified(q, e) PROVE QueueShape(n)
    OBVIOUS
  <2>1. /\ n.stage = q.stage /\ n.work = q.work /\ n.latest = e
        /\ n.newer = TRUE /\ n.timer = FALSE
    BY <1>2 DEF Notified, Queues
  <2>2. e # None
    BY CatalogAssumption
  <2> QED
    BY <1>2, <2>1, <2>2 DEF QueueShape
<1> QED
  BY <1>1, <1>2

LEMMA DoneShape ==
    ASSUME NEW q \in Queues, QueueShape(q)
    PROVE  QueueShape(Done(q)) /\ Done(q) \in Queues
<1>1. CASE q.newer
  <2>1. q.latest \in Events
    BY <1>1 DEF QueueShape, Queues
  <2> QED
    BY <1>1, <2>1, BeginShape, BeginType DEF Done
<1>2. CASE ~q.newer
  BY <1>2, EmptyShape, EmptyType DEF Done
<1> QED
  BY <1>1, <1>2

LEMMA ThrownShape ==
    ASSUME NEW q \in Queues, QueueShape(q)
    PROVE  QueueShape(Thrown(q))
<1>1. CASE q.latest = None
  BY <1>1, EmptyShape DEF Thrown
<1>2. CASE q.latest # None
  <2> SUFFICES ASSUME NEW n, n = Thrown(q) PROVE QueueShape(n)
    OBVIOUS
  <2>1. /\ n.stage = "idle" /\ n.work = None /\ n.latest = q.latest
        /\ n.newer = FALSE /\ n.timer = TRUE
    BY <1>2 DEF Thrown, Queues
  <2> QED
    BY <1>2, <2>1 DEF QueueShape
<1> QED
  BY <1>1, <1>2


Shapes == Types /\ \A r \in Replicas : Shape(r)

LEMMA JoinShape ==
    ASSUME NEW i \in Replicas, \A r \in Replicas : Shape(r), Shape(i)',
           \A r \in Replicas \ {i} : Local(r)' = Local(r)
    PROVE  \A r \in Replicas : Shape(r)'
BY SameShape

(***************************************************************************)
(* Steps of the queue                                                      *)
(***************************************************************************)

Connection == <<conn, load, moved, changes, handled, retry, task, published, knows>>

\* What a step may make of a queue that works or waits.
Follows(q, n) ==
    /\ n \in Queues /\ QueueShape(n)
    /\ q.stage # "idle" \/ q.timer
    /\ q.latest = None /\ ~q.newer => n.latest = None /\ ~n.newer

LEMMA DoneFollows ==
    ASSUME NEW q \in Queues, QueueShape(q), q.stage # "idle"
    PROVE  Follows(q, Done(q))
<1>1. QueueShape(Done(q)) /\ Done(q) \in Queues
  BY DoneShape
<1>2. ~q.newer => Done(q) = Empty
  BY DEF Done
<1> QED
  BY <1>1, <1>2 DEF Follows, Empty

LEMMA ThrownFollows ==
    ASSUME NEW q \in Queues, QueueShape(q), q.stage # "idle"
    PROVE  Follows(q, Thrown(q))
<1>1. QueueShape(Thrown(q)) /\ Thrown(q) \in Queues
  BY ThrownShape, ThrownType
<1>2. q.latest = None => Thrown(q) = Empty
  BY DEF Thrown
<1> QED
  BY <1>1, <1>2 DEF Follows, Empty

LEMMA QueueStep ==
    ASSUME Shapes, UNCHANGED Connection, NEW i \in Replicas, NEW n,
           queue' = [queue EXCEPT ![i] = n], Follows(queue[i], n)
    PROVE  TypeQueue' /\ \A r \in Replicas : Shape(r)'
<1>1. TypeQueue'
  BY DEF Shapes, Types, TypeQueue, Follows
<1>2. queue'[i] = n /\ \A r \in Replicas \ {i} : queue'[r] = queue[r]
  BY DEF Shapes, Types, TypeQueue
<1>3. \A r \in Replicas \ {i} : Local(r)' = Local(r)
  BY <1>2 DEF Local, Connection
<1>4. ConnShape(i)'
  BY DEF Shapes, Shape, ConnShape, Connected, Connection
<1>5. QueueShape(n) /\ queue[i] # Empty
  BY DEF Follows, Empty
<1>6. n.timer => n.latest # None
  BY <1>5 DEF QueueShape
<1>7. QueueFits(i)'
  BY <1>2, <1>5, <1>6 DEF Shapes, Shape, QueueFits, Connection, Follows
<1> QED
  BY <1>1, <1>2, <1>3, <1>4, <1>5, <1>7, JoinShape DEF Shapes, Shape

LEMMA ReservedType ==
    ASSUME TypeCatalog
    PROVE  Reserved \in Nat
BY CatalogAssumption DEF TypeCatalog, Reserved, Revision, Events

LEMMA WriteType ==
    ASSUME TypeCatalog, NEW e \in Events, Write(e)
    PROVE  entry' \in Events \cup {None}
BY DEF TypeCatalog, Write

\* What the steps of the queue leave alone, but for the catalog.
Rest == <<version, session, refresh, request, knows>>

LEMMA RestKept ==
    ASSUME Types, UNCHANGED Rest
    PROVE  /\ TypeSession' /\ TypeFlags' /\ TypeCounts' /\ TypeTask'
           /\ TypePublished' /\ TypeRequest'
           /\ UNCHANGED Connection
<1> USE DEF Types, Rest, session, refresh
<1>1. TypeSession' /\ TypeFlags'
  BY DEF TypeSession, TypeFlags
<1>2. TypeCounts' /\ TypeTask'
  BY DEF TypeCounts, TypeTask
<1>3. TypePublished' /\ TypeRequest'
  BY DEF TypePublished, TypeRequest
<1>4. UNCHANGED Connection
  BY DEF Connection
<1> QED
  BY <1>1, <1>2, <1>3, <1>4

LEMMA QueueSteps ==
    ASSUME Shapes, NEW i \in Replicas,
           \/ ReadSlot(i) \/ Mint(i) \/ Publish(i) \/ PublishFails(i)
           \/ RetryPublish(i)
    PROVE  Shapes'
<1>1. UNCHANGED Rest
  BY DEF ReadSlot, Mint, Publish, PublishFails, RetryPublish, Rest
<1>2. queue[i] \in Queues /\ QueueShape(queue[i])
  BY DEF Shapes, Shape, Types, TypeQueue
<1>3. TypeCatalog /\ version' \in Nat
  BY <1>1 DEF Shapes, Types, TypeCatalog, Rest
<1>4. \E n : queue' = [queue EXCEPT ![i] = n] /\ Follows(queue[i], n)
  <2> DEFINE q == queue[i]
  <2>1. CASE ReadSlot(i)
    <3>1. q.stage = "read"
      BY <2>1 DEF ReadSlot
    <3>2. CASE entry = None
      <4> DEFINE n == [q EXCEPT !.stage = "mint"]
      <4>1. queue' = [queue EXCEPT ![i] = n]
        BY <2>1, <3>2 DEF ReadSlot
      <4>2. Follows(q, n)
        BY <1>2, <3>1 DEF Follows, QueueShape, Queues
      <4> QED
        BY <4>1, <4>2
    <3>3. CASE entry # None
      BY <1>2, <2>1, <3>1, <3>3, DoneFollows DEF ReadSlot
    <3> QED
      BY <3>2, <3>3
  <2>2. CASE Mint(i)
    <3>1. q.stage = "mint" /\ q.work \in Events /\ q.work.by # None
      BY <1>2, <2>2 DEF Mint, Queues, QueueShape
    <3>2. Reserved \in Nat
      BY <1>3, ReservedType
    <3> DEFINE w == [q.work EXCEPT !.rev = Reserved]
    <3>3. w \in Events /\ w.by = q.work.by
      BY <3>1, <3>2 DEF Events
    <3> DEFINE n == [q EXCEPT !.stage = "write", !.work = w]
    <3>4. queue' = [queue EXCEPT ![i] = n]
      BY <2>2 DEF Mint
    <3>5. Follows(q, n)
      BY <1>2, <3>1, <3>3, CatalogAssumption DEF Follows, QueueShape, Queues
    <3> QED
      BY <3>4, <3>5
  <2>3. CASE Publish(i)
    BY <1>2, <2>3, DoneFollows DEF Publish
  <2>4. CASE PublishFails(i)
    BY <1>2, <2>4, ThrownFollows DEF PublishFails
  <2>5. CASE RetryPublish(i)
    <3>1. q.timer /\ queue' = [queue EXCEPT ![i] = Begin(q.latest)]
      BY <2>5 DEF RetryPublish
    <3>2. q.latest \in Events
      BY <1>2, <3>1 DEF Queues, QueueShape
    <3>3. Follows(q, Begin(q.latest))
      BY <3>1, <3>2, BeginType, BeginShape, CatalogAssumption DEF Follows
    <3> QED
      BY <3>1, <3>3
  <2> QED
    BY <2>1, <2>2, <2>3, <2>4, <2>5
<1>5. TypeCatalog'
  <2>1. Reserved \in Nat
    BY <1>3, ReservedType
  <2>2. CASE ReadSlot(i) \/ RetryPublish(i)
    BY <1>3, <2>2 DEF ReadSlot, RetryPublish, redis, TypeCatalog
  <2>3. CASE Mint(i)
    BY <1>3, <2>1, <2>3 DEF Mint, TypeCatalog
  <2>4. queue[i].stage = "write" => queue[i].work \in Events
    BY <1>2 DEF Queues, QueueShape
  <2>5. CASE Publish(i)
    BY <1>3, <2>4, <2>5, WriteType DEF Publish, TypeCatalog
  <2>6. CASE PublishFails(i)
    BY <1>3, <2>1, <2>4, <2>6, WriteType DEF PublishFails, redis, TypeCatalog
  <2> QED
    BY <2>2, <2>3, <2>5, <2>6
<1> QED
  BY <1>1, <1>4, <1>5, RestKept, QueueStep DEF Shapes, Types

(***************************************************************************)
(* Steps of a request                                                      *)
(***************************************************************************)

LEMMA ConcludedType ==
    ASSUME NEW r \in Replicas, TypePublished', NEW ask \in Asks
    PROVE  Concluded(r, ask) \in Asks
<1>1. published'[r] # None => published'[r].tools \in Nat
  BY DEF TypePublished, Lists
<1>2. CASE Concluded(r, ask) = NoAsk
  BY <1>2, EmptyType
<1>3. CASE Concluded(r, ask) # NoAsk
  <2>1. /\ published'[r] # None
        /\ Concluded(r, ask) = [ask EXCEPT !.pc = "write", !.tools = published'[r].tools]
    BY <1>3 DEF Concluded
  <2> QED
    BY <1>1, <2>1 DEF Asks
<1> QED
  BY <1>2, <1>3

LEMMA StartIfType ==
    ASSUME NEW r \in Replicas, NEW up, NEW t \in Tasks, NEW n \in Nat, TypeCounts'
    PROVE  StartIf(r, up, t, n) \in Tasks
<1>1. epoch'[r] \in Nat
  BY DEF TypeCounts
<1> QED
  BY <1>1, StartedType DEF StartIf

LEMMA AllSame ==
    ASSUME \A r \in Replicas : Shape(r), UNCHANGED <<queue, Connection>>
    PROVE  \A r \in Replicas : Shape(r)'
<1>1. \A r \in Replicas : Local(r)' = Local(r)
  BY DEF Local, Connection
<1> QED
  BY <1>1, SameShape

LEMMA AskSteps ==
    ASSUME Shapes, NEW i \in Replicas,
           Ask(i) \/ AskList(i) \/ AskFails(i) \/ AskWrite(i)
    PROVE  Shapes'
<1>1. UNCHANGED <<version, session, refresh, queue, knows>>
  BY DEF Ask, AskList, AskFails, AskWrite
<1>2. UNCHANGED <<queue, Connection>>
  BY <1>1 DEF Connection, session, refresh
<1>3. \A r \in Replicas : Shape(r)'
  BY <1>2, AllSame DEF Shapes
<1>4. TypeSession' /\ TypeFlags'
  BY <1>1 DEF Shapes, Types, TypeSession, TypeFlags, session, refresh
<1>5. TypeCounts' /\ TypeTask' /\ TypePublished' /\ TypeQueue'
  BY <1>1 DEF Shapes, Types, TypeCounts, TypeTask, TypePublished, TypeQueue, refresh
<1>6. TypeCatalog /\ TypeRequest /\ TypeCounts /\ Reserved \in Nat
  BY ReservedType DEF Shapes, Types
<1>7. request[i] \in Asks
  BY <1>6 DEF TypeRequest
<1>8. TypeCatalog' /\ TypeRequest'
  <2>1. CASE Ask(i)
    <3> DEFINE n == [pc |-> "fetch", rev |-> Reserved, epoch |-> epoch[i],
                     changes |-> changes[i], tools |-> 0]
    <3>1. n \in Asks
      BY <1>6 DEF Asks, TypeCounts
    <3>2. request' = [request EXCEPT ![i] = n]
      BY <2>1 DEF Ask
    <3> HIDE DEF n
    <3>3. TypeRequest'
      BY <1>6, <3>1, <3>2 DEF TypeRequest
    <3>4. TypeCatalog'
      BY <1>6, <2>1 DEF TypeCatalog, Ask
    <3> QED
      BY <3>3, <3>4
  <2>2. CASE AskList(i)
    <3>1. [request[i] EXCEPT !.pc = "listed", !.tools = version] \in Asks
      BY <1>6, <1>7 DEF Asks, TypeCatalog
    <3>2. TypeRequest'
      BY <1>6, <2>2, <3>1 DEF TypeRequest, AskList
    <3> QED
      BY <1>6, <2>2, <3>2 DEF TypeCatalog, AskList, redis
  <2>3. CASE AskFails(i)
    BY <1>6, <2>3, EmptyType DEF TypeRequest, TypeCatalog, AskFails, redis
  <2>4. CASE AskWrite(i)
    <3>1. [rev |-> request[i].rev, tools |-> request[i].tools, by |-> None] \in Events
      BY <1>7 DEF Asks, Events
    <3>2. entry' \in Events \cup {None}
      BY <1>6, <2>4, <3>1, WriteType DEF AskWrite
    <3> QED
      BY <1>6, <2>4, <3>2, EmptyType DEF TypeRequest, TypeCatalog, AskWrite
  <2> QED
    BY <2>1, <2>2, <2>3, <2>4
<1> QED
  BY <1>3, <1>4, <1>5, <1>8 DEF Shapes, Types

LEMMA Starting ==
    ASSUME NEW r \in Replicas, NEW up, NEW t \in Tasks, NEW n \in Nat
    PROVE  /\ StartIf(r, up, t, n).target \in {t.target, n}
           /\ up => StartIf(r, up, t, n).pc # "idle"
           /\ ~up => StartIf(r, up, t, n) = t
BY DEF StartIf, Started, Tasks

LEMMA SnapshotStep ==
    ASSUME Shapes, NEW i \in Replicas, Snapshot(i)
    PROVE  Shapes'
<1>1. /\ UNCHANGED <<version, redis, session, queue, knows>>
      /\ UNCHANGED <<epoch, changes, handled, retry, published>>
  BY DEF Snapshot
<1>2. TypeCatalog' /\ TypeSession' /\ TypeFlags'
  BY <1>1 DEF Shapes, Types, TypeCatalog, TypeSession, TypeFlags, redis, session
<1>3. TypeCounts' /\ TypePublished' /\ TypeQueue'
  BY <1>1 DEF Shapes, Types, TypeCounts, TypePublished, TypeQueue
<1>4. task[i] \in Tasks /\ request[i] \in Asks /\ changes[i] \in Nat
  BY DEF Shapes, Types, TypeTask, TypeRequest, TypeCounts
<1>5. \E up \in BOOLEAN :
         /\ up => conn[i] = "up"
         /\ task' = [task EXCEPT ![i] = StartIf(i, up, @, changes[i])]
  <2>1. CASE Unmoved(i)
    <3>1. task' = [task EXCEPT ![i] = StartIf(i, FALSE, @, changes[i])]
      BY <2>1 DEF Snapshot, StartIf, Shapes, Types, TypeTask
    <3> QED
      BY <3>1
  <2>2. CASE ~Unmoved(i)
    BY <2>2 DEF Snapshot
  <2> QED
    BY <2>1, <2>2
<1>6. PICK up \in BOOLEAN :
         /\ up => conn[i] = "up"
         /\ task' = [task EXCEPT ![i] = StartIf(i, up, @, changes[i])]
  BY <1>5
<1> DEFINE t == StartIf(i, up, task[i], changes[i])
<1>7. /\ t \in Tasks /\ t.target \in {task[i].target, changes[i]}
      /\ up => t.pc # "idle"
      /\ ~up => t = task[i]
  <2>1. t \in Tasks
    BY <1>3, <1>4, StartIfType
  <2>2. t.target \in {task[i].target, changes[i]}
    BY <1>4, Starting
  <2>3. (up => t.pc # "idle") /\ (~up => t = task[i])
    BY <1>4, Starting
  <2> QED
    BY <2>1, <2>2, <2>3
<1> HIDE DEF t
<1>8. /\ task' = [task EXCEPT ![i] = t] /\ TypeTask' /\ task'[i] = t
      /\ \A r \in Replicas \ {i} : task'[r] = task[r]
  BY <1>6, <1>7 DEF t, Shapes, Types, TypeTask
<1>9. TypeRequest'
  <2>1. \E n \in Asks : request' = [request EXCEPT ![i] = n]
    <3>1. CASE Unmoved(i)
      <4>1. [request[i] EXCEPT !.pc = "write"] \in Asks
        BY <1>4 DEF Asks
      <4> QED
        BY <3>1, <4>1 DEF Snapshot
    <3>2. CASE ~Unmoved(i)
      <4>1. [request[i] EXCEPT !.pc = "await"] \in Asks
        BY <1>4 DEF Asks
      <4>2. Concluded(i, request[i]) \in Asks
        BY <1>3, <1>4, ConcludedType
      <4> QED
        BY <3>2, <4>1, <4>2 DEF Snapshot
    <3> QED
      BY <3>1, <3>2
  <2> QED
    BY <2>1 DEF Shapes, Types, TypeRequest
<1>10. \A r \in Replicas \ {i} : Local(r)' = Local(r)
  BY <1>1, <1>8 DEF Local, session
<1>11. Shape(i)'
  <2>1. ConnShape(i)'
    BY <1>1, <1>4, <1>6, <1>7, <1>8 DEF Shapes, Shape, ConnShape, Connected, session
  <2>2. QueueShape(queue[i])' /\ QueueFits(i)'
    BY <1>1 DEF Shapes, Shape, QueueShape, QueueFits, session
  <2> QED
    BY <2>1, <2>2 DEF Shape
<1>12. \A r \in Replicas : Shape(r)'
  BY <1>10, <1>11, JoinShape DEF Shapes
<1> QED
  BY <1>2, <1>3, <1>8, <1>9, <1>12 DEF Shapes, Types

(***************************************************************************)
(* Steps of the refresh                                                    *)
(***************************************************************************)

LEMMA Settling ==
    ASSUME Types, NEW i \in Replicas, Settle(i), TypeCounts', TypePublished'
    PROVE  /\ TypeTask' /\ TypeRequest'
           /\ task'[i].target <= changes[i]
           /\ conn[i] = "up" /\ ~retry'[i] /\ handled'[i] < changes[i]
              => task'[i].pc # "idle"
           /\ conn[i] # "up" => task'[i].pc = "idle"
           /\ task'[i].pc \in {"idle", "reserve"}
           /\ \A r \in Replicas \ {i} : task'[r] = task[r]
<1> DEFINE up == conn[i] = "up" /\ ~retry'[i] /\ handled'[i] < changes[i]
           t == StartIf(i, up, Idle, changes[i])
<1>1. changes[i] \in Nat
  BY DEF Types, TypeCounts
<1>2. t \in Tasks
  BY <1>1, StartIfType, EmptyType
<1>3. t.target \in {0, changes[i]}
  BY <1>1, Starting, EmptyType DEF Idle
<1>4. up => t.pc # "idle"
  BY <1>1, Starting, EmptyType
<1>5. ~up => t.pc = "idle"
  BY DEF StartIf, Idle
<1>6. t.pc \in {"idle", "reserve"}
  BY DEF StartIf, Idle, Started
<1>7. task' = [task EXCEPT ![i] = t]
  BY DEF Settle
<1> HIDE DEF t
<1>8. TypeTask' /\ task'[i] = t /\ \A r \in Replicas \ {i} : task'[r] = task[r]
  BY <1>2, <1>7 DEF Types, TypeTask
<1>9. TypeRequest'
  <2>1. request[i] \in Asks
    BY DEF Types, TypeRequest
  <2>2. Concluded(i, request[i]) \in Asks
    BY <2>1, ConcludedType
  <2> QED
    BY <2>1, <2>2 DEF Settle, Types, TypeRequest
<1> QED
  BY <1>1, <1>3, <1>4, <1>5, <1>6, <1>8, <1>9

LEMMA ReserveStep ==
    ASSUME Shapes, NEW i \in Replicas, Reserve(i)
    PROVE  Shapes'
<1>1. UNCHANGED <<version, entry, session, epoch, changes, handled, retry, published,
                  queue, request, knows>>
  BY DEF Reserve
<1>2. TypeSession' /\ TypeFlags' /\ TypeCounts'
  BY <1>1 DEF Shapes, Types, TypeSession, TypeFlags, TypeCounts, session
<1>3. TypePublished' /\ TypeQueue' /\ TypeRequest'
  BY <1>1 DEF Shapes, Types, TypePublished, TypeQueue, TypeRequest
<1>4. Reserved \in Nat /\ TypeCatalog'
  BY <1>1, ReservedType DEF Shapes, Types, TypeCatalog, Reserve
<1> DEFINE t == [task[i] EXCEPT !.pc = "fetch", !.rev = Reserved]
<1>5. task[i] \in Tasks /\ task' = [task EXCEPT ![i] = t]
  BY DEF Shapes, Types, TypeTask, Reserve
<1>6. t \in Tasks /\ t.target = task[i].target /\ t.pc # "idle"
  BY <1>4, <1>5 DEF Tasks
<1> HIDE DEF t
<1>7. TypeTask' /\ task'[i] = t /\ \A r \in Replicas \ {i} : task'[r] = task[r]
  BY <1>5, <1>6 DEF Shapes, Types, TypeTask
<1>8. \A r \in Replicas \ {i} : Local(r)' = Local(r)
  BY <1>1, <1>7 DEF Local, session
<1>9. task[i].pc # "idle"
  BY DEF Reserve
<1>10. ConnShape(i)'
  BY <1>1, <1>6, <1>7, <1>9 DEF Shapes, Shape, ConnShape, Connected, session
<1>11. QueueShape(queue[i])' /\ QueueFits(i)'
  BY <1>1 DEF Shapes, Shape, QueueShape, QueueFits, session
<1> QED
  BY <1>2, <1>3, <1>4, <1>7, <1>8, <1>10, <1>11, JoinShape DEF Shapes, Types, Shape

LEMMA ListStep ==
    ASSUME Shapes, NEW i \in Replicas, List(i)
    PROVE  Shapes'
<1>1. UNCHANGED <<version, redis, session, epoch, changes, handled, retry, published,
                  queue, request, knows>>
  BY DEF List
<1>2. TypeSession' /\ TypeFlags' /\ TypeCounts' /\ TypeCatalog'
  BY <1>1 DEF Shapes, Types, TypeSession, TypeFlags, TypeCounts, TypeCatalog, session,
              redis
<1>3. TypePublished' /\ TypeQueue' /\ TypeRequest'
  BY <1>1 DEF Shapes, Types, TypePublished, TypeQueue, TypeRequest
<1> DEFINE t == [task[i] EXCEPT !.pc = "listed", !.tools = version]
<1>5. task[i] \in Tasks /\ task' = [task EXCEPT ![i] = t] /\ version \in Nat
  BY DEF Shapes, Types, TypeTask, TypeCatalog, List
<1>6. t \in Tasks /\ t.target = task[i].target /\ t.pc # "idle"
  BY <1>5 DEF Tasks
<1> HIDE DEF t
<1>7. TypeTask' /\ task'[i] = t /\ \A r \in Replicas \ {i} : task'[r] = task[r]
  BY <1>5, <1>6 DEF Shapes, Types, TypeTask
<1>8. \A r \in Replicas \ {i} : Local(r)' = Local(r)
  BY <1>1, <1>7 DEF Local, session
<1>9. task[i].pc # "idle"
  BY DEF List
<1>10. ConnShape(i)'
  BY <1>1, <1>6, <1>7, <1>9 DEF Shapes, Shape, ConnShape, Connected, session
<1>11. QueueShape(queue[i])' /\ QueueFits(i)'
  BY <1>1 DEF Shapes, Shape, QueueShape, QueueFits, session
<1> QED
  BY <1>2, <1>3, <1>7, <1>8, <1>10, <1>11, JoinShape DEF Shapes, Types, Shape

LEMMA RefreshFailsStep ==
    ASSUME Shapes, NEW i \in Replicas, RefreshFails(i)
    PROVE  Shapes'
<1>1. UNCHANGED <<version, redis, session, epoch, changes, handled, published,
                  queue, knows>>
  BY DEF RefreshFails
<1>2. TypeSession' /\ TypeCounts' /\ TypeCatalog'
  BY <1>1 DEF Shapes, Types, TypeSession, TypeCounts, TypeCatalog, session, redis
<1>3. TypePublished' /\ TypeQueue'
  BY <1>1 DEF Shapes, Types, TypePublished, TypeQueue
<1>4. TypeFlags' /\ \A r \in Replicas \ {i} : retry'[r] = retry[r]
  BY <1>1 DEF Shapes, Types, TypeFlags, RefreshFails, session
<1>5. Settle(i)
  BY DEF RefreshFails
<1>6. /\ TypeTask' /\ TypeRequest'
      /\ task'[i].target <= changes[i]
      /\ conn[i] = "up" /\ ~retry'[i] /\ handled'[i] < changes[i]
         => task'[i].pc # "idle"
      /\ conn[i] # "up" => task'[i].pc = "idle"
      /\ \A r \in Replicas \ {i} : task'[r] = task[r]
  BY <1>2, <1>3, <1>5, Settling DEF Shapes
<1>8. \A r \in Replicas \ {i} : Local(r)' = Local(r)
  BY <1>1, <1>4, <1>6 DEF Local, session
<1>10. ConnShape(i)'
  BY <1>1, <1>6 DEF Shapes, Shape, ConnShape, Connected, session
<1>11. QueueShape(queue[i])' /\ QueueFits(i)'
  BY <1>1 DEF Shapes, Shape, QueueShape, QueueFits, session
<1> QED
  BY <1>2, <1>3, <1>4, <1>6, <1>8, <1>10, <1>11, JoinShape DEF Shapes, Types, Shape

LEMMA RetryRefreshStep ==
    ASSUME Shapes, NEW i \in Replicas, RetryRefresh(i)
    PROVE  Shapes'
<1>1. UNCHANGED <<version, redis, session, epoch, changes, handled, published,
                  queue, request, knows>>
  BY DEF RetryRefresh
<1>2. TypeSession' /\ TypeCounts' /\ TypeCatalog'
  BY <1>1 DEF Shapes, Types, TypeSession, TypeCounts, TypeCatalog, session, redis
<1>3. TypePublished' /\ TypeQueue' /\ TypeRequest'
  BY <1>1 DEF Shapes, Types, TypePublished, TypeQueue, TypeRequest
<1>4. TypeFlags' /\ \A r \in Replicas \ {i} : retry'[r] = retry[r]
  BY <1>1 DEF Shapes, Types, TypeFlags, RetryRefresh, session
<1> DEFINE t == StartIf(i, conn[i] = "up", task[i], changes[i])
<1>5. task[i] \in Tasks /\ changes[i] \in Nat /\ task' = [task EXCEPT ![i] = t]
  BY DEF Shapes, Types, TypeTask, TypeCounts, RetryRefresh
<1>6. /\ t.target \in {task[i].target, changes[i]}
      /\ conn[i] = "up" => t.pc # "idle"
      /\ conn[i] # "up" => t = task[i]
  BY <1>5, Starting
<1>7. t \in Tasks
  BY <1>2, <1>5, StartIfType
<1> HIDE DEF t
<1>8. TypeTask' /\ task'[i] = t /\ \A r \in Replicas \ {i} : task'[r] = task[r]
  BY <1>5, <1>7 DEF Shapes, Types, TypeTask
<1>9. \A r \in Replicas \ {i} : Local(r)' = Local(r)
  BY <1>1, <1>4, <1>8 DEF Local, session
<1>10. ConnShape(i)'
  BY <1>1, <1>5, <1>6, <1>8 DEF Shapes, Shape, ConnShape, Connected, session
<1>11. QueueShape(queue[i])' /\ QueueFits(i)'
  BY <1>1 DEF Shapes, Shape, QueueShape, QueueFits, session
<1> QED
  BY <1>2, <1>3, <1>4, <1>8, <1>9, <1>10, <1>11, JoinShape DEF Shapes, Types, Shape

LEMMA ListedStep ==
    ASSUME Shapes, NEW i \in Replicas, Listed(i)
    PROVE  Shapes'
<1>1. UNCHANGED <<version, redis, conn, load, first, note, knows, epoch, changes, retry>>
  BY DEF Listed
<1>2. TypeSession' /\ TypeCatalog'
  BY <1>1 DEF Shapes, Types, TypeSession, TypeCatalog, redis
<1>3. /\ task[i] \in Tasks /\ task[i].pc # "idle" /\ queue[i] \in Queues
      /\ handled[i] \in Nat /\ changes[i] \in Nat
      /\ task[i].target \in Nat /\ task[i].tools \in Nat /\ task[i].rev \in Nat
      /\ task[i].epoch \in Nat
  BY DEF Listed, Shapes, Types, TypeTask, TypeQueue, TypeCounts, Tasks
<1>4. Connected(i) /\ Shape(i) /\ Types
  BY <1>3 DEF Shapes, Shape, ConnShape
<1>5. CASE ~Fresh(i)
  <2>1. UNCHANGED <<handled, published, queue, moved>> /\ Settle(i)
    BY <1>5 DEF Listed
  <2>2. TypeCounts' /\ TypePublished' /\ TypeFlags' /\ TypeQueue'
    BY <1>1, <1>4, <2>1 DEF Types, TypeCounts, TypePublished, TypeFlags, TypeQueue
  <2>3. /\ TypeTask' /\ TypeRequest'
        /\ task'[i].target <= changes[i]
        /\ conn[i] = "up" /\ ~retry'[i] /\ handled'[i] < changes[i]
           => task'[i].pc # "idle"
        /\ \A r \in Replicas \ {i} : task'[r] = task[r]
    BY <1>4, <2>1, <2>2, Settling
  <2>4. \A r \in Replicas \ {i} : Local(r)' = Local(r)
    BY <1>1, <2>1, <2>3 DEF Local
  <2>5. ConnShape(i)'
    BY <1>1, <1>4, <2>1, <2>3 DEF Shape, ConnShape, Connected
  <2>6. QueueShape(queue[i])' /\ QueueFits(i)'
    BY <1>1, <1>4, <2>1 DEF Shape, QueueShape, QueueFits
  <2> QED
    BY <1>2, <2>2, <2>3, <2>4, <2>5, <2>6, JoinShape DEF Shapes, Types, Shape
<1>6. CASE Fresh(i)
  <2> DEFINE p == [changes |-> task[i].target, tools |-> task[i].tools]
             e == [rev |-> task[i].rev, tools |-> task[i].tools, by |-> None]
  <2>1. /\ handled' = [handled EXCEPT ![i] = task[i].target]
        /\ published' = [published EXCEPT ![i] = p]
        /\ Dispatch(i, e) /\ conn[i] = "up"
    BY <1>6 DEF Listed, Fresh
  <2>2. p \in Lists /\ e \in Events /\ p.changes = task[i].target
    BY <1>3 DEF Lists, Events
  <2> HIDE DEF p, e
  <2>3. /\ TypeCounts' /\ handled'[i] = task[i].target
        /\ \A r \in Replicas \ {i} : handled'[r] = handled[r]
    BY <1>1, <1>3, <1>4, <2>1 DEF Types, TypeCounts
  <2>4. /\ TypePublished' /\ published'[i] = p
        /\ \A r \in Replicas \ {i} : published'[r] = published[r]
    BY <1>4, <2>1, <2>2 DEF Types, TypePublished
  <2>5. /\ TypeQueue' /\ TypeFlags' /\ QueueShape(queue'[i]) /\ QueueFits(i)'
        /\ \A r \in Replicas \ {i} : queue'[r] = queue[r] /\ moved'[r] = moved[r]
    <3>1. CASE load[i] \in {"attach", "start"}
      <4>1. UNCHANGED <<queue, moved>>
        BY <2>1, <3>1 DEF Dispatch
      <4> QED
        BY <1>1, <1>4, <4>1 DEF Types, TypeQueue, TypeFlags, Shape, QueueFits
    <3>2. CASE load[i] \notin {"attach", "start"}
      <4> DEFINE n == Notified(queue[i], e)
      <4>1. /\ queue' = [queue EXCEPT ![i] = n]
            /\ moved' = [moved EXCEPT ![i] = load[i] \in {"fetch", "listed"}]
        BY <2>1, <3>2 DEF Dispatch
      <4>2. n \in Queues /\ QueueShape(n)
        BY <1>3, <1>4, <2>2, NotifiedType, NotifiedShape DEF Shape
      <4> HIDE DEF n
      <4>3. /\ TypeQueue' /\ queue'[i] = n
            /\ \A r \in Replicas \ {i} : queue'[r] = queue[r]
        BY <1>4, <4>1, <4>2 DEF Types, TypeQueue
      <4>4. /\ moved' \in [Replicas -> BOOLEAN]
            /\ moved'[i] = (load[i] \in {"fetch", "listed"})
            /\ \A r \in Replicas \ {i} : moved'[r] = moved[r]
        BY <1>4, <4>1 DEF Types, TypeFlags
      <4>5. TypeFlags'
        BY <1>1, <1>4, <4>4 DEF Types, TypeFlags
      <4>6. QueueFits(i)'
        BY <1>1, <2>1, <3>2, <4>4 DEF QueueFits
      <4> QED
        BY <4>2, <4>3, <4>4, <4>5, <4>6
    <3> QED
      BY <3>1, <3>2
  <2>6. /\ TypeTask' /\ TypeRequest'
        /\ task'[i].target <= changes[i]
        /\ ~retry'[i] /\ handled'[i] < changes[i] => task'[i].pc # "idle"
        /\ \A r \in Replicas \ {i} : task'[r] = task[r]
    <3>1. CASE task[i].target < changes[i]
      <4> DEFINE t == Started(changes[i], task[i].epoch)
      <4>1. task' = [task EXCEPT ![i] = t] /\ UNCHANGED request
        BY <1>6, <3>1 DEF Listed
      <4>2. t \in Tasks /\ t.pc # "idle" /\ t.target = changes[i]
        BY <1>3, StartedType DEF Started
      <4> HIDE DEF t
      <4>3. TypeTask' /\ task'[i] = t /\ \A r \in Replicas \ {i} : task'[r] = task[r]
        BY <1>4, <4>1, <4>2 DEF Types, TypeTask
      <4>4. TypeRequest'
        BY <1>4, <4>1 DEF Types, TypeRequest
      <4> QED
        BY <1>3, <4>2, <4>3, <4>4
    <3>2. CASE ~(task[i].target < changes[i])
      <4>1. Settle(i)
        BY <1>6, <3>2 DEF Listed
      <4> QED
        BY <1>4, <2>1, <2>3, <2>4, <4>1, Settling
    <3> QED
      BY <3>1, <3>2
  <2>7. \A r \in Replicas \ {i} : Local(r)' = Local(r)
    BY <1>1, <2>3, <2>4, <2>5, <2>6 DEF Local
  <2>8. ConnShape(i)'
    BY <1>1, <1>4, <2>1, <2>2, <2>3, <2>4, <2>6 DEF Shape, ConnShape, Connected
  <2> QED
    BY <1>2, <2>3, <2>4, <2>5, <2>6, <2>7, <2>8, JoinShape DEF Shapes, Types, Shape
<1> QED
  BY <1>5, <1>6

(***************************************************************************)
(* Steps of a session and of its creator                                   *)
(***************************************************************************)

LEMMA Refreshing ==
    ASSUME Types, NEW i \in Replicas, NEW up, RefreshToolList(i, up)
    PROVE  /\ TypeCounts' /\ TypeTask' /\ TypePublished'
           /\ retry' \in [Replicas -> BOOLEAN]
           /\ changes'[i] = changes[i] + 1
           /\ task'[i].target \in {task[i].target, changes[i] + 1}
           /\ up => task'[i].pc # "idle"
           /\ ~up => task'[i] = task[i]
           /\ UNCHANGED <<epoch, handled, published>>
           /\ \A r \in Replicas \ {i} :
                 /\ task'[r] = task[r] /\ changes'[r] = changes[r]
                 /\ retry'[r] = retry[r]
<1>1. UNCHANGED <<epoch, handled, published>>
  BY DEF RefreshToolList
<1>2. /\ TypeCounts' /\ changes'[i] = changes[i] + 1 /\ changes[i] \in Nat
      /\ \A r \in Replicas \ {i} : changes'[r] = changes[r]
  BY <1>1 DEF RefreshToolList, Types, TypeCounts
<1>3. /\ retry' \in [Replicas -> BOOLEAN]
      /\ \A r \in Replicas \ {i} : retry'[r] = retry[r]
  BY DEF RefreshToolList, Types, TypeFlags
<1> DEFINE t == StartIf(i, up, task[i], changes[i] + 1)
<1>4. task[i] \in Tasks /\ changes[i] + 1 \in Nat /\ task' = [task EXCEPT ![i] = t]
  BY <1>2 DEF RefreshToolList, Types, TypeTask
<1>5. t \in Tasks
  BY <1>2, <1>4, StartIfType
<1>6. /\ t.target \in {task[i].target, changes[i] + 1}
      /\ (up => t.pc # "idle") /\ (~up => t = task[i])
  BY <1>4, Starting
<1> HIDE DEF t
<1>7. TypeTask' /\ task'[i] = t /\ \A r \in Replicas \ {i} : task'[r] = task[r]
  BY <1>4, <1>5 DEF Types, TypeTask
<1>8. TypePublished'
  BY <1>1 DEF Types, TypePublished
<1> QED
  BY <1>1, <1>2, <1>3, <1>6, <1>7, <1>8

LEMMA NotificationStep ==
    ASSUME Shapes, NEW i \in Replicas, Notification(i)
    PROVE  Shapes'
<1>1. UNCHANGED <<version, redis, conn, load, first, moved, queue, request, knows>>
  BY DEF Notification
<1>2. Types /\ Shape(i) /\ conn[i] = "up" /\ note[i] > 0 /\ changes[i] \in Nat
  BY DEF Notification, Shapes, Types, TypeCounts
<1>3. note' \in [Replicas -> Nat]
  BY <1>2 DEF Notification, Types, TypeSession
<1>4. TypeSession' /\ TypeCatalog'
  BY <1>1, <1>2, <1>3 DEF Types, TypeSession, TypeCatalog, redis
<1>5. TypeQueue' /\ TypeRequest'
  BY <1>1, <1>2 DEF Types, TypeQueue, TypeRequest
<1>6. RefreshToolList(i, TRUE)
  BY DEF Notification
<1>7. /\ TypeCounts' /\ TypeTask' /\ TypePublished'
      /\ retry' \in [Replicas -> BOOLEAN]
      /\ changes'[i] = changes[i] + 1
      /\ task'[i].target \in {task[i].target, changes[i] + 1}
      /\ task'[i].pc # "idle"
      /\ UNCHANGED <<epoch, handled, published>>
      /\ \A r \in Replicas \ {i} :
            /\ task'[r] = task[r] /\ changes'[r] = changes[r]
            /\ retry'[r] = retry[r]
  BY <1>2, <1>6, Refreshing
<1>8. TypeFlags'
  BY <1>1, <1>2, <1>7 DEF Types, TypeFlags
<1>9. \A r \in Replicas \ {i} : Local(r)' = Local(r)
  BY <1>1, <1>7 DEF Local
<1>10. task[i].target \in Nat /\ handled[i] \in Nat /\ (published[i] # None => published[i].changes \in Nat)
  BY <1>2 DEF Types, TypeCounts, TypeTask, Tasks, TypePublished, Lists
<1>11. ConnShape(i)'
  BY <1>1, <1>2, <1>7, <1>10 DEF Shape, ConnShape, Connected
<1>12. QueueShape(queue[i])' /\ QueueFits(i)'
  BY <1>1, <1>2 DEF Shape, QueueShape, QueueFits
<1> QED
  BY <1>4, <1>5, <1>7, <1>8, <1>9, <1>11, <1>12, JoinShape DEF Shapes, Types, Shape

LEMMA AttachStep ==
    ASSUME Shapes, NEW i \in Replicas, Attach(i) \/ FirstListFails(i)
    PROVE  Shapes'
<1>1. UNCHANGED <<version, redis, conn, first, note, queue, request>>
  BY DEF Attach, FirstListFails
<1>2. Types /\ Shape(i) /\ changes[i] \in Nat
  BY DEF Shapes, Types, TypeCounts
<1>3. Connected(i)
  BY <1>2 DEF Attach, FirstListFails, Shape, ConnShape, Connected
<1>4. TypeCatalog' /\ TypeQueue' /\ TypeRequest'
  BY <1>1, <1>2 DEF Types, TypeCatalog, TypeQueue, TypeRequest, redis
<1>5. \E n : /\ load' = [load EXCEPT ![i] = n]
             /\ n \in {"no", "fetch", "refresh"}
             /\ n = "fetch" => queue[i] = Empty
  BY <1>2 DEF Attach, FirstListFails, Shape, QueueFits
<1>6. /\ TypeSession' /\ load'[i] \in {"no", "fetch", "refresh"}
      /\ load'[i] = "fetch" => queue[i] = Empty
      /\ \A r \in Replicas \ {i} : load'[r] = load[r]
  BY <1>1, <1>2, <1>5 DEF Types, TypeSession
<1>7. /\ moved' \in [Replicas -> BOOLEAN]
      /\ \A r \in Replicas \ {i} : moved'[r] = moved[r]
  BY <1>2 DEF Attach, FirstListFails, Types, TypeFlags
<1>8. QueueShape(queue[i])' /\ QueueFits(i)'
  BY <1>1, <1>2, <1>3, <1>6 DEF Shape, QueueShape, QueueFits, Connected
<1>9. CASE RefreshToolList(i, conn[i] = "up") /\ knows' = [knows EXCEPT ![i] = conn[i] = "up"]
  <2>1. /\ TypeCounts' /\ TypeTask' /\ TypePublished'
        /\ retry' \in [Replicas -> BOOLEAN]
        /\ changes'[i] = changes[i] + 1
        /\ task'[i].target \in {task[i].target, changes[i] + 1}
        /\ conn[i] = "up" => task'[i].pc # "idle"
        /\ conn[i] # "up" => task'[i] = task[i]
        /\ UNCHANGED <<epoch, handled, published>>
        /\ \A r \in Replicas \ {i} :
              /\ task'[r] = task[r] /\ changes'[r] = changes[r]
              /\ retry'[r] = retry[r]
    BY <1>2, <1>9, Refreshing
  <2>2. /\ knows' \in [Replicas -> BOOLEAN] /\ knows'[i] = (conn[i] = "up")
        /\ \A r \in Replicas \ {i} : knows'[r] = knows[r]
    BY <1>2, <1>9 DEF Types, TypeFlags
  <2>3. TypeFlags'
    BY <1>7, <2>1, <2>2 DEF TypeFlags
  <2>4. \A r \in Replicas \ {i} : Local(r)' = Local(r)
    BY <1>1, <1>6, <1>7, <2>1, <2>2 DEF Local
  <2>5. task[i].target \in Nat /\ handled[i] \in Nat /\ (published[i] # None => published[i].changes \in Nat)
    BY <1>2 DEF Types, TypeCounts, TypeTask, Tasks, TypePublished, Lists
  <2>6. ConnShape(i)'
    BY <1>1, <1>2, <1>3, <1>6, <2>1, <2>2, <2>5 DEF Shape, ConnShape, Connected
  <2> QED
    BY <1>4, <1>6, <1>8, <2>1, <2>3, <2>4, <2>6, JoinShape DEF Shapes, Types, Shape
<1>10. CASE UNCHANGED <<refresh, knows>>
  <2>1. TypeCounts' /\ TypeTask' /\ TypePublished'
    BY <1>2, <1>10 DEF Types, TypeCounts, TypeTask, TypePublished, refresh
  <2>2. TypeFlags'
    BY <1>2, <1>7, <1>10 DEF Types, TypeFlags, refresh
  <2>3. \A r \in Replicas \ {i} : Local(r)' = Local(r)
    BY <1>1, <1>6, <1>7, <1>10 DEF Local, refresh
  <2>4. ConnShape(i)'
    BY <1>1, <1>2, <1>3, <1>6, <1>10 DEF Shape, ConnShape, Connected, refresh
  <2> QED
    BY <1>4, <1>6, <1>8, <2>1, <2>2, <2>3, <2>4, JoinShape DEF Shapes, Types, Shape
<1> QED
  BY <1>9, <1>10 DEF Attach, FirstListFails

LEMMA DropStep ==
    ASSUME Shapes, NEW i \in Replicas, Drop(i)
    PROVE  Shapes'
<1>1. UNCHANGED <<version, redis, load, first, moved, changes, handled, task, queue,
                  request>>
  BY DEF Drop
<1>2. Types /\ Shape(i)
  BY DEF Shapes
<1>3. /\ conn' \in [Replicas -> {"boot", "none", "up", "down", "closing", "draining"}]
      /\ conn[i] = "up" /\ conn'[i] = "down"
      /\ \A r \in Replicas \ {i} : conn'[r] = conn[r]
  BY <1>2 DEF Drop, Types, TypeSession
<1>4. /\ retry' \in [Replicas -> BOOLEAN] /\ knows' \in [Replicas -> BOOLEAN]
      /\ knows'[i] = FALSE
      /\ \A r \in Replicas \ {i} : retry'[r] = retry[r] /\ knows'[r] = knows[r]
  BY <1>2 DEF Drop, Types, TypeFlags
<1>5. /\ TypePublished' /\ published'[i] = None
      /\ \A r \in Replicas \ {i} : published'[r] = published[r]
  BY <1>2 DEF Drop, Types, TypePublished
<1>6. note' \in [Replicas -> Nat] /\ epoch' \in [Replicas -> Nat]
  BY <1>2 DEF Drop, Types, TypeSession, TypeCounts
<1>7. TypeSession' /\ TypeFlags' /\ TypeCatalog'
  BY <1>1, <1>2, <1>3, <1>4, <1>6 DEF Types, TypeSession, TypeFlags, TypeCatalog, redis
<1>8. TypeCounts' /\ TypeTask' /\ TypeQueue' /\ TypeRequest'
  BY <1>1, <1>2, <1>6 DEF Types, TypeCounts, TypeTask, TypeQueue, TypeRequest
<1>9. \A r \in Replicas \ {i} : Local(r)' = Local(r)
  BY <1>1, <1>3, <1>4, <1>5 DEF Local
<1>10. ConnShape(i)'
  BY <1>1, <1>2, <1>3, <1>4, <1>5 DEF Shape, ConnShape, Connected
<1>11. QueueShape(queue[i])' /\ QueueFits(i)'
  BY <1>1, <1>2, <1>3 DEF Shape, QueueShape, QueueFits
<1> QED
  BY <1>5, <1>7, <1>8, <1>9, <1>10, <1>11, JoinShape DEF Shapes, Types, Shape

LEMMA ReconnectStep ==
    ASSUME Shapes, NEW i \in Replicas, Reconnect(i)
    PROVE  Shapes'
<1>1. UNCHANGED <<version, redis, load, first, moved, note, queue, request, epoch,
                  handled, retry, published>>
  BY DEF Reconnect
<1>2. Types /\ Shape(i) /\ changes[i] \in Nat /\ task[i] \in Tasks
  BY DEF Shapes, Types, TypeCounts, TypeTask
<1>3. /\ conn' \in [Replicas -> {"boot", "none", "up", "down", "closing", "draining"}]
      /\ conn[i] = "down" /\ conn'[i] = "up"
      /\ \A r \in Replicas \ {i} : conn'[r] = conn[r]
  BY <1>2 DEF Reconnect, Types, TypeSession
<1>4. /\ knows' \in [Replicas -> BOOLEAN]
      /\ knows'[i] = (load[i] \notin {"attach", "start"})
      /\ \A r \in Replicas \ {i} : knows'[r] = knows[r]
  BY <1>2 DEF Reconnect, Types, TypeFlags
<1>5. /\ TypeCounts' /\ changes'[i] = changes[i] + 1
      /\ \A r \in Replicas \ {i} : changes'[r] = changes[r]
  BY <1>1, <1>2 DEF Reconnect, Types, TypeCounts
<1> DEFINE t == StartIf(i, TRUE, task[i], changes[i] + 1)
<1>6. task' = [task EXCEPT ![i] = t]
  BY DEF Reconnect
<1>7. t \in Tasks
  <2>1. changes[i] + 1 \in Nat
    BY <1>2
  <2> QED
    BY <1>2, <1>5, <2>1, StartIfType
<1>8. t.target \in {task[i].target, changes[i] + 1} /\ t.pc # "idle"
  <2>1. changes[i] + 1 \in Nat
    BY <1>2
  <2> QED
    BY <1>2, <2>1 DEF StartIf, Started
<1> HIDE DEF t
<1>9. TypeTask' /\ task'[i] = t /\ \A r \in Replicas \ {i} : task'[r] = task[r]
  BY <1>2, <1>6, <1>7 DEF Types, TypeTask
<1>10. TypeSession' /\ TypeFlags' /\ TypeCatalog'
  BY <1>1, <1>2, <1>3, <1>4 DEF Types, TypeSession, TypeFlags, TypeCatalog, redis
<1>11. TypePublished' /\ TypeQueue' /\ TypeRequest'
  BY <1>1, <1>2 DEF Types, TypePublished, TypeQueue, TypeRequest
<1>12. \A r \in Replicas \ {i} : Local(r)' = Local(r)
  BY <1>1, <1>3, <1>4, <1>5, <1>9 DEF Local
<1>13. ConnShape(i)'
  <2>1. task[i].target \in Nat /\ handled[i] \in Nat /\ published[i] = None
    BY <1>2, <1>3 DEF Tasks, Shape, ConnShape, Types, TypeCounts
  <2> QED
    BY <1>1, <1>2, <1>3, <1>4, <1>5, <1>8, <1>9, <2>1 DEF Shape, ConnShape, Connected
<1>14. QueueShape(queue[i])' /\ QueueFits(i)'
  BY <1>1, <1>2, <1>3 DEF Shape, QueueShape, QueueFits
<1> QED
  BY <1>5, <1>9, <1>10, <1>11, <1>12, <1>13, <1>14, JoinShape DEF Shapes, Types, Shape

LEMMA OpenSteps ==
    ASSUME Shapes, NEW i \in Replicas, Start(i) \/ Load(i)
    PROVE  Shapes'
<1>1. UNCHANGED Others /\ UNCHANGED counter
  BY DEF Start, Load, redis
<1>2. Types /\ Shape(i) /\ conn[i] \in {"boot", "none"}
  BY DEF Shapes, Start, Load
<1>3. TypeCatalog'
  <2>1. CASE UNCHANGED entry
    BY <1>1, <1>2, <2>1 DEF Types, TypeCatalog, Others
  <2>2. CASE \E v \in 0..version : Write([rev |-> 0, tools |-> v, by |-> i])
    <3>1. PICK v \in 0..version : Write([rev |-> 0, tools |-> v, by |-> i])
      BY <2>2
    <3>2. [rev |-> 0, tools |-> v, by |-> i] \in Events
      BY <1>2 DEF Types, TypeCatalog, Events
    <3> QED
      BY <1>1, <1>2, <3>1, <3>2, WriteType DEF Types, TypeCatalog, Others
  <2> QED
    BY <2>1, <2>2 DEF Start, Load, redis
<1>4. /\ TypeSession'
      /\ \/ conn'[i] = "up" /\ load'[i] \in {"start", "attach"}
         \/ conn'[i] = "none" /\ load'[i] = load[i]
      /\ \A r \in Replicas \ {i} : conn'[r] = conn[r] /\ load'[r] = load[r]
  BY <1>1, <1>2 DEF Start, Load, Open, Types, TypeSession, Others
<1>5. TypeFlags' /\ TypeCounts' /\ TypeTask'
  BY <1>1, <1>2 DEF Types, TypeFlags, TypeCounts, TypeTask, Others, refresh
<1>6. TypePublished' /\ TypeQueue' /\ TypeRequest'
  BY <1>1, <1>2 DEF Types, TypePublished, TypeQueue, TypeRequest, Others, refresh
<1>7. \A r \in Replicas \ {i} : Local(r)' = Local(r)
  BY <1>1, <1>4 DEF Local, Others, refresh
<1>8. changes[i] \in Nat
  BY <1>2 DEF Types, TypeCounts
<1>9. ConnShape(i)'
  BY <1>1, <1>2, <1>4, <1>8 DEF Shape, ConnShape, Connected, Others, refresh
<1>10. QueueShape(queue[i])' /\ QueueFits(i)'
  BY <1>1, <1>2, <1>4, EmptyShape DEF Shape, ConnShape, Connected, QueueFits, Others
<1> QED
  BY <1>3, <1>4, <1>5, <1>6, <1>7, <1>9, <1>10, JoinShape DEF Shapes, Types, Shape

LEMMA CreatorSteps ==
    ASSUME Shapes, NEW i \in Replicas, FirstList(i) \/ Loaded(i)
    PROVE  Shapes'
<1>1. UNCHANGED <<version, redis, conn, moved, note, refresh, queue, request, knows>>
  BY DEF FirstList, Loaded
<1>2. Types /\ Shape(i)
  BY DEF Shapes
<1>3. /\ load' \in [Replicas -> {"no", "attach", "start", "fetch", "listed", "publish",
                                  "refresh"}]
      /\ \/ load[i] = "fetch" /\ load'[i] = "listed"
         \/ load'[i] = "no" /\ load[i] \notin {"attach", "start"}
      /\ \A r \in Replicas \ {i} : load'[r] = load[r]
  BY <1>2 DEF FirstList, Loaded, Types, TypeSession
<1>4. first' \in [Replicas -> Nat]
  BY <1>2 DEF FirstList, Loaded, Types, TypeSession, TypeCatalog
<1>5. TypeSession' /\ TypeCatalog'
  BY <1>1, <1>2, <1>3, <1>4 DEF Types, TypeSession, TypeCatalog, redis
<1>6. TypeFlags' /\ TypeCounts' /\ TypeTask'
  BY <1>1, <1>2 DEF Types, TypeFlags, TypeCounts, TypeTask, refresh
<1>7. TypePublished' /\ TypeQueue' /\ TypeRequest'
  BY <1>1, <1>2 DEF Types, TypePublished, TypeQueue, TypeRequest, refresh
<1>8. \A r \in Replicas \ {i} : Local(r)' = Local(r)
  BY <1>1, <1>3 DEF Local, refresh
<1>9. ConnShape(i)'
  BY <1>1, <1>2, <1>3 DEF Shape, ConnShape, Connected, refresh
<1>10. QueueShape(queue[i])' /\ QueueFits(i)'
  BY <1>1, <1>2, <1>3 DEF Shape, QueueShape, QueueFits
<1> QED
  BY <1>5, <1>6, <1>7, <1>8, <1>9, <1>10, JoinShape DEF Shapes, Types, Shape

LEMMA PublishFirstStep ==
    ASSUME Shapes, NEW i \in Replicas, PublishFirst(i)
    PROVE  Shapes'
<1>1. UNCHANGED <<version, redis, conn, note, refresh, request, knows>>
  BY DEF PublishFirst
<1>2. Types /\ Shape(i) /\ first[i] \in Nat /\ queue[i] \in Queues
  BY DEF Shapes, Types, TypeSession, TypeQueue
<1>3. /\ load' \in [Replicas -> {"no", "attach", "start", "fetch", "listed", "publish",
                                  "refresh"}]
      /\ load[i] = "listed" /\ load'[i] = "publish"
      /\ \A r \in Replicas \ {i} : load'[r] = load[r]
  BY <1>2 DEF PublishFirst, Types, TypeSession
<1>4. first' \in [Replicas -> Nat]
  BY <1>2 DEF PublishFirst, Types, TypeSession
<1>5. /\ moved' \in [Replicas -> BOOLEAN]
      /\ \A r \in Replicas \ {i} : moved'[r] = moved[r]
  BY <1>2 DEF PublishFirst, Types, TypeFlags
<1>6. TypeSession' /\ TypeCatalog'
  BY <1>1, <1>2, <1>3, <1>4 DEF Types, TypeSession, TypeCatalog, redis
<1>7. TypeCounts' /\ TypeTask' /\ TypePublished' /\ TypeRequest'
  BY <1>1, <1>2 DEF Types, TypeCounts, TypeTask, TypePublished, TypeRequest, refresh
<1>8. TypeFlags'
  BY <1>1, <1>2, <1>5 DEF Types, TypeFlags, refresh
<1>9. /\ TypeQueue' /\ QueueShape(queue'[i])
      /\ \A r \in Replicas \ {i} : queue'[r] = queue[r]
  <2> DEFINE e == [rev |-> 0, tools |-> first[i], by |-> i]
             n == Notified(queue[i], e)
  <2>1. CASE moved[i]
    <3>1. queue' = queue
      BY <2>1 DEF PublishFirst
    <3> QED
      BY <1>2, <3>1 DEF Types, TypeQueue, Shape
  <2>2. CASE ~moved[i]
    <3>1. queue' = [queue EXCEPT ![i] = n]
      BY <2>2 DEF PublishFirst
    <3>2. e \in Events
      BY <1>2 DEF Events
    <3>3. n \in Queues /\ QueueShape(n)
      BY <1>2, <3>2, NotifiedType, NotifiedShape DEF Shape
    <3> HIDE DEF n
    <3> QED
      BY <1>2, <3>1, <3>3 DEF Types, TypeQueue
  <2> QED
    BY <2>1, <2>2
<1>10. \A r \in Replicas \ {i} : Local(r)' = Local(r)
  BY <1>1, <1>3, <1>5, <1>9 DEF Local, refresh
<1>11. ConnShape(i)'
  BY <1>1, <1>2, <1>3 DEF Shape, ConnShape, Connected, refresh
<1>12. QueueFits(i)'
  BY <1>1, <1>2, <1>3 DEF Shape, ConnShape, Connected, QueueFits
<1> QED
  BY <1>6, <1>7, <1>8, <1>9, <1>10, <1>11, <1>12, JoinShape DEF Shapes, Types, Shape

LEMMA Forgetting ==
    ASSUME Types, NEW i \in Replicas, Forget(i)
    PROVE  /\ note' \in [Replicas -> Nat] /\ TypeCounts' /\ TypeTask' /\ TypePublished'
           /\ retry' \in [Replicas -> BOOLEAN] /\ knows' \in [Replicas -> BOOLEAN]
           /\ changes'[i] = 0 /\ handled'[i] = 0 /\ ~knows'[i]
           /\ task'[i] = Idle /\ published'[i] = None
           /\ \A r \in Replicas \ {i} :
                 /\ changes'[r] = changes[r] /\ handled'[r] = handled[r]
                 /\ retry'[r] = retry[r] /\ task'[r] = task[r]
                 /\ published'[r] = published[r] /\ knows'[r] = knows[r]
<1> USE DEF Forget, Types
<1>1. note' \in [Replicas -> Nat] /\ TypeCounts'
  BY DEF TypeSession, TypeCounts
<1>2. TypeTask' /\ TypePublished'
  BY EmptyType DEF TypeTask, TypePublished
<1>3. retry' \in [Replicas -> BOOLEAN] /\ knows' \in [Replicas -> BOOLEAN]
  BY DEF TypeFlags
<1>4. changes'[i] = 0 /\ handled'[i] = 0
  BY DEF TypeCounts
<1>5. ~knows'[i] /\ task'[i] = Idle /\ published'[i] = None
  BY DEF TypeFlags, TypeTask, TypePublished
<1>6. ASSUME NEW r \in Replicas \ {i}
      PROVE  /\ changes'[r] = changes[r] /\ handled'[r] = handled[r]
             /\ task'[r] = task[r] /\ published'[r] = published[r]
  BY DEF TypeCounts, TypeTask, TypePublished
<1>7. ASSUME NEW r \in Replicas \ {i}
      PROVE  retry'[r] = retry[r] /\ knows'[r] = knows[r]
  BY DEF TypeFlags
<1> QED
  BY <1>1, <1>2, <1>3, <1>4, <1>5, <1>6, <1>7

LEMMA ForgottenShape ==
    ASSUME NEW i \in Replicas, changes'[i] = 0, handled'[i] = 0, ~knows'[i],
           task'[i] = Idle, published'[i] = None, load'[i] = "no"
    PROVE  ConnShape(i)'
BY DEF ConnShape, Connected, Idle

LEMMA DisposeStep ==
    ASSUME Shapes, NEW i \in Replicas, Dispose(i)
    PROVE  Shapes'
<1>1. UNCHANGED <<version, redis, load, first, moved, queue>> /\ Forget(i)
  BY DEF Dispose
<1>2. Types /\ Shape(i)
  BY DEF Shapes
<1>3. /\ note' \in [Replicas -> Nat] /\ TypeCounts' /\ TypeTask' /\ TypePublished'
      /\ retry' \in [Replicas -> BOOLEAN] /\ knows' \in [Replicas -> BOOLEAN]
      /\ changes'[i] = 0 /\ handled'[i] = 0 /\ ~knows'[i]
      /\ task'[i] = Idle /\ published'[i] = None
      /\ \A r \in Replicas \ {i} :
            /\ changes'[r] = changes[r] /\ handled'[r] = handled[r]
            /\ retry'[r] = retry[r] /\ task'[r] = task[r]
            /\ published'[r] = published[r] /\ knows'[r] = knows[r]
  BY <1>1, <1>2, Forgetting
<1>4. /\ conn' \in [Replicas -> {"boot", "none", "up", "down", "closing", "draining"}]
      /\ load[i] = "no" /\ conn'[i] = "closing"
      /\ \A r \in Replicas \ {i} : conn'[r] = conn[r]
  BY <1>2 DEF Dispose, Types, TypeSession
<1>5. TypeRequest'
  BY <1>2, EmptyType DEF Dispose, Types, TypeRequest
<1>6. TypeSession' /\ TypeFlags' /\ TypeCatalog' /\ TypeQueue'
  BY <1>1, <1>2, <1>3, <1>4 DEF Types, TypeSession, TypeFlags, TypeCatalog, TypeQueue,
                                redis
<1>7. \A r \in Replicas \ {i} : Local(r)' = Local(r)
  BY <1>1, <1>3, <1>4 DEF Local
<1>8. ConnShape(i)'
  BY <1>1, <1>3, <1>4, ForgottenShape
<1>9. QueueShape(queue[i])' /\ QueueFits(i)'
  BY <1>1, <1>2, <1>4 DEF Shape, QueueShape, QueueFits
<1> QED
  BY <1>3, <1>5, <1>6, <1>7, <1>8, <1>9, JoinShape DEF Shapes, Types, Shape

LEMMA CrashStep ==
    ASSUME Shapes, NEW i \in Replicas, Crash(i)
    PROVE  Shapes'
<1>1. UNCHANGED <<version, redis>> /\ Forget(i)
  BY DEF Crash
<1>2. Types /\ Shape(i)
  BY DEF Shapes
<1>3. /\ note' \in [Replicas -> Nat] /\ TypeCounts' /\ TypeTask' /\ TypePublished'
      /\ retry' \in [Replicas -> BOOLEAN] /\ knows' \in [Replicas -> BOOLEAN]
      /\ changes'[i] = 0 /\ handled'[i] = 0 /\ ~knows'[i]
      /\ task'[i] = Idle /\ published'[i] = None
      /\ \A r \in Replicas \ {i} :
            /\ changes'[r] = changes[r] /\ handled'[r] = handled[r]
            /\ retry'[r] = retry[r] /\ task'[r] = task[r]
            /\ published'[r] = published[r] /\ knows'[r] = knows[r]
  BY <1>1, <1>2, Forgetting
<1>4. /\ conn' \in [Replicas -> {"boot", "none", "up", "down", "closing", "draining"}]
      /\ load' \in [Replicas -> {"no", "attach", "start", "fetch", "listed", "publish",
                                  "refresh"}]
      /\ first' \in [Replicas -> Nat]
      /\ load'[i] = "no" /\ conn'[i] = "boot"
      /\ \A r \in Replicas \ {i} : conn'[r] = conn[r] /\ load'[r] = load[r]
  BY <1>2 DEF Crash, Types, TypeSession
<1>5. /\ moved' \in [Replicas -> BOOLEAN]
      /\ \A r \in Replicas \ {i} : moved'[r] = moved[r]
  BY <1>2 DEF Crash, Types, TypeFlags
<1>6. /\ TypeQueue' /\ TypeRequest' /\ queue'[i] = Empty
      /\ \A r \in Replicas \ {i} : queue'[r] = queue[r]
  BY <1>2, EmptyType DEF Crash, Types, TypeQueue, TypeRequest
<1>7. TypeSession' /\ TypeFlags' /\ TypeCatalog'
  BY <1>1, <1>2, <1>3, <1>4, <1>5 DEF Types, TypeSession, TypeFlags, TypeCatalog, redis
<1>8. \A r \in Replicas \ {i} : Local(r)' = Local(r)
  BY <1>3, <1>4, <1>5, <1>6 DEF Local
<1>9. ConnShape(i)'
  BY <1>3, <1>4, ForgottenShape
<1>10. QueueShape(queue[i])' /\ QueueFits(i)'
  BY <1>4, <1>6, EmptyShape DEF QueueFits
<1> QED
  BY <1>3, <1>6, <1>7, <1>8, <1>9, <1>10, JoinShape DEF Shapes, Types, Shape

LEMMA CloseSteps ==
    ASSUME Shapes, NEW i \in Replicas, Cancel(i) \/ Drained(i)
    PROVE  Shapes'
<1>1. UNCHANGED <<version, redis, load, first, moved, note, refresh, request, knows>>
  BY DEF Cancel, Drained
<1>2. Types /\ Shape(i) /\ queue[i] \in Queues
  BY DEF Shapes, Types, TypeQueue
<1>3. /\ conn' \in [Replicas -> {"boot", "none", "up", "down", "closing", "draining"}]
      /\ \/ conn[i] = "closing" /\ conn'[i] = "draining"
         \/ conn[i] = "draining" /\ conn'[i] = "none"
      /\ \A r \in Replicas \ {i} : conn'[r] = conn[r]
  BY <1>2 DEF Cancel, Drained, Types, TypeSession
<1>4. /\ TypeQueue' /\ QueueShape(queue'[i]) /\ QueueFits(i)'
      /\ \A r \in Replicas \ {i} : queue'[r] = queue[r]
  <2>1. load'[i] = "no"
    BY <1>1, <1>2, <1>3 DEF Shape, ConnShape, Connected
  <2>2. CASE Cancel(i)
    <3> DEFINE n == [queue[i] EXCEPT !.latest = None, !.newer = FALSE, !.timer = FALSE]
    <3>1. n \in Queues
      BY <1>2 DEF Queues
    <3>2. /\ n.stage = queue[i].stage /\ n.work = queue[i].work
          /\ n.latest = None /\ n.newer = FALSE /\ n.timer = FALSE
      BY <1>2 DEF Queues
    <3>3. queue' = [queue EXCEPT ![i] = n]
      BY <2>2 DEF Cancel
    <3> HIDE DEF n
    <3>4. QueueShape(n)
      BY <1>2, <3>2 DEF Shape, QueueShape
    <3>5. /\ TypeQueue' /\ queue'[i] = n
          /\ \A r \in Replicas \ {i} : queue'[r] = queue[r]
      BY <1>2, <3>1, <3>3 DEF Types, TypeQueue
    <3>6. conn'[i] = "draining"
      BY <1>2, <2>2 DEF Cancel, Types, TypeSession
    <3>7. QueueFits(i)'
      BY <2>1, <3>2, <3>5, <3>6 DEF QueueFits
    <3> QED
      BY <3>4, <3>5, <3>7
  <2>3. CASE Drained(i)
    <3>1. queue' = queue /\ queue[i].stage = "idle" /\ conn[i] = "draining"
      BY <2>3 DEF Drained
    <3>2. queue[i] = Empty
      BY <1>2, <3>1 DEF Shape, QueueShape, QueueFits, Queues, Empty
    <3> QED
      BY <1>2, <2>1, <3>1, <3>2, EmptyShape DEF QueueFits, Empty, Types, TypeQueue
  <2> QED
    BY <2>2, <2>3
<1>5. TypeSession' /\ TypeFlags' /\ TypeCatalog'
  BY <1>1, <1>2, <1>3 DEF Types, TypeSession, TypeFlags, TypeCatalog, redis, refresh
<1>6. TypeCounts' /\ TypeTask' /\ TypePublished' /\ TypeRequest'
  BY <1>1, <1>2 DEF Types, TypeCounts, TypeTask, TypePublished, TypeRequest, refresh
<1>7. \A r \in Replicas \ {i} : Local(r)' = Local(r)
  BY <1>1, <1>3, <1>4 DEF Local, refresh
<1>8. ConnShape(i)'
  BY <1>1, <1>2, <1>3 DEF Shape, ConnShape, Connected, refresh
<1> QED
  BY <1>4, <1>5, <1>6, <1>7, <1>8, JoinShape DEF Shapes, Types, Shape

LEMMA ChangeStep ==
    ASSUME Shapes, Change
    PROVE  Shapes'
<1>1. UNCHANGED <<redis, conn, load, first, moved, refresh, queue, request>>
  BY DEF Change
<1>2. Types
  BY DEF Shapes
<1>3. note' \in [Replicas -> Nat] /\ version' \in Nat
  BY <1>2 DEF Change, Types, TypeSession, TypeCatalog
<1>4. knows' \in [Replicas -> BOOLEAN] /\ \A r \in Replicas : knows'[r] <=> Attached(r)
  BY DEF Change, Attached
<1>5. TypeSession' /\ TypeFlags' /\ TypeCatalog'
  BY <1>1, <1>2, <1>3, <1>4 DEF Types, TypeSession, TypeFlags, TypeCatalog, redis, refresh
<1>6. TypeCounts' /\ TypeTask' /\ TypePublished'
  BY <1>1, <1>2 DEF Types, TypeCounts, TypeTask, TypePublished, refresh
<1>7. TypeQueue' /\ TypeRequest'
  BY <1>1, <1>2 DEF Types, TypeQueue, TypeRequest
<1>8. ASSUME NEW r \in Replicas
      PROVE  Shape(r)'
  <2>1. Shape(r)
    BY DEF Shapes
  <2>2. ConnShape(r)'
    BY <1>1, <1>4, <2>1 DEF Shape, ConnShape, Connected, Attached, refresh
  <2>3. QueueShape(queue[r])' /\ QueueFits(r)'
    BY <1>1, <2>1 DEF Shape, QueueShape, QueueFits
  <2> QED
    BY <2>2, <2>3 DEF Shape
<1> QED
  BY <1>5, <1>6, <1>7, <1>8 DEF Shapes, Types

LEMMA QuietSteps ==
    ASSUME Shapes, Lapse \/ UNCHANGED vars
    PROVE  Shapes'
<1>1. UNCHANGED <<version, session, refresh, queue, request, knows>>
  BY DEF Lapse, vars
<1>2. Types
  BY DEF Shapes
<1>3. TypeCatalog'
  BY <1>1, <1>2 DEF Lapse, vars, redis, Types, TypeCatalog
<1>4. TypeSession' /\ TypeFlags'
  BY <1>1, <1>2 DEF Types, TypeSession, TypeFlags, session, refresh
<1>5. TypeCounts' /\ TypeTask' /\ TypePublished' /\ TypeQueue' /\ TypeRequest'
  BY <1>1, <1>2 DEF Types, TypeCounts, TypeTask, TypePublished, TypeQueue, TypeRequest,
                    refresh
<1>6. \A r \in Replicas : Shape(r)'
  BY <1>1, AllSame DEF Shapes, Connection, session, refresh
<1> QED
  BY <1>3, <1>4, <1>5, <1>6 DEF Shapes, Types

LEMMA InitShapes == Init => Shapes
<1> SUFFICES ASSUME Init PROVE Shapes
  OBVIOUS
<1> USE DEF Init
<1>1. TypeCatalog /\ TypeSession /\ TypeFlags /\ TypeCounts
  BY DEF TypeCatalog, TypeSession, TypeFlags, TypeCounts
<1>2. TypeTask /\ TypePublished /\ TypeQueue /\ TypeRequest
  BY EmptyType DEF TypeTask, TypePublished, TypeQueue, TypeRequest
<1>3. ASSUME NEW r \in Replicas
      PROVE  Shape(r)
  <2>1. /\ conn[r] = "boot" /\ load[r] = "no" /\ queue[r] = Empty /\ task[r] = Idle
        /\ changes[r] = 0 /\ handled[r] = 0 /\ published[r] = None /\ knows[r] = FALSE
    OBVIOUS
  <2> HIDE DEF Init
  <2>2. ConnShape(r)
    BY <2>1 DEF ConnShape, Connected, Idle
  <2>3. QueueShape(queue[r]) /\ QueueFits(r)
    BY <2>1, EmptyShape DEF QueueFits
  <2> QED
    BY <2>2, <2>3 DEF Shape
<1> QED
  BY <1>1, <1>2, <1>3 DEF Shapes, Types

LEMMA NextShapes == Shapes /\ [Next]_vars => Shapes'
<1> SUFFICES ASSUME Shapes, [Next]_vars PROVE Shapes'
  OBVIOUS
<1>1. CASE Change
  BY <1>1, ChangeStep
<1>2. CASE Lapse \/ UNCHANGED vars
  BY <1>2, QuietSteps
<1>3. ASSUME NEW i \in Replicas,
             \/ ReadSlot(i) \/ Mint(i) \/ Publish(i) \/ PublishFails(i)
             \/ RetryPublish(i)
      PROVE  Shapes'
  BY <1>3, QueueSteps
<1>4. ASSUME NEW i \in Replicas,
             \/ Reserve(i) \/ List(i) \/ Listed(i) \/ RefreshFails(i) \/ RetryRefresh(i)
      PROVE  Shapes'
  BY <1>4, ReserveStep, ListStep, ListedStep, RefreshFailsStep, RetryRefreshStep
<1>5. ASSUME NEW i \in Replicas,
             \/ Notification(i) \/ Drop(i) \/ Reconnect(i)
             \/ Start(i) \/ Load(i) \/ Attach(i) \/ FirstListFails(i)
      PROVE  Shapes'
  BY <1>5, NotificationStep, DropStep, ReconnectStep, OpenSteps, AttachStep
<1>6. ASSUME NEW i \in Replicas,
             \/ FirstList(i) \/ PublishFirst(i) \/ Loaded(i)
             \/ Dispose(i) \/ Cancel(i) \/ Drained(i) \/ Crash(i)
      PROVE  Shapes'
  BY <1>6, CreatorSteps, PublishFirstStep, DisposeStep, CloseSteps, CrashStep
<1>7. ASSUME NEW i \in Replicas,
             Ask(i) \/ AskList(i) \/ Snapshot(i) \/ AskFails(i) \/ AskWrite(i)
      PROVE  Shapes'
  BY <1>7, AskSteps, SnapshotStep
<1> QED
  BY <1>1, <1>2, <1>3, <1>4, <1>5, <1>6, <1>7 DEF Next

LEMMA SpentStep == spent \in 0..MaxEvents /\ [Next]_vars => spent' \in 0..MaxEvents
<1> SUFFICES ASSUME spent \in 0..MaxEvents, [Next]_vars PROVE spent' \in 0..MaxEvents
  OBVIOUS
<1>1. Change \/ Lapse \/ UNCHANGED vars => spent' = spent \/ Bounded
  BY DEF Change, Lapse, Bounded, vars
<1>2. ASSUME NEW i \in Replicas,
             \/ ReadSlot(i) \/ Mint(i) \/ Publish(i) \/ PublishFails(i)
             \/ RetryPublish(i)
      PROVE  spent' = spent \/ Bounded
  BY <1>2 DEF ReadSlot, Mint, Publish, PublishFails, RetryPublish
<1>3. ASSUME NEW i \in Replicas,
             \/ Reserve(i) \/ List(i) \/ Listed(i) \/ RefreshFails(i) \/ RetryRefresh(i)
      PROVE  spent' = spent \/ Bounded
  BY <1>3 DEF Reserve, List, Listed, RefreshFails, RetryRefresh
<1>4. ASSUME NEW i \in Replicas,
             \/ Notification(i) \/ Drop(i) \/ Reconnect(i)
             \/ Start(i) \/ Load(i) \/ Attach(i) \/ FirstListFails(i)
      PROVE  spent' = spent \/ Bounded
  BY <1>4 DEF Notification, Drop, Reconnect, Start, Load, Attach, FirstListFails
<1>5. ASSUME NEW i \in Replicas,
             \/ FirstList(i) \/ PublishFirst(i) \/ Loaded(i)
             \/ Dispose(i) \/ Cancel(i) \/ Drained(i) \/ Crash(i)
      PROVE  spent' = spent \/ Bounded
  BY <1>5 DEF FirstList, PublishFirst, Loaded, Dispose, Cancel, Drained, Crash
<1>6. ASSUME NEW i \in Replicas,
             Ask(i) \/ AskList(i) \/ Snapshot(i) \/ AskFails(i) \/ AskWrite(i)
      PROVE  spent' = spent \/ Bounded
  BY <1>6 DEF Ask, AskList, Snapshot, AskFails, AskWrite
<1>7. spent' = spent \/ Bounded
  BY <1>1, <1>2, <1>3, <1>4, <1>5, <1>6 DEF Next
<1> QED
  BY <1>7, CatalogAssumption DEF Bounded

\* A change of which a replica was told is listed, or is due to be, and an event that
\* is queued is published now or later (startToolListRefresh, startDispatch).
THEOREM Tracks == Spec => []KeepsTrack
<1>1. Init => Shapes /\ spent \in 0..MaxEvents
  BY InitShapes, CatalogAssumption DEF Init
<1>2. Shapes /\ spent \in 0..MaxEvents /\ [Next]_vars
      => (Shapes /\ spent \in 0..MaxEvents)'
  BY NextShapes, SpentStep
<1>3. Shapes /\ spent \in 0..MaxEvents => KeepsTrack
  <2> SUFFICES ASSUME Shapes, spent \in 0..MaxEvents
               PROVE  TypeOK /\ NothingForgotten
    BY DEF KeepsTrack
  <2>1. TypeOK
    BY TypesAreTypes DEF Shapes
  <2>2. NothingForgotten
    BY DEF Shapes, NothingForgotten, Shape, ConnShape, QueueShape, QueueFits
  <2> QED
    BY <2>1, <2>2
<1> QED
  BY <1>1, <1>2, <1>3, PTL DEF Spec

(***************************************************************************)
(* The order of the lists.  m is the last revision that was reserved when  *)
(* the list of the server last changed, and k the changes of which a       *)
(* replica had heard then: a list with a later revision, or of a later     *)
(* change, was asked for afterwards.                                       *)
(***************************************************************************)

Top == IF counter = 0 THEN Revision(entry) ELSE counter

Ordered(e) == e # None /\ e.by = None
Known(e) == e # None => e.rev <= Top /\ (e.by = None => e.rev > 0)
Shows(e, m) == Ordered(e) /\ e.rev > m => e.tools = version

MarkE(m) == m <= Top /\ Known(entry) /\ Shows(entry, m)

MarkQ(r, m) ==
    /\ Known(queue[r].work) /\ Shows(queue[r].work, m)
    /\ Known(queue[r].latest) /\ Shows(queue[r].latest, m)

MarkT(r, m, k) ==
    /\ task[r].pc \in {"fetch", "listed"} =>
          /\ 0 < task[r].rev /\ task[r].rev <= Top
          /\ task[r].target > k => task[r].rev > m
          /\ Ordered(queue[r].latest) => queue[r].latest.rev < task[r].rev
    /\ task[r].pc = "listed" /\ task[r].rev > m => task[r].tools = version

MarkA(r, m, k) ==
    /\ request[r].pc # "idle" => 0 < request[r].rev /\ request[r].rev <= Top
    /\ request[r].pc # "idle" /\ request[r].rev > m =>
          /\ conn[r] = "up" /\ (\/ request[r].pc = "await"
                                \/ request[r].pc \in {"fetch", "listed"} /\ ~Unmoved(r))
             => changes[r] > k
          /\ request[r].pc \in {"listed", "write"} => request[r].tools = version
    /\ Connected(r) \/ request[r].pc \in {"idle", "write"}

MarkP(r, k) ==
    /\ k <= changes[r]
    /\ published[r] # None /\ published[r].changes > k => published[r].tools = version

MarkK(r, m, k) ==
    knows[r] => \/ note[r] > 0
                \/ handled[r] < changes[r] /\ k < changes[r]
                \/ Ordered(queue[r].latest) /\ queue[r].latest.rev > m
                \/ Revision(entry) > m \/ m = 0

MarkR(r, m, k) == /\ MarkQ(r, m) /\ MarkT(r, m, k) /\ MarkA(r, m, k)
                  /\ MarkP(r, k) /\ MarkK(r, m, k)

Marked(m, c) == MarkE(m) /\ \A r \in Replicas : MarkR(r, m, c[r])

IsMarked == \E m \in Nat, c \in [Replicas -> Nat] : Marked(m, c)

\* The catalog goes on, and the server has not changed its list.
Advances(m) == /\ version' = version /\ Top \in Nat /\ Top' \in Nat /\ Top <= Top'
               /\ Revision(entry) \in Nat /\ Revision(entry)' \in Nat
               /\ Revision(entry) <= Revision(entry)' /\ MarkE(m)'

LEMMA KeepQ ==
    ASSUME NEW r \in Replicas, NEW m \in Nat, Advances(m), TypeQueue, MarkQ(r, m),
           queue'[r] = queue[r]
    PROVE  MarkQ(r, m)'
<1>1. /\ queue[r].work # None => queue[r].work.rev \in Nat
      /\ queue[r].latest # None => queue[r].latest.rev \in Nat
  BY DEF TypeQueue, Queues, Events
<1> QED
  BY <1>1 DEF Advances, MarkQ, Known, Shows, Ordered

LEMMA KeepT ==
    ASSUME NEW r \in Replicas, NEW m \in Nat, NEW k \in Nat, Advances(m), TypeTask,
           MarkT(r, m, k), queue'[r].latest = queue[r].latest, task'[r] = task[r]
    PROVE  MarkT(r, m, k)'
<1>1. task[r].rev \in Nat
  BY DEF TypeTask, Tasks
<1> QED
  BY <1>1 DEF Advances, MarkT, Ordered

LEMMA KeepA ==
    ASSUME NEW r \in Replicas, NEW m \in Nat, NEW k \in Nat, Advances(m), TypeRequest,
           MarkA(r, m, k), request'[r] = request[r], conn'[r] = conn[r],
           changes'[r] = changes[r], epoch'[r] = epoch[r]
    PROVE  MarkA(r, m, k)'
<1>1. request[r].rev \in Nat
  BY DEF TypeRequest, Asks
<1> QED
  BY <1>1 DEF Advances, MarkA, Unmoved, Connected

LEMMA KeepP ==
    ASSUME NEW r \in Replicas, NEW k \in Nat, version' = version, MarkP(r, k),
           changes'[r] = changes[r], published'[r] = published[r]
    PROVE  MarkP(r, k)'
BY DEF MarkP

LEMMA KeepK ==
    ASSUME NEW r \in Replicas, NEW m \in Nat, NEW k \in Nat, Advances(m), MarkK(r, m, k),
           knows'[r] = knows[r], note'[r] = note[r], handled'[r] = handled[r],
           changes'[r] = changes[r], queue'[r].latest = queue[r].latest
    PROVE  MarkK(r, m, k)'
BY DEF Advances, MarkK, Ordered

Whole(r) == <<conn[r], note[r], epoch[r], changes[r], handled[r], task[r], published[r],
              queue[r], request[r], knows[r]>>

LEMMA KeepR ==
    ASSUME NEW r \in Replicas, NEW m \in Nat, NEW k \in Nat, Advances(m), Types,
           MarkR(r, m, k), Whole(r)' = Whole(r)
    PROVE  MarkR(r, m, k)'
<1>1. MarkQ(r, m)'
  BY KeepQ DEF MarkR, Types, Whole
<1>2. MarkT(r, m, k)'
  BY KeepT DEF MarkR, Types, Whole
<1>3. MarkA(r, m, k)'
  BY KeepA DEF MarkR, Types, Whole
<1>4. MarkP(r, k)'
  BY KeepP DEF MarkR, Whole, Advances
<1>5. MarkK(r, m, k)'
  BY KeepK DEF MarkR, Whole
<1> QED
  BY <1>1, <1>2, <1>3, <1>4, <1>5 DEF MarkR

LEMMA JoinMarks ==
    ASSUME NEW i \in Replicas, NEW m \in Nat, NEW c \in [Replicas -> Nat], Types,
           Marked(m, c), Advances(m), NEW d \in [Replicas -> Nat],
           MarkR(i, m, d[i])',
           \A r \in Replicas \ {i} : d[r] = c[r] /\ Whole(r)' = Whole(r)
    PROVE  IsMarked'
<1>1. ASSUME NEW r \in Replicas
      PROVE  MarkR(r, m, d[r])'
  <2>1. CASE r # i
    <3>1. d[r] = c[r] /\ Whole(r)' = Whole(r) /\ d[r] \in Nat /\ MarkR(r, m, d[r])
      BY <2>1 DEF Marked
    <3> QED
      BY <3>1, KeepR
  <2> QED
    BY <2>1
<1>2. Marked(m, d)'
  BY <1>1 DEF Marked, Advances
<1> QED
  BY <1>2 DEF IsMarked

(***************************************************************************)
(* The catalog                                                             *)
(***************************************************************************)

LEMMA TopType ==
    ASSUME TypeCatalog
    PROVE  Top \in Nat /\ Revision(entry) \in Nat /\ Reserved = Top + 1
BY CatalogAssumption DEF TypeCatalog, Top, Revision, Events, Reserved

LEMMA RedisKept ==
    ASSUME TypeCatalog, NEW m \in Nat, MarkE(m), UNCHANGED <<version, redis>>
    PROVE  Advances(m) /\ Top' = Top
<1>1. Top' = Top /\ Revision(entry)' = Revision(entry)
  BY DEF Top, Revision, redis
<1>2. MarkE(m)'
  BY <1>1 DEF MarkE, Known, Shows, Ordered, redis
<1> QED
  BY <1>1, <1>2, TopType DEF Advances

LEMMA Reserving ==
    ASSUME TypeCatalog, NEW m \in Nat, MarkE(m), counter' = Reserved,
           UNCHANGED <<version, entry>>
    PROVE  Advances(m) /\ Top' = Reserved /\ Top' = Top + 1
<1>1. Revision(entry)' = Revision(entry) /\ Top' = Reserved
  BY TopType DEF Top, Revision
<1>2. entry # None => entry.rev \in Nat
  BY DEF TypeCatalog, Events
<1>3. MarkE(m)'
  BY <1>1, <1>2, TopType DEF MarkE, Known, Shows, Ordered
<1> QED
  BY <1>1, <1>3, TopType DEF Advances

LEMMA Writing ==
    ASSUME TypeCatalog, TypeCatalog', NEW m \in Nat, MarkE(m), NEW e \in Events,
           Known(e), Shows(e, m), Write(e), UNCHANGED <<version, counter>>
    PROVE  Advances(m) /\ Top' = Top /\ e.rev <= Revision(entry)'
<1>1. e # None /\ e.rev \in Nat /\ (entry # None => entry.rev \in Nat)
  BY CatalogAssumption DEF TypeCatalog, Events
<1>2. /\ Revision(entry) <= Revision(entry)' /\ e.rev <= Revision(entry)'
      /\ entry' \in {entry, e}
  BY <1>1 DEF Write, Revision
<1>3. Top' = Top
  BY <1>1, <1>2, TopType DEF Top, Known, Write, Revision
<1>4. MarkE(m)'
  BY <1>2, <1>3 DEF MarkE, Known, Shows, Ordered
<1>5. Revision(entry)' \in Nat /\ Top' \in Nat
  BY <1>3, TopType, <1>1 DEF TypeCatalog, Revision, Events
<1> QED
  BY <1>2, <1>3, <1>4, <1>5, TopType DEF Advances

(***************************************************************************)
(* The steps                                                               *)
(***************************************************************************)

LEMMA MarkQueue ==
    ASSUME NEW i \in Replicas, NEW m \in Nat, NEW c \in [Replicas -> Nat], Types,
           Marked(m, c), Advances(m), UNCHANGED Rest, NEW n,
           queue' = [queue EXCEPT ![i] = n],
           n.latest \in {queue[i].latest, None},
           Known(n.work)', Shows(n.work, m)',
           Ordered(queue[i].latest) /\ n.latest = None
           => queue[i].latest.rev <= Revision(entry)'
    PROVE  IsMarked'
<1> DEFINE k == c[i]
<1>1. /\ queue[i] \in Queues /\ k \in Nat /\ queue'[i] = n
      /\ MarkR(i, m, k) /\ TypeTask /\ TypeRequest
      /\ \A r \in Replicas \ {i} : queue'[r] = queue[r]
  BY DEF Types, TypeQueue, Marked
<1>2. UNCHANGED <<version, conn, note, epoch, changes, handled, task, published, request,
                  knows>>
  BY DEF Rest, session, refresh
<1> HIDE DEF k
<1>3. /\ Known(queue[i].latest) /\ Shows(queue[i].latest, m)
      /\ queue[i].latest # None => queue[i].latest.rev \in Nat
  BY <1>1 DEF MarkR, MarkQ, Queues, Events
<1>4. Known(n.latest)' /\ Shows(n.latest, m)'
  BY <1>3 DEF Advances, Known, Shows, Ordered
<1>5. MarkQ(i, m)'
  BY <1>1, <1>4 DEF MarkQ
<1>6. MarkT(i, m, k)'
  <2>1. task[i].rev \in Nat
    BY <1>1 DEF TypeTask, Tasks
  <2> QED
    BY <1>1, <1>2, <2>1 DEF MarkR, MarkT, Ordered, Advances
<1>7. MarkA(i, m, k)' /\ MarkP(i, k)'
  BY <1>1, <1>2, KeepA, KeepP DEF MarkR
<1>8. MarkK(i, m, k)'
  BY <1>1, <1>2, <1>3 DEF MarkR, MarkK, Ordered, Advances
<1>9. \A r \in Replicas \ {i} : Whole(r)' = Whole(r)
  BY <1>1, <1>2 DEF Whole
<1>10. MarkR(i, m, c[i])'
  BY <1>5, <1>6, <1>7, <1>8 DEF MarkR, k
<1> QED
  BY <1>9, <1>10, JoinMarks

LEMMA MarkReadSlot ==
    ASSUME NEW i \in Replicas, Shapes, IsMarked, ReadSlot(i)
    PROVE  IsMarked'
<1>1. PICK m \in Nat, c \in [Replicas -> Nat] : Marked(m, c)
  BY DEF IsMarked
<1>2. Types /\ TypeCatalog /\ MarkE(m) /\ MarkQ(i, m) /\ QueueShape(queue[i])
      /\ queue[i] \in Queues
  BY <1>1 DEF Shapes, Types, Marked, MarkR, Shape, TypeQueue
<1>3. UNCHANGED <<version, redis>> /\ UNCHANGED Rest /\ queue[i].stage = "read"
  BY DEF ReadSlot, Rest
<1>4. Advances(m) /\ Top' = Top
  BY <1>2, <1>3, RedisKept
<1>5. CASE entry = None
  <2> SUFFICES ASSUME NEW n, n = [queue[i] EXCEPT !.stage = "mint"]
               PROVE  IsMarked'
    OBVIOUS
  <2>1. queue' = [queue EXCEPT ![i] = n]
    BY <1>5 DEF ReadSlot
  <2>2. n.latest = queue[i].latest /\ n.work = queue[i].work
    BY <1>2 DEF Queues
  <2>3. Known(n.work)' /\ Shows(n.work, m)'
    BY <1>2, <1>3, <1>4, <2>2 DEF MarkQ, Known, Shows, Ordered
  <2>4. ~(Ordered(queue[i].latest) /\ n.latest = None)
    BY <2>2 DEF Ordered
  <2> QED
    BY <1>1, <1>2, <1>3, <1>4, <2>1, <2>2, <2>3, <2>4, MarkQueue
<1>6. CASE entry # None
  <2> SUFFICES ASSUME NEW n, n = Done(queue[i])
               PROVE  IsMarked'
    OBVIOUS
  <2>1. queue' = [queue EXCEPT ![i] = n]
    BY <1>6 DEF ReadSlot
  <2>2. /\ n.latest \in {queue[i].latest, None} /\ n.work \in {queue[i].latest, None}
        /\ ~(Ordered(queue[i].latest) /\ n.latest = None)
    BY <1>2, <1>3 DEF Done, Begin, Empty, QueueShape, Ordered
  <2>3. Known(n.work)' /\ Shows(n.work, m)'
    BY <1>2, <1>3, <1>4, <2>2 DEF MarkQ, Known, Shows, Ordered
  <2> QED
    BY <1>1, <1>2, <1>3, <1>4, <2>1, <2>2, <2>3, MarkQueue
<1> QED
  BY <1>5, <1>6

LEMMA MarkMint ==
    ASSUME NEW i \in Replicas, Shapes, IsMarked, Mint(i)
    PROVE  IsMarked'
<1>1. PICK m \in Nat, c \in [Replicas -> Nat] : Marked(m, c)
  BY DEF IsMarked
<1>2. Types /\ TypeCatalog /\ MarkE(m) /\ QueueShape(queue[i])
      /\ queue[i] \in Queues
  BY <1>1 DEF Shapes, Types, Marked, Shape, TypeQueue
<1>3. UNCHANGED <<version, entry>> /\ UNCHANGED Rest /\ queue[i].stage = "mint"
      /\ counter' = Reserved
  BY DEF Mint, Rest
<1>4. Advances(m) /\ Top' = Reserved /\ Reserved \in Nat
  BY <1>2, <1>3, Reserving, ReservedType
<1> SUFFICES ASSUME NEW w, w = [queue[i].work EXCEPT !.rev = Reserved],
                    NEW n, n = [queue[i] EXCEPT !.stage = "write", !.work = w]
             PROVE  IsMarked'
  OBVIOUS
<1>5. queue[i].work \in Events /\ queue[i].work.by # None
  BY <1>2, <1>3 DEF QueueShape, Queues
<1>6. w.rev = Reserved /\ w.by # None
  BY <1>5 DEF Events
<1>7. queue' = [queue EXCEPT ![i] = n]
  BY DEF Mint
<1>8. n.latest = queue[i].latest /\ n.work = w
  BY <1>2 DEF Queues
<1>9. Known(n.work)' /\ Shows(n.work, m)'
  <2>1. Reserved <= Top'
    BY <1>4
  <2>2. n.work.rev = Reserved /\ n.work.by # None
    BY <1>6, <1>8, Zenon
  <2> QED
    BY <2>1, <2>2 DEF Known, Shows, Ordered
<1>10. ~(Ordered(queue[i].latest) /\ n.latest = None)
  BY <1>8 DEF Ordered
<1> QED
  BY <1>1, <1>2, <1>3, <1>4, <1>7, <1>8, <1>9, <1>10, MarkQueue

LEMMA MarkPublish ==
    ASSUME NEW i \in Replicas, Shapes, Shapes', IsMarked, Publish(i)
    PROVE  IsMarked'
<1>1. PICK m \in Nat, c \in [Replicas -> Nat] : Marked(m, c)
  BY DEF IsMarked
<1>2. Types /\ TypeCatalog /\ TypeCatalog' /\ MarkE(m) /\ MarkQ(i, m)
      /\ QueueShape(queue[i]) /\ queue[i] \in Queues
  BY <1>1 DEF Shapes, Types, Marked, MarkR, Shape, TypeQueue
<1>3. UNCHANGED <<version, counter>> /\ UNCHANGED Rest /\ queue[i].stage = "write"
      /\ Write(queue[i].work) /\ queue' = [queue EXCEPT ![i] = Done(queue[i])]
  BY DEF Publish, Rest
<1>4. queue[i].work \in Events
  BY <1>2, <1>3 DEF QueueShape, Queues
<1>5. Advances(m) /\ Top' = Top /\ queue[i].work.rev <= Revision(entry)'
  BY <1>2, <1>3, <1>4, Writing DEF MarkQ
<1> SUFFICES ASSUME NEW n, n = Done(queue[i])
             PROVE  IsMarked'
  OBVIOUS
<1>6. /\ n.latest \in {queue[i].latest, None} /\ n.work \in {queue[i].latest, None}
      /\ Ordered(queue[i].latest) /\ n.latest = None => queue[i].latest = queue[i].work
  BY <1>2, <1>3 DEF Done, Begin, Empty, QueueShape, Ordered
<1>7. Known(n.work)' /\ Shows(n.work, m)'
  BY <1>2, <1>3, <1>5, <1>6 DEF MarkQ, Known, Shows, Ordered
<1>8. queue' = [queue EXCEPT ![i] = n]
  BY <1>3
<1> QED
  BY <1>1, <1>2, <1>3, <1>5, <1>6, <1>7, <1>8, MarkQueue

LEMMA MarkPublishFails ==
    ASSUME NEW i \in Replicas, Shapes, Shapes', IsMarked, PublishFails(i)
    PROVE  IsMarked'
<1>1. PICK m \in Nat, c \in [Replicas -> Nat] : Marked(m, c)
  BY DEF IsMarked
<1>2. Types /\ TypeCatalog /\ TypeCatalog' /\ MarkE(m) /\ MarkQ(i, m)
      /\ QueueShape(queue[i]) /\ queue[i] \in Queues
  BY <1>1 DEF Shapes, Types, Marked, MarkR, Shape, TypeQueue
<1>3. UNCHANGED version /\ UNCHANGED Rest /\ queue[i].stage # "idle"
      /\ queue' = [queue EXCEPT ![i] = Thrown(queue[i])]
  BY DEF PublishFails, Rest
<1>4. queue[i].work \in Events
  BY <1>2, <1>3 DEF QueueShape, Queues
<1>5. Advances(m)
  <2>1. CASE UNCHANGED redis
    BY <1>2, <1>3, <2>1, RedisKept
  <2>2. CASE counter' = Reserved /\ UNCHANGED entry
    BY <1>2, <1>3, <2>2, Reserving
  <2>3. CASE Write(queue[i].work) /\ UNCHANGED counter
    BY <1>2, <1>3, <1>4, <2>3, Writing DEF MarkQ
  <2> QED
    BY <2>1, <2>2, <2>3 DEF PublishFails
<1> SUFFICES ASSUME NEW n, n = Thrown(queue[i])
             PROVE  IsMarked'
  OBVIOUS
<1>6. n.latest = queue[i].latest /\ n.work = None
  BY <1>2 DEF Thrown, Empty, Queues
<1>7. queue' = [queue EXCEPT ![i] = n]
  BY <1>3
<1>8. Known(n.work)' /\ Shows(n.work, m)'
  BY <1>6 DEF Known, Shows, Ordered
<1>9. ~(Ordered(queue[i].latest) /\ n.latest = None)
  BY <1>6 DEF Ordered
<1> QED
  BY <1>1, <1>2, <1>3, <1>5, <1>6, <1>7, <1>8, <1>9, MarkQueue

LEMMA MarkRetryPublish ==
    ASSUME NEW i \in Replicas, Shapes, IsMarked, RetryPublish(i)
    PROVE  IsMarked'
<1>1. PICK m \in Nat, c \in [Replicas -> Nat] : Marked(m, c)
  BY DEF IsMarked
<1>2. Types /\ TypeCatalog /\ MarkE(m) /\ MarkQ(i, m)
  BY <1>1 DEF Shapes, Types, Marked, MarkR
<1>3. UNCHANGED <<version, redis>> /\ UNCHANGED Rest
  BY DEF RetryPublish, Rest
<1>4. Advances(m) /\ Top' = Top
  BY <1>2, <1>3, RedisKept
<1> SUFFICES ASSUME NEW n, n = Begin(queue[i].latest)
             PROVE  IsMarked'
  OBVIOUS
<1>5. queue' = [queue EXCEPT ![i] = n]
  BY DEF RetryPublish
<1>6. n.latest = queue[i].latest /\ n.work = queue[i].latest
  BY DEF Begin
<1>7. Known(n.work)' /\ Shows(n.work, m)'
  BY <1>2, <1>3, <1>4, <1>6 DEF MarkQ, Known, Shows, Ordered
<1>8. ~(Ordered(queue[i].latest) /\ n.latest = None)
  BY <1>6 DEF Ordered
<1> QED
  BY <1>1, <1>2, <1>3, <1>4, <1>5, <1>6, <1>7, <1>8, MarkQueue

LEMMA MarkRequest ==
    ASSUME NEW i \in Replicas, NEW m \in Nat, NEW c \in [Replicas -> Nat], Types,
           Marked(m, c), Advances(m),
           UNCHANGED <<version, session, refresh, queue, knows>>,
           \A r \in Replicas \ {i} : request'[r] = request[r], MarkA(i, m, c[i])'
    PROVE  IsMarked'
<1>1. /\ c[i] \in Nat /\ MarkR(i, m, c[i]) /\ TypeTask /\ TypeQueue
      /\ UNCHANGED <<conn, note, epoch, changes, handled, task, published, knows>>
  BY DEF Types, Marked, session, refresh
<1>2. MarkQ(i, m)' /\ MarkT(i, m, c[i])'
  BY <1>1, KeepQ, KeepT DEF MarkR
<1>3. MarkP(i, c[i])' /\ MarkK(i, m, c[i])'
  BY <1>1, KeepP, KeepK DEF MarkR
<1>4. MarkR(i, m, c[i])'
  BY <1>2, <1>3 DEF MarkR
<1>5. \A r \in Replicas \ {i} : Whole(r)' = Whole(r)
  BY <1>1 DEF Whole
<1> QED
  BY <1>4, <1>5, JoinMarks

LEMMA MarkAskSteps ==
    ASSUME NEW i \in Replicas, Shapes, Shapes', IsMarked,
           Ask(i) \/ AskList(i) \/ AskFails(i) \/ AskWrite(i)
    PROVE  IsMarked'
<1>1. PICK m \in Nat, c \in [Replicas -> Nat] : Marked(m, c)
  BY DEF IsMarked
<1>2. /\ Types /\ TypeCatalog /\ TypeCatalog' /\ MarkE(m) /\ MarkA(i, m, c[i])
      /\ request \in [Replicas -> Asks] /\ request[i] \in Asks
  BY <1>1 DEF Shapes, Types, Marked, MarkR, TypeRequest
<1>3. /\ UNCHANGED <<version, session, refresh, queue, knows>>
      /\ UNCHANGED <<version, conn, epoch, changes>>
  BY DEF Ask, AskList, AskFails, AskWrite, session, refresh
<1>4. \A r \in Replicas \ {i} : request'[r] = request[r]
  BY <1>2 DEF Ask, AskList, AskFails, AskWrite
<1>5. CASE Ask(i)
  <2>1. Advances(m) /\ Top' = Reserved /\ Top' = Top + 1 /\ Top \in Nat
    BY <1>2, <1>3, <1>5, Reserving, TopType DEF Ask
  <2>2. /\ request'[i].pc = "fetch" /\ request'[i].rev = Reserved
        /\ request'[i].epoch = epoch[i] /\ request'[i].changes = changes[i]
    BY <1>2, <1>5 DEF Ask
  <2>3. 0 < request'[i].rev /\ request'[i].rev <= Top'
    <3>1. 0 < Reserved /\ Reserved <= Top'
      BY <2>1
    <3> QED
      BY <2>2, <3>1
  <2>4. Unmoved(i)'
    BY <1>3, <2>2 DEF Unmoved
  <2>5. MarkA(i, m, c[i])'
    BY <1>3, <1>5, <2>2, <2>3, <2>4 DEF MarkA, Connected, Ask, Attached
  <2> QED
    BY <1>1, <1>2, <1>3, <1>4, <2>1, <2>5, MarkRequest
<1>6. CASE AskList(i)
  <2>1. Advances(m) /\ Top' = Top
    BY <1>2, <1>3, <1>6, RedisKept DEF AskList
  <2>2. /\ request[i].pc = "fetch" /\ request'[i].pc = "listed"
        /\ request'[i].rev = request[i].rev /\ request'[i].epoch = request[i].epoch
        /\ request'[i].changes = request[i].changes /\ request'[i].tools = version
    BY <1>2, <1>6 DEF AskList, Asks
  <2>3. MarkA(i, m, c[i])'
    BY <1>2, <1>3, <2>1, <2>2 DEF MarkA, Unmoved, Connected
  <2> QED
    BY <1>1, <1>2, <1>3, <1>4, <2>1, <2>3, MarkRequest
<1>7. CASE AskFails(i)
  <2>1. Advances(m)
    BY <1>2, <1>3, <1>7, RedisKept DEF AskFails
  <2>2. request'[i].pc = "idle"
    BY <1>2, <1>7 DEF AskFails, NoAsk
  <2>3. MarkA(i, m, c[i])'
    BY <2>2 DEF MarkA
  <2> QED
    BY <1>1, <1>2, <1>3, <1>4, <2>1, <2>3, MarkRequest
<1>8. CASE AskWrite(i)
  <2> SUFFICES ASSUME NEW e, e = [rev |-> request[i].rev, tools |-> request[i].tools,
                                  by |-> None]
               PROVE  IsMarked'
    OBVIOUS
  <2>1. e \in Events /\ Known(e) /\ Shows(e, m)
    BY <1>2, <1>8 DEF AskWrite, Events, Asks, MarkA, Known, Shows, Ordered
  <2>2. Write(e) /\ UNCHANGED counter
    BY <1>8 DEF AskWrite
  <2>3. Advances(m)
    BY <1>2, <1>3, <2>1, <2>2, Writing
  <2>4. request'[i].pc = "idle"
    BY <1>2, <1>8 DEF AskWrite, NoAsk
  <2>5. MarkA(i, m, c[i])'
    BY <2>4 DEF MarkA
  <2> QED
    BY <1>1, <1>2, <1>3, <1>4, <2>3, <2>5, MarkRequest
<1> QED
  BY <1>5, <1>6, <1>7, <1>8

\* A request that has waited gets the list of a change that came after it.
LEMMA MarkConcluded ==
    ASSUME NEW r \in Replicas, NEW m \in Nat, NEW k \in Nat, NEW ask \in Asks,
           Concluded(r, ask).pc # "idle",
           published'[r] # None /\ published'[r].changes > k
           => published'[r].tools = version,
           ask.rev > m => changes[r] > k
    PROVE  /\ Concluded(r, ask).pc = "write" /\ Concluded(r, ask).rev = ask.rev
           /\ ask.rev > m => Concluded(r, ask).tools = version
<1>1. /\ published'[r] # None /\ published'[r].changes = changes[r]
      /\ Concluded(r, ask) = [ask EXCEPT !.pc = "write", !.tools = published'[r].tools]
  BY DEF Concluded, NoAsk
<1>2. /\ Concluded(r, ask).pc = "write" /\ Concluded(r, ask).rev = ask.rev
      /\ Concluded(r, ask).tools = published'[r].tools
  BY <1>1 DEF Asks
<1> QED
  BY <1>1, <1>2

LEMMA MarkSnapshot ==
    ASSUME NEW i \in Replicas, Shapes, IsMarked, Snapshot(i)
    PROVE  IsMarked'
<1>1. PICK m \in Nat, c \in [Replicas -> Nat] : Marked(m, c)
  BY DEF IsMarked
<1>2. /\ Types /\ TypeCatalog /\ TypeQueue /\ MarkE(m) /\ MarkR(i, m, c[i])
      /\ request \in [Replicas -> Asks] /\ request[i] \in Asks
      /\ task \in [Replicas -> Tasks] /\ c[i] \in Nat /\ ConnShape(i)
  BY <1>1 DEF Shapes, Shape, Types, Marked, TypeRequest, TypeTask
<1>3. /\ UNCHANGED <<version, redis, queue, knows, conn, note>>
      /\ UNCHANGED <<epoch, changes, handled, published>>
  BY DEF Snapshot, session
<1>4. Advances(m) /\ Top' = Top
  BY <1>2, <1>3, RedisKept
<1>5. /\ \A r \in Replicas \ {i} : request'[r] = request[r] /\ task'[r] = task[r]
      /\ task'[i] = task[i] \/ task'[i].pc = "reserve"
  BY <1>2 DEF Snapshot, StartIf, Started
<1>6. MarkA(i, m, c[i])'
  <2>1. CASE Unmoved(i)
    <3>1. /\ request[i].pc = "listed" /\ request'[i].pc = "write"
          /\ request'[i].rev = request[i].rev /\ request'[i].tools = request[i].tools
      BY <1>2, <2>1 DEF Snapshot, Asks
    <3> QED
      BY <1>2, <1>3, <1>4, <3>1 DEF MarkR, MarkA
  <2>2. CASE ~Unmoved(i)
    <3>1. /\ request[i].pc \in {"listed", "fetch"} /\ Connected(i) /\ 0 < request[i].rev
          /\ request[i].rev <= Top
          /\ request[i].rev > m /\ conn[i] = "up" => changes[i] > c[i]
      BY <1>2, <2>2 DEF Snapshot, MarkR, MarkA
    <3>2. CASE request'[i] = [request[i] EXCEPT !.pc = "await"]
      <4>1. request'[i].pc = "await" /\ request'[i].rev = request[i].rev
        BY <1>2, <3>2 DEF Asks
      <4> QED
        BY <1>3, <1>4, <3>1, <4>1 DEF MarkA, Connected
    <3>3. CASE request'[i] = Concluded(i, request[i])
      <4>1. CASE request'[i].pc = "idle"
        BY <4>1 DEF MarkA
      <4>2. CASE request'[i].pc # "idle"
        <5>1. published'[i] # None
          BY <3>3, <4>2 DEF Concluded, NoAsk
        <5>2. conn[i] = "up"
          BY <1>2, <1>3, <5>1 DEF ConnShape
        <5>3. /\ request'[i].pc = "write" /\ request'[i].rev = request[i].rev
              /\ request[i].rev > m => request'[i].tools = version
          BY <1>2, <1>3, <3>1, <3>3, <4>2, <5>2, MarkConcluded DEF MarkR, MarkP
        <5> QED
          BY <1>3, <1>4, <3>1, <5>3 DEF MarkA
      <4> QED
        BY <4>1, <4>2
    <3>4. \/ request'[i] = [request[i] EXCEPT !.pc = "await"]
          \/ request'[i] = Concluded(i, request[i])
      BY <1>2, <2>2 DEF Snapshot
    <3> QED
      BY <3>2, <3>3, <3>4
  <2> QED
    BY <2>1, <2>2
<1>7. MarkQ(i, m)' /\ MarkP(i, c[i])' /\ MarkK(i, m, c[i])'
  BY <1>2, <1>3, <1>4, KeepQ, KeepP, KeepK DEF MarkR
<1>8. MarkT(i, m, c[i])'
  <2>1. CASE task'[i] = task[i]
    BY <1>2, <1>3, <1>4, <2>1, KeepT DEF MarkR, TypeTask
  <2>2. CASE task'[i].pc = "reserve"
    BY <2>2 DEF MarkT
  <2> QED
    BY <1>5, <2>1, <2>2
<1>9. \A r \in Replicas \ {i} : Whole(r)' = Whole(r)
  BY <1>3, <1>5 DEF Whole
<1> QED
  BY <1>1, <1>2, <1>4, <1>6, <1>7, <1>8, <1>9, JoinMarks DEF MarkR

LEMMA MarkTask ==
    ASSUME NEW i \in Replicas, NEW m \in Nat, NEW c \in [Replicas -> Nat], Types,
           Marked(m, c), Advances(m),
           UNCHANGED <<version, conn, note, epoch, changes, handled, published, queue,
                       knows>>,
           \A r \in Replicas \ {i} : request'[r] = request[r] /\ task'[r] = task[r],
           MarkT(i, m, c[i])', MarkA(i, m, c[i])'
    PROVE  IsMarked'
<1>1. c[i] \in Nat /\ MarkR(i, m, c[i]) /\ TypeQueue
  BY DEF Types, Marked
<1>2. MarkQ(i, m)' /\ MarkP(i, c[i])' /\ MarkK(i, m, c[i])'
  BY <1>1, KeepQ, KeepP, KeepK DEF MarkR
<1>3. \A r \in Replicas \ {i} : Whole(r)' = Whole(r)
  BY DEF Whole
<1> QED
  BY <1>2, <1>3, JoinMarks DEF MarkR

LEMMA MarkReserve ==
    ASSUME NEW i \in Replicas, Shapes, IsMarked, Reserve(i)
    PROVE  IsMarked'
<1>1. PICK m \in Nat, c \in [Replicas -> Nat] : Marked(m, c)
  BY DEF IsMarked
<1>2. /\ Types /\ TypeCatalog /\ TypeRequest /\ MarkE(m) /\ MarkR(i, m, c[i])
      /\ task \in [Replicas -> Tasks] /\ task[i] \in Tasks /\ c[i] \in Nat
      /\ queue[i] \in Queues
  BY <1>1 DEF Shapes, Types, Marked, TypeTask, TypeQueue
<1>3. UNCHANGED <<version, entry, conn, note, epoch, changes, handled, published, queue,
                  request, knows>>
  BY DEF Reserve, session
<1>4. Advances(m) /\ Top' = Reserved /\ Top' = Top + 1 /\ Top \in Nat /\ m <= Top
  BY <1>2, <1>3, Reserving, TopType DEF Reserve, MarkE
<1>5. 0 < Reserved /\ Reserved <= Top' /\ m < Reserved /\ Top < Reserved
  BY <1>4
<1>6. /\ \A r \in Replicas \ {i} : task'[r] = task[r]
      /\ task'[i].pc = "fetch" /\ task'[i].rev = Reserved
  BY <1>2 DEF Reserve, Tasks
<1>7. Ordered(queue[i].latest) => queue[i].latest.rev < Reserved
  <2>1. Ordered(queue[i].latest) =>
           queue[i].latest.rev \in Nat /\ queue[i].latest.rev <= Top
    BY <1>2 DEF Ordered, MarkR, MarkQ, Known, Queues, Events
  <2>2. Reserved \in Nat
    BY <1>2, ReservedType
  <2> QED
    BY <1>4, <1>5, <2>1, <2>2
<1>8. MarkT(i, m, c[i])'
  BY <1>3, <1>5, <1>6, <1>7 DEF MarkT, Ordered
<1>9. MarkA(i, m, c[i])'
  BY <1>2, <1>3, <1>4, KeepA DEF MarkR
<1> QED
  BY <1>1, <1>2, <1>3, <1>4, <1>6, <1>8, <1>9, MarkTask

LEMMA MarkList ==
    ASSUME NEW i \in Replicas, Shapes, IsMarked, List(i)
    PROVE  IsMarked'
<1>1. PICK m \in Nat, c \in [Replicas -> Nat] : Marked(m, c)
  BY DEF IsMarked
<1>2. /\ Types /\ TypeCatalog /\ TypeRequest /\ MarkE(m) /\ MarkR(i, m, c[i])
      /\ task \in [Replicas -> Tasks] /\ task[i] \in Tasks /\ c[i] \in Nat
  BY <1>1 DEF Shapes, Types, Marked, TypeTask
<1>3. UNCHANGED <<version, redis, conn, note, epoch, changes, handled, published, queue,
                  request, knows>>
  BY DEF List, session
<1>4. Advances(m) /\ Top' = Top
  BY <1>2, <1>3, RedisKept
<1>5. /\ \A r \in Replicas \ {i} : task'[r] = task[r]
      /\ task[i].pc = "fetch" /\ task'[i].rev = task[i].rev
      /\ task'[i].target = task[i].target /\ task'[i].tools = version
  BY <1>2 DEF List, Tasks
<1>6. MarkT(i, m, c[i])'
  BY <1>2, <1>3, <1>4, <1>5 DEF MarkR, MarkT, Ordered
<1>7. MarkA(i, m, c[i])'
  BY <1>2, <1>3, <1>4, KeepA DEF MarkR
<1> QED
  BY <1>1, <1>2, <1>3, <1>4, <1>5, <1>6, <1>7, MarkTask

LEMMA MarkRetryRefresh ==
    ASSUME NEW i \in Replicas, Shapes, IsMarked, RetryRefresh(i)
    PROVE  IsMarked'
<1>1. PICK m \in Nat, c \in [Replicas -> Nat] : Marked(m, c)
  BY DEF IsMarked
<1>2. /\ Types /\ TypeCatalog /\ TypeTask /\ TypeRequest /\ MarkE(m)
      /\ MarkR(i, m, c[i]) /\ c[i] \in Nat
  BY <1>1 DEF Shapes, Types, Marked
<1>3. UNCHANGED <<version, redis, conn, note, epoch, changes, handled, published, queue,
                  request, knows>>
  BY DEF RetryRefresh, session
<1>4. Advances(m) /\ Top' = Top
  BY <1>2, <1>3, RedisKept
<1>5. /\ \A r \in Replicas \ {i} : task'[r] = task[r]
      /\ task'[i] = task[i] \/ task'[i].pc = "reserve"
  BY <1>2 DEF RetryRefresh, StartIf, Started, TypeTask
<1>6. MarkT(i, m, c[i])'
  <2>1. CASE task'[i] = task[i]
    BY <1>2, <1>3, <1>4, <2>1, KeepT DEF MarkR
  <2>2. CASE task'[i].pc = "reserve"
    BY <2>2 DEF MarkT
  <2> QED
    BY <1>5, <2>1, <2>2
<1>7. MarkA(i, m, c[i])'
  BY <1>2, <1>3, <1>4, KeepA DEF MarkR
<1> QED
  BY <1>1, <1>2, <1>3, <1>4, <1>5, <1>6, <1>7, MarkTask

LEMMA MarkSettle ==
    ASSUME NEW i \in Replicas, NEW m \in Nat, NEW k \in Nat, Types, Advances(m),
           MarkA(i, m, k), Settle(i), UNCHANGED <<conn, changes, epoch>>,
           published'[i] # None => conn[i] = "up",
           published'[i] # None /\ published'[i].changes > k
           => published'[i].tools = version
    PROVE  /\ MarkA(i, m, k)'
           /\ \A r \in Replicas \ {i} : request'[r] = request[r]
<1>1. request \in [Replicas -> Asks] /\ request[i] \in Asks /\ TypeRequest
  BY DEF Types, TypeRequest
<1>2. \A r \in Replicas \ {i} : request'[r] = request[r]
  BY <1>1 DEF Settle
<1>3. CASE request'[i] = request[i]
  BY <1>1, <1>2, <1>3, KeepA
<1>4. CASE request'[i].pc = "idle"
  BY <1>2, <1>4 DEF MarkA
<1>5. CASE request'[i] # request[i] /\ request'[i].pc # "idle"
  <2>1. request[i].pc = "await" /\ request'[i] = Concluded(i, request[i])
    BY <1>1, <1>5 DEF Settle
  <2>2. conn[i] = "up"
    BY <1>5, <2>1 DEF Concluded, NoAsk
  <2>3. /\ 0 < request[i].rev /\ request[i].rev <= Top
        /\ request[i].rev > m => changes[i] > k
    BY <2>1, <2>2 DEF MarkA
  <2>4. /\ request'[i].pc = "write" /\ request'[i].rev = request[i].rev
        /\ request[i].rev > m => request'[i].tools = version
    BY <1>1, <1>5, <2>1, <2>3, MarkConcluded
  <2>5. request[i].rev \in Nat
    BY <1>1 DEF Asks
  <2>6. MarkA(i, m, k)'
    BY <2>3, <2>4, <2>5 DEF MarkA, Advances
  <2> QED
    BY <1>2, <2>6
<1> QED
  BY <1>3, <1>4, <1>5

LEMMA MarkRefreshFails ==
    ASSUME NEW i \in Replicas, Shapes, Shapes', IsMarked, RefreshFails(i)
    PROVE  IsMarked'
<1>1. PICK m \in Nat, c \in [Replicas -> Nat] : Marked(m, c)
  BY DEF IsMarked
<1>2. /\ Types /\ TypeCatalog /\ MarkE(m) /\ TypeCounts' /\ TypePublished'
      /\ MarkR(i, m, c[i]) /\ c[i] \in Nat /\ ConnShape(i)
  BY <1>1 DEF Shapes, Shape, Types, Marked
<1>3. UNCHANGED <<version, redis, conn, note, epoch, changes, handled, published, queue,
                  knows>>
  BY DEF RefreshFails, session
<1>4. Advances(m) /\ Top' = Top
  BY <1>2, <1>3, RedisKept
<1>5. Settle(i)
  BY DEF RefreshFails
<1>6. /\ task'[i].pc \in {"idle", "reserve"}
      /\ \A r \in Replicas \ {i} : task'[r] = task[r]
  BY <1>2, <1>5, Settling
<1>7. MarkT(i, m, c[i])'
  BY <1>6 DEF MarkT
<1>8. /\ published'[i] # None => conn[i] = "up"
      /\ published'[i] # None /\ published'[i].changes > c[i]
         => published'[i].tools = version
  BY <1>2, <1>3 DEF ConnShape, MarkR, MarkP
<1>9. /\ MarkA(i, m, c[i])'
      /\ \A r \in Replicas \ {i} : request'[r] = request[r]
  BY <1>2, <1>3, <1>4, <1>5, <1>8, MarkSettle DEF MarkR
<1> QED
  BY <1>1, <1>2, <1>3, <1>4, <1>6, <1>7, <1>9, MarkTask

LEMMA MarkListed ==
    ASSUME NEW i \in Replicas, Shapes, Shapes', IsMarked, Listed(i)
    PROVE  IsMarked'
<1>1. PICK m \in Nat, c \in [Replicas -> Nat] : Marked(m, c)
  BY DEF IsMarked
<1>2. /\ Types /\ TypeCatalog /\ MarkE(m) /\ TypeCounts' /\ TypePublished' /\ TypeRequest
      /\ MarkR(i, m, c[i]) /\ c[i] \in Nat /\ ConnShape(i)
      /\ task \in [Replicas -> Tasks] /\ task[i] \in Tasks
      /\ queue \in [Replicas -> Queues] /\ queue[i] \in Queues
  BY <1>1 DEF Shapes, Shape, Types, Marked, TypeTask, TypeQueue
<1>3. UNCHANGED <<version, redis, conn, note, epoch, changes, knows, load>>
  BY DEF Listed
<1>4. Advances(m) /\ Top' = Top
  BY <1>2, <1>3, RedisKept
<1>5. CASE ~Fresh(i)
  <2>1. UNCHANGED <<handled, published, queue>> /\ Settle(i)
    BY <1>5 DEF Listed
  <2>2. /\ task'[i].pc \in {"idle", "reserve"}
        /\ \A r \in Replicas \ {i} : task'[r] = task[r]
    BY <1>2, <2>1, Settling
  <2>3. MarkT(i, m, c[i])'
    BY <2>2 DEF MarkT
  <2>4. /\ published'[i] # None => conn[i] = "up"
        /\ published'[i] # None /\ published'[i].changes > c[i]
           => published'[i].tools = version
    BY <1>2, <2>1 DEF ConnShape, MarkR, MarkP
  <2>5. /\ MarkA(i, m, c[i])'
        /\ \A r \in Replicas \ {i} : request'[r] = request[r]
    BY <1>2, <1>3, <1>4, <2>1, <2>4, MarkSettle DEF MarkR
  <2> QED
    BY <1>1, <1>2, <1>3, <1>4, <2>1, <2>2, <2>3, <2>5, MarkTask
<1>6. CASE Fresh(i)
  <2> SUFFICES ASSUME NEW k, k = c[i],
                      NEW e, e = [rev |-> task[i].rev, tools |-> task[i].tools, by |-> None]
               PROVE  IsMarked'
    OBVIOUS
  <2>1. /\ k \in Nat /\ MarkQ(i, m) /\ MarkT(i, m, k) /\ MarkA(i, m, k) /\ MarkP(i, k)
        /\ MarkK(i, m, k)
    BY <1>2 DEF MarkR
  <2>2. /\ task[i].pc = "listed" /\ task[i].rev \in Nat /\ task[i].target \in Nat
        /\ task[i].target <= changes[i] /\ changes[i] \in Nat /\ handled[i] \in Nat
    BY <1>2 DEF Listed, Tasks, ConnShape, Types, TypeCounts
  <2>3. /\ 0 < task[i].rev /\ task[i].rev <= Top
        /\ task[i].target > k => task[i].rev > m
        /\ task[i].rev > m => task[i].tools = version
        /\ Ordered(queue[i].latest) => queue[i].latest.rev < task[i].rev
    BY <2>1, <2>2 DEF MarkT
  <2>4. /\ e \in Events /\ e.rev = task[i].rev /\ e.tools = task[i].tools
        /\ e.by = None /\ e # None
    BY <1>2, CatalogAssumption DEF Events, Tasks
  <2>5. Known(e) /\ Shows(e, m)
    BY <2>3, <2>4 DEF Known, Shows, Ordered
  <2>6. /\ handled'[i] = task[i].target
        /\ published'[i].changes = task[i].target /\ published'[i].tools = task[i].tools
        /\ conn[i] = "up"
        /\ \A r \in Replicas \ {i} :
              handled'[r] = handled[r] /\ published'[r] = published[r]
    BY <1>2, <1>6 DEF Listed, Fresh, Types, TypeCounts, TypePublished
  <2>7. published'[i].changes > k => published'[i].tools = version
    BY <2>3, <2>6
  <2>8. MarkP(i, k)'
    BY <1>3, <2>1, <2>7 DEF MarkP
  <2>9. /\ \/ queue'[i] = queue[i] /\ load[i] \in {"attach", "start"}
           \/ queue'[i].latest = e /\ queue'[i].work \in {queue[i].work, e}
        /\ \A r \in Replicas \ {i} : queue'[r] = queue[r]
    <3>1. Dispatch(i, e)
      BY <1>6 DEF Listed
    <3>2. /\ Notified(queue[i], e).latest = e
          /\ Notified(queue[i], e).work \in {queue[i].work, e}
      BY <1>2 DEF Notified, Begin, Queues
    <3> QED
      BY <1>2, <3>1, <3>2 DEF Dispatch
  <2>10. MarkQ(i, m)'
    BY <1>3, <1>4, <2>1, <2>5, <2>9 DEF MarkQ, Known, Shows, Ordered
  <2>11. MarkK(i, m, k)'
    <3>1. CASE queue'[i] = queue[i] /\ load[i] \in {"attach", "start"}
      BY <1>2, <1>3, <3>1 DEF ConnShape, MarkK
    <3>2. CASE queue'[i].latest = e
      <4> SUFFICES ASSUME knows[i],
                          ~(note[i] > 0 \/ Revision(entry)' > m \/ m = 0)
                   PROVE  \/ handled'[i] < changes[i] /\ k < changes[i]
                          \/ Ordered(e) /\ e.rev > m
        BY <1>3, <3>2 DEF MarkK, Ordered
      <4>1. \/ handled[i] < changes[i] /\ k < changes[i]
            \/ Ordered(queue[i].latest) /\ queue[i].latest.rev > m
        BY <1>4, <2>1 DEF MarkK, Advances
      <4>2. CASE handled[i] < changes[i] /\ k < changes[i]
        BY <2>1, <2>2, <2>3, <2>4, <2>6, <4>2 DEF Ordered
      <4>3. CASE Ordered(queue[i].latest) /\ queue[i].latest.rev > m
        <5>1. queue[i].latest.rev \in Nat
          BY <1>2, <4>3 DEF Ordered, Queues, Events
        <5> QED
          BY <2>2, <2>3, <2>4, <4>3, <5>1 DEF Ordered
      <4> QED
        BY <4>1, <4>2, <4>3
    <3> QED
      BY <2>9, <3>1, <3>2
  <2>12. /\ MarkA(i, m, k)' /\ MarkT(i, m, k)'
         /\ \A r \in Replicas \ {i} : request'[r] = request[r] /\ task'[r] = task[r]
    <3>1. CASE task[i].target < changes[i]
      <4>1. UNCHANGED request
        BY <1>6, <3>1 DEF Listed
      <4>2. /\ task'[i].pc = "reserve"
            /\ \A r \in Replicas \ {i} : task'[r] = task[r]
        BY <1>2, <1>6, <3>1 DEF Listed, Started
      <4> QED
        BY <1>2, <1>3, <1>4, <2>1, <4>1, <4>2, KeepA DEF MarkT
    <3>2. CASE ~(task[i].target < changes[i])
      <4>1. Settle(i)
        BY <1>6, <3>2 DEF Listed
      <4>2. /\ task'[i].pc \in {"idle", "reserve"}
            /\ \A r \in Replicas \ {i} : task'[r] = task[r]
        BY <1>2, <4>1, Settling
      <4>3. /\ MarkA(i, m, k)'
            /\ \A r \in Replicas \ {i} : request'[r] = request[r]
        BY <1>2, <1>3, <1>4, <2>1, <2>6, <2>7, <4>1, MarkSettle
      <4> QED
        BY <4>2, <4>3 DEF MarkT
    <3> QED
      BY <3>1, <3>2
  <2>13. \A r \in Replicas \ {i} : Whole(r)' = Whole(r)
    BY <1>3, <2>6, <2>9, <2>12 DEF Whole
  <2>14. MarkR(i, m, c[i])'
    BY <2>8, <2>10, <2>11, <2>12 DEF MarkR
  <2> QED
    BY <1>1, <1>2, <1>4, <2>13, <2>14, JoinMarks
<1> QED
  BY <1>5, <1>6

\* A step that counts a change: what a replica may have missed is listed again.
LEMMA MarkCounted ==
    ASSUME NEW i \in Replicas, NEW m \in Nat, NEW c \in [Replicas -> Nat], Types,
           Marked(m, c), Advances(m), ConnShape(i),
           UNCHANGED <<version, handled, published, queue, request, epoch>>,
           changes'[i] = changes[i] + 1, Connected(i), Connected(i)',
           task'[i] = task[i] \/ task'[i].pc = "reserve",
           \A r \in Replicas \ {i} :
              /\ conn'[r] = conn[r] /\ note'[r] = note[r] /\ changes'[r] = changes[r]
              /\ task'[r] = task[r] /\ knows'[r] = knows[r]
    PROVE  IsMarked'
<1>1. /\ c[i] \in Nat /\ MarkR(i, m, c[i]) /\ TypeQueue /\ TypeTask
      /\ changes[i] \in Nat /\ handled[i] \in Nat /\ request[i] \in Asks
  BY DEF Types, Marked, TypeCounts, TypeRequest
<1>2. c[i] < changes'[i] /\ handled'[i] < changes'[i]
  BY <1>1 DEF MarkR, MarkP, ConnShape
<1>3. MarkQ(i, m)'
  BY <1>1, KeepQ DEF MarkR
<1>4. MarkT(i, m, c[i])'
  <2>1. CASE task'[i] = task[i]
    BY <1>1, <2>1, KeepT DEF MarkR
  <2>2. CASE task'[i].pc = "reserve"
    BY <2>2 DEF MarkT
  <2> QED
    BY <2>1, <2>2
<1>5. MarkA(i, m, c[i])'
  <2>1. request[i].rev \in Nat
    BY <1>1 DEF Asks
  <2>2. /\ request[i].pc # "idle" => 0 < request[i].rev /\ request[i].rev <= Top
        /\ request[i].rev > m /\ request[i].pc \in {"listed", "write"} =>
              request[i].tools = version
    BY <1>1 DEF MarkR, MarkA
  <2> QED
    BY <1>2, <2>1, <2>2 DEF MarkA, Advances
<1>6. MarkP(i, c[i])'
  BY <1>1, <1>2 DEF MarkR, MarkP
<1>7. MarkK(i, m, c[i])'
  BY <1>2 DEF MarkK
<1>8. \A r \in Replicas \ {i} : Whole(r)' = Whole(r)
  BY DEF Whole
<1> QED
  BY <1>3, <1>4, <1>5, <1>6, <1>7, <1>8, JoinMarks DEF MarkR

LEMMA CountedTask ==
    ASSUME Types, NEW i \in Replicas, NEW up, RefreshToolList(i, up)
    PROVE  task'[i] = task[i] \/ task'[i].pc = "reserve"
BY DEF RefreshToolList, Types, TypeTask, StartIf, Started

LEMMA MarkNotification ==
    ASSUME NEW i \in Replicas, Shapes, IsMarked, Notification(i)
    PROVE  IsMarked'
<1>1. PICK m \in Nat, c \in [Replicas -> Nat] : Marked(m, c)
  BY DEF IsMarked
<1>2. Types /\ TypeCatalog /\ MarkE(m) /\ ConnShape(i) /\ RefreshToolList(i, TRUE)
  BY <1>1 DEF Shapes, Shape, Types, Marked, Notification
<1>3. UNCHANGED <<version, redis, conn, queue, request, knows>>
  BY DEF Notification
<1>4. /\ changes'[i] = changes[i] + 1
      /\ UNCHANGED <<epoch, handled, published>>
      /\ \A r \in Replicas \ {i} : task'[r] = task[r] /\ changes'[r] = changes[r]
  BY <1>2, Refreshing
<1>5. task'[i] = task[i] \/ task'[i].pc = "reserve"
  BY <1>2, CountedTask
<1>6. \A r \in Replicas \ {i} : note'[r] = note[r]
  BY <1>2 DEF Notification, Types, TypeSession
<1>7. Advances(m)
  BY <1>2, <1>3, RedisKept
<1>8. Connected(i) /\ Connected(i)'
  BY <1>3 DEF Notification, Connected
<1> QED
  BY <1>1, <1>2, <1>3, <1>4, <1>5, <1>6, <1>7, <1>8, MarkCounted

LEMMA MarkUnmoved ==
    ASSUME NEW m \in Nat, NEW c \in [Replicas -> Nat], Types, Marked(m, c), Advances(m),
           \A r \in Replicas : Whole(r)' = Whole(r)
    PROVE  IsMarked'
<1>1. ASSUME NEW r \in Replicas
      PROVE  MarkR(r, m, c[r])'
  BY KeepR DEF Marked
<1>2. Marked(m, c)'
  BY <1>1 DEF Marked, Advances
<1> QED
  BY <1>2 DEF IsMarked

LEMMA MarkAttach ==
    ASSUME NEW i \in Replicas, Shapes, IsMarked, Attach(i) \/ FirstListFails(i)
    PROVE  IsMarked'
<1>1. PICK m \in Nat, c \in [Replicas -> Nat] : Marked(m, c)
  BY DEF IsMarked
<1>2. Types /\ TypeCatalog /\ MarkE(m) /\ ConnShape(i)
  BY <1>1 DEF Shapes, Shape, Types, Marked
<1>3. UNCHANGED <<version, redis, conn, note, queue, request>>
  BY DEF Attach, FirstListFails
<1>4. Advances(m)
  BY <1>2, <1>3, RedisKept
<1>5. CASE RefreshToolList(i, conn[i] = "up") /\ knows' = [knows EXCEPT ![i] = conn[i] = "up"]
  <2>1. /\ changes'[i] = changes[i] + 1
        /\ UNCHANGED <<epoch, handled, published>>
        /\ \A r \in Replicas \ {i} : task'[r] = task[r] /\ changes'[r] = changes[r]
    BY <1>2, <1>5, Refreshing
  <2>2. task'[i] = task[i] \/ task'[i].pc = "reserve"
    BY <1>2, <1>5, CountedTask
  <2>3. \A r \in Replicas \ {i} : knows'[r] = knows[r]
    BY <1>2, <1>5 DEF Types, TypeFlags
  <2>4. Connected(i) /\ Connected(i)'
    BY <1>2, <1>3 DEF Attach, FirstListFails, ConnShape, Connected
  <2> QED
    BY <1>1, <1>2, <1>3, <1>4, <2>1, <2>2, <2>3, <2>4, MarkCounted
<1>6. CASE UNCHANGED <<refresh, knows>>
  <2>1. \A r \in Replicas : Whole(r)' = Whole(r)
    BY <1>3, <1>6 DEF Whole, refresh
  <2> QED
    BY <1>1, <1>2, <1>4, <2>1, MarkUnmoved
<1> QED
  BY <1>5, <1>6 DEF Attach, FirstListFails

LEMMA MarkReconnect ==
    ASSUME NEW i \in Replicas, Shapes, IsMarked, Reconnect(i)
    PROVE  IsMarked'
<1>1. PICK m \in Nat, c \in [Replicas -> Nat] : Marked(m, c)
  BY DEF IsMarked
<1>2. Types /\ TypeCatalog /\ MarkE(m) /\ ConnShape(i)
  BY <1>1 DEF Shapes, Shape, Types, Marked
<1>3. UNCHANGED <<version, redis, note, handled, published, queue, request, epoch>>
  BY DEF Reconnect
<1>4. Advances(m)
  BY <1>2, <1>3, RedisKept
<1>5. /\ changes'[i] = changes[i] + 1
      /\ \A r \in Replicas \ {i} : changes'[r] = changes[r]
  BY <1>2 DEF Reconnect, Types, TypeCounts
<1>6. /\ task'[i] = task[i] \/ task'[i].pc = "reserve"
      /\ \A r \in Replicas \ {i} : task'[r] = task[r]
  BY <1>2 DEF Reconnect, Types, TypeTask, StartIf, Started
<1>7. \A r \in Replicas \ {i} : knows'[r] = knows[r]
  BY <1>2 DEF Reconnect, Types, TypeFlags
<1>8. /\ Connected(i) /\ Connected(i)'
      /\ \A r \in Replicas \ {i} : conn'[r] = conn[r]
  BY <1>2 DEF Reconnect, Connected, Types, TypeSession
<1> QED
  BY <1>1, <1>2, <1>3, <1>4, <1>5, <1>6, <1>7, <1>8, MarkCounted

LEMMA MarkDrop ==
    ASSUME NEW i \in Replicas, Shapes, IsMarked, Drop(i)
    PROVE  IsMarked'
<1>1. PICK m \in Nat, c \in [Replicas -> Nat] : Marked(m, c)
  BY DEF IsMarked
<1>2. /\ Types /\ TypeCatalog /\ TypeQueue /\ TypeTask /\ MarkE(m) /\ MarkR(i, m, c[i])
      /\ c[i] \in Nat /\ request[i] \in Asks
  BY <1>1 DEF Shapes, Types, Marked, TypeRequest
<1>3. UNCHANGED <<version, redis, changes, handled, task, queue, request>>
  BY DEF Drop
<1>4. Advances(m)
  BY <1>2, <1>3, RedisKept
<1>5. /\ conn'[i] = "down"
      /\ \A r \in Replicas \ {i} : conn'[r] = conn[r] /\ note'[r] = note[r]
  BY <1>2 DEF Drop, Types, TypeSession
<1>6. \A r \in Replicas \ {i} : epoch'[r] = epoch[r]
  BY <1>2 DEF Drop, Types, TypeCounts
<1>7. /\ published'[i] = None
      /\ \A r \in Replicas \ {i} : published'[r] = published[r]
  BY <1>2 DEF Drop, Types, TypePublished
<1>8. /\ ~knows'[i]
      /\ \A r \in Replicas \ {i} : knows'[r] = knows[r]
  BY <1>2 DEF Drop, Types, TypeFlags
<1>9. MarkQ(i, m)' /\ MarkT(i, m, c[i])'
  BY <1>2, <1>3, <1>4, KeepQ, KeepT DEF MarkR
<1>10. MarkA(i, m, c[i])'
  <2>1. request[i].rev \in Nat
    BY <1>2 DEF Asks
  <2> QED
    BY <1>2, <1>3, <1>4, <1>5, <2>1 DEF MarkR, MarkA, Connected, Advances
<1>11. MarkP(i, c[i])' /\ MarkK(i, m, c[i])'
  BY <1>2, <1>3, <1>7, <1>8 DEF MarkR, MarkP, MarkK
<1>12. \A r \in Replicas \ {i} : Whole(r)' = Whole(r)
  BY <1>3, <1>5, <1>6, <1>7, <1>8 DEF Whole
<1> QED
  BY <1>1, <1>2, <1>4, <1>9, <1>10, <1>11, <1>12, JoinMarks DEF MarkR

LEMMA MarkConn ==
    ASSUME NEW i \in Replicas, NEW m \in Nat, NEW c \in [Replicas -> Nat], Types,
           Marked(m, c), Advances(m), ~Connected(i),
           UNCHANGED <<version, note, refresh, queue, request, knows>>,
           \A r \in Replicas \ {i} : conn'[r] = conn[r]
    PROVE  IsMarked'
<1>1. /\ c[i] \in Nat /\ MarkR(i, m, c[i]) /\ TypeQueue /\ TypeTask /\ request[i] \in Asks
      /\ UNCHANGED <<epoch, changes, handled, task, published>>
  BY DEF Types, Marked, TypeRequest, refresh
<1>2. MarkQ(i, m)' /\ MarkT(i, m, c[i])' /\ MarkP(i, c[i])' /\ MarkK(i, m, c[i])'
  BY <1>1, KeepQ, KeepT, KeepP, KeepK DEF MarkR
<1>3. MarkA(i, m, c[i])'
  <2>1. request[i].rev \in Nat
    BY <1>1 DEF Asks
  <2> QED
    BY <1>1, <2>1 DEF MarkR, MarkA, Advances
<1>4. \A r \in Replicas \ {i} : Whole(r)' = Whole(r)
  BY <1>1 DEF Whole
<1> QED
  BY <1>2, <1>3, <1>4, JoinMarks DEF MarkR

LEMMA MarkOpen ==
    ASSUME NEW i \in Replicas, Shapes, Shapes', IsMarked, Start(i) \/ Load(i) \/ Drained(i)
    PROVE  IsMarked'
<1>1. PICK m \in Nat, c \in [Replicas -> Nat] : Marked(m, c)
  BY DEF IsMarked
<1>2. /\ Types /\ TypeCatalog /\ TypeCatalog' /\ MarkE(m) /\ version \in Nat
  BY <1>1 DEF Shapes, Types, Marked, TypeCatalog
<1>3. UNCHANGED <<version, note, refresh, queue, request, knows>> /\ UNCHANGED counter
  BY DEF Start, Load, Drained, Others, redis
<1>4. ~Connected(i) /\ \A r \in Replicas \ {i} : conn'[r] = conn[r]
  BY <1>2 DEF Start, Load, Drained, Open, Connected, Types, TypeSession
<1>5. Advances(m)
  <2>1. CASE UNCHANGED entry
    BY <1>2, <1>3, <2>1, RedisKept DEF redis
  <2>2. CASE \E v \in 0..version : Write([rev |-> 0, tools |-> v, by |-> i])
    <3>1. PICK v \in 0..version : Write([rev |-> 0, tools |-> v, by |-> i])
      BY <2>2
    <3> SUFFICES ASSUME NEW e, e = [rev |-> 0, tools |-> v, by |-> i]
                 PROVE  Advances(m)
      OBVIOUS
    <3>2. e \in Events
      BY <1>2 DEF Events
    <3>3. e.rev = 0 /\ e.by # None
      BY CatalogAssumption
    <3>4. Known(e) /\ Shows(e, m)
      BY <1>2, <3>3, TopType DEF Known, Shows, Ordered
    <3> QED
      BY <1>2, <1>3, <3>1, <3>2, <3>4, Writing
  <2> QED
    BY <2>1, <2>2 DEF Start, Load, Drained, redis
<1> QED
  BY <1>1, <1>2, <1>3, <1>4, <1>5, MarkConn

LEMMA MarkCreator ==
    ASSUME NEW i \in Replicas, Shapes, IsMarked, FirstList(i) \/ Loaded(i)
    PROVE  IsMarked'
<1>1. PICK m \in Nat, c \in [Replicas -> Nat] : Marked(m, c)
  BY DEF IsMarked
<1>2. Types /\ TypeCatalog /\ MarkE(m)
  BY <1>1 DEF Shapes, Types, Marked
<1>3. UNCHANGED <<version, redis, conn, note, refresh, queue, request, knows>>
  BY DEF FirstList, Loaded
<1>4. Advances(m)
  BY <1>2, <1>3, RedisKept
<1>5. \A r \in Replicas : Whole(r)' = Whole(r)
  BY <1>3 DEF Whole, refresh
<1> QED
  BY <1>1, <1>2, <1>4, <1>5, MarkUnmoved

LEMMA MarkPublishFirst ==
    ASSUME NEW i \in Replicas, Shapes, IsMarked, PublishFirst(i)
    PROVE  IsMarked'
<1>1. PICK m \in Nat, c \in [Replicas -> Nat] : Marked(m, c)
  BY DEF IsMarked
<1>2. /\ Types /\ TypeCatalog /\ MarkE(m) /\ TypeTask /\ TypeRequest
      /\ queue \in [Replicas -> Queues] /\ queue[i] \in Queues /\ QueueFits(i)
      /\ MarkR(i, m, c[i]) /\ c[i] \in Nat /\ first[i] \in Nat
  BY <1>1 DEF Shapes, Shape, Types, Marked, TypeQueue, TypeSession
<1>3. UNCHANGED <<version, redis, conn, note, refresh, request, knows>>
  BY DEF PublishFirst
<1>4. Advances(m) /\ Top' = Top /\ Top \in Nat
  BY <1>2, <1>3, RedisKept, TopType
<1>5. CASE moved[i]
  <2>1. UNCHANGED queue
    BY <1>5 DEF PublishFirst
  <2>2. \A r \in Replicas : Whole(r)' = Whole(r)
    BY <1>3, <2>1 DEF Whole, refresh
  <2> QED
    BY <1>1, <1>2, <1>4, <2>2, MarkUnmoved
<1>6. CASE ~moved[i]
  <2> SUFFICES ASSUME NEW e, e = [rev |-> 0, tools |-> first[i], by |-> i]
               PROVE  IsMarked'
    OBVIOUS
  <2>1. e.rev = 0 /\ e.by # None /\ e # None
    BY <1>2, CatalogAssumption DEF Events
  <2>2. queue[i] = Empty
    BY <1>2, <1>6 DEF PublishFirst, QueueFits
  <2>3. queue' = [queue EXCEPT ![i] = Notified(queue[i], e)]
    BY <1>6 DEF PublishFirst
  <2>4. Notified(queue[i], e) = Begin(e)
    BY <2>2 DEF Notified, Empty
  <2>5. /\ queue'[i].work = e /\ queue'[i].latest = e
        /\ \A r \in Replicas \ {i} : queue'[r] = queue[r]
    BY <1>2, <2>3, <2>4 DEF Begin
  <2>6. Known(e)' /\ Shows(e, m)' /\ ~Ordered(e) /\ ~Ordered(queue[i].latest)
    BY <1>4, <2>1, <2>2 DEF Known, Shows, Ordered, Empty
  <2>7. MarkQ(i, m)'
    BY <2>5, <2>6 DEF MarkQ
  <2>8. UNCHANGED <<epoch, changes, handled, task, published>>
    BY <1>3 DEF refresh
  <2>9. MarkT(i, m, c[i])'
    <3>1. ~Ordered(queue'[i].latest)
      BY <2>5, <2>6 DEF Ordered
    <3> QED
      BY <1>2, <1>3, <1>4, <2>8, <3>1 DEF MarkR, MarkT, Ordered
  <2>10. MarkA(i, m, c[i])' /\ MarkP(i, c[i])'
    BY <1>2, <1>3, <1>4, <2>8, KeepA, KeepP DEF MarkR
  <2>11. MarkK(i, m, c[i])'
    BY <1>2, <1>3, <1>4, <2>6, <2>8 DEF MarkR, MarkK, Advances
  <2>12. \A r \in Replicas \ {i} : Whole(r)' = Whole(r)
    BY <1>3, <2>5, <2>8 DEF Whole
  <2> QED
    BY <1>1, <1>2, <1>4, <2>7, <2>9, <2>10, <2>11, <2>12, JoinMarks DEF MarkR
<1> QED
  BY <1>5, <1>6

LEMMA MarkCancel ==
    ASSUME NEW i \in Replicas, Shapes, IsMarked, Cancel(i)
    PROVE  IsMarked'
<1>1. PICK m \in Nat, c \in [Replicas -> Nat] : Marked(m, c)
  BY DEF IsMarked
<1>2. /\ Types /\ TypeCatalog /\ MarkE(m) /\ TypeTask
      /\ queue \in [Replicas -> Queues] /\ queue[i] \in Queues /\ ConnShape(i)
      /\ MarkR(i, m, c[i]) /\ c[i] \in Nat /\ request[i] \in Asks
  BY <1>1 DEF Shapes, Shape, Types, Marked, TypeQueue, TypeRequest
<1>3. /\ UNCHANGED <<version, redis, note, refresh, request, knows>>
      /\ UNCHANGED <<epoch, changes, handled, task, published>>
  BY DEF Cancel, refresh
<1>4. Advances(m) /\ Top' = Top
  BY <1>2, <1>3, RedisKept
<1>5. /\ ~Connected(i) /\ task[i].pc = "idle" /\ ~knows[i]
      /\ \A r \in Replicas \ {i} : conn'[r] = conn[r]
  BY <1>2 DEF Cancel, ConnShape, Connected, Types, TypeSession
<1>6. /\ queue'[i].latest = None /\ queue'[i].work = queue[i].work
      /\ \A r \in Replicas \ {i} : queue'[r] = queue[r]
  BY <1>2 DEF Cancel, Queues
<1>7. MarkQ(i, m)'
  BY <1>2, <1>3, <1>4, <1>6 DEF MarkR, MarkQ, Known, Shows, Ordered
<1>8. MarkT(i, m, c[i])' /\ MarkK(i, m, c[i])' /\ MarkP(i, c[i])'
  BY <1>2, <1>3, <1>5 DEF MarkT, MarkK, MarkR, MarkP
<1>9. MarkA(i, m, c[i])'
  <2>1. request[i].rev \in Nat
    BY <1>2 DEF Asks
  <2> QED
    BY <1>2, <1>3, <1>4, <1>5, <2>1 DEF MarkR, MarkA
<1>10. \A r \in Replicas \ {i} : Whole(r)' = Whole(r)
  BY <1>3, <1>5, <1>6 DEF Whole
<1> QED
  BY <1>1, <1>2, <1>4, <1>7, <1>8, <1>9, <1>10, JoinMarks DEF MarkR

LEMMA MarkForget ==
    ASSUME NEW i \in Replicas, Shapes, IsMarked, Dispose(i) \/ Crash(i)
    PROVE  IsMarked'
<1>1. PICK m \in Nat, c \in [Replicas -> Nat] : Marked(m, c)
  BY DEF IsMarked
<1>2. /\ Types /\ TypeCatalog /\ MarkE(m)
      /\ request \in [Replicas -> Asks] /\ request[i] \in Asks
      /\ MarkR(i, m, c[i]) /\ c[i] \in Nat /\ TypeQueue
  BY <1>1 DEF Shapes, Types, Marked, TypeRequest
<1>3. UNCHANGED <<version, redis>> /\ Forget(i)
  BY DEF Dispose, Crash
<1>4. Advances(m) /\ Top' = Top
  BY <1>2, <1>3, RedisKept
<1>5. /\ changes'[i] = 0 /\ ~knows'[i] /\ task'[i] = Idle /\ published'[i] = None
      /\ \A r \in Replicas \ {i} :
            /\ changes'[r] = changes[r] /\ handled'[r] = handled[r]
            /\ task'[r] = task[r] /\ published'[r] = published[r]
            /\ knows'[r] = knows[r]
  BY <1>2, <1>3, Forgetting
<1>6. \A r \in Replicas \ {i} :
         conn'[r] = conn[r] /\ note'[r] = note[r] /\ epoch'[r] = epoch[r]
  BY <1>2 DEF Dispose, Crash, Forget, Types, TypeSession, TypeCounts
<1>7. conn'[i] \in {"closing", "boot"}
  BY <1>2 DEF Dispose, Crash, Types, TypeSession
<1>8. /\ \A r \in Replicas \ {i} : queue'[r] = queue[r] /\ request'[r] = request[r]
      /\ queue'[i] = queue[i] \/ queue'[i] = Empty
      /\ \/ request'[i] = NoAsk
         \/ request'[i] = request[i] /\ request[i].pc = "write"
  BY <1>2 DEF Dispose, Crash, TypeQueue
<1>9. PICK d \in [Replicas -> Nat] : d = [c EXCEPT ![i] = 0]
  OBVIOUS
<1>10. d[i] = 0 /\ \A r \in Replicas \ {i} : d[r] = c[r]
  BY <1>9
<1>11. MarkQ(i, m)'
  <2>1. CASE queue'[i] = queue[i]
    BY <1>2, <1>4, <2>1, KeepQ DEF MarkR
  <2>2. CASE queue'[i] = Empty
    BY <2>2 DEF MarkQ, Known, Shows, Ordered, Empty
  <2> QED
    BY <1>8, <2>1, <2>2
<1>12. MarkT(i, m, d[i])' /\ MarkP(i, d[i])' /\ MarkK(i, m, d[i])'
  BY <1>5, <1>10 DEF MarkT, MarkP, MarkK, Idle
<1>13. MarkA(i, m, d[i])'
  <2>1. CASE request'[i] = NoAsk
    BY <2>1 DEF MarkA, NoAsk
  <2>2. CASE request'[i] = request[i] /\ request[i].pc = "write"
    BY <1>2, <1>3, <1>4, <2>2 DEF MarkR, MarkA
  <2> QED
    BY <1>8, <2>1, <2>2
<1>14. \A r \in Replicas \ {i} : Whole(r)' = Whole(r)
  BY <1>5, <1>6, <1>8 DEF Whole
<1> QED
  BY <1>1, <1>2, <1>4, <1>10, <1>11, <1>12, <1>13, <1>14, JoinMarks DEF MarkR

\* Everything under way was reserved, and every replica had heard, before.
LEMMA MarkChange ==
    ASSUME Shapes, IsMarked, Change
    PROVE  IsMarked'
<1>1. PICK m \in Nat, c \in [Replicas -> Nat] : Marked(m, c)
  BY DEF IsMarked
<1>2. PICK t \in Nat : t = Top
  BY TopType DEF Shapes, Types
<1>3. PICK d \in [Replicas -> Nat] : \A r \in Replicas : d[r] = changes[r]
  BY DEF Shapes, Types, TypeCounts
<1>4. UNCHANGED <<redis, conn, load, refresh, queue, request>>
  BY DEF Change
<1>5. Top' = t /\ Revision(entry)' = Revision(entry)
  BY <1>2, <1>4 DEF Top, Revision, redis
<1>6. MarkE(t)'
  <2>1. Known(entry)' /\ (entry # None => entry.rev \in Nat /\ entry.rev <= t)
    BY <1>1, <1>2, <1>4, <1>5 DEF Marked, MarkE, Known, redis, Shapes, Types, TypeCatalog,
                                  Events
  <2>2. ~(entry # None /\ entry.rev > t)
    BY <2>1
  <2> QED
    BY <1>4, <1>5, <2>1, <2>2 DEF MarkE, Shows, Ordered, redis
<1>7. ASSUME NEW r \in Replicas
      PROVE  MarkR(r, t, d[r])'
  <2>1. /\ MarkR(r, m, c[r]) /\ ConnShape(r) /\ d[r] = changes[r]
        /\ task[r] \in Tasks /\ queue[r] \in Queues /\ request[r] \in Asks
        /\ changes[r] \in Nat /\ note[r] \in Nat
        /\ published[r] # None => published[r].changes \in Nat
    BY <1>1, <1>3 DEF Marked, Shapes, Shape, Types, TypeTask, TypeQueue, TypeRequest,
                      TypeCounts, TypeSession, TypePublished, Lists
  <2>2. UNCHANGED <<epoch, changes, handled, task, published>>
    BY <1>4 DEF refresh
  <2>3. /\ queue[r].work # None => queue[r].work.rev \in Nat
        /\ queue[r].latest # None => queue[r].latest.rev \in Nat
    BY <2>1 DEF Queues, Events
  <2>4. MarkQ(r, t)'
    BY <1>2, <1>4, <1>5, <2>1, <2>3 DEF MarkR, MarkQ, Known, Shows, Ordered
  <2>5. task[r].rev \in Nat /\ task[r].target \in Nat /\ request[r].rev \in Nat
    BY <2>1 DEF Tasks, Asks
  <2>6. MarkT(r, t, d[r])'
    <3>1. ~(task[r].target > d[r])
      BY <2>1, <2>5 DEF ConnShape
    <3>2. task[r].pc = "listed" => ~(task[r].rev > t)
      BY <1>2, <2>1, <2>5 DEF MarkR, MarkT
    <3> QED
      BY <1>2, <1>4, <1>5, <2>1, <2>2, <3>1, <3>2 DEF MarkR, MarkT, Ordered
  <2>7. MarkA(r, t, d[r])'
    <3>1. request[r].pc # "idle" => ~(request[r].rev > t)
      BY <1>2, <2>1, <2>5 DEF MarkR, MarkA
    <3> QED
      BY <1>2, <1>4, <1>5, <2>1, <3>1 DEF MarkR, MarkA, Connected
  <2>8. MarkP(r, d[r])'
    <3>1. published[r] # None => ~(published[r].changes > d[r])
      BY <2>1 DEF ConnShape
    <3> QED
      BY <2>1, <2>2, <3>1 DEF MarkP
  <2>9. MarkK(r, t, d[r])'
    <3>1. knows'[r] => conn[r] = "up"
      BY DEF Change, Attached
    <3>2. conn[r] = "up" => note'[r] > 0
      BY <2>1 DEF Change
    <3> QED
      BY <3>1, <3>2 DEF MarkK
  <2> QED
    BY <2>4, <2>6, <2>7, <2>8, <2>9 DEF MarkR
<1>8. Marked(t, d)'
  BY <1>6, <1>7 DEF Marked
<1> QED
  BY <1>8 DEF IsMarked

\* Nothing is under way when the revision or the catalog expires.
LEMMA MarkLapse ==
    ASSUME Shapes, IsMarked, Lapse
    PROVE  IsMarked'
<1>1. PICK m \in Nat, c \in [Replicas -> Nat] : Marked(m, c)
  BY DEF IsMarked
<1>2. /\ UNCHANGED <<version, session, refresh, queue, request, knows>>
      /\ UNCHANGED <<conn, note, epoch, changes, handled, task, published>>
      /\ counter' = 0 /\ entry' \in {entry, None}
  BY DEF Lapse, session, refresh
<1>3. Revision(entry)' \in Nat /\ Top' = Revision(entry)'
  BY <1>2, CatalogAssumption DEF Shapes, Types, TypeCatalog, Revision, Events, Top
<1>4. PICK p \in Nat : p = IF m <= Revision(entry)' THEN m ELSE Revision(entry)'
  BY <1>3
<1>5. p <= m /\ p <= Revision(entry)' /\ (p < Revision(entry)' => p = m)
  BY <1>3, <1>4
<1>6. MarkE(p)'
  <2>1. entry # None => entry.rev \in Nat
    BY DEF Shapes, Types, TypeCatalog, Events
  <2>2. entry' # None => entry' = entry /\ Revision(entry)' = entry.rev
    BY <1>2 DEF Revision
  <2>3. Known(entry)'
    BY <1>1, <1>3, <2>1, <2>2 DEF Marked, MarkE, Known
  <2>4. Shows(entry, p)'
    BY <1>1, <1>2, <1>5, <2>1, <2>2 DEF Marked, MarkE, Shows, Ordered
  <2> QED
    BY <1>3, <1>5, <2>3, <2>4 DEF MarkE
<1>7. ASSUME NEW r \in Replicas
      PROVE  MarkR(r, p, c[r])'
  <2>1. /\ MarkR(r, m, c[r]) /\ task[r].pc = "idle" /\ request[r].pc = "idle"
        /\ queue[r].stage = "idle" /\ ~queue[r].timer /\ QueueShape(queue[r])
    BY <1>1 DEF Marked, Shapes, Shape, Lapse, Calm
  <2>2. queue[r].work = None /\ queue[r].latest = None
    BY <2>1 DEF QueueShape
  <2>3. MarkQ(r, p)' /\ MarkT(r, p, c[r])' /\ MarkA(r, p, c[r])'
    BY <1>2, <2>1, <2>2 DEF MarkQ, MarkT, MarkA, Known, Shows, Ordered
  <2>4. MarkP(r, c[r])'
    BY <1>2, <2>1 DEF MarkR, MarkP
  <2>5. MarkK(r, p, c[r])'
    <3>1. entry' # None => Revision(entry)' = Revision(entry)
      BY <1>2 DEF Revision
    <3>2. entry' = None => p = 0
      BY <1>3, <1>5 DEF Revision
    <3>3. Revision(entry) > m /\ entry' # None => Revision(entry)' > p
      BY <1>3, <1>5, <3>1
    <3>4. m = 0 => p = 0
      BY <1>5
    <3> QED
      BY <1>2, <2>1, <2>2, <3>2, <3>3, <3>4 DEF MarkR, MarkK, Ordered
  <2> QED
    BY <2>3, <2>4, <2>5 DEF MarkR
<1>8. Marked(p, c)'
  BY <1>6, <1>7 DEF Marked
<1> QED
  BY <1>8 DEF IsMarked

LEMMA MarkStutter ==
    ASSUME Shapes, IsMarked, UNCHANGED vars
    PROVE  IsMarked'
<1>1. PICK m \in Nat, c \in [Replicas -> Nat] : Marked(m, c)
  BY DEF IsMarked
<1>2. Types /\ TypeCatalog /\ MarkE(m)
  BY <1>1 DEF Shapes, Types, Marked
<1>3. UNCHANGED <<version, redis>>
  BY DEF vars
<1>4. Advances(m)
  BY <1>2, <1>3, RedisKept
<1>5. \A r \in Replicas : Whole(r)' = Whole(r)
  BY DEF vars, Whole, session, refresh
<1> QED
  BY <1>1, <1>2, <1>4, <1>5, MarkUnmoved

LEMMA InitMarked == Init => IsMarked
<1> SUFFICES ASSUME Init PROVE IsMarked
  OBVIOUS
<1>1. PICK c \in [Replicas -> Nat] : \A r \in Replicas : c[r] = 0
  <2>1. [r \in Replicas |-> 0] \in [Replicas -> Nat]
    OBVIOUS
  <2> QED
    BY <2>1
<1>2. entry = None /\ counter = 0
  BY DEF Init
<1>3. MarkE(0)
  BY <1>2 DEF MarkE, Known, Shows, Ordered, Top, Revision
<1>4. ASSUME NEW r \in Replicas
      PROVE  MarkR(r, 0, c[r])
  <2>1. /\ c[r] = 0 /\ queue[r] = Empty /\ task[r] = Idle /\ request[r] = NoAsk
        /\ changes[r] = 0 /\ published[r] = None /\ ~knows[r]
    BY <1>1 DEF Init
  <2>2. MarkQ(r, 0) /\ MarkT(r, 0, c[r]) /\ MarkA(r, 0, c[r])
    BY <2>1 DEF MarkQ, MarkT, MarkA, Known, Shows, Ordered, Empty, Idle, NoAsk
  <2>3. MarkP(r, c[r]) /\ MarkK(r, 0, c[r])
    BY <2>1 DEF MarkP, MarkK
  <2> QED
    BY <2>2, <2>3 DEF MarkR
<1>5. Marked(0, c)
  BY <1>3, <1>4 DEF Marked
<1> QED
  BY <1>5 DEF IsMarked

LEMMA NextMarked == Shapes /\ Shapes' /\ IsMarked /\ [Next]_vars => IsMarked'
<1> SUFFICES ASSUME Shapes, Shapes', IsMarked, [Next]_vars PROVE IsMarked'
  OBVIOUS
<1>1. CASE Change \/ Lapse \/ UNCHANGED vars
  BY <1>1, MarkChange, MarkLapse, MarkStutter
<1>2. ASSUME NEW i \in Replicas,
             \/ ReadSlot(i) \/ Mint(i) \/ Publish(i) \/ PublishFails(i)
             \/ RetryPublish(i)
      PROVE  IsMarked'
  BY <1>2, MarkReadSlot, MarkMint, MarkPublish, MarkPublishFails, MarkRetryPublish
<1>3. ASSUME NEW i \in Replicas,
             \/ Reserve(i) \/ List(i) \/ Listed(i) \/ RefreshFails(i) \/ RetryRefresh(i)
      PROVE  IsMarked'
  BY <1>3, MarkReserve, MarkList, MarkListed, MarkRefreshFails, MarkRetryRefresh
<1>4. ASSUME NEW i \in Replicas,
             \/ Notification(i) \/ Drop(i) \/ Reconnect(i)
             \/ Start(i) \/ Load(i) \/ Attach(i) \/ FirstListFails(i)
      PROVE  IsMarked'
  BY <1>4, MarkNotification, MarkDrop, MarkReconnect, MarkOpen, MarkAttach
<1>5. ASSUME NEW i \in Replicas,
             \/ FirstList(i) \/ PublishFirst(i) \/ Loaded(i)
             \/ Dispose(i) \/ Cancel(i) \/ Drained(i) \/ Crash(i)
      PROVE  IsMarked'
  BY <1>5, MarkCreator, MarkPublishFirst, MarkForget, MarkCancel, MarkOpen
<1>6. ASSUME NEW i \in Replicas,
             Ask(i) \/ AskList(i) \/ Snapshot(i) \/ AskFails(i) \/ AskWrite(i)
      PROVE  IsMarked'
  BY <1>6, MarkAskSteps, MarkSnapshot
<1> QED
  BY <1>1, <1>2, <1>3, <1>4, <1>5, <1>6 DEF Next

LEMMA MarkedIsCurrent == Shapes /\ IsMarked => QuietIsCurrent
<1> SUFFICES ASSUME Shapes, IsMarked, entry # None, entry.by = None, Quiet,
                    NEW r \in Replicas, knows[r]
             PROVE  entry.tools = version
  BY DEF QuietIsCurrent, CatchesUp
<1>1. PICK m \in Nat, c \in [Replicas -> Nat] : Marked(m, c)
  BY DEF IsMarked
<1>2. /\ MarkE(m) /\ MarkK(r, m, c[r]) /\ ConnShape(r) /\ QueueShape(queue[r])
      /\ handled[r] \in Nat /\ changes[r] \in Nat /\ entry.rev \in Nat
  BY <1>1 DEF Marked, MarkR, Shapes, Shape, Types, TypeCounts, TypeCatalog, Events
<1>3. /\ task[r].pc = "idle" /\ queue[r].stage = "idle" /\ ~queue[r].timer
      /\ ~retry[r] /\ note[r] = 0
  BY DEF Quiet, Calm
<1>4. conn[r] = "up" /\ ~(handled[r] < changes[r]) /\ queue[r].latest = None
  BY <1>2, <1>3 DEF ConnShape, QueueShape
<1>5. entry.rev > m \/ m = 0
  BY <1>2, <1>3, <1>4 DEF MarkK, Ordered, Revision
<1>6. entry.rev > m
  BY <1>2, <1>5 DEF MarkE, Known
<1> QED
  BY <1>2, <1>6 DEF MarkE, Shows, Ordered

\* Once nothing is under way the catalog shows the present list, if it was written
\* with a revision reserved first and a replica has kept the session it had when the
\* list changed, or has refreshed since (reserveAppToolsPublicationRevision,
\* setCachedAppServerTools, fetchOrderedToolsSnapshot).
THEOREM EndsCurrent == Spec => []QuietIsCurrent
<1>1. Init => Shapes /\ IsMarked
  BY InitShapes, InitMarked
<1>2. Shapes /\ IsMarked /\ [Next]_vars => (Shapes /\ IsMarked)'
  BY NextShapes, NextMarked
<1> QED
  BY <1>1, <1>2, MarkedIsCurrent, PTL DEF Spec
=============================================================================
