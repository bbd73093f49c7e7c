---------------------------- MODULE ToolCatalog ----------------------------
(***************************************************************************)
(* The shared catalog of the tools of one MCP server:                      *)
(* packages/api/src/mcp/{connection,toolsChanged,tools,                    *)
(* ConnectionsRepository}.ts and packages/api/src/mcp/catalog/store.ts.    *)
(*                                                                         *)
(* Every replica of the application keeps a connection to the server.  The *)
(* server changes its list and tells the sessions that are open; a replica *)
(* that is told reserves a revision in Redis, lists the tools, and hands   *)
(* the list to a queue of its own, which writes it to the catalog in Redis *)
(* unless a later revision is there.  A connection that is created on      *)
(* demand publishes a first list without a revision, and a user may ask a  *)
(* replica to list again.  A list is the number of the change it shows.    *)
(***************************************************************************)
EXTENDS Integers

CONSTANTS
    Replicas,
    None,
    Asked,        \* the replicas whose users ask for the list
    Late,         \* the replicas that cannot connect when they start
    MaxChanges,   \* bound on the changes of the server's list
    MaxEvents     \* bound on the sessions lost, the commands and requests that
                  \* fail, the connections disposed of, the lists users ask
                  \* for, the crashes and the expiries, together

VARIABLES
    version,      \* the list of the server
    counter,      \* the last revision that was reserved, 0 when it expired
    entry,        \* the catalog, None when it expired
    conn,         \* the life of the replica and its connection
    load,         \* what its creator still does with a connection
    first,        \* the first list it was given
    moved,        \* toolsChanged was emitted since that list was asked for
    note,         \* notifications on their way
    epoch,        \* toolListRefreshEpoch
    changes,      \* toolListChangeGeneration
    handled,      \* handledToolListChangeGeneration
    retry,        \* toolListRefreshRetryTimer
    task,         \* toolListRefreshPromise
    published,    \* publishedToolListSnapshot
    queue,        \* the pending change of the server, and its dispatch
    request,      \* a list that a user has asked for
    knows,        \* history: told of the last change, or sure to list after it
    spent         \* how many of the bounded events have happened

redis   == <<counter, entry>>
session == <<conn, load, first, moved, note>>
refresh == <<epoch, changes, handled, retry, task, published>>
vars == <<version, redis, session, refresh, queue, request, knows, spent>>

Bounded == spent < MaxEvents /\ spent' = spent + 1

\* A list with its revision; by names the replica that publishes it without
\* having reserved the revision before it listed the tools.
Events == [rev : Nat, tools : Nat, by : Replicas \cup {None}]

\* What refreshChangedTools has published last: for which change, and the list.
Lists == [changes : Nat, tools : Nat]

ASSUME CatalogAssumption ==
    /\ None \notin Replicas /\ None \notin Events /\ None \notin Lists
    /\ MaxChanges \in Nat /\ MaxEvents \in Nat

Idle   == [pc |-> "idle", target |-> 0, epoch |-> 0, rev |-> 0, tools |-> 0]
Empty  == [stage |-> "idle", work |-> None, latest |-> None, newer |-> FALSE,
           timer |-> FALSE]
NoAsk  == [pc |-> "idle", rev |-> 0, epoch |-> 0, changes |-> 0, tools |-> 0]

TypeOK ==
    /\ version \in Nat /\ counter \in Nat /\ entry \in Events \cup {None}
    /\ conn \in [Replicas -> {"boot", "none", "up", "down",
                              "closing", "draining"}]
    /\ load \in [Replicas -> {"no", "attach", "start", "fetch", "listed",
                              "publish", "refresh"}]
    /\ first \in [Replicas -> Nat] /\ moved \in [Replicas -> BOOLEAN]
    /\ note \in [Replicas -> Nat] /\ epoch \in [Replicas -> Nat]
    /\ changes \in [Replicas -> Nat] /\ handled \in [Replicas -> Nat]
    /\ retry \in [Replicas -> BOOLEAN]
    /\ task \in [Replicas -> [pc : {"idle", "reserve", "fetch", "listed"},
                              target : Nat, epoch : Nat, rev : Nat, tools : Nat]]
    /\ published \in [Replicas -> {None} \cup Lists]
    /\ queue \in [Replicas -> [stage : {"idle", "read", "mint", "write"},
                               work : Events \cup {None}, newer : BOOLEAN,
                               latest : Events \cup {None}, timer : BOOLEAN]]
    /\ request \in [Replicas -> [pc : {"idle", "fetch", "listed", "await",
                                       "write"},
                                 rev : Nat, epoch : Nat, changes : Nat,
                                 tools : Nat]]
    /\ knows \in [Replicas -> BOOLEAN] /\ spent \in 0..MaxEvents

Init ==
    /\ version = 0 /\ counter = 0 /\ entry = None
    /\ conn = [r \in Replicas |-> "boot"] /\ load = [r \in Replicas |-> "no"]
    /\ first = [r \in Replicas |-> 0] /\ moved = [r \in Replicas |-> FALSE]
    /\ note = [r \in Replicas |-> 0] /\ epoch = [r \in Replicas |-> 0]
    /\ changes = [r \in Replicas |-> 0] /\ handled = [r \in Replicas |-> 0]
    /\ retry = [r \in Replicas |-> FALSE] /\ task = [r \in Replicas |-> Idle]
    /\ published = [r \in Replicas |-> None]
    /\ queue = [r \in Replicas |-> Empty]
    /\ request = [r \in Replicas |-> NoAsk]
    /\ knows = [r \in Replicas |-> FALSE]
    /\ spent = 0

(***************************************************************************)
(* The catalog in Redis.  The committed revision has the value and the     *)
(* lifetime of the entry's.                                                *)
(***************************************************************************)

Revision(e) == IF e = None THEN 0 ELSE e.rev

\* getNextAppToolsPublicationRevision: the counter starts from the entry.
Reserved == (IF counter = 0 THEN Revision(entry) ELSE counter) + 1

\* Faulty: a write that does not look at the revisions.
Overwrite(event) == entry' = event

\* WRITE_APP_TOOLS_IF_CURRENT_SCRIPT.
Write(event) ==
    entry' = IF Revision(entry) > event.rev THEN entry ELSE event

(***************************************************************************)
(* The queue of a replica: notifyMCPToolsChanged                           *)
(***************************************************************************)

\* The handler begins with an event.  One without a revision reads first.
Begin(event) == [stage |-> IF event.by = None THEN "write" ELSE "read",
                 work |-> event, latest |-> event, newer |-> FALSE,
                 timer |-> FALSE]

Notified(q, event) ==
    IF q.stage = "idle" THEN Begin(event)
    ELSE [q EXCEPT !.latest = event, !.newer = TRUE, !.timer = FALSE]

\* The handler has returned: it starts over if another event came meanwhile.
Done(q) == IF q.newer THEN Begin(q.latest) ELSE Empty

\* It has thrown: the latest event is kept for later, unless the queue was
\* cancelled.
Thrown(q) == IF q.latest = None THEN Empty
             ELSE [q EXCEPT !.stage = "idle", !.work = None, !.newer = FALSE,
                            !.timer = TRUE]

\* recoveryRevision: without a revision only an empty slot is filled.
ReadSlot(r) ==
    /\ queue[r].stage = "read"
    /\ queue' = [queue EXCEPT ![r] = IF entry = None
                                     THEN [@ EXCEPT !.stage = "mint"]
                                     ELSE Done(@)]
    /\ UNCHANGED <<version, redis, session, refresh, request, knows, spent>>

Mint(r) ==
    /\ queue[r].stage = "mint"
    /\ counter' = Reserved
    /\ queue' = [queue EXCEPT ![r].stage = "write", ![r].work.rev = Reserved]
    /\ UNCHANGED <<version, entry, session, refresh, request, knows, spent>>

Publish(r) ==
    /\ queue[r].stage = "write"
    /\ Write(queue[r].work)
    /\ queue' = [queue EXCEPT ![r] = Done(@)]
    /\ UNCHANGED <<version, counter, session, refresh, request, knows, spent>>

\* A command of the handler fails, or its reply is lost.
PublishFails(r) ==
    /\ queue[r].stage # "idle" /\ Bounded
    /\ queue' = [queue EXCEPT ![r] = Thrown(@)]
    /\ \/ UNCHANGED redis
       \/ /\ queue[r].stage = "mint"
          /\ counter' = Reserved /\ UNCHANGED entry
       \/ /\ queue[r].stage = "write"
          /\ Write(queue[r].work) /\ UNCHANGED counter
    /\ UNCHANGED <<version, session, refresh, request, knows>>

RetryPublish(r) ==
    /\ queue[r].timer
    /\ queue' = [queue EXCEPT ![r] = Begin(@.latest)]
    /\ UNCHANGED <<version, redis, session, refresh, request, knows, spent>>

(***************************************************************************)
(* The refresh of a connection: refreshChangedTools                        *)
(***************************************************************************)

Started(target, at) ==
    [pc |-> "reserve", target |-> target, epoch |-> at, rev |-> 0, tools |-> 0]

\* startToolListRefresh.
StartIf(r, up, t, n) == IF up /\ t.pc = "idle" THEN Started(n, epoch'[r]) ELSE t

\* refreshToolList: the list has changed, or is taken to have changed.
RefreshToolList(r, up) ==
    /\ changes' = [changes EXCEPT ![r] = @ + 1]
    /\ retry' = [retry EXCEPT ![r] = FALSE]
    /\ UNCHANGED <<epoch, handled, published>>
    /\ task' = [task EXCEPT ![r] = StartIf(r, up, @, changes[r] + 1)]

Behind(r) == request[r].epoch = epoch[r] /\ handled'[r] < changes[r]

\* What a request gets that has waited: the list of a refresh that nothing has
\* overtaken, or nothing.
Concluded(r, ask) ==
    IF /\ published'[r] # None /\ handled'[r] = changes[r]
       /\ published'[r].changes = changes[r]
    THEN [ask EXCEPT !.pc = "write", !.tools = published'[r].tools]
    ELSE NoAsk

\* Faulty: a change that came during the refresh waits for the next.
SettleOnly(r) ==
    /\ task' = [task EXCEPT ![r] = Idle]
    /\ request' = [request EXCEPT ![r] =
                   IF @.pc = "await" THEN Concluded(r, @) ELSE @]

\* The promise settles: a change that came meanwhile starts the next refresh
\* unless a retry is due, and a request that awaits it goes on.
Settle(r) ==
    /\ task' = [task EXCEPT ![r] =
                   StartIf(r, conn[r] = "up" /\ ~retry'[r]
                              /\ handled'[r] < changes[r], Idle, changes[r])]
    /\ request' = [request EXCEPT ![r] =
                   IF @.pc = "await" /\ ~(Behind(r) /\ task'[r].pc # "idle")
                   THEN Concluded(r, @) ELSE @]

Reserve(r) ==
    /\ task[r].pc = "reserve"
    /\ counter' = Reserved
    /\ task' = [task EXCEPT ![r].pc = "fetch", ![r].rev = Reserved]
    /\ UNCHANGED <<version, entry, session, epoch, changes, handled, retry,
                   published, queue, request, knows, spent>>

\* Nothing has become of the session since the refresh began.
Fresh(r) == task[r].epoch = epoch[r] /\ conn[r] = "up"

\* The revision, or the list, could not be had.
RefreshFails(r) ==
    /\ task[r].pc \in {"reserve", "fetch"}
    /\ IF task[r].pc = "fetch" /\ ~Fresh(r) THEN UNCHANGED spent ELSE Bounded
    /\ UNCHANGED <<epoch, changes, handled, published>>
    /\ retry' = [retry EXCEPT ![r] =
                    @ \/ /\ conn[r] = "up"
                         /\ task[r].pc = "reserve" \/ task[r].epoch = epoch[r]]
    /\ Settle(r)
    /\ UNCHANGED <<version, redis, session, queue, knows>>

\* The server answers, whichever session the request was sent in.
List(r) ==
    /\ task[r].pc = "fetch" /\ conn[r] = "up"
    /\ task' = [task EXCEPT ![r].pc = "listed", ![r].tools = version]
    /\ UNCHANGED <<version, redis, session, epoch, changes, handled, retry,
                   published, queue, request, knows, spent>>

\* dispatchToolsChanged: nobody listens before the creator has attached.
Dispatch(r, event) ==
    IF load[r] \in {"attach", "start"} THEN UNCHANGED <<queue, moved>>
    ELSE /\ queue' = [queue EXCEPT ![r] = Notified(@, event)]
         /\ moved' = [moved EXCEPT ![r] = load[r] \in {"fetch", "listed"}]

\* The list arrives: it is published if the connection has not moved on.
Listed(r) ==
    /\ task[r].pc = "listed"
    /\ UNCHANGED <<epoch, changes, retry>>
    /\ IF Fresh(r)
       THEN /\ handled' = [handled EXCEPT ![r] = task[r].target]
            /\ published' = [published EXCEPT ![r] =
                  [changes |-> task[r].target, tools |-> task[r].tools]]
            /\ Dispatch(r, [rev |-> task[r].rev, tools |-> task[r].tools,
                            by |-> None])
            /\ IF task[r].target < changes[r]
               THEN /\ task' = [task EXCEPT ![r] = Started(changes[r], @.epoch)]
                    /\ UNCHANGED request
               ELSE Settle(r)
       ELSE UNCHANGED <<handled, published, queue, moved>> /\ Settle(r)
    /\ UNCHANGED <<version, redis, conn, load, first, note, knows, spent>>

RetryRefresh(r) ==
    /\ retry[r]
    /\ retry' = [retry EXCEPT ![r] = FALSE]
    /\ UNCHANGED <<epoch, changes, handled, published>>
    /\ task' = [task EXCEPT ![r] = StartIf(r, conn[r] = "up", @, changes[r])]
    /\ UNCHANGED <<version, redis, session, queue, request, knows, spent>>

(***************************************************************************)
(* Sessions                                                                *)
(***************************************************************************)

Attached(r) == conn[r] = "up" /\ load[r] \notin {"attach", "start"}

Change ==
    /\ version < MaxChanges
    /\ version' = version + 1
    /\ note' = [r \in Replicas |-> IF conn[r] = "up" THEN note[r] + 1 ELSE 0]
    /\ knows' = [r \in Replicas |-> Attached(r)]
    /\ UNCHANGED <<redis, conn, load, first, moved, refresh, queue, request,
                   spent>>

\* notifications/tools/list_changed.
Notification(r) ==
    /\ conn[r] = "up" /\ note[r] > 0
    /\ note' = [note EXCEPT ![r] = @ - 1]
    /\ RefreshToolList(r, TRUE)
    /\ UNCHANGED <<version, redis, conn, load, first, moved, queue, request,
                   knows, spent>>

\* The transport reports an error; the connection tries to reconnect.  What was
\* started on the session that is gone counts no more.
Drop(r) ==
    /\ conn[r] = "up" /\ Bounded
    /\ conn' = [conn EXCEPT ![r] = "down"]
    /\ note' = [note EXCEPT ![r] = 0]
    /\ epoch' = [epoch EXCEPT ![r] = @ + 1]
    /\ retry' = [retry EXCEPT ![r] = FALSE]
    /\ published' = [published EXCEPT ![r] = None]
    /\ knows' = [knows EXCEPT ![r] = FALSE]
    /\ UNCHANGED <<version, redis, load, first, moved, changes, handled, task,
                   queue, request>>

\* The reconnection counts as a change; a refresh of the old session that is
\* still under way makes room for the next when it settles.
Reconnect(r) ==
    /\ conn[r] = "down"
    /\ conn' = [conn EXCEPT ![r] = "up"]
    /\ changes' = [changes EXCEPT ![r] = @ + 1]
    /\ UNCHANGED <<epoch, handled, retry, published>>
    /\ task' = [task EXCEPT ![r] = StartIf(r, TRUE, @, changes[r] + 1)]
    /\ knows' = [knows EXCEPT ![r] = load[r] \notin {"attach", "start"}]
    /\ UNCHANGED <<version, redis, load, first, moved, note, queue, request,
                   spent>>

(***************************************************************************)
(* ConnectionsRepository                                                   *)
(***************************************************************************)

\* A new connection: at the start of the replica, or on demand.
Open(r, stage) ==
    /\ conn' = [conn EXCEPT ![r] = "up"]
    /\ load' = [load EXCEPT ![r] = stage]

\* The connection is gone and with it all it kept.
Forget(r) ==
    /\ note' = [note EXCEPT ![r] = 0]
    /\ epoch' = [epoch EXCEPT ![r] = 0]
    /\ changes' = [changes EXCEPT ![r] = 0]
    /\ handled' = [handled EXCEPT ![r] = 0]
    /\ retry' = [retry EXCEPT ![r] = FALSE]
    /\ task' = [task EXCEPT ![r] = Idle]
    /\ published' = [published EXCEPT ![r] = None]
    /\ knows' = [knows EXCEPT ![r] = FALSE]

Others == <<version, first, moved, note, refresh, queue, request, knows>>

\* mergeAppTools writes the list that was inspected before the start; then the
\* replica connects, or waits for a user of the server.
Start(r) ==
    /\ conn[r] = "boot"
    /\ \/ \E v \in 0..version : Write([rev |-> 0, tools |-> v, by |-> r])
       \/ UNCHANGED entry
    /\ \/ r \notin Late /\ Open(r, "start")
       \/ /\ r \in Late
          /\ conn' = [conn EXCEPT ![r] = "none"]
          /\ UNCHANGED load
    /\ UNCHANGED <<counter, spent>> /\ UNCHANGED Others

Load(r) ==
    /\ conn[r] = "none"
    /\ Open(r, "attach")
    /\ UNCHANGED <<redis, spent>> /\ UNCHANGED Others

\* The creator attaches its listener; at the start it asks for a refresh, on
\* demand for a first list.
Attach(r) ==
    /\ conn[r] \in {"up", "down"} /\ load[r] \in {"attach", "start"}
    /\ moved' = [moved EXCEPT ![r] = FALSE]
    /\ IF load[r] = "start"
       THEN /\ load' = [load EXCEPT ![r] = "no"]
            /\ RefreshToolList(r, conn[r] = "up")
            /\ knows' = [knows EXCEPT ![r] = conn[r] = "up"]
       ELSE /\ load' = [load EXCEPT ![r] = "fetch"]
            /\ UNCHANGED <<refresh, knows>>
    /\ UNCHANGED <<version, redis, conn, first, note, queue, request, spent>>

FirstList(r) ==
    /\ load[r] = "fetch" /\ conn[r] = "up"
    /\ load' = [load EXCEPT ![r] = "listed"]
    /\ first' = [first EXCEPT ![r] = version]
    /\ UNCHANGED <<version, redis, conn, moved, note, refresh, queue, request,
                   knows, spent>>

FirstListFails(r) ==
    /\ load[r] = "fetch"
    /\ load' = [load EXCEPT ![r] = "refresh"]
    /\ moved' = [moved EXCEPT ![r] = FALSE]
    /\ RefreshToolList(r, conn[r] = "up")
    /\ knows' = [knows EXCEPT ![r] = conn[r] = "up"]
    /\ UNCHANGED <<version, redis, conn, first, note, queue, request, spent>>

\* A first list that a refresh has overtaken is not published.
PublishFirst(r) ==
    /\ load[r] = "listed"
    /\ load' = [load EXCEPT ![r] = "publish"]
    /\ first' = [first EXCEPT ![r] = 0] /\ moved' = [moved EXCEPT ![r] = FALSE]
    /\ queue' = IF moved[r] THEN queue
                ELSE [queue EXCEPT ![r] = Notified(@,
                         [rev |-> 0, tools |-> first[r], by |-> r])]
    /\ UNCHANGED <<version, redis, conn, note, refresh, request,
                   knows, spent>>

Loaded(r) ==
    /\ \/ load[r] = "publish" /\ queue[r].stage = "idle"
       \/ load[r] = "refresh" /\ task[r].pc = "idle"
    /\ load' = [load EXCEPT ![r] = "no"]
    /\ UNCHANGED <<version, redis, conn, first, moved, note, refresh, queue,
                   request, knows, spent>>

\* disconnectConnection: the listener goes first, so what the connection still
\* does has no effect; then the queue is cancelled and drained.
Dispose(r) ==
    /\ conn[r] \in {"up", "down"} /\ load[r] = "no" /\ Bounded
    /\ conn' = [conn EXCEPT ![r] = "closing"]
    /\ Forget(r)
    /\ request' = [request EXCEPT ![r] = IF @.pc = "write" THEN @ ELSE NoAsk]
    /\ UNCHANGED <<version, redis, load, first, moved, queue>>

Cancel(r) ==
    /\ conn[r] = "closing"
    /\ conn' = [conn EXCEPT ![r] = "draining"]
    /\ queue' = [queue EXCEPT ![r] = [@ EXCEPT !.latest = None, !.newer = FALSE,
                                               !.timer = FALSE]]
    /\ UNCHANGED <<version, redis, load, first, moved, note, refresh, request,
                   knows, spent>>

Drained(r) ==
    /\ conn[r] = "draining" /\ queue[r].stage = "idle"
    /\ conn' = [conn EXCEPT ![r] = "none"]
    /\ UNCHANGED <<version, redis, load, first, moved, note, refresh, queue,
                   request, knows, spent>>

(***************************************************************************)
(* A user asks for the list: reinitMCPServer, fetchOrderedToolsSnapshot    *)
(***************************************************************************)

\* The revision comes before the list; where the connection stands is read
\* when the list is asked for.
Ask(r) ==
    /\ r \in Asked /\ Attached(r) /\ request[r].pc = "idle" /\ Bounded
    /\ counter' = Reserved
    /\ request' = [request EXCEPT ![r] =
          [pc |-> "fetch", rev |-> Reserved, epoch |-> epoch[r],
           changes |-> changes[r], tools |-> 0]]
    /\ UNCHANGED <<version, entry, session, refresh, queue, knows>>

\* The server answers the request.
AskList(r) ==
    /\ request[r].pc = "fetch" /\ conn[r] = "up"
    /\ request' = [request EXCEPT ![r].pc = "listed", ![r].tools = version]
    /\ UNCHANGED <<version, redis, session, refresh, queue, knows, spent>>

Unmoved(r) == request[r].epoch = epoch[r] /\ request[r].changes = changes[r]

\* The answer, or the failure, reaches the request.  If the list has moved the
\* request waits for a refresh and starts one if none runs.
Snapshot(r) ==
    /\ request[r].pc = "listed" \/ (request[r].pc = "fetch" /\ ~Unmoved(r))
    /\ UNCHANGED <<epoch, changes, handled, retry, published>>
    /\ IF Unmoved(r)
       THEN /\ request' = [request EXCEPT ![r].pc = "write"]
            /\ UNCHANGED task
       ELSE /\ task' = [task EXCEPT ![r] =
                  StartIf(r, conn[r] = "up" /\ Behind(r), @, changes[r])]
            /\ request' = [request EXCEPT ![r] =
                  IF Behind(r) /\ task'[r].pc # "idle"
                  THEN [@ EXCEPT !.pc = "await"] ELSE Concluded(r, @)]
    /\ UNCHANGED <<version, redis, session, queue, knows, spent>>

\* The request ends without a list, or its last command fails.
AskFails(r) ==
    /\ \/ request[r].pc = "fetch" /\ Unmoved(r)
       \/ request[r].pc = "write"
    /\ request' = [request EXCEPT ![r] = NoAsk]
    /\ UNCHANGED <<version, redis, session, refresh, queue, knows, spent>>

AskWrite(r) ==
    /\ request[r].pc = "write"
    /\ Write([rev |-> request[r].rev, tools |-> request[r].tools, by |-> None])
    /\ request' = [request EXCEPT ![r] = NoAsk]
    /\ UNCHANGED <<version, counter, session, refresh, queue, knows, spent>>

(***************************************************************************)
(* Time and crashes                                                        *)
(***************************************************************************)

Calm(r) ==
    /\ task[r].pc = "idle" /\ queue[r].stage = "idle" /\ ~queue[r].timer
    /\ request[r].pc = "idle" /\ load[r] = "no"

\* Twelve hours without a write, or without a reservation: nothing is under way
\* then, but a list may have changed.
Lapse ==
    /\ \A r \in Replicas : Calm(r)
    /\ counter > 0 /\ Bounded
    /\ counter' = 0 /\ entry' \in {entry, None}
    /\ UNCHANGED <<version, session, refresh, queue, request, knows>>

Crash(r) ==
    /\ conn[r] # "boot" /\ Bounded
    /\ conn' = [conn EXCEPT ![r] = "boot"]
    /\ load' = [load EXCEPT ![r] = "no"]
    /\ first' = [first EXCEPT ![r] = 0] /\ moved' = [moved EXCEPT ![r] = FALSE]
    /\ Forget(r)
    /\ queue' = [queue EXCEPT ![r] = Empty]
    /\ request' = [request EXCEPT ![r] = NoAsk]
    /\ UNCHANGED <<version, redis>>

Next ==
    \/ Change \/ Lapse
    \/ \E r \in Replicas :
          \/ ReadSlot(r) \/ Mint(r) \/ Publish(r) \/ PublishFails(r)
          \/ RetryPublish(r)
          \/ Reserve(r) \/ List(r) \/ Listed(r) \/ RefreshFails(r)
          \/ RetryRefresh(r)
          \/ Notification(r) \/ Drop(r) \/ Reconnect(r)
          \/ Start(r) \/ Load(r) \/ Attach(r)
          \/ FirstList(r) \/ FirstListFails(r) \/ PublishFirst(r) \/ Loaded(r)
          \/ Dispose(r) \/ Cancel(r) \/ Drained(r) \/ Crash(r)
          \/ Ask(r) \/ AskList(r) \/ Snapshot(r) \/ AskFails(r) \/ AskWrite(r)

Spec == Init /\ [][Next]_vars

(***************************************************************************)
(* Properties                                                              *)
(***************************************************************************)

\* A change of which a replica was told is being listed or is due to be: the
\* early returns and the single flights of startToolListRefresh and
\* startDispatch never leave one behind, whatever fails or reconnects
\* meanwhile.  A queue that holds an event publishes it now or later, and the
\* queue of a closed connection is empty before another is created.
NothingForgotten == \A r \in Replicas :
    /\ conn[r] = "up" /\ handled[r] < changes[r]
       => task[r].pc # "idle" \/ retry[r]
    /\ queue[r].latest # None => queue[r].stage # "idle" \/ queue[r].timer
    /\ conn[r] = "none" => queue[r] = Empty

KeepsTrack == TypeOK /\ NothingForgotten

Quiet == \A r \in Replicas :
    /\ Calm(r) /\ ~retry[r] /\ note[r] = 0
    /\ conn[r] \notin {"boot", "closing", "draining"}

CatchesUp ==
    Quiet /\ (\E r \in Replicas : knows[r]) /\ entry # None
    => entry.tools = version

\* Once nothing is under way anywhere, a catalog that was written with a
\* revision reserved before its list was asked for shows the present list of
\* the server, if a single replica has kept the session it had when the list
\* last changed, or has refreshed since: no failure, retry, reconnection, expiry
\* or request of a user leaves an older list there
\* (reserveAppToolsPublicationRevision, setCachedAppServerTools,
\* fetchOrderedToolsSnapshot).
QuietIsCurrent == entry # None /\ entry.by = None => CatchesUp

\* What recoveryRevision is to ensure: a list that was fetched without a
\* revision does not displace the list of a later refresh, so the catalog is
\* current whoever wrote it last.
RecoveryYields == CatchesUp
=============================================================================
