# SwatGPT: formal models

TLA+ models of the concurrent and failure-prone parts of SwatGPT, the TLC runs
that check them, and proofs checked by TLAPS. Every definition follows the code
under `src/`; `PROJECT.json` names the lines each one stands for, what each run
and theorem is about, and the hazards of the code that the properties address.

SwatGPT is a LibreChat fork: an Express application (`api/`, `packages/api`,
`packages/data-schemas`) that streams answers of language models to browsers,
with MongoDB, Redis, Meilisearch and Qdrant behind it, a Python program that
builds the knowledge base (`ingest/`), and an MCP server with campus data
(`dash_mcp/`).

## Inventory

### Components, state and interaction

| Component | Code | State | Operations |
| --- | --- | --- | --- |
| Redis event transport, subscriber half | `packages/api/src/stream/implementations/RedisEventTransport.ts` | per stream: handlers, channel subscription, reorder buffer (frontier, held events, pause, timer) | subscribe, unsubscribe, receive, flush, synchronize, clean up |
| Redis event transport, publisher half | same file, `stream/internal/` | coalescing batch, receipts; in Redis the sequence counter | emit chunk, flush, DONE, replaced DONE, discard |
| Job store | `stream/implementations/RedisJobStore.ts` | job hash (owner, status), epoch marker, replacement receipts, idempotency claims, steering queues, chunk log, run steps | create, change status, delete, acknowledge, claim, steer, append, read |
| Job store and transport in memory | `InMemoryJobStore.ts`, `InMemoryEventTransport.ts` | the same in one process | the same |
| Generation job manager | `stream/GenerationJobManager.ts` | runtimes, owned jobs, terminal claims, early event buffers, attachments | create, emit, attach, resume, abort, complete, pause, approve, reap, shut down |
| Pauses for approval | `stream/ApprovalLifecycle.ts`, `api/server/controllers/agents/{client,request,resume}.js` | pending action and barrier of the job hash, the row of the response | pause, release, decide, expire, stop, sweep |
| Steering | `SteeringLifecycle.ts`, `SteerRecovery.ts`, `packages/api/src/agents/steering/` | queue, claimed and parked steers, leases, receipts | enqueue, cancel, drain, apply, restore, park, recover, discard |
| Leader election | `packages/api/src/cluster/LeaderElection.ts` | a key of Redis with a lease; a timer per server | isLeader, renew, resign |
| Flow state manager | `packages/api/src/flow/manager.ts` | an entry per flow in a shared store; polls | create, run a handler, complete, fail, abort, delete |
| Knowledge base ingestion | `ingest/ingest.py` | collections and the alias of Qdrant | ingest, roll back, verify, compare |
| Retrieval | `packages/api/src/rag/` | none between messages | embed, search, merge, rerank, select |
| Campus data server | `dash_mcp/src/` | sync runs, a PostgreSQL store, HTTP sessions | sync, query, open and close sessions |
| MCP connections and the tool catalog | `packages/api/src/mcp/` | connections, refreshes and queues of a replica; catalog and revision counter in Redis; tokens, flows | connect, refresh, publish, reinitialize, call tools |
| Balance and transactions | `packages/data-schemas/src/methods/transaction.ts`, `packages/api/src/middleware/{balance,checkBalance}.ts`, `packages/api/src/agents/transactions.ts` | a record of credits per user, a journal of transactions | check, refill, charge, store |
| Data methods | `packages/data-schemas/src/methods/` | MongoDB documents | skills, authority, files |
| Search synchronization | `api/db/indexSync.js`, mongoMeili | flags of indexed documents | synchronize |
| Routes, client, operations | `api/server`, `client`, `ops`, `monitoring`, ... | requests, user interface, scripts | |

A generation runs as follows. A request creates a job: one Lua script gives the
conversation's stream a new generation, replaces the job hash and records the
generation it replaces. The replica that created it installs a runtime, which
calls the provider and emits deltas. They pass through the coalescing batch, are
numbered and published by a Lua script that refuses generations which no longer
own the stream, and reach every replica that has the stream's channel open.
There the reorder buffer puts them in order for the SSE handlers. The end of a
run, an abort from any replica, or a replacement changes the job's status in
another script and publishes a DONE, on which handlers close. A reader that
reconnects replays what it missed and then synchronizes the reorder buffer with
the sequence counter.

Job store and publisher share one Redis connection, so that the commands of one
replica run in the order they were sent; replicas interact only through Redis.
Within a replica JavaScript runs one callback at a time, and everything that is
awaited is a place where other callbacks run.

While it runs, the user may steer it: messages are queued in Redis, drained by the
run at its next tool boundary, and parked for the user when it ends first. A tool
call that needs approval ends the run's segment and leaves the job in
`requires_action`; a decision, which may reach another replica, starts a segment
that continues it. The request was admitted by a check of the user's balance, and
its usage is charged and stored in a journal afterwards.

Leader election decides which replica initializes shared MCP caches. The flow
state manager lets a request wait for an OAuth callback, or for work another
replica does. The tools of an MCP server are listed by every replica that has a
connection to it and published to one catalog in Redis. Ingestion and retrieval
meet in the alias `kb`.

### What is hard

- **Ordering.** Deltas reach subscribers over at-most-once pub/sub, batched,
  across replicas that take numbers from one counter; terminal events overtake
  or trail the deltas they end.
- **Stale state.** A counter read, a leader's UUID, a flow's entry, a pause, a
  balance or a list of tools is read before an await and used after it.
- **Fencing.** A replica keeps working for a generation that was aborted,
  completed or replaced elsewhere; the scripts in Redis must refuse it.
- **Failures.** Commands are lost or executed without a reply, processes die,
  keys expire, and only one of two stores that belong together is written.
- **Timers.** Flush timers, leases, renewals, polls and timeouts race what they
  wait for.
- **Termination.** A held DONE, an open receipt, a waiting call or a missing
  leader must not stay so for ever.

### What makes each component correct

| Component | Correctness |
| --- | --- |
| Subscriber half | each event at most once and in order; nothing skipped unaccounted; nothing before replay; nothing stranded |
| Publisher half, fencing | emission order; no chunk after its DONE; generations never mix; receipts true and settled |
| Manager | a claim loses nothing; one end per generation; an attachment that pauses the transport sees every event once; attachments settle, end with their generation, and learn of approvals |
| Pauses for approval | one decision and one driver per pause; the paused response saved before anybody acts on the pause; only overdue pauses expire; true answers; a final response stays; nobody waits for ever |
| Steering | an accepted steer is in one place, delivered once and in order; receipts never go back; what was not delivered returns to the user |
| Tool catalog | no change that a replica was told of is forgotten; once nothing is under way the catalog is current (refuted for a list published without a revision) |
| Balance | no concurrent change lost; each change made once per reply that came or was lost; credits and journal agree |
| Leader election | at most one server acts as leader; no lease ended by others; a leader again after failures |
| Flow manager | every call settles; a missing flow has a cause |
| Ingestion | the alias always serves a checked collection; roll back returns; nothing left over |
| Retrieval | the lexical slot, the score floor, the caps (planned) |
| Campus data server | no overlapping sync of a source; the session cap (planned) |

## Modules

| Module | Models | Configurations |
| --- | --- | --- |
| `ReorderBuffer` | subscriber half, one stream on one replica | `ReorderBuffer` |
| `OrderedDelivery` | abstract: what the transport promises to attached subscribers; `ReorderBuffer` implements it | `ReorderBuffer` |
| `ReorderBufferProofs` | proofs about both | |
| `ChunkPublisher` | publisher half, the fences of the job store, and the manager's decisions to claim, stop, replace and reap; other replicas as an environment | `ChunkPublisher` |
| `ChunkPublisherProofs` | proofs about it | |
| `StreamAttach` | requests that attach to, resume and leave a generation, the early event buffer, and the transport under them | `StreamAttach` |
| `StreamAttachProofs` | proofs about it | |
| `Approval` | pauses of a stream's generations, decisions, Stops, sweeps and the rows of the responses | `Approval`, `ApprovalHandover` |
| `ApprovalProofs` | proofs about it | |
| `Steering` | the steers of a stream's generations | `Steering` |
| `SteeringProofs` | proofs about it | |
| `Balance` | the credits of one user under concurrent requests | `Balance` |
| `BalanceProofs` | proofs about it | |
| `ToolCatalog` | the catalog of one MCP server, and the connections, refreshes and queues of the replicas | `ToolCatalog`, `ToolCatalogRecovery` |
| `ToolCatalogProofs` | proofs about it | |
| `LeaderElection` | the servers of a cluster | `LeaderElection` |
| `FlowState` | one flow and everybody who calls for it | `FlowState` |
| `IngestAlias` | Qdrant under runs of `ingest.py` | `IngestAlias` |
| `CoordinationProofs` | proofs about `LeaderElection`, `FlowState` and `IngestAlias` | |

`ReorderBuffer`, `ChunkPublisher`, `StreamAttach`, `Approval` and `Steering` are
five views of one generation. Each keeps of the job hash what its part reads and
writes, and stands for the rest of the system by the steps that can change it:
`ChunkPublisher` has the chunks, `StreamAttach` their readers, `Approval` its
pauses, `Steering` its steers; creation, replacement, end and reaping of a
generation are in all of them.

The modules declare their constants with named assumptions and configurations
only give values, so TLC reads a module directly. Next to some definitions
stands a faulty variant of them, marked as such and used by no behaviour: the
mutants of `PROJECT.json` put it in the place of the definition to see that the
property notices.

### ReorderBuffer

An event is its sequence number. `net` holds the frames that Redis has published
to this replica; any of them may arrive next, late, again, or never. `Receive` is
`handleMessage`, `UnpackNext` its loop over a batch (`Idle` keeps other
callbacks out meanwhile), `HandleSequenced` is `handleOrderedChunk` and
`handleTerminalEvent`, which differ only in the check of the buffer's size,
`ForceFlushBuffer` and `FlushPendingMessages` are the functions of these names.
A terminal event may make its handlers unsubscribe inside the delivery loop;
`DeliverAndDetach` is the case where that was the last one, which resets the
buffer under the loop. `Subscribe`, `Unsubscribe`, `CloseLocalSubscribers`,
`AddListener`, `DropListener` and `Cleanup` change the attachment. A
synchronization is three steps: the call, the read in Redis, and the reply or
its failure, with any number of other steps in between and up to `MaxSyncs` of
them in flight.

`delivered`, `excused` and `missing` are history: the sequence of what the handlers
of the attachment were handed, what its forced flushes and synchronizations stepped
over, and whether a flush found an event gone. `InOrderDelivery` says that the sequence
is strictly ascending, so that a second delivery violates it; `Accounted` says that
what is missing from it was stepped over by something that may (`Excusable`). A
synchronization that knows what its caller replayed may step over that and nothing
else. One that does not trusts the counter: it steps over events that are still on
their way, though over none that is held.

`OrderedDelivery` has no network, pauses or timers: numbers are sent, and while
somebody is attached a frontier moves over them; what it passes is appended to the
sequence of what is handed over, in that step, or excused for ever. The refinement
mapping is `Ordered` in `ReorderBuffer`.

Handlers do not throw. Those that the manager registers write to the response what was
parsed from JSON, and not after it has ended (`api/server/routes/agents/index.js:224`).
One that threw in a forced flush would leave the events behind it held without a timer
(`RedisEventTransport.ts:846`) until the next frame.

### ChunkPublisher

Generations are numbered by creation. `conn` is the connection: a command is
executed in order, may fail before or after it is executed, and its reply is
handled in order. A command carries what is sent once it settles, because
`flushPendingChunks` is awaited before a status change or a DONE. `job`,
`epoch`, `handoffs`, `counter` and `published` are Redis; `current`, `stopped`,
`arriving`, `batch`, `claim` are this replica; `RemoteChunk`, `RemoteClaim`,
`RemoteDone`, `RemoteHandOff` and `CreateJob(FALSE)` are what another replica may
do, with its effect in Redis only. `AcceptsChunk`, `AcceptsDone` and
`AcceptsReplaced` are the three forms of the fence.

A creation on this replica goes from `CreateJob(TRUE)` through `StopPredecessor` and
`HandOff`, which publishes the DONE of the generations it replaces, to `InstallRuntime`.
Another replica may create a job of its own at any time in between. When a handoff fails,
a shutdown begins or a newer creation comes first, the creation is given up before its
runtime exists (`GiveUpArrival`). `Reap` publishes the end of a runtime without a job, be
it stopped or not.

### StreamAttach

One generation on the replica that runs it, in Redis mode. The transport is here
a small one: `conn` holds the publications and the GETs of synchronizations of the
shared connection in their order, `log` what Redis has numbered, `received` how
many frames have come back; they come late but in order, as `ReorderBuffer` has
the rest. `buffered`, `closed` and `overflowed` are the early event buffer,
`receipt` what the emitter knows of an event's number, `hasSubscriber` and
`attachGen` the runtime's fields, `conts` the `continueEarlyEventBootstrap` tasks.

A request goes through `attachSubscription` with one action for each stretch
between two awaits: `Attach` (handlers registered; what was read before may be out
of date), `Check` or `Refuse` (`stillMatchesExpectedGeneration`), `Fence`
(`waitForEarlyEventPublications`), `Bootstrap` (second check, replay,
`syncReorderBuffer`), `StartLive`, `StoredTerminal`. `DeleteJob` is the end of
`finishTerminalJob`: a job that has completed is deleted, `stored` becomes false, and
every check and every look for the stored terminal event that comes later finds nothing.
It comes after the reply to DONE and two more round trips. By then the replies to what
was published before DONE have come and what awaited them has gone on, because ioredis
settles replies in order; that is its guard. It may also never happen, as after a DONE
that could not be published or a persistence that is pending, and `Quiet` does not wait
for it. A request that resumes goes
from there through `Reconcile` (the last read of `subscribeWithResume`) and
`Activate` (the route has written the sync frame). `Leave` detaches its handlers
at any point, after which `GiveUp`, `FenceDetached` or the end of the bootstrap is
what is left of it. Requests are used once and numbered as they attach. Whether
the metadata for the `created` fallback were there is a free choice. `replay`,
`skipped`, `since`, `abandoned` and `late`, the readers that attached after DONE had
come, are history.

`AttachmentsSettle`, `ReadersEnd` and `PauseIsSeen` speak of `Quiet` states, in
which no step of the transport or of a request is possible: these steps always
run out, so that what must eventually hold must hold there. This needs no
fairness in the specification; it stands for promises that settle and timers that
fire. `Quiet` lists what may be under way, action by action, instead of saying
`~ENABLED`, so that the prover can reason about it. They except, and the section on disagreements describes, attachments
whose bootstrap was abandoned and synchronizations that skip frames in flight;
`ReadersEnd` excepts a late reader whose job is deleted before it looks for the end.

### Approval

One stream; a generation has segments, each a process that drives the run until it
pauses, completes or fails. `Create` is `JOB_CREATE_LUA`, `Pause` the transition
to `requires_action` with the barrier up, after which the segment asks whether
the barrier is still its own (`Own`), saves the paused response (`WriteRow`) and
releases the barrier (`Release`). The release, like every transition, is a
compare-and-set: `Released` is its effect, and its reply may be lost; what the
error path does then is `FailPause` or `Error`. `Complete` and `SaveFinal` are the
claim of the terminal status and the row that follows it. `SavePartial` is the listener
that saves what there is of a response when its last reader has left; it reads the
stream before it writes, and may write when the generation is long over.

A request is a decision, a decision that comes too late and expires the action, or
a Stop. Each waits for the barrier (`Blocked`), reads the job (`Ready`, `Look`) and
swaps what it read (`Decide`, `Expire`, `Swap`); a Stop that meets a conflict reads
again, three times at most (`Reread`, `Check`). An expiry may fail; a request that came
too late swallows that and is answered as if it had succeeded. `FailStale` is the time-out of the
barrier, `SweepReads` and `SweepExpires` the cleanup, which may be stale when it
acts, `Lapse` the expiry of the hash. `outcome`, by action, is history.

### Steering

Every script of the store is a step: `Enqueue`, `ReadReceipt`, `Cancel`, `Drain`,
`WritePart` within `Apply` and `ApplyFails`, `Restore`, `ParkAll` within every end
of a job, `Discard`, `Create` with the steer it recovers, `Commit`. A run is at
`pc[g]` between draining, writing and injecting; it may pause, end, be replaced or
crash there, and its hash may expire (`Expire`) or be reaped (`Reap`). A generation
that was created with a parked steer has it as its turn: `SaveRow` saves it as a
message of its own, and `Commit` takes it out of the parked list when the generation
pauses or its controller has claimed the end, as complete or as aborted. `stray` is
history: steers that a hash held when it expired, which the product gives up.

`DeliveredOnce` says that a steer is a part or a turn and not both, that the turn is
not tried again by a later generation once one has committed it, and that no active
generation has a withdrawn steer as its turn. A generation that was over when the user
discarded its steer may still save the row of its turn, as it may before the discard;
the model it was for is not called again.

### Balance

One user. A request checks the balance (`Check`, `CheckFindsNone`, `InitRecord`),
refills it if that is due, runs, and is charged: as a run, whose usage is charged
by `updateBalance` and then inserted into the journal (`bulk`), or as a single call,
whose transaction is stored and then charged (`single`; `spendTokens` makes two
such calls, prompt and completion, and the model one). `Read` and `Write` are the
two commands of an attempt; `Succeed`, `Conflict` and `WriteFails` its outcomes.
`VisitFinds` and `VisitSets` are `setBalanceConfig` for a user without a record.
Amounts are constants: an admission check, a cost above it, so that credits are
clamped at zero, and a refill. `ledger`, `made`, `lost`, `ok`, `changes` and
`conflicts` are history.

### ToolCatalog

A list is the number of the change it shows. `counter` and `entry` are Redis: the
revision counter and the published catalog; `Write` is the script that refuses a
smaller revision. A replica has a connection (`conn`), what its creator still does
with it (`load`), the fields of the refresh (`changes`, `handled`, `epoch`, `retry`,
`task`, `published` are `toolListChangeGeneration` and its companions), the queue
of `toolsChanged.ts` and perhaps a request of a user. `Reserve`, `List` and `Listed`
are the stretches of `refreshChangedTools` between awaits; `ReadSlot`, `Mint` and
`Publish` those of the handler that publishes; `Ask`, `AskList`, `Snapshot` and
`AskWrite` those of `reinitMCPServer`. `Start` and `Load` create a connection when
the replica starts or on demand, `Drop` and `Reconnect` lose and renew its session,
`Dispose`, `Cancel` and `Drained` close it. `knows` is history: the replica was told
of the last change, or has taken it to have happened.

The committed revision has the value and the lifetime of the entry's, and reading
the entry and incrementing the counter is one step; a session that is open loses
no notification; commands of a process that crashed are not executed afterwards.

### LeaderElection

Each server has a connection as above. `call` follows every `isLeader()` through
its GET, the random delay and SET NX; `running` and `left` are the refresh timer,
`retries` the renewals that sleep before another attempt. Time passes in ticks:
what is due is done before the next tick, or at most `MaxLate` ticks later. This
is the assumption under which leases work at all: with a lease of three ticks
instead of four TLC finds two servers that believe they lead. The code has 25
seconds of lease and renews every 10. A crash takes the memory of the process
along, not the commands it sent.

### FlowState

Each await of the store is a step. `held` is the entry `completeFlow` or
`failFlow` has read and will write back, `poll` the entry the poll of a waiter
has read and will act on. `kind` tells `createFlowWithHandler` from `createFlow`.
A poll ends before the next one begins.

### IngestAlias

Collections are numbered by the time in their names. Each call of Qdrant is a
step, and may raise: inside the block that deletes the new collection, or outside
it. `Kill` ends a run with no handler. Deleting a collection deletes its alias,
as Qdrant does.

## Runs

| Run | Expected | Bounds | Distinct states |
| --- | --- | --- | --- |
| `reorder` | pass | 3 numbers, frames of 2, buffer of 2, 1 subscriber, 2 states, 1 sync | 626 269 |
| `publisher` | pass | 2 generations, 3 chunks, batches of 2, 1 lost command, 2 outside events, 4 of all these together | 583 485 |
| `attach` | pass | 2 requests, 1 event, an approval or a replacement, DONE, numbers from 1, early buffer of 1, 1 fault | 3 190 113 |
| `approval` | pass | 2 requests, 2 generations and 2 pauses, 3 of both together, 1 lost reply, failing expiry or partial response | 695 507 |
| `approval_handover` | violation | 1 request, 1 generation, 2 pauses, 1 lost reply | |
| `steering` | pass | 2 steers, 2 generations, queue of 2, 1 failed call | 237 265 |
| `balance` | pass | 2 requests, 1 server, 3 attempts, 1 interval, 2 faults | 1 567 338 |
| `catalog` | pass | 2 replicas, one connects at its start, one on demand, 1 change, 1 fault or request | 2 283 905 |
| `catalog_recovery` | violation | 1 replica that connects on demand, 1 change, no fault | |
| `leader` | pass | 2 servers, 1 call each, lease 4, renewal every tick, 1 retry, 1 late tick, 2 faults or resignations | 664 437 |
| `flow` | pass | 2 callers, 1 callback, ttl 2, timeout 1, time 2, 1 call from outside | 525 169 |
| `ingest` | pass | 6 collections, 2 exceptions, 1 kill, 1 stranded collection, 3 rollbacks | 1 335 261 |

Deadlock is not checked: every bound that is used up stops the model, and the
programs themselves may be idle for ever.

What the runs show is said with the properties in the modules; `PROJECT.json` lists
them by run, and the hazards of the code that each of them answers. A property may
have several parts: `BufferIsSound`, `StreamIsFenced`, `AliasIsSound`, `WellKept`
and `KeepsTrack` join a type invariant or facts of one kind, as the comments of the
modules say.

Why the bounds are enough for what the runs ask:

- `reorder`: three numbers are a gap, an event held behind it and one that
  overflows a buffer of two; a frame of two may straddle the frontier, and every frame
  may come again at any time. Two stream
  states let a reply, a timer or a frame meet a state that was created after
  `cleanup()`, and one counter read in flight a frontier or an attachment other
  than the one it was asked for. The safety properties and the refinement are also
  proved for all bounds, with any number of subscribers.
- `publisher`: the chunks are enough for a full batch and a barrier behind it,
  the generations for one replacement, here or elsewhere. `MaxTotal` trades these
  against each other: three chunks of one generation, or two generations with two
  chunks, or one chunk with a remote event and a lost command. All safety properties
  are proved for all bounds.
- `attach`: two requests are an owner of the bootstrap and one that joins, survives
  or follows it. With a buffer of one the second event overflows it or, emitted
  during the bootstrap, is what a wrong frontier drops or repeats. Numbers start at 1
  because a conversation's counter is older than the generation. All properties are
  proved for all bounds.
- `approval`: two requests are two clicks, a click and a Stop, or a request and the
  one whose answer must be true beside it; two pauses are what a stale decision,
  Stop or sweep confuses, two generations the replacement under any of them. All
  safety properties are proved for all bounds.
- `steering`: two steers have an order; one generation drains and ends, and the
  next recovers what it left. One failed call, in any of the scripts' callers, is
  enough to lose a reply or a write between draining and applying. A turn that is tried a
  second time needs a third generation: that no later generation takes a committed one is
  proved, for any number of generations, as all safety properties are for all bounds.
- `balance`: two requests conflict, and one of them may lose a reply and its server.
  With an estimate of 2, a cost of 3 and a start of 2 a charge is clamped at zero, is
  refilled, and conflicts with the refill. All three properties are proved for all
  values.
- `catalog`: a replica whose refresh orders its list by a reserved revision, one whose
  first list has none, and one change between any two steps of both. One fault at any
  step is a lost session, a failed command, a crash, an expiry or a request. Both
  properties are proved for all bounds.
- `leader`: a lease of four ticks with a renewal every tick is the smallest in
  which a renewal may be late, fail and be retried and the lease still holds. All
  safety properties are proved for all bounds that satisfy `Unhurried`.
- `flow`: time suffices for an entry to expire, a poll to time out and a second
  caller to create the flow again. The safety property is proved for all bounds.
- `ingest`: five runs that end well or not, with a rollback between any two. All properties
  are proved for all bounds, one run at a time.

The fairness of the runs that check liveness is weak fairness of what Node and
Redis do without outside help, but for one timer. `ReorderBuffer`: a frame that is being
unpacked is unpacked, and an armed timer fires. The fairness of the timer is strong:
between two of its chances a batch is unpacked, during which it cannot fire, but every turn
of Node's event loop looks at the timers, however many frames arrive. Nothing is assumed of
the network, of publishers or of subscribers. `ChunkPublisher`: the batch timer fires, and a
command is executed or fails, and settles, as ioredis rejects commands of a lost
connection. `Approval`: deadlines pass, the cleanups are periodic, and a request is
served; a segment may stop anywhere, because its process may. `Steering`: a process
that runs goes on, what it calls succeeds or fails, a generation does not last for
ever, and the cleanup or the expiry ends one whose process has stopped.
`LeaderElection`: time passes and a server with something to do does not stop for
ever, which includes that services poll `isLeader()`. `FlowState`: the store answers,
the interval of a poll fires, time passes, and handlers end. `StreamAttach` and
`ToolCatalog` need none: what must eventually hold is stated of states in which
nothing is under way, and it is promises that settle and timers that fire which lead
there.

Liveness properties say that something is not so for ever: an event is not stuck in
a released buffer, a receipt is not open, a pause does not last and a request is
answered, a steer is not left where nobody sees it, a call is neither new nor
settled, no leader renews.

## Proofs

Each proof module shows `Spec => []IInv` for an inductive invariant that is
stronger than what is checked, and derives the properties from it. Their only
assumptions are the named ones of the modules, that bounds and amounts are naturals;
two theorems about leader election assume something of its timing, and three about
ingestion that one run goes at a time.

`ReorderBufferProofs`. `TypeOK` is not inductive: that the frontier and the held
numbers stay within the bounds needs that nothing on its way lies above the
counter, and that a delivery extends an ascending sequence needs that whatever was
delivered lies below the frontier. `IInv` therefore adds to the types and to `Accounted`, `PausedIsSilent`
and `HeldEventsAreTimed` that the frontier is at most the counter; that held
numbers lie below the counter and, in a released buffer, above the frontier; that
delivered ones lie below the frontier and ascend; and that frames and the reads of syncs
do not exceed the counter. `NextIInv` shows with it what every step does to the
frontier, the attachment and the history (`GoodStep`); from this follow
`InOrderDelivery` and, in `OrderedStep`, that every step is one of
`OrderedDelivery` or a stutter, hence the theorem `Implementation`: the subscriber
half implements the abstract transport. The loops of a flush are not followed
event by event: lemmas state what they do to the set of held numbers and to the sequence
of delivered ones (`UpwardsFacts`, `AscendingFacts`, `Extended`, `HandOver`).

`ChunkPublisherProofs`. That no chunk follows its DONE depends on commands that
have not been executed: a DONE of a generation may only be in the connection, or
on its way from another replica, when the generation is dead, which means that it
no longer owns a live job hash, and death is for ever because creation only
numbers upwards. `IInv` says so of `conn`, `claim`, `remote`, `handoffs`, of what
is sent after a command, and of the log itself. `NothingAfterDone` and
`GenerationsNeverMix`, joined in `FencedStream`, follow for any number of
generations, chunks, failures and outside events. `EmissionOrder`, `TailSurvivesClaim`
and `ReceiptsAreTrue` are about each chunk and need a second invariant, `CInv`, over
where it is until its publisher is told. `Line`: in the connection or in the batch behind
it, once, in the order of emission, with its receipt open. `Ahead`: what is not executed
comes after all of this replica's chunks in the log. `Truthful`: an outcome on its way is
true, and a refusal final, because the generation is dead. `Drained`: a terminal CAS, or
the flush it waits for, has every chunk owed to it in front; when it succeeds its
generation was live, hence none of them was refused. The lemmas `LineSends` to
`DrainedClaims` say what joining the connection, being executed, failing and being
settled do to a queue, whatever the state, and each step is put together from them. TLC
agreed that `CInv` is invariant on the instance of the run before it was proved.

`ApprovalProofs`. What a process has read may be stale when it acts, so `IInv` rests
on what cannot change back: a generation that has ended does not become active
again, an action that is settled stays settled, and a barrier that was released does
not return for the same action (lemmas `EndedStays`, `SettledStays`, `PlainStays`,
`BarrierStays`). `ActionsInv` ties the open action to the job, `DecisionsInv` says
what has its row and what is overdue, `RequestsInv` in which single way a request may
be out of date, and `RowsInv` who may be about to write the row of a generation: one
segment that paused and still holds its barrier, or the winner of the terminal
transition, never two of them. `JobSteps` reduces the twenty-three actions to what they do
to the job: nothing, end it, create, pause, release, decide.

`BalanceProofs`. `NothingLost` is inductive with the types, since a swap is made on
the credits it was computed from. For `MadeOnce` and `JournalFits` `Phase` says what a
request can have done where it is. `ConflictsArePaidFor`, which no run checks, bounds
the conflicts of a request by the changes of the record, so that a request uses up
its attempts only while others succeed; it needs `Stale`, which is strict for requests
that hold credits that have changed since.

`SteeringProofs`. `WellKept` and `DeliveredOnce` are not inductive: a run writes, takes
back or restores what it drained while the job may have ended, been replaced or
expired. `Fits` therefore ties the receipt of each steer to the list that holds it and to
what was written, saved or removed: a steer that is queued or claimed is of the active
generation, and one whose hash expired is of a generation that never returns. `Runs` says what a run holds at each of its stages.
`Orders` follows the order of acceptance through the lists: what is claimed comes before
what is queued, what a run may still write in its batch is ascending and comes after what
it wrote. Restoring a batch to the front of the queue keeps it only because of that.
`Turns` is about recovered steers: what a generation has as its turn is not in the hands of
a run, what it has committed is not parked and no later generation's turn, and a withdrawn
steer is nobody's turn that is active, unless its hash expired.

`ToolCatalogProofs`. `Shape` says of each replica how connection, load, refresh and
queue fit together and contains `KeepsTrack`. `QuietIsCurrent` needs more, since a list
in flight may be older than the catalog. At the last change of the list there is a mark:
the last revision that had been reserved, and for each replica how many changes it had
been told of. A list with a later revision, or fetched for a later change, was asked for
after the change and shows it; `Write` prefers the later revision, and an expired
catalog lowers the mark. That a replica with a session still has such a list to fetch or
to publish, until the catalog has it, is carried through every stretch of a refresh, a
load, a queued publication and a request.

`CoordinationProofs`, leader election. `LeaseEnds` rests on the scripts, which compare
the owner, and on only a server that was told to stop sending the command that deletes
the key. `TimerHoldsLease` is about time: the invariant bounds from below what is left of the lease by what is left of the timer, of a retry
that sleeps, or of the command that is on its way. Work is late at most once after an
election and once when a renewal is due, hence the only assumption, `Unhurried`:
`Interval + 2 * MaxLate < Lease`. It is exact on the instance: with a lease of 3, an
interval of 1 and a lateness of 1, TLC finds `TimerHoldsLease` violated. The defaults of
the code, 25 and 10 seconds, satisfy it while a server is late by less than 7.5 seconds.

`CoordinationProofs`, flows. `Found` says what holds as long as none of the causes of
`MissingIsExplained` has occurred: a caller that monitors its flow finds an entry, no poll
has read that there is none, and nobody who has read an entry to write it back has read
none. None of the causes goes away: what was removed or aborted is recorded, and the
outcome of the waiter that consumed a failure is final.

`CoordinationProofs`, ingestion. Types hold for any number of runs. The properties need `Alone`, one
run at a time, without which TLC refutes `AliasServes`. Then what a run has read of the
alias is still true when it acts (`OwnFits`, `SwapFits`). Where every failed run could
clean up, a collection that holds points and is not being filled was checked
(`FullWhenSettled`), and besides the target before the last swap there is only one
(`OneBesides`), hence the newest candidate of a rollback is that target.

`StreamAttachProofs`. A step is first reduced to its effect: the lemmas of its first half
say what each handler does to a reader (`Becomes`, `ReplayStep`), to the reorder buffer
(`Flushes`, `Ignores`, `Holds`, `Skips`) or to the generation (`Emits`, `Settles`,
`Publishes`), and the invariant is then shown of the effects. It has four parts.

- `Core`: types; a frame is either in the connection or in the log, both ascend, and the
  log comes first; what a reader holds at each stage; whose synchronization is in flight.
- `Settling`: an attachment whose transport is paused has a request, a continuation or a
  synchronization that goes on with its bootstrap, unless that was abandoned (`Attended`).
  What a bootstrap awaits is downward closed among the open receipts; once the
  connection is empty the least open one has been published, and nothing before it keeps it
  from settling. Hence `AttachmentsSettle`.
- `Delivery`: what a reader was given and was published has a number behind the frontier,
  or, while the transport is paused, behind the frontier that the synchronization in flight
  will set; and whether it will be published is decided. Hence `OnceWhenPaused`: neither
  the replay nor a flush hands it out again, or hands out an earlier one.
- `Arrival`: what a reader lacks is in the connection, or has a number that neither the
  frontier nor that of a synchronization has passed (`Coming`). It needs that a paused
  transport keeps all that was emitted since the attachment (`Retained`), and that the
  replay gave the reader every event whose receipt was still held (`Complete`). The
  same is said of the DONE and of the event that announces a pause, which may also be
  excused by a synchronization that skipped frames, and that the DONE does not reach a
  reader that came too late for it, which has yet to look for the stored event or finds
  none (`Belated`); that no frontier passes the DONE before it is received is `DoneAhead`.
  In a `Quiet` state nothing is coming,
  hence `NothingMissing`, `ReadersEnd` and `PauseIsSeen`.

That there is a least open receipt and a last number replayed comes from the library's
theorems on well-founded orders. `Arrival` was found invariant by TLC
on a larger instance than the run's (two chunks, a buffer of two, one fault; 10.8 million
states) before it was proved.

Only model-checked are the liveness properties, because the prover has no reasoning
about fairness, and the two claims of the documentation that the code does not keep.

## Where code and documentation disagree

Two runs end in a counterexample; `PROJECT.json` quotes the lines.

- `approval_handover`: the release of the pause barrier is executed and its reply is
  lost; the error path of the segment fails the pause it has just handed over.
- `catalog_recovery`: a list that was fetched without a revision takes one after a
  refresh has reserved its own, and the newer list of the refresh is refused.

Seen while modelling, and left out of the properties or excepted by them:

- A DONE delivered by a forced flush makes the last subscriber leave, which clears
  the buffer under the loop; the next lookup (`RedisEventTransport.ts:847`) yields
  `undefined` where the code asserts an event, and the timer callback throws
  (`missing` in `ReorderBuffer`).
- A request that resumes opens the attachment and does not pause the transport; a
  first view that joins before its bootstrap receives an event live and again from
  the replay (`GenerationJobManager.ts:4293`; its continuation has the guard, line
  4612). `OnceWhenPaused` is about paused attachments.
- A second check of the generation that refuses or throws (it stands outside of
  every `try`) ends `attachSubscription` without a bootstrap. If others have
  joined, their transport stays paused for ever, which the comment on
  `continueEarlyEventBootstrap` means to prevent (`abandoned`). It needs no failure: the
  check also refuses when the generation has completed and its job was deleted.
- A reader that attaches after DONE has come, and passes its check, relies on the stored
  terminal event. When the job is deleted in between, `deliverStoredTerminal` returns
  (`GenerationJobManager.ts:4426`), and nothing else ends the reader: the periodic
  clean-up drops the stream without telling its handlers (line 7006), so the response
  stays open until the client closes it (`late`).
- A synchronization without a local replay trusts the counter and skips frames
  that were numbered and have not arrived, a DONE or an approval among them
  (`skipped`).
- With three chunks and a failed publication, an event emitted live during a first
  attachment that was abandoned can reach the next reader after a later one: the later one
  is replayed from the buffer, because its publication failed, while the earlier one comes
  over the transport. `OnceWhenPaused` therefore orders published events only; that
  nothing is handed out twice it says of all.
- Events emitted while a first reader is attached that leaves before its bootstrap
  are not buffered; a later first view lacks them (`since`).
- A `created` made up from the metadata may reach a reader after content.
- A steer can be discarded between the claim of completion (`request.js:1145`) and the
  commit of its recovery (line 1586), because a discard is refused only while the job
  runs; the row of its turn may then be saved after the cancel was answered. The hash of a silent generation expires at the
  threshold of the reaper; if it goes first the steers in it are lost (`stray`).
- The append of a steer may succeed and its reply be lost; the run then restores the
  steer, which the comment at `steering/runtime.ts:80` means for a failed write.
- A segment that lost its pause to the time-out of the barrier between its check and
  its write still writes the paused row; a row saved by Stop or completion is never
  among those it overwrites (`FinalRowStays`).
- The listener that saves a partial response when the last reader leaves reads the
  stream first (`request.js:961`). A response that is saved as final meanwhile is
  overwritten as unfinished, although the comment above it (line 948) has the final save
  overwrite the partial one, and `handleAllSubscribersLeft` means to prevent it
  (`GenerationJobManager.ts:1318`). `FinalRowStays` excepts this writer.
- A server that resigns while a call of its own waits to elect itself wins
  afterwards and keeps the key for a lease, although the class comment says that a
  leader deletes its key on shutdown (`LeaderElection.ts:20`); of two concurrent calls
  that both elect their server, the loser says no.
- Two callers that find no flow in both of their checks both run their handler,
  although the search index relies on one (`indexSync.js:333`). `failFlow` overwrites a
  completion that is stored between its read and its write, which its check
  (`manager.ts:375`) means to prevent. Two callers of a flow whose handlers end together
  may resolve to different results.
- `indexSync.js` deletes its flow in a `finally` before `createFlowWithHandler`
  completes it, so waiters get a missing flow and synchronize again.
- Two requests can both refill in one interval, since the swap is conditional on the
  credits only and each has read the same `lastRefill` (`checkBalance.ts:118`). Parallel
  requests are admitted on the same credits, and the shortfall is clamped to zero. A
  lost reply charges twice. `upsertBalanceFields` is unconditional, so whoever found no
  record sets the start balance over what was charged meanwhile (`overwritten`); a user
  whose first charge comes from a route without a check starts from zero; the index on
  `user` is not unique, so two first upserts may even leave two records, which the
  model does not follow.
- A connection that is created again publishes its first list without a revision and
  is refused over a populated slot: a change made while no replica had a session stays
  invisible until the next change, the expiry, or a user who asks. A user who asks may
  get a list older than a published refresh when the notification is late, although
  `fetchOrderedToolsSnapshot` promises one that cannot precede it (`connection.ts:2472`).
- `ingest.py --rollback` takes the newest other collection that is not empty; a
  collection that a failed clean-up, swap or deletion left behind is one
  (`CleanedUp` in `IngestAlias`). A `create_payload_index` that raises leaves an
  empty collection behind until the next run that ends well. Two runs at a time
  can delete the collection behind the alias: `AliasServes` does not hold with two
  elements in `Runs`; the documented procedure runs one.

## Not modelled

- Expiry of the sequence counter and of the chunk log: a day, renewed by every
  write.
- Contents: text, tool calls, tokens and their prices, points of a collection, wording
  of errors, corrupt records.
- Single-process stores: `InMemoryJobStore`, `InMemoryEventTransport`, and the tool
  catalog without Redis.
- The abort of another replica's generation by a request that is acknowledged
  (`RedisEventTransport.ts:1301`); what the abort does to the job is in `ChunkPublisher`
  and `Approval`.
- Steering by clients of protocol 1; `PARK_STEERS`, `CLOSE_DRAIN` and `clearSteers`, which
  nothing in the product calls. A pause without content, which saves no row, and the
  labels of pre-emptive cancellation.
- A handler of the transport that throws (above), and, of a flow, a completion without a
  result, which no handler of the code does, and a store that fails during a poll.
- Two publications of tools that are neither ordered nor queued: lists that arrive at the
  start between the attachment of a listener (`ConnectionsRepository.ts:150`) and the
  refresh that follows once all servers are connected (`MCPManager.ts:405`), here one step;
  and the catalog that `getMCPTools` writes without a revision (`controllers/mcp.js:240`),
  which is of the kind that `QuietIsCurrent` excepts.
- A balance configuration that is synchronized into an existing record.
- MCP connections of single users, the circuit breaker, OAuth and token refresh, and
  servers without tools.
- Redis Cluster and failover: a Lua script is atomic and the keys it writes stay
  written until they expire.
- The components listed as `not_modelled` in `PROJECT.json`.

The repository has about 450 000 lines, most of them a web client, request handling,
configuration and data methods without interacting state. The models cover the parts
whose correctness depends on the order of steps, some 20 000 lines; what they cover of
the whole is small and stays so.

## Plan

Order of work, the most important behaviour first. Done, each with its proofs:
`ReorderBuffer` with `OrderedDelivery` and the refinement, `ChunkPublisher`, `Approval`,
`Steering`, `Balance`, `ToolCatalog`, `LeaderElection`, `IngestAlias`, `FlowState` and
`StreamAttach`. Every safety property that a run finds to hold is also a theorem.

1. `AbortHandshake`: abort requests of another replica, their acknowledgement and
   its timeout.
2. Retrieval as operators, checked against a reference definition, and the campus
   data server's sync runs and sessions.
3. An abstract specification of a generation's life (running, paused, ended,
   replaced) that `ChunkPublisher`, `Approval` and `Steering` implement.
