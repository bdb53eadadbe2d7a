# Verification of caf-plugin-system

TLA+ specifications of the plugin framework under `src/`, the TLC runs that check
them on small instances, and TLAPS proofs of the properties that matter most.
`PROJECT.json` relates each definition to the source lines that it models and
lists components, runs, mutants, hazards and theorems.

## 1. Inventory of the system

The program is a set of CAF actors in one process, optionally joined to other
processes in a tree of nodes. Paths are relative to `src/`.

| Part | Code | State | Operations |
|---|---|---|---|
| Shutdown coordinator | `src/core/graceful_shutdown.*` | system state, plugins left, awaited exits | ready, shutdown, plugin_saved, down, force_exit, register_cluster |
| Boot and main | `src/core/framework_bootstrap.*`, `__main__.cpp` | load order, handles | components, plugin loading, health check, cluster, wait, signals |
| Plugin manager | `src/core/plugin/plugin_manager.*` | `plugins_`, `retired_` | load, reload, unload, resolve, down, exit |
| Service registry, proxies | `src/core/service_registry.*` | ledger; target, paused, buffer, ACL | register, hot_reload, unregister, set_acl; forward, quiesce, resume, down |
| Plugin lifecycle | `src/core/plugin/plugin_lifecycle.hpp` | the plugin's state | init, drain, save_state, restore_state, shutdown |
| Loader, dependency graph | `src/core/plugin/plugin_loader.cpp`, `src/core/dependency_graph.hpp` | work list, graph, queue | resolve, cycle search, topological order |
| Checkpoints | `src/core/checkpoint_manager.*` | one file per plugin | save (temporary file, rename), restore (magic, CRC) |
| Membership | `src/core/cluster/{master,client}.cpp`, `membership_registry.hpp` | leases, monitors | register, heartbeat, down, prune, retry |
| Remote caller | `src/core/cluster/remote_caller.cpp` | queue and routes per key | resolve, connect, call, retry |
| Operations | `src/core/cluster/ops_actor.cpp` | staged libraries, batches | local, remote and batch reload |
| Bridges | `src/core/bridge_actor.cpp`, `pomelo_*` | connections, requests | frames, handshake, request, notify |
| Database workers | `include/templates/{job_queue,db_worker_pool,sql_*}.hpp` | queues, slots, connections | enqueue, stop, transactions, reconnect |
| Entity stores | `include/templates/*entity_store*`, `plugins/{mongo,redis}` | saves per partition | load, save, drain, recovery |
| Logging, time, plugins, script hosts | `src/core/*_service.cpp`, `plugins/*` | small | request handlers |

How they interact: the boot starts the core actors, computes the load order and
asks the plugin manager to load each plugin. Loading registers the plugin's
services; each gets a proxy, the only handle that callers ever hold. A reload
pauses the proxies, moves the state to a new actor and resumes them. A signal
sends the coordinator a `shutdown_atom`, and it saves and stops everything.

What is hard here: messages of several senders arrive in any order; requests time
out and are still handled later; an actor may die between two steps of a handler
that waits for it; signals arrive at any phase of the boot; exits are
asynchronous and the process must not end before them. The hazards in
`PROJECT.json` list these places line by line, with the properties that cover
them or the reason why none does.

## 2. Modules

| Module | Models | Composes | Abstract specification | Proofs |
|---|---|---|---|---|
| `GracefulShutdown` | coordinator, boot, signals | plugins, components, checkpoint manager | | `GracefulShutdownProofs`, `ShutdownOrderProofs` |
| `HotReload` | plugin manager, registry, proxies, plugin actors | clients | `StableService` | `HotReloadProofs` |
| `PluginLoader` | resolution, cycle search, load order | | reference definitions | `PluginLoaderProofs` |
| `Checkpoint` | checkpoint manager, restore at the start, save at the stop | file system, crashes | `StateVault` | `CheckpointProofs` |
| `ClusterMembership` | master, client, table of leases | connections, crashes, time | | `ClusterMembershipProofs` |
| `RemoteCaller` | remote caller, lookup worker | master, services | | `RemoteCallerProofs` |
| `ClusterOps` | ops actors of master and nodes | registry, lookup worker, plugin managers | | |
| `JobQueue` | queue of a database worker | | | |
| `SqlService` | SQL dispatcher, connection pool, workers | `JobQueue`, database sessions | | `SqlServiceProofs` |
| `EntityStore` | SQL entity store and its recovery | SQL plugin | `ExactlyOnceStore` | |
| `DocumentStore` | document store actor, plugin workers, Redis and MongoDB engines | `JobQueue`, servers, other processes | `ExactlyOnceStore` | |
| `PomeloBridge` | Pomelo endpoint over TCP and WebSocket | clients, registry, services | | |
| `LineBridge` | broker, bridge and echo actor | outside process | | |

`Positions` has what a loop with a condition keeps of a sequence, used by the loader,
the proxies and the SQL plugin. The `MC` modules only name instances; `MCGateways` takes the last three gateways
(`PomeloBridge`, `LineBridge`, `ClusterOps`) into one run, one per behaviour, as
they share no state.

Two conventions hold throughout. A handler is one action unless it waits: it is
cut where the code waits for an answer, blocks, or releases a lock, and nowhere
else. Disturbances that a question excludes are Boolean constants, so that a
configuration allows one and a counterexample shows one cause.

### GracefulShutdown

The variables are the fields of the coordinator's `State`, its mailbox, the other
actors (alive, monitored, told to stop), what became of each plugin's state, and
the main thread. Each handler is an action: `ready_atom`, `shutdown_atom`
(`ShutdownIgnored`, `ShutdownNotReady`, `ShutdownStart`), `plugin_saved_atom`,
`force_exit_atom`, and `down_msg` by the barrier that it meets (`DownOfPlugin`,
`DownOfComponent`, `DownDropped`). The continuations of `stop_next` are actions
too: `ResolveHit`, `ResolveMiss`, `SavedState`, `SavedNothing`, `SaveFailed`,
`Checkpointed`, `CheckpointError`. A request that has no error handler ends the
coordinator when it fails, as in CAF. The main thread publishes the load order,
loads, checks, registers controllers and waits (`PublishOrder` to `BootDone`).

`shutdown_atom`s and `ready_atom`s are queued in order; other waiting messages are
counted by kind and may be handled in any order, which contains every order that
the mailbox allows. A plugin's state is `dirty`, in a `snapshot`, or `saved`.

### HotReload and StableService

Mailboxes of proxies, plugin actors and the registry are sequences. The manager's
blocking handler is cut where it waits: `BeginReload`, `AskQuiesce`, `Quiesced` or
`Rollback`, `AskSave`, `Saved` or `SaveFails`, `Retire`. An answer that comes
after its time limit belongs to an older `round` and is not taken for a new one,
but the request is still handled by the actor that it was sent to. Each version
of the plugin is a generation with its own actor and instance. A plugin's state is
the sequence of the calls that it has carried out; a snapshot is that sequence.

`StableService` is what a caller is promised: each call is carried out at most
once and in the client's order, or answered with an error, on a state that
forgets nothing. `ReloadInvisible` is the refinement, with the state of the
serving generation as the abstract state.

### PluginLoader

`resolve_dependencies`, `has_cycle_from` and `topological_order` with one step per
loop iteration. Plugins are integers ordered as their names are. The inputs
(`scan`, `entries`, `provides`, `dependencies`, `priority`) are chosen in `Init`.
The references are stated independently of the algorithm: the least closed set,
a graph in which each set of plugins has one that needs none of the others, the
first of the plugins that could be loaded next.

### Checkpoint and StateVault

The life of the plugins' states from one process to the next. The save handler is
cut at its system calls (open, write, flush, rename) because the process may be
killed between any two. A file is whole, or cut in its header or its data, and
restore rejects what is cut. Two copies of each file are kept: what a process
sees (`file`) and what is on the disk (`durable`); a power failure falls back to
something between the two, and the saves it takes back become `Unknown`.

`StateVault` has one saved state per plugin, which a save replaces at once.
`AtomicSaves` maps it to what a restore would read from each file; only the rename
and a power failure change it.

### ClusterMembership

`client[n]` is the loop of a node's client (state, pending timer, request it waits
for), `slots[n]` the master's entry with the seconds left of its lease, `msg[n]`
what travels. `Tick` advances all clocks by a second and is enabled only when no
timer is overdue. A restarted process has a new incarnation; `lost` holds the
down_msgs that may still come, also those of earlier incarnations.

### RemoteCaller and ClusterOps

In `RemoteCaller` each request leaves a continuation, run once with a result or
with an error. Services perform what is in their mailboxes in order, also calls
whose caller has given up. `ClusterOps` has one chain of requests per command and
node; both use the one lookup worker, which blocks on each lookup.

### JobQueue, SqlService, EntityStore, DocumentStore, ExactlyOnceStore

`JobQueue` gives the effect of each method under the queue's mutex. `SqlService`
interleaves the plugin's actor with one worker thread per connection: a handler is
cut between choosing a route and enqueueing, a worker where it takes a job, runs it
and, after a lost connection, inside the completion. The database is a session per
slot: statements of an open transaction, and what has been committed.

`EntityStore` is the chain of one save (schema, BEGIN, reservation of the request
id, replay or apply, record, COMMIT, rollback by key), with its retries, one chain
per partition. `DocumentStore` is the actor that Redis and MongoDB share, the
workers and both engines. In both the databases are external: a commit that was
not answered has happened, has not, or happens later.

`ExactlyOnceStore` is what both promise: a save takes effect as a whole, at most
once per request id, whoever sends it again, and every answer but
`commit_unknown` is true from then on.

### PomeloBridge and LineBridge

A client of `PomeloBridge` sends a stream of items, each in two parts, so that
every cut of the stream is a sequence of chunks; WebSocket frames carry parts of
packages in turn. Connections end and their handles come back. `LineBridge` has
the three actors, their request table and their exits.

## 3. Runs

| Run | Instance | Shows |
|---|---|---|
| `shutdown_safety` | 2 plugins (one stateless), 1 controller, 2 signals; saves fail, plugins crash | order of the phases, nothing unsaved, no orphan; the shutdown completes |
| `shutdown_chaos` | 2 plugins, every disturbance, signal during the boot | the coordinator never quits before what it has stopped |
| `reload_safety` | a trusted and an untrusted client, 2 reloads, a version that adds a service, unload | ledger and proxies agree, the ACL holds; the reload is invisible to callers, so nothing is lost |
| `reload_live` | 1 client with 2 calls, 1 reload, asynchronous handlers, crashes, save timeouts, unload, manager stopped | calls are answered, operations end, instances have one owner |
| `loader` | 3 plugins; own services with every dependency list and two priorities, or any providers of 2 shared services | dependencies first, complete or empty, priority order, closure |
| `checkpoint` | 2 plugins, 2 states, 2 starts, process and power failures | plugins resume; refinement of `StateVault`, so saves are atomic and stay |
| `membership` | 2 nodes, lease of 6 s, delay below 1 s, 2 faults | leases hold, removals have a cause, dead nodes go, live ones come back |
| `remote_caller` | 3 calls of 2 keys, 2 sends per call | order per key, no foreign answer, every call is answered |
| `sql_service` | 2 clients, 4 requests, 1 connection, both kinds of worker, stop | one answer each, slots, atomic and honest commits, nothing forgotten |
| `entity_store` | any 2 of 5 saves and a load, 2 attempts, limits 1 and 2 | refinement of `ExactlyOnceStore`, order per partition, admission, drain, no open transaction left |
| `document_store` | any 2 of 5 saves and a load, a save of another process, 2 workers, 2 attempts, both databases | refinement of `ExactlyOnceStore`, order per partition, counts, drain |
| `gateways` | Pomelo: 2 handles of 2 lives each, 6 scripts; line: 2 connections, 1 CALL, 2 calls from the cluster; operations: 2 nodes, one batch and one single reload | streams reassembled, bindings and answers to their owner, nothing forgotten, commands and exits end |

A property that names several things is a conjunction of definitions that have a
comment each: `PhasesInOrder` of the order of plugins, components and logging;
`Accounted` of the admission, the counts and the drain of a store; `Converges` of
`Purged` and `Rejoins`; `PushesDirected`, `RequestsAnswered`, `CallsAnswered`,
`ReportHonest` and `GatewaysEnd` of the promises of each gateway.

Larger instances, and liveness that the runs above leave out, pass with
configurations of their own (`tlc -config <file> <module>`):

| Configuration | Module | Checks |
|---|---|---|
| `ShutdownThree.cfg` | `MCGracefulShutdown` | the safety properties with a plugin in the middle of the chain |
| `ReloadTwoCalls.cfg` | `MCHotReload` | refinement with two clients of two calls each |
| `SqlLive.cfg` | `MCSqlService` | `TypeOK`, `SlotInv`; every request is answered, a stop ends |
| `StoreLive.cfg` | `MCEntityStore` | every save is answered, a drain ends |
| `DocumentLive.cfg` | `MCDocumentStore` | every request is answered |

### Where the code differs from its documents

Each line allows one case that the runs above exclude, checks one property, and
ends in a counterexample. The first column names a configuration, and what to
change in it where there is no file for the case (constants set to `TRUE` unless a
value is given, with the constant that the file itself sets back to `FALSE`). The
last column is the comment or document that says otherwise.

| Configuration | Property | What happens | Said otherwise at |
|---|---|---|---|
| `ShutdownOrder.cfg` | `DependentsFirst` | the stop order is reversed twice, so plugins stop in load order | `framework_bootstrap.cpp:444`, `.hpp:22` |
| `ShutdownForce.cfg` | `ShutdownCompletes` | the force timer in mid-chain: a component's down_msg is dropped and stays awaited | `graceful_shutdown.cpp:217`, `:324` |
| the same, `BootDisturbed` for `ForceMayPreempt` | `NoOrphan` | a signal while plugins load leaves one running | `graceful_shutdown.cpp:217` |
| the same, `ShutdownOrder <- OnlyBiz` | `NoOrphan` | a configured order that omits a plugin leaves it running | `README.md:107`, `:136` |
| the same, `CkptMayTimeout` | `ShutdownCompletes` | a checkpoint request that times out ends the coordinator | `graceful_shutdown.cpp:187` |
| the same, `Traffic` | `NoUnsavedExit` | what a plugin does for callers after its snapshot is not saved | `README.md:178` |
| the same, `BootDisturbed`, `MaxSignals = 2` | `OneChain` | the second ready_atom reopens a shutdown in progress | `graceful_shutdown.cpp:209` |
| `ReloadLateQuiesce.cfg` | `ServicesReachable` | a quiesce that timed out is handled after the rollback and leaves a proxy paused | `docs/hot-reload-procedure.md:86` |
| the same, `SaveMayTimeout` for `QuiesceMayTimeout` | `NoLostUpdate` | a save_state timeout does not abort the reload | `docs/hot-reload-procedure.md:87` |
| the same, `CrashWhen = "always"` | `ServicesReachable` | the old actor dies during the reload and the paused proxy quits | `service_registry.cpp:96` |
| `ReloadSafety.cfg`, `CrashWhen = "idle"`, `Added = {}` | `ServicesReachable` | an idle actor dies with its resume still in the proxy's mailbox: the proxy acknowledges the next quiesce, then sees the down_msg and quits | `service_registry.cpp:96` |
| `ReloadLateQuiesce.cfg`, `Restricted`, `CrossNode`, `Remote = {bob}` | `TrustedServed` | buffered calls of trusted remote nodes are refused | `service_registry.cpp:25`, `:74` |
| the same, `MayStop`, `CrashWhen = "idle"` | `DestroyedAfterExit` | the manager's exit destroys instances of running actors | `docs/hot-reload-procedure.md:94` |
| `Loader.cfg`, `Inputs <- TwinServices` | `EmptyIffCyclic` | two services of one provider look like a cycle | `dependency_graph.hpp:82` |
| `CheckpointTimeout.cfg` | `AlwaysResumes` | a restore that is not answered in 2 s starts the plugin afresh | `docs/plugin-guide.md:307` |
| the same, `MaxStarts = 3` | `NoRevival` | a plugin that stopped without state gets the state of an earlier life | `docs/plugin-guide.md:307` |
| `CallerAttempts.cfg` | `EveryCallAnswered` | when all candidates fail the routes are resolved again without using up an attempt | `remote_caller.cpp:46`, `.hpp:25` |
| `EntityStore.cfg`, `ExitInRetry` | `ExactlyOnce` | an exit during the pause before a retry answers with a definite error although the commit may have happened | `docs/entity-store.md:347` |
| `OpsIndependent.cfg` | `NodesIndependent` | the lookup of one node holds up the reload of another until it times out | `docs/hot-reload-procedure.md:142` |
| the same, `Gateways = {"pomelo"}` | `ResponsesAtHome` | a late response is written to the next client of the same handle | `pomelo_bridge.cpp:125` |
| the same, `Gateways = {"pomelo"}` | `IgnoredAfterError` | data behind a protocol error in the same chunk, or after it, is handled | `pomelo_bridge.cpp:213` |
| the same, `Gateways = {"pomelo"}`, `Scripts <- MCEarlyCut` | `Reassembled` | a first chunk that is too short decides the transport wrongly | `pomelo_bridge.cpp:120` |
| the same, `Gateways = {"pomelo"}`, `Scripts <- MCEmptyPiece` | `Reassembled` | an empty first fragment makes the message's next one a protocol error | `pomelo_bridge.cpp:652` |

So the passing runs state what holds otherwise. `shutdown_safety` needs a chain
that fits in `drain_timeout`, a checkpoint manager that answers, a complete boot
and no callers during the shutdown; `reload_safety` excludes crashes and time
limits; `remote_caller` needs a master that stops offering unreachable nodes;
`entity_store` excludes an exit during the pause before a retry; `gateways`
excludes the two ways of cutting a stream that the last two lines show.

### Bounds

- Shutdown: two plugins give a chain with a first and a next step
  (`ShutdownThree.cfg` adds one in the middle); two signals give a duplicate at
  every point.
- Reload: two reloads let a late message of the first meet the second, and leave a
  retired generation beside a current one.
- Loader: three plugins admit cycles of every length up to three and a diamond
  through a shared provider.
- Checkpoint: two states tell an old checkpoint from a new one, two starts a
  restore from a first start; plugins are interchangeable (symmetry).
- Membership: a lease of six seconds has a heartbeat every two, so a heartbeat, its
  reply and one lost in between fit; two faults let a second one hit the recovery
  from the first.
- Remote caller: two calls of one key queue behind each other, the third is of a
  key with other candidates; two sends per call allow a failover and a retry.
- SQL: with one connection every two transactions compete for it; four requests
  are a transaction (begin, statement, commit) and a plain statement in between,
  or two transactions that fail.
- Stores: two saves are enough for a repetition of one request id, a clash of two
  contents under one id, and a conflict of versions; two attempts give one retry;
  limits of 1 and 2 make both a full and a free queue.
- Gateways: two handles, each with two lives, are what an old and a new connection
  of one client and a reused handle take.

Deadlock is checked in `membership`, where the clock never stops. Elsewhere
nothing is left to do once the bounded inputs are used up or the process has ended.

### Fairness

Weak fairness of each actor's and each thread's step: CAF's scheduler runs an actor
that has a message, a thread is scheduled, a request is answered or times out,
delayed messages arrive. In `membership` broken connections can be made again and
a master that crashed is restarted, without which nothing could rejoin. Signals,
crashes, new calls, new reloads and faults are not fair. Strong fairness is
assumed in one place: `SpecLeased` of `RemoteCaller` says that a master that is
asked again and again will some time have no candidates, because it removes nodes
whose lease has run out (`Purged` of `ClusterMembership`).

## 4. Proofs

All theorems hold for any sets of plugins, nodes, clients, services and calls, and
any bounds.

`GracefulShutdownProofs`:

- `TypeCorrect`: `Spec => []TypeOK`.
- `BarrierHolds`: `Spec => [](QuitBarrier /\ BarrierInv)`. `QuitBarrier` is not
  inductive: a coordinator that is about to quit must know that nothing it has
  stopped is alive. `BarrierInv` says that the number of awaited exits of an actor
  is at least its monitors plus its down_msgs under way, and that each stopped
  actor that still runs is monitored. When nothing is awaited nothing is
  monitored, so nothing that was stopped runs.

It ends with the lemmas on `BootInv`, what a complete boot leaves, and `PhaseInv`, what
each phase has stopped. `ShutdownOrderProofs` builds on them:

- `ShutdownInOrder` and `NothingLeftRunning`: `Spec => []PhasesInOrder` and `Spec =>
  []NoOrphan` if `Undisturbed`: the boot is not interrupted, the force timer does not
  fire in mid-chain, the lookup of a plugin is answered, and a configured stop order
  names every plugin (each of these is needed: section 3 has the counterexamples).
  `ChainInv` adds that exactly one continuation or down_msg carries the chain on and
  that what is alive is still in it.
- `NothingUnsaved`: `Spec => []NoUnsavedExit` if `Undisturbed` and no `Traffic`.
  `SaveInv` follows one plugin's snapshot from the answer to save_state to the
  checkpoint's acknowledgement.

`PluginLoaderProofs`:

- `SortInvariant`: `Spec => []SortInv`. The in-degree of a plugin is the number of
  its providers, counted per service, less the distinct ones already appended.
  That count is 0 only when none is missing, because a list is at least as long as
  its set of elements; this is why counting per service never gives a wrong order
  and may give none (`EmptyIffCyclic` in section 3).
- `DependenciesComeFirst`: `Spec => []DependenciesFirst`.
- `OrderComplete`: `Spec => []NeverPartial`. That a complete order excludes a cycle
  takes the plugin of least position in any set of plugins.
- `ResolvedExactly`: `Spec => []ResolvesClosure`. `ResolveInv` says that what was
  visited, what is on the stack and their closure make up what the entries need.
- `OrderExact` and `OrderByPriority`: `Spec => []CompleteOrEmpty` and `Spec =>
  []LeastFirst`. `ReadyInv` says that the
  queue holds exactly the plugins whose providers have all been appended, `PathInv`
  what the cycle search has on its path.

`HotReloadProofs`: `ReloadTypes`; `InstanceInvariant`, and from it `InstancesOwned` and
`ActorsOutlived` (`DestroyedAfterDown`). `InstanceInv` adds what makes the two
inductive: `plugins_`, `retired_` and the running reload never share a generation;
a generation's actor is spawned only by the step that hands its instance over; a
down_msg is in the manager's mailbox only when its actor has stopped. It holds with
every disturbance, late quiesce answers and crashes included.

- `AclThroughReloads`: `Spec => []AclHolds` if `CrossNode => Remote \subseteq Allowed`,
  that is, where the two checks of the code agree (section 3 has the case where they do
  not). `AclInv` follows a call from the proxy it was sent to, through its buffer, to
  the actors' mailboxes, their state, the snapshot and the next generation's state.
- `ServicesStayReachable`: `Spec => []ServicesReachable` if no actor crashes and no
  answer to a quiesce is late; both are needed (section 3). `ReachInv` says, of each
  service, how far the ledger and the proxy are behind the manager: the ledger has at
  most the message that brings it up to date; a proxy's mailbox (`Arrives`) has at
  most one resume, on the right generation, before any down_msg of the generation it
  still forwards to, and a quiesce only behind it; a proxy is paused only while the
  manager holds it or its resume is on its way.

`CheckpointProofs`: `TypeCorrect`, `DiskInvariant`, and from them `SavesStay`,
`PluginsResume`, `StatesAreOwn` and the refinement `CheckpointsAreAtomic` (`Spec =>
StateVault!Spec` under the mapping). `DiskInv` says what the temporary file holds
at each system call of a running save, that the final file only ever receives a
whole temporary file of its own plugin, and that no save runs beside a restore, so
that the answer to a restore is not out of date when it arrives. Each action is
shown to be a step of `StateVault` or to leave its variables alone.

`ClusterMembershipProofs`: `TypeCorrect`, `LoopHolds`, `LeaseInvariant`,
`LeasesHold`, `RemovalsHaveACause`. `LeaseInv` ties the seconds left of a lease to
where the client's loop stands: full less the age of the reply when the master has
just answered; shorter by at most a period and a delay when the next heartbeat is
sent. `LeasesHold` assumes `TTL \div 3 + 2 * MaxDelay < TTL`: that is how slow a
connection may be for a lease not to run out.

`SqlServiceProofs`: `SlotInvariant` and `SlotsOwned`. `SlotInv` adds to `SlotOwned`
that the round robin stays within the pool, that tokens name slots, and that a
request key is not registered twice. `JobsInvariant` and `PromisesOnce`: a request
is answered at most once, and when nothing is queued or running every request has its
answer.
`JobsInv` says where: every request without an answer is at exactly one place (the
service actor, one worker's queue or that worker's hands), a place holds it once, an
answered request is nowhere, and nothing enters the queue of a worker that has ended.
The places are `Places` (0 for the actor, n for slot n's queue, -n for its worker);
`SameAccount`, `MoveAccount`, `AnswerAccount` and `NewAccount` are the four things a
step can do to them, and each action is shown to be one of these.
The module also proves that the positions that `At` picks are unique, so that it keeps
every element at the chosen positions.

`RemoteCallerProofs`: `CallerInvariant`, and from it `KeysChained` and
`AnswersInOrder`. `CallerInv` says that the calls of a key in their order of arrival
are first the answered ones, then the one in flight, then the queue; that exactly
one continuation is outstanding while one is in flight; and that the lookups in
the worker's mailbox are those continuations. `RemoteInvariant`, and from it
`SuccessIsPerformed` and `PerformsInOrder`: a call answered with success was carried
out, and a node carries out the calls of a key in the order in which they came.
`RemoteInv` says that the mailboxes of the candidates hold a key's calls in order of
arrival, none older than what was already carried out there or newer than the one in
flight, and that a reply that is waited for is that of the call in flight.

Assumptions: the named `ASSUME`s of the modules. They give types, say that names
differ and that sets are finite where the code's containers are.

Proved and not among the properties of the runs, which check what follows from
them: `TypeOK` of the coordinator, the checkpoints and the membership;
`BarrierInv`, `BootInv`, `PhaseInv`, `ChainInv`, `SaveInv`; `SortInv`,
`NeverPartial`, `ResolveInv`, `PathInv`, `ReadyInv`; `DiskInv`, `SavedStays`,
`OwnState`; `OneLoop`, `LeaseInv`; `SlotInv`, `JobsInv`; `CallerInv`, `OneChain`,
`RemoteInv`; `InstanceOwned`, `DestroyedAfterDown`, `AclInv`, `ReachInv`.

Only model-checked: all liveness properties (outside the prover's reach); the
refinements of `StableService` and `ExactlyOnceStore` and the content of states and
rows (`NoLostUpdate`), which rest on sequences that grow with the run and would need
induction over them; `Atomic` and `Honest` of the SQL plugin, where what a job does
depends on the session that it will find, and that on every job queued before it; the
stores above the SQL plugin (`EntityStore`, `DocumentStore`); the gateways.

## 5. Not modelled

- `plugins/ts_host/quickjs` is a vendored JavaScript engine of about 85,000 lines,
  four fifths of the source tree. It is third-party code that this system only
  embeds. The script hosts around it (Python, TypeScript, Lua) pass messages to
  scripts, and what they do beyond the plugin lifecycle is up to the scripts.
- Logging, tracing, formatting, option parsing, the console and its commands that
  only print.
- Loading of libraries, directory scans, staging of files.
- Codecs of bytes (JSON, BSON, varints, SHA-1, base64, UTF-8, the Pomelo
  dictionary) and the catalogues and validation of entities: pure functions on
  strings without a state, which the repository's unit tests cover.
- Database drivers and the SQL text; the cancellation of a socket that blocks.
- More than one plugin in one plugin manager at run time, the broadcast of
  `service_gone`, and queries that change nothing.
- The example plugins, which are thin request handlers.
- CAF, the file system, the network and the database servers are external. They
  are modelled by what the code relies on: mailboxes in order per sender, monitors,
  exit messages, time limits of requests, handles that are socket numbers; rename
  that is atomic; connections that break at any point.
- The lifetime of C++ objects is modelled only for plugin instances and for jobs.

`PROJECT.json` gives the status of every part and the reason for what is left out.
