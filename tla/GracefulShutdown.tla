------------------------- MODULE GracefulShutdown -------------------------
(***************************************************************************)
(* The shutdown coordinator (class GracefulShutdown), an event-based actor *)
(* that stops the plugins one at a time (resolve, drain, save_state,       *)
(* checkpoint, shutdown), then the cluster controllers and the core        *)
(* components, then the logging service, and quits.  The main thread that  *)
(* boots the process runs beside it.                                       *)
(*                                                                         *)
(* The mailbox is modelled by the queue of ready_atoms and shutdown_atoms  *)
(* and by how many messages of each other kind wait in it.  Any waiting    *)
(* kind may be handled next, which covers every arrival order of messages  *)
(* from different senders; the messages of one request chain stay ordered, *)
(* because a continuation enables the next one.                            *)
(* A request that is answered by another actor is one step: that actor's   *)
(* handler and the coordinator's continuation.  An exit_msg is queued      *)
(* behind the coordinator's earlier requests and in front of its later     *)
(* ones, which are answered with an error.                                 *)
(***************************************************************************)
EXTENDS Integers, Sequences

CONSTANTS
  Plugins,        \* plugin names
  Ctls,           \* cluster and operations actors: bridge, master, client, ops
  NoPlugin,       \* the empty actor_addr
  LoadOrder,      \* compute_load_order's result
  ShutdownOrder,  \* cfg.shutdown_order; the empty sequence when not configured
  Stateless,      \* plugins whose save_state answers with no bytes
  MaxSignals,     \* bound: shutdown_atoms sent by signals, console and plugins
  \* what the environment may do
  BootDisturbed,     \* signals and crashes may come before the boot is complete
  ForceMayPreempt,   \* the plugin chain may outlast drain_timeout
  ResolveMayTimeout, \* plugin_mgr may be busy for longer than 5 s
  SaveMayTimeout,    \* a plugin may not answer save_state in time
  CkptMayFail,       \* the checkpoint file may not be written
  CkptMayTimeout,    \* the checkpoint manager may take longer than 10 s
  PluginMayCrash,    \* a plugin actor may terminate by itself
  Traffic,           \* plugins keep working for callers during the shutdown
  MonitorAdditive    \* monitoring twice gives two down_msgs

Core == {"plugin_mgr", "registry", "checkpoint_mgr"}
Stoppable == Core \cup {"logging_service"} \cup Ctls
Actors == Stoppable \cup Plugins
Phases == {"resolve", "save", "checkpoint", "refused", "plugin_saved"}

ASSUME NamesAssumption ==
  /\ NoPlugin \notin Plugins
  /\ Plugins \cap Stoppable = {}
  /\ Ctls \cap (Core \cup {"logging_service"}) = {}

ASSUME OrderAssumption ==
  /\ LoadOrder \in Seq(Plugins)
  /\ ShutdownOrder \in Seq(Plugins)

ASSUME ParameterAssumption ==
  /\ Stateless \subseteq Plugins
  /\ MaxSignals \in Nat
  /\ {BootDisturbed, ForceMayPreempt, ResolveMayTimeout, SaveMayTimeout,
      CkptMayFail, CkptMayTimeout, PluginMayCrash, Traffic,
      MonitorAdditive} \subseteq BOOLEAN

VARIABLES
  \* the coordinator
  sys,        \* state_.state
  remaining,  \* the names in state_.remaining_plugins
  stopping,   \* state_.stopping_plugin
  awaiting,   \* stopping_components and cluster_ctls_pending: downs awaited of each actor
  ctls,       \* cluster_ctls_
  coord,      \* "running", "quit" (finish_quit) or "died" (unhandled error)
  conts,      \* conts[k][p]: continuations of phase k waiting for plugin p
  timers,     \* force_exit_atoms delayed or waiting
  inbox,      \* ready_atoms and shutdown_atoms in the mailbox, oldest first
  \* the other actors
  alive,      \* actors that have not terminated
  spawned,    \* plugins the plugin manager has spawned
  mon,        \* monitors the coordinator holds on each actor
  downs,      \* down_msgs of each actor in the coordinator's mailbox
  told,       \* plugins with a shutdown_atom in their mailbox
  exiting,    \* components and controllers that were sent an exit_msg
  \* the plugins' state
  mem,        \* is the state in memory "dirty", in a "snapshot", or "saved" on disk?
  excused,    \* plugins whose save failed or that crashed
  \* the main thread
  boot, nloaded, sent

coordVars == <<sys, remaining, stopping, awaiting, ctls, coord>>
chainVars == <<conts, timers>>
actorVars == <<alive, spawned, mon, downs, told, exiting>>
dataVars == <<mem, excused>>
bootVars == <<boot, nloaded, sent>>
vars == <<coordVars, chainVars, inbox, actorVars, dataVars, bootVars>>

TypeOK ==
  /\ sys \in {"initializing", "ready", "shutting_down", "stopped"}
  /\ remaining \subseteq Plugins
  /\ stopping \in Plugins \cup {NoPlugin}
  /\ awaiting \in [Stoppable -> Nat]
  /\ ctls \subseteq Ctls
  /\ coord \in {"running", "quit", "died"}
  /\ conts \in [Phases -> [Plugins -> Nat]]
  /\ timers \in Nat
  /\ inbox \in Seq({"ready_atom", "shutdown_atom"})
  /\ alive \subseteq Actors
  /\ spawned \subseteq Plugins
  /\ mon \in [Actors -> Nat]
  /\ downs \in [Actors -> Nat]
  /\ told \subseteq Plugins
  /\ exiting \subseteq Stoppable
  /\ mem \in [Plugins -> {"dirty", "snapshot", "saved"}]
  /\ excused \subseteq Plugins
  /\ boot \in {"components", "scanning", "loading", "ctls", "up", "aborted"}
  /\ nloaded \in 0 .. Len(LoadOrder)
  /\ sent \in 0 .. MaxSignals

\* bootstrap_system_components has spawned the core actors and installed the
\* signal handlers; it has not sent its ready_atom yet.
Init ==
  /\ sys = "initializing"
  /\ remaining = {}
  /\ stopping = NoPlugin
  /\ awaiting = [a \in Stoppable |-> 0]
  /\ ctls = {}
  /\ coord = "running"
  /\ conts = [k \in Phases |-> [p \in Plugins |-> 0]]
  /\ timers = 0
  /\ inbox = << >>
  /\ alive = Core \cup {"logging_service"}
  /\ spawned = {}
  /\ mon = [a \in Actors |-> 0]
  /\ downs = [a \in Actors |-> 0]
  /\ told = {}
  /\ exiting = {}
  /\ mem = [p \in Plugins |-> "dirty"]
  /\ excused = {}
  /\ boot = "components"
  /\ nloaded = 0
  /\ sent = 0
-----------------------------------------------------------------------------
\* get_stop_order of framework_bootstrap: the configured order, else the
\* published load order reversed.
StopOrder ==
  IF ShutdownOrder # << >> THEN ShutdownOrder
  ELSE [i \in 1 .. Len(LoadOrder) |-> LoadOrder[Len(LoadOrder) + 1 - i]]

\* The plugins named in a sequence.
Names(s) == {s[i] : i \in DOMAIN s}

\* What get_stop_order can return now.  It holds the BootstrapResult by
\* reference: an aborted boot has destroyed it, and the vector may read empty.
get_stop_order ==
  LET names == Names(StopOrder)
  IN  IF ShutdownOrder # << >> \/ boot \in {"loading", "ctls", "up"} THEN {names}
      ELSE IF boot = "aborted" THEN {names, {}}
      ELSE {{}}

\* p is remaining_plugins.back() when the names in R are left of StopOrder.
IsBack(p, R) ==
  \E i \in DOMAIN StopOrder :
     /\ StopOrder[i] = p
     /\ p \in R
     /\ \A j \in DOMAIN StopOrder : StopOrder[j] \in R => j <= i

Post(c, k, p) == [c EXCEPT ![k][p] = @ + 1]
Take(c, k, p) == [c EXCEPT ![k][p] = @ - 1]

\* Faulty: a plugin counts as stopped without waiting for its down_msg.
StopWithoutBarrier(c, p) == Post(c, "plugin_saved", p)

\* Ask plugin_mgr for p's actor.  Behind the manager's exit_msg the request
\* fails, and the error handler only sends plugin_saved.
stop_next(c, p) ==
  Post(c, IF "plugin_mgr" \in exiting THEN "plugin_saved" ELSE "resolve", p)

Subscribe(n) == IF MonitorAdditive THEN n + 1 ELSE 1

\* monitor + send_exit to every actor of S, counted in the barrier.  Monitoring
\* a terminated actor yields its down_msg at once.
StopActors(S, aw, dn) ==
  /\ awaiting' = [a \in Stoppable |-> IF a \in S THEN aw[a] + 1 ELSE aw[a]]
  /\ mon' = [a \in Actors |-> IF a \in S /\ a \in alive THEN Subscribe(mon[a]) ELSE mon[a]]
  /\ downs' = [a \in Actors |-> IF a \in S /\ a \notin alive THEN dn[a] + 1 ELSE dn[a]]
  /\ exiting' = exiting \cup S

\* Faulty: the controllers are forgotten.
StopCoreOnly == StopActors(Core, awaiting, downs)

\* The barrier is never empty after it: the core components always exist.
finish_shutdown == StopActors(ctls \cup Core, awaiting, downs)

finish_last(aw, dn) ==
  /\ sys' = "stopped"
  /\ StopActors({"logging_service"}, aw, dn)
  /\ UNCHANGED coord

-----------------------------------------------------------------------------
\* The handlers of the coordinator.

ready_atom ==
  /\ coord = "running" /\ inbox # << >> /\ Head(inbox) = "ready_atom"
  /\ inbox' = Tail(inbox)
  /\ sys' = "ready"
  /\ UNCHANGED <<remaining, stopping, awaiting, ctls, coord>>
  /\ UNCHANGED <<chainVars, actorVars, dataVars, bootVars>>

\* A duplicate, or one after STOPPED, is dropped.
ShutdownIgnored ==
  /\ sys \in {"shutting_down", "stopped"}
  /\ UNCHANGED <<sys, remaining, awaiting, mon, downs, exiting, chainVars>>

\* "Not ready, forcing exit..."
ShutdownNotReady ==
  /\ sys = "initializing"
  /\ finish_shutdown
  /\ UNCHANGED <<sys, remaining, chainVars>>

ShutdownStart ==
  /\ sys = "ready"
  /\ sys' = "shutting_down"
  /\ remaining' \in get_stop_order
  /\ \/ /\ remaining' = {}
        /\ finish_shutdown
        /\ UNCHANGED chainVars
     \/ \E p \in remaining' :
        /\ IsBack(p, remaining')
        /\ conts' = stop_next(conts, p)
        /\ timers' = timers + 1
        /\ UNCHANGED <<awaiting, mon, downs, exiting>>

shutdown_atom ==
  /\ coord = "running" /\ inbox # << >> /\ Head(inbox) = "shutdown_atom"
  /\ inbox' = Tail(inbox)
  /\ ShutdownIgnored \/ ShutdownNotReady \/ ShutdownStart
  /\ UNCHANGED <<stopping, ctls, coord, alive, spawned, told>>
  /\ UNCHANGED <<dataVars, bootVars>>

\* resolve_plugin answered with p's actor, possibly already terminated:
\* monitor it, send drain (its answer is swallowed) and request save_state.
ResolveHit(p) ==
  /\ coord = "running" /\ conts["resolve"][p] > 0
  /\ p \in spawned
  /\ conts' = Post(Take(conts, "resolve", p), "save", p)
  /\ stopping' = p
  /\ mon' = [mon EXCEPT ![p] = IF p \in alive THEN Subscribe(@) ELSE @]
  /\ downs' = [downs EXCEPT ![p] = IF p \in alive THEN @ ELSE @ + 1]
  /\ UNCHANGED <<sys, remaining, awaiting, ctls, coord, timers>>
  /\ UNCHANGED <<alive, spawned, told, exiting, inbox, dataVars, bootVars>>

\* Faulty: a failed resolve does not advance the chain.
ResolveMissStuck(p) ==
  /\ coord = "running" /\ conts["resolve"][p] > 0
  /\ p \notin alive
  /\ conts' = Take(conts, "resolve", p)
  /\ UNCHANGED <<coordVars, timers, inbox, actorVars, dataVars, bootVars>>

\* resolve_plugin answered with no actor, or failed, or timed out.
ResolveMiss(p) ==
  /\ coord = "running" /\ conts["resolve"][p] > 0
  /\ p \notin alive \/ ResolveMayTimeout
  /\ conts' = Post(Take(conts, "resolve", p), "plugin_saved", p)
  /\ UNCHANGED <<coordVars, timers, inbox, actorVars, dataVars, bootVars>>

\* Faulty: the plugin is told to shut down before its bytes are on disk.
ShutdownBeforeCheckpoint(p) ==
  /\ coord = "running" /\ conts["save"][p] > 0
  /\ p \in alive /\ p \notin Stateless
  /\ mem' = [mem EXCEPT ![p] = "snapshot"]
  /\ conts' = Post(Take(conts, "save", p), "checkpoint", p)
  /\ told' = told \cup {p}
  /\ UNCHANGED <<coordVars, timers, inbox, excused, bootVars>>
  /\ UNCHANGED <<alive, spawned, mon, downs, exiting>>

\* save_state answered with bytes: hand them to the checkpoint manager, which
\* does not serve a request that is queued behind its exit_msg.
SavedState(p) ==
  /\ coord = "running" /\ conts["save"][p] > 0
  /\ p \in alive /\ p \notin Stateless
  /\ mem' = [mem EXCEPT ![p] = "snapshot"]
  /\ conts' = Post(Take(conts, "save", p),
                   IF "checkpoint_mgr" \in exiting THEN "refused" ELSE "checkpoint", p)
  /\ UNCHANGED <<coordVars, timers, inbox, actorVars, excused, bootVars>>

\* save_state answered with no bytes: nothing to checkpoint.
SavedNothing(p) ==
  /\ coord = "running" /\ conts["save"][p] > 0
  /\ p \in alive /\ p \in Stateless
  /\ mem' = [mem EXCEPT ![p] = "saved"]
  /\ conts' = Take(conts, "save", p)
  /\ told' = told \cup {p}
  /\ UNCHANGED <<coordVars, timers, inbox, bootVars, excused>>
  /\ UNCHANGED <<alive, spawned, mon, downs, exiting>>

\* save_state failed or timed out: the plugin is stopped without a checkpoint.
SaveFailed(p) ==
  /\ coord = "running" /\ conts["save"][p] > 0
  /\ p \notin alive \/ SaveMayTimeout
  /\ conts' = Take(conts, "save", p)
  /\ told' = told \cup {p}
  /\ excused' = excused \cup {p}
  /\ UNCHANGED <<coordVars, timers, inbox, bootVars, mem>>
  /\ UNCHANGED <<alive, spawned, mon, downs, exiting>>

\* The checkpoint manager answered; its bool is not looked at.
Checkpointed(p) ==
  /\ coord = "running" /\ conts["checkpoint"][p] > 0
  /\ \/ /\ mem' = [mem EXCEPT ![p] = IF @ = "snapshot" THEN "saved" ELSE @]
        /\ UNCHANGED excused
     \/ /\ CkptMayFail
        /\ excused' = excused \cup {p}
        /\ UNCHANGED mem
  /\ conts' = Take(conts, "checkpoint", p)
  /\ told' = told \cup {p}
  /\ UNCHANGED <<coordVars, timers, inbox, bootVars>>
  /\ UNCHANGED <<alive, spawned, mon, downs, exiting>>

\* The checkpoint request fails or times out.  It has no error handler: the
\* actor terminates with the error.
CheckpointError(p) ==
  /\ coord = "running"
  /\ \E k \in {"refused"} \cup (IF CkptMayTimeout THEN {"checkpoint"} ELSE {}) :
        conts[k][p] > 0 /\ conts' = Take(conts, k, p)
  /\ coord' = "died"
  /\ UNCHANGED <<sys, remaining, stopping, awaiting, ctls>>
  /\ UNCHANGED <<timers, inbox, actorVars, dataVars, bootVars>>

plugin_saved_atom(p) ==
  /\ coord = "running" /\ conts["plugin_saved"][p] > 0
  /\ remaining' = remaining \ {p}
  /\ \/ \E q \in remaining' :
        /\ IsBack(q, remaining')
        /\ conts' = stop_next(Take(conts, "plugin_saved", p), q)
        /\ UNCHANGED <<awaiting, mon, downs, exiting>>
     \/ /\ remaining' = {}
        /\ conts' = Take(conts, "plugin_saved", p)
        /\ finish_shutdown
  /\ UNCHANGED <<sys, stopping, ctls, coord, timers, inbox>>
  /\ UNCHANGED <<alive, spawned, told, dataVars, bootVars>>

\* down_msg, first barrier: the plugin being stopped has terminated.
DownOfPlugin(p) ==
  /\ coord = "running" /\ downs[p] > 0
  /\ stopping = p
  /\ downs' = [downs EXCEPT ![p] = @ - 1]
  /\ stopping' = NoPlugin
  /\ conts' = Post(conts, "plugin_saved", p)
  /\ UNCHANGED <<sys, remaining, awaiting, ctls, coord, timers, inbox>>
  /\ UNCHANGED <<alive, spawned, mon, told, exiting, dataVars, bootVars>>

\* down_msg of another actor while a plugin is being stopped, or of an actor
\* that no barrier waits for: dropped.
DownDropped(a) ==
  /\ coord = "running" /\ downs[a] > 0
  /\ stopping # a
  /\ stopping # NoPlugin \/ (a \in Stoppable => awaiting[a] = 0)
  /\ downs' = [downs EXCEPT ![a] = @ - 1]
  /\ UNCHANGED <<coordVars, chainVars, inbox, dataVars, bootVars>>
  /\ UNCHANGED <<alive, spawned, mon, told, exiting>>

\* Faulty: quit as soon as the logging service has been sent its exit_msg.
QuitAtOnce(aw, dn) ==
  /\ sys' = "stopped"
  /\ coord' = "quit"
  /\ StopActors({"logging_service"}, aw, dn)

\* What follows the last awaited down_msg: STOPPED and the logging service's
\* exit the first time, quit the second time.
BarrierDone(aw, dn) ==
  \/ /\ sys # "stopped"
     /\ finish_last(aw, dn)
  \/ /\ sys = "stopped"
     /\ coord' = "quit"
     /\ awaiting' = aw
     /\ downs' = dn
     /\ UNCHANGED <<sys, mon, exiting>>

\* down_msg, second and third barrier: a component or controller terminated.
DownOfComponent(a) ==
  /\ coord = "running" /\ downs[a] > 0
  /\ stopping = NoPlugin
  /\ awaiting[a] > 0
  /\ LET aw == [awaiting EXCEPT ![a] = @ - 1]
         dn == [downs EXCEPT ![a] = @ - 1]
     IN  \/ /\ \A b \in Stoppable : aw[b] = 0
            /\ BarrierDone(aw, dn)
         \/ /\ \E b \in Stoppable : aw[b] > 0
            /\ awaiting' = aw
            /\ downs' = dn
            /\ UNCHANGED <<sys, coord, mon, exiting>>
  /\ UNCHANGED <<remaining, stopping, ctls, chainVars, inbox>>
  /\ UNCHANGED <<alive, spawned, told, dataVars, bootVars>>

\* force_exit_atom, drain_timeout (30 s) after the chain began.  Without
\* ForceMayPreempt the chain is over by then; with it, the time cannot have
\* passed on the first plugin's requests alone (5 + 10 + 10 s).
force_exit_atom ==
  /\ coord = "running" /\ timers > 0
  /\ \/ remaining = {}
     \/ ForceMayPreempt /\ (told \cup excused # {} \/ ResolveMayTimeout)
  /\ timers' = timers - 1
  /\ \/ /\ sys = "stopped"
        /\ UNCHANGED <<awaiting, mon, downs, exiting>>
     \/ /\ sys # "stopped"
        /\ finish_shutdown
  /\ UNCHANGED <<sys, remaining, stopping, ctls, coord, conts, inbox>>
  /\ UNCHANGED <<alive, spawned, told, dataVars, bootVars>>

-----------------------------------------------------------------------------
\* The other actors.

\* Actor a terminates: every monitor on it delivers its down_msg.
Terminate(a) ==
  /\ a \in alive
  /\ alive' = alive \ {a}
  /\ downs' = [downs EXCEPT ![a] = @ + mon[a]]
  /\ mon' = [mon EXCEPT ![a] = 0]
  /\ UNCHANGED <<coordVars, chainVars, inbox, mem, bootVars>>
  /\ UNCHANGED <<spawned, told, exiting>>

\* plugin_lifecycle's shutdown_atom handler calls quit().
PluginQuits(p) ==
  /\ p \in told
  /\ Terminate(p)
  /\ UNCHANGED excused

PluginCrashes(p) ==
  /\ PluginMayCrash
  /\ BootDisturbed \/ boot = "up"
  /\ Terminate(p)
  /\ excused' = excused \cup {p}

\* No request of phase k is waiting at the actor that serves it.
Served(k) == coord = "running" => \A p \in Plugins : conts[k][p] = 0

\* A component handles its exit_msg, after the requests queued before it.
ComponentExits(a) ==
  /\ a \in exiting
  /\ a = "plugin_mgr" => Served("resolve")
  /\ a = "checkpoint_mgr" => Served("checkpoint")
  /\ Terminate(a)
  /\ UNCHANGED excused

\* A live plugin serves a call and its state changes.
Work(p) ==
  /\ Traffic
  /\ p \in alive /\ p \notin Stateless
  /\ mem' = [mem EXCEPT ![p] = "dirty"]
  /\ UNCHANGED <<coordVars, chainVars, inbox, actorVars, excused, bootVars>>

-----------------------------------------------------------------------------
\* The main thread: bootstrap_plugins, then the controllers of caf_main.  Its
\* requests to the plugin manager queue behind the coordinator's.

\* The end of bootstrap_system_components.
ComponentsReady ==
  /\ boot = "components"
  /\ boot' = "scanning"
  /\ inbox' = Append(inbox, "ready_atom")
  /\ UNCHANGED <<coordVars, chainVars, actorVars, dataVars, nloaded, sent>>

PublishOrder ==
  /\ boot = "scanning"
  /\ boot' = "loading"
  /\ UNCHANGED <<coordVars, chainVars, inbox, actorVars, dataVars, nloaded, sent>>

\* load_atom for the next plugin of the order; behind the manager's
\* exit_msg the request fails, which is only logged.
LoadPlugin ==
  /\ boot = "loading" /\ nloaded < Len(LoadOrder) /\ Served("resolve")
  /\ nloaded' = nloaded + 1
  /\ LET p == LoadOrder[nloaded + 1]
     IN  \/ /\ "plugin_mgr" \notin exiting
            /\ alive' = alive \cup {p}
            /\ spawned' = spawned \cup {p}
         \/ /\ "plugin_mgr" \in exiting
            /\ UNCHANGED <<alive, spawned>>
  /\ UNCHANGED <<mon, downs, told, exiting, coordVars, chainVars, inbox>>
  /\ UNCHANGED <<dataVars, boot, sent>>

\* The health check resolves every plugin: ready_atom, or shutdown_atom and
\* caf_main returns.
HealthCheck ==
  /\ boot = "loading" /\ nloaded = Len(LoadOrder) /\ Served("resolve")
  /\ \/ /\ "plugin_mgr" \notin exiting /\ Names(LoadOrder) \subseteq spawned
        /\ boot' = "ctls"
        /\ inbox' = Append(inbox, "ready_atom")
     \/ /\ "plugin_mgr" \in exiting \/ ~(Names(LoadOrder) \subseteq alive)
        /\ boot' = "aborted"
        /\ inbox' = Append(inbox, "shutdown_atom")
  /\ UNCHANGED <<coordVars, chainVars, actorVars, dataVars, nloaded, sent>>

\* A controller is spawned and handed to the coordinator (register_cluster_atom).
RegisterCluster(c) ==
  /\ boot = "ctls" /\ c \notin ctls /\ c \notin alive
  /\ alive' = alive \cup {c}
  /\ ctls' = IF coord = "running" THEN ctls \cup {c} ELSE ctls
  /\ UNCHANGED <<sys, remaining, stopping, awaiting, coord, chainVars, inbox>>
  /\ UNCHANGED <<spawned, mon, downs, told, exiting, dataVars, bootVars>>

\* wait_for_shutdown
BootDone ==
  /\ boot = "ctls" /\ \A c \in Ctls : c \in ctls \/ c \in alive
  /\ boot' = "up"
  /\ UNCHANGED <<coordVars, chainVars, inbox, actorVars, dataVars, nloaded, sent>>

\* Ctrl+C, the closed console, ops' quit or a plugin's request_shutdown.
Signal ==
  /\ sent < MaxSignals
  /\ BootDisturbed \/ boot = "up"
  /\ sent' = sent + 1
  /\ inbox' = Append(inbox, "shutdown_atom")
  /\ UNCHANGED <<coordVars, chainVars, actorVars, dataVars, boot, nloaded>>

-----------------------------------------------------------------------------
Chain(p) ==
  \/ ResolveHit(p) \/ ResolveMiss(p)
  \/ SavedState(p) \/ SavedNothing(p) \/ SaveFailed(p)
  \/ Checkpointed(p) \/ CheckpointError(p)
  \/ plugin_saved_atom(p)

Down(a) ==
  \/ a \in Plugins /\ DownOfPlugin(a)
  \/ DownDropped(a)
  \/ a \in Stoppable /\ DownOfComponent(a)

Main ==
  \/ ComponentsReady \/ PublishOrder \/ LoadPlugin \/ HealthCheck
  \/ \E c \in Ctls : RegisterCluster(c)
  \/ BootDone

Next ==
  \/ ready_atom \/ shutdown_atom \/ force_exit_atom
  \/ \E p \in Plugins : Chain(p) \/ PluginQuits(p) \/ PluginCrashes(p) \/ Work(p)
  \/ \E a \in Actors : Down(a)
  \/ \E a \in Stoppable : ComponentExits(a)
  \/ Main \/ Signal

Spec == Init /\ [][Next]_vars

\* The CAF scheduler runs every actor with a waiting message, request timeouts
\* and delayed messages arrive, and a stopped actor runs to its end.
Fairness ==
  /\ WF_vars(ready_atom) /\ WF_vars(shutdown_atom) /\ WF_vars(force_exit_atom)
  /\ \A p \in Plugins : WF_vars(Chain(p)) /\ WF_vars(PluginQuits(p))
  /\ \A a \in Actors : WF_vars(Down(a))
  /\ \A a \in Stoppable : WF_vars(ComponentExits(a))
  /\ WF_vars(Main)

FairSpec == Spec /\ Fairness

-----------------------------------------------------------------------------
\* Properties.

\* The exit barrier of finish_shutdown and finish_last: the coordinator never
\* quits while an actor that it sent an exit_msg to is still running, so that
\* no mailbox cleanup races with the actor system's destruction.
QuitBarrier == coord = "quit" => exiting \cap alive = {}

\* Why the barrier works: it counts every down_msg that is still to come from
\* a component or controller, and each one that was sent an exit_msg and still
\* runs is monitored.  Only registered actors are ever sent one.
BarrierInv ==
  /\ \A a \in Stoppable : awaiting[a] >= mon[a] + downs[a]
  /\ \A a \in exiting \cap alive : mon[a] > 0
  /\ exiting \subseteq ctls \cup Core \cup {"logging_service"}

\* The components are torn down only after every plugin has terminated: a
\* plugin never loses the checkpoint manager or the registry under its feet.
ComponentsAfterPlugins == exiting # {} => alive \cap Plugins = {}

\* The logging service is told to exit only when every other component and
\* controller has terminated, so the last line of each can still be logged.
LoggingLast ==
  "logging_service" \in exiting => alive \cap Stoppable \subseteq {"logging_service"}

\* No plugin terminates with state that is not on disk, unless its save failed
\* or it crashed: the checkpoint is written before shutdown_atom is sent.
NoUnsavedExit ==
  \A p \in spawned \ alive : mem[p] = "saved" \/ p \in excused

\* Plugins stop strictly one at a time: a live plugin that is monitored or was
\* told to shut down is the one the coordinator is waiting for.
OneAtATime ==
  \A p \in Plugins \cap alive : (mon[p] > 0 \/ p \in told) => stopping = p

\* The phases of the shutdown do not overlap, whatever fails or dies on the way:
\* the plugins one by one, then the components, then the logging service.
PhasesInOrder == OneAtATime /\ ComponentsAfterPlugins /\ LoggingLast

\* When the coordinator quits nothing is left running, so that
\* await_all_actors_done in wait_for_shutdown returns.
NoOrphan == coord = "quit" => alive = {}

\* A shutdown that has begun ends: the coordinator quits and every actor is gone.
ShutdownCompletes ==
  sys = "shutting_down" ~> (coord = "quit" /\ alive = {})

\* A second trigger is ignored while the plugins are being stopped: one chain
\* drives the shutdown, through one resolve or one plugin_saved at a time, and
\* none while a plugin's down_msg is awaited.
OneChain ==
  \A k, l \in {"resolve", "plugin_saved"}, p, q \in Plugins :
     conts[k][p] > 0 =>
       /\ stopping = NoPlugin
       /\ conts[k][p] = 1
       /\ conts[l][q] > 0 => k = l /\ p = q
\* The environment of a shutdown that begins after the boot and is not cut short
\* by the force timer, with a stop order that names every loaded plugin.
Undisturbed ==
  /\ ~BootDisturbed /\ ~ForceMayPreempt /\ ~ResolveMayTimeout
  /\ Names(LoadOrder) \subseteq Names(StopOrder)

\* What the boot leaves behind, when nothing disturbs it: both ready_atoms are
\* handled before the first shutdown_atom, and everything that was started is
\* known to the coordinator or named in the load order.
BootInv ==
  /\ boot # "aborted"
  /\ boot = "components" => inbox = << >> /\ sys = "initializing"
  /\ sys = "initializing" /\ boot # "components" =>
       inbox # << >> /\ inbox[1] = "ready_atom"
  /\ \A i, j \in DOMAIN inbox : i < j /\ inbox[j] = "ready_atom" => inbox[i] = "ready_atom"
  /\ \A i \in DOMAIN inbox : inbox[i] = "shutdown_atom" => boot = "up"
  /\ sys \in {"shutting_down", "stopped"} =>
       boot = "up" /\ \A i \in DOMAIN inbox : inbox[i] = "shutdown_atom"
  /\ \A i \in 1 .. nloaded : LoadOrder[i] \in spawned
  /\ spawned \subseteq Names(LoadOrder)
  /\ alive \cap Plugins \subseteq spawned
  /\ boot # "up" => spawned \subseteq alive
  /\ alive \cap Ctls \subseteq ctls

\* Nothing of the shutdown has begun.
Idle ==
  /\ remaining = {} /\ stopping = NoPlugin /\ told = {} /\ exiting = {}
  /\ timers = 0 /\ coord = "running"
  /\ \A k \in Phases, p \in Plugins : conts[k][p] = 0

\* Where the shutdown stands: before it, in the chain of plugins (remaining is
\* not empty), at the components, or at the logging service.
PhaseInv ==
  /\ sys \in {"initializing", "ready"} => Idle
  /\ exiting = {} => \A a \in Stoppable : awaiting[a] = 0
  /\ remaining # {} => sys = "shutting_down" /\ exiting = {}
  /\ sys \in {"shutting_down", "stopped"} =>
       /\ alive \cap Plugins \subseteq remaining
       /\ remaining = {} => ctls \cup Core \subseteq exiting
  /\ sys = "stopped" <=> "logging_service" \in exiting
  /\ sys = "stopped" => alive \cap Stoppable \subseteq {"logging_service"}
  /\ coord = "quit" => sys = "stopped"

\* The chain of plugins: one continuation drives it, or the down_msg of the
\* plugin being stopped; a plugin whose turn has not come is untouched.
ChainInv ==
  /\ OneChain
  /\ \A p \in Plugins : conts["resolve"][p] > 0 => p \in remaining
  /\ \A p \in Plugins : conts["plugin_saved"][p] > 0 => p \in remaining \ alive
  /\ \A p \in Plugins : conts["refused"][p] = 0
  /\ stopping # NoPlugin => stopping \in remaining
  /\ \A p \in Plugins : mon[p] + downs[p] = IF stopping = p THEN 1 ELSE 0
  /\ \A p \in Plugins : downs[p] > 0 => p \notin alive
  /\ \A p \in remaining :
       stopping # p /\ conts["plugin_saved"][p] = 0 =>
         conts["save"][p] = 0 /\ conts["checkpoint"][p] = 0 /\ p \notin told

\* Why nothing is lost: a plugin that runs is told to stop after its state has
\* been written, and its state is then not taken again.
SaveInv ==
  /\ \A p \in Plugins : conts["save"][p] + conts["checkpoint"][p] <= 1
  /\ \A p \in Plugins : conts["checkpoint"][p] > 0 => mem[p] # "dirty"
  /\ \A p \in told \cap alive :
       /\ conts["save"][p] = 0 /\ conts["checkpoint"][p] = 0
       /\ mem[p] = "saved" \/ p \in excused
===========================================================================
