---------------------- MODULE GracefulShutdownProofs ----------------------
(***************************************************************************)
(* Theorems about the shutdown coordinator, for every set of plugins and   *)
(* controllers, every load order and every behaviour of the environment.   *)
(***************************************************************************)
EXTENDS GracefulShutdown, TLAPS

\* get_stop_order only names plugins, whichever order is configured.
LEMMA StopOrderNames == Names(StopOrder) \subseteq Plugins
<1>1. LoadOrder \in Seq(Plugins) /\ ShutdownOrder \in Seq(Plugins)
  BY OrderAssumption, Zenon
<1>2. Names(ShutdownOrder) \subseteq Plugins
  BY <1>1 DEF Names
<1>3. Names([i \in 1 .. Len(LoadOrder) |-> LoadOrder[Len(LoadOrder) + 1 - i]]) \subseteq Plugins
  BY <1>1 DEF Names
<1>. QED
  BY <1>2, <1>3, Zenon DEF StopOrder

\* Every result get_stop_order can give the coordinator is a set of plugins.
LEMMA StopSets == \A R \in get_stop_order : R \subseteq Plugins
  BY StopOrderNames, Zenon DEF get_stop_order

\* Adding or consuming a continuation keeps the table of continuations well typed.
LEMMA ContTypes ==
  ASSUME NEW c \in [Phases -> [Plugins -> Nat]], NEW k \in Phases, NEW p \in Plugins
  PROVE  /\ Post(c, k, p) \in [Phases -> [Plugins -> Nat]]
         /\ c[k][p] > 0 => Take(c, k, p) \in [Phases -> [Plugins -> Nat]]
  BY DEF Post, Take

\* The same for stop_next.
LEMMA StopNextType ==
  ASSUME NEW c \in [Phases -> [Plugins -> Nat]], NEW p \in Plugins
  PROVE  stop_next(c, p) \in [Phases -> [Plugins -> Nat]]
<1>1. "plugin_saved" \in Phases /\ "resolve" \in Phases
  BY Zenon DEF Phases
<1>. QED
  BY <1>1, ContTypes, Zenon DEF stop_next

\* Sending exits to a set of components keeps the barrier's counters well typed.
LEMMA StopActorsType ==
  ASSUME TypeOK, NEW S, S \subseteq Stoppable,
         NEW aw \in [Stoppable -> Nat], NEW dn \in [Actors -> Nat],
         StopActors(S, aw, dn)
  PROVE  /\ awaiting' \in [Stoppable -> Nat]
         /\ mon' \in [Actors -> Nat]
         /\ downs' \in [Actors -> Nat]
         /\ exiting' \subseteq Stoppable
<1>1. mon \in [Actors -> Nat] /\ exiting \subseteq Stoppable
  BY Zenon DEF TypeOK
<1>2. \A n \in Nat : Subscribe(n) \in Nat
  BY DEF Subscribe
<1>. QED
  BY <1>1, <1>2 DEF StopActors

\* finish_shutdown leaves every variable in its range, whether it subscribes
\* to the components' terminations or quits at once.
LEMMA FinishShutdownType ==
  ASSUME TypeOK, finish_shutdown
  PROVE  /\ awaiting' \in [Stoppable -> Nat]
         /\ mon' \in [Actors -> Nat]
         /\ downs' \in [Actors -> Nat]
         /\ exiting' \subseteq Stoppable
<1>1. ctls \cup Core \subseteq Stoppable
  BY Zenon DEF TypeOK, Stoppable
<1>2. awaiting \in [Stoppable -> Nat] /\ downs \in [Actors -> Nat]
  BY Zenon DEF TypeOK
<1>. QED
  BY <1>1, <1>2, StopActorsType, Zenon DEF finish_shutdown

\* Taking one from a positive counter.
LEMMA Decrement ==
  ASSUME NEW S, NEW f \in [S -> Nat], NEW a \in S, f[a] > 0
  PROVE  /\ [f EXCEPT ![a] = @ - 1] \in [S -> Nat]
         /\ [f EXCEPT ![a] = @ - 1][a] = f[a] - 1
         /\ \A b \in S : [f EXCEPT ![a] = @ - 1][b] <= f[b]
         /\ \A b \in S : b # a => [f EXCEPT ![a] = @ - 1][b] = f[b]
<1>1. f[a] - 1 \in Nat /\ \A b \in S : f[b] \in Nat
  OBVIOUS
<1>. QED
  BY <1>1

-----------------------------------------------------------------------------
\* Every step of the coordinator, the other actors and the main thread keeps
\* the variables well typed.
LEMMA TypeNext == TypeOK /\ [Next]_vars => TypeOK'
<1>. SUFFICES ASSUME TypeOK, [Next]_vars PROVE TypeOK'
  BY Zenon
<1>. USE DEF coordVars, chainVars, actorVars, dataVars, bootVars
<1>phases. /\ "resolve" \in Phases /\ "save" \in Phases /\ "checkpoint" \in Phases
           /\ "refused" \in Phases /\ "plugin_saved" \in Phases
  BY Zenon DEF Phases
<1>conts. conts \in [Phases -> [Plugins -> Nat]]
  BY Zenon DEF TypeOK
<1>1. CASE ready_atom
  BY <1>1, SMTT(40) DEF TypeOK, ready_atom
<1>2. CASE shutdown_atom
  <2>1. inbox' \in Seq({"ready_atom", "shutdown_atom"})
    BY <1>2 DEF TypeOK, shutdown_atom
  <2>2. CASE ShutdownIgnored
    BY <1>2, <2>1, <2>2, Zenon DEF TypeOK, shutdown_atom, ShutdownIgnored
  <2>3. CASE ShutdownNotReady
    BY <1>2, <2>1, <2>3, FinishShutdownType, Zenon DEF TypeOK, shutdown_atom, ShutdownNotReady
  <2>4. CASE ShutdownStart
    <3>1. remaining' \subseteq Plugins /\ sys' = "shutting_down"
      BY <2>4, StopSets, Zenon DEF ShutdownStart
    <3>2. CASE finish_shutdown /\ UNCHANGED chainVars
      BY <1>2, <2>1, <3>1, <3>2, FinishShutdownType, Zenon DEF TypeOK, shutdown_atom
    <3>3. CASE \E p \in remaining' :
                  /\ conts' = stop_next(conts, p)
                  /\ timers' = timers + 1
                  /\ UNCHANGED <<awaiting, mon, downs, exiting>>
      <4>1. conts' \in [Phases -> [Plugins -> Nat]]
        BY <3>1, <3>3, <1>conts, StopNextType
      <4>. QED
        BY <1>2, <2>1, <3>1, <3>3, <4>1 DEF TypeOK, shutdown_atom
    <3>. QED
      BY <2>4, <3>2, <3>3, Zenon DEF ShutdownStart
  <2>. QED
    BY <1>2, <2>2, <2>3, <2>4, Zenon DEF shutdown_atom
<1>3. CASE force_exit_atom
  <2>1. CASE finish_shutdown
    <3>1. /\ awaiting' \in [Stoppable -> Nat] /\ mon' \in [Actors -> Nat]
          /\ downs' \in [Actors -> Nat] /\ exiting' \subseteq Stoppable
      BY <2>1, FinishShutdownType, Zenon
    <3>2. timers' \in Nat
      BY <1>3 DEF TypeOK, force_exit_atom
    <3>. QED
      BY <1>3, <3>1, <3>2, Zenon DEF TypeOK, force_exit_atom
  <2>2. CASE UNCHANGED <<awaiting, mon, downs, exiting>>
    BY <1>3, <2>2, SMTT(40) DEF TypeOK, force_exit_atom
  <2>. QED
    BY <1>3, <2>1, <2>2, Zenon DEF force_exit_atom
<1>4. ASSUME NEW p \in Plugins, Chain(p) PROVE TypeOK'
  <2>1. CASE ResolveHit(p)
    <3>1. Take(conts, "resolve", p) \in [Phases -> [Plugins -> Nat]]
      BY <2>1, <1>phases, <1>conts, ContTypes, Zenon DEF ResolveHit
    <3>2. conts' \in [Phases -> [Plugins -> Nat]]
      BY <2>1, <3>1, <1>phases, ContTypes, Zenon DEF ResolveHit
    <3>3. mon' \in [Actors -> Nat] /\ downs' \in [Actors -> Nat]
      <4>1. p \in Actors /\ mon \in [Actors -> Nat] /\ downs \in [Actors -> Nat]
        BY Zenon DEF TypeOK, Actors
      <4>2. Subscribe(mon[p]) \in Nat
        BY <4>1 DEF Subscribe
      <4>. QED
        BY <2>1, <4>1, <4>2 DEF ResolveHit
    <3>. QED
      BY <2>1, <3>2, <3>3, Zenon DEF ResolveHit, TypeOK
  <2>2. CASE ResolveMiss(p)
    <3>1. Take(conts, "resolve", p) \in [Phases -> [Plugins -> Nat]]
      BY <2>2, <1>phases, <1>conts, ContTypes, Zenon DEF ResolveMiss
    <3>2. conts' \in [Phases -> [Plugins -> Nat]]
      BY <2>2, <3>1, <1>phases, ContTypes, Zenon DEF ResolveMiss
    <3>. QED
      BY <2>2, <3>2, Zenon DEF ResolveMiss, TypeOK
  <2>3. CASE SavedState(p)
    <3>1. Take(conts, "save", p) \in [Phases -> [Plugins -> Nat]]
      BY <2>3, <1>phases, <1>conts, ContTypes, Zenon DEF SavedState
    <3>2. conts' \in [Phases -> [Plugins -> Nat]]
      BY <2>3, <3>1, <1>phases, ContTypes, ZenonT(40) DEF SavedState
    <3>. QED
      BY <2>3, <3>2, Zenon DEF SavedState, TypeOK
  <2>4. CASE SavedNothing(p) \/ SaveFailed(p)
    <3>1. conts' \in [Phases -> [Plugins -> Nat]]
      BY <2>4, <1>phases, <1>conts, ContTypes, SMTT(40) DEF SavedNothing, SaveFailed
    <3>. QED
      BY <2>4, <3>1, ZenonT(40) DEF SavedNothing, SaveFailed, TypeOK
  <2>5. CASE Checkpointed(p)
    <3>1. conts' \in [Phases -> [Plugins -> Nat]]
      BY <2>5, <1>phases, <1>conts, ContTypes, ZenonT(40) DEF Checkpointed
    <3>. QED
      BY <2>5, <3>1, ZenonT(40) DEF Checkpointed, TypeOK
  <2>6. CASE CheckpointError(p)
    <3>1. conts' \in [Phases -> [Plugins -> Nat]]
      BY <2>6, <1>phases, <1>conts, ContTypes, SMTT(40) DEF CheckpointError
    <3>. QED
      BY <2>6, <3>1, Zenon DEF CheckpointError, TypeOK
  <2>7. CASE plugin_saved_atom(p)
    <3>1. Take(conts, "plugin_saved", p) \in [Phases -> [Plugins -> Nat]]
      BY <2>7, <1>phases, <1>conts, ContTypes, ZenonT(40) DEF plugin_saved_atom
    <3>2. remaining' \subseteq Plugins
      BY <2>7, Zenon DEF plugin_saved_atom, TypeOK
    <3>3. CASE \E q \in remaining' :
                  /\ conts' = stop_next(Take(conts, "plugin_saved", p), q)
                  /\ UNCHANGED <<awaiting, mon, downs, exiting>>
      <4>1. conts' \in [Phases -> [Plugins -> Nat]]
        BY <3>1, <3>2, <3>3, StopNextType
      <4>. QED
        BY <2>7, <3>2, <3>3, <4>1, ZenonT(40) DEF plugin_saved_atom, TypeOK
    <3>4. CASE conts' = Take(conts, "plugin_saved", p) /\ finish_shutdown
      BY <2>7, <3>1, <3>2, <3>4, FinishShutdownType, ZenonT(40) DEF plugin_saved_atom, TypeOK
    <3>. QED
      BY <2>7, <3>3, <3>4, Zenon DEF plugin_saved_atom
  <2>. QED
    BY <1>4, <2>1, <2>2, <2>3, <2>4, <2>5, <2>6, <2>7, Zenon DEF Chain
<1>5. ASSUME NEW a \in Actors, Down(a) PROVE TypeOK'
  <2>1. CASE a \in Plugins /\ DownOfPlugin(a)
    <3>1. conts' \in [Phases -> [Plugins -> Nat]]
      BY <2>1, <1>phases, <1>conts, ContTypes, Zenon DEF DownOfPlugin
    <3>2. downs \in [Actors -> Nat] /\ downs[a] > 0
      BY <2>1, Zenon DEF DownOfPlugin, TypeOK
    <3>3. downs' = [downs EXCEPT ![a] = @ - 1] /\ stopping' = NoPlugin
      BY <2>1, Zenon DEF DownOfPlugin
    <3>4. downs' \in [Actors -> Nat]
      BY <1>5, <3>2, <3>3, Decrement, Zenon
    <3>5. UNCHANGED <<sys, remaining, awaiting, ctls, coord, timers, inbox, alive,
                      spawned, mon, told, exiting, dataVars, bootVars>>
      BY <2>1, Zenon DEF DownOfPlugin
    <3>. QED
      BY <3>1, <3>3, <3>4, <3>5, Zenon DEF TypeOK
  <2>2. CASE DownDropped(a)
    <3>1. downs \in [Actors -> Nat] /\ downs[a] > 0
      BY <2>2, Zenon DEF DownDropped, TypeOK
    <3>2. downs' = [downs EXCEPT ![a] = @ - 1]
      BY <2>2, Zenon DEF DownDropped
    <3>3. downs' \in [Actors -> Nat]
      BY <1>5, <3>1, <3>2, Decrement, Zenon
    <3>4. UNCHANGED <<coordVars, chainVars, inbox, alive, spawned, mon, told, exiting,
                      dataVars, bootVars>>
      BY <2>2, Zenon DEF DownDropped
    <3>. QED
      BY <3>3, <3>4, Zenon DEF TypeOK
  <2>3. CASE a \in Stoppable /\ DownOfComponent(a)
    <3>. DEFINE aw == [awaiting EXCEPT ![a] = @ - 1]
                dn == [downs EXCEPT ![a] = @ - 1]
    <3>1. aw \in [Stoppable -> Nat] /\ dn \in [Actors -> Nat]
      BY <1>5, <2>3, SMTT(40) DEF DownOfComponent, TypeOK
    <3>2. /\ awaiting' \in [Stoppable -> Nat]
          /\ mon' \in [Actors -> Nat]
          /\ downs' \in [Actors -> Nat]
          /\ exiting' \subseteq Stoppable
          /\ sys' \in {"stopped", sys}
          /\ coord' \in {"quit", coord}
      <4>1. CASE finish_last(aw, dn)
        <5>1. {"logging_service"} \subseteq Stoppable
          BY Zenon DEF Stoppable
        <5>. QED
          BY <4>1, <3>1, <5>1, StopActorsType, ZenonT(40) DEF finish_last
      <4>2. CASE /\ awaiting' = aw /\ downs' = dn /\ UNCHANGED <<mon, exiting, sys>>
                 /\ coord' \in {"quit", coord}
        BY <4>2, <3>1, Zenon DEF TypeOK
      <4>. QED
        BY <2>3, <4>1, <4>2, Zenon DEF DownOfComponent, BarrierDone
    <3>. QED
      BY <2>3, <3>2, ZenonT(40) DEF DownOfComponent, TypeOK
  <2>. QED
    BY <1>5, <2>1, <2>2, <2>3, Zenon DEF Down
<1>6. ASSUME NEW a \in Actors, Terminate(a), excused' \subseteq Plugins PROVE TypeOK'
  BY <1>6, SMTT(40) DEF Terminate, TypeOK
<1>7. ASSUME NEW p \in Plugins, PluginQuits(p) \/ PluginCrashes(p) PROVE TypeOK'
  BY <1>6, <1>7, ZenonT(40) DEF PluginQuits, PluginCrashes, Actors, TypeOK
<1>8. ASSUME NEW p \in Plugins, Work(p) PROVE TypeOK'
  BY <1>8, Zenon DEF Work, TypeOK
<1>9. ASSUME NEW a \in Stoppable, ComponentExits(a) PROVE TypeOK'
  BY <1>6, <1>9, ZenonT(40) DEF ComponentExits, Actors, TypeOK
<1>10. CASE Main
  <2>1. CASE LoadPlugin
    <3>1. LoadOrder[nloaded + 1] \in Plugins /\ nloaded + 1 \in 0 .. Len(LoadOrder)
      BY <2>1, OrderAssumption, SMTT(40) DEF LoadPlugin, TypeOK
    <3>. QED
      BY <2>1, <3>1, ZenonT(40) DEF LoadPlugin, TypeOK, Actors
  <2>2. CASE ComponentsReady \/ PublishOrder \/ HealthCheck \/ BootDone
    <3>1. inbox \in Seq({"ready_atom", "shutdown_atom"})
      BY Zenon DEF TypeOK
    <3>2. inbox' \in {inbox, Append(inbox, "ready_atom"), Append(inbox, "shutdown_atom")}
      BY <2>2, Zenon DEF ComponentsReady, PublishOrder, HealthCheck, BootDone
    <3>3. inbox' \in Seq({"ready_atom", "shutdown_atom"})
      BY <3>1, <3>2
    <3>4. boot' \in {"scanning", "loading", "ctls", "aborted", "up"}
      BY <2>2, Zenon DEF ComponentsReady, PublishOrder, HealthCheck, BootDone
    <3>5. UNCHANGED <<coordVars, chainVars, actorVars, dataVars, nloaded, sent>>
      BY <2>2, Zenon DEF ComponentsReady, PublishOrder, HealthCheck, BootDone
    <3>. QED
      BY <3>3, <3>4, <3>5, Zenon DEF TypeOK
  <2>3. ASSUME NEW c \in Ctls, RegisterCluster(c) PROVE TypeOK'
    BY <2>3, Zenon DEF RegisterCluster, TypeOK, Actors, Stoppable
  <2>. QED
    BY <1>10, <2>1, <2>2, <2>3, Zenon DEF Main
<1>11. CASE Signal
  <2>1. inbox' \in Seq({"ready_atom", "shutdown_atom"})
    BY <1>11 DEF Signal, TypeOK
  <2>2. sent' \in 0 .. MaxSignals
    BY <1>11, ParameterAssumption, SMTT(40) DEF Signal, TypeOK
  <2>3. UNCHANGED <<coordVars, chainVars, actorVars, dataVars, boot, nloaded>>
    BY <1>11, Zenon DEF Signal
  <2>. QED
    BY <2>1, <2>2, <2>3, Zenon DEF TypeOK
<1>12. CASE UNCHANGED vars
  BY <1>12, Zenon DEF vars, TypeOK
<1>. QED
  BY <1>1, <1>2, <1>3, <1>4, <1>5, <1>7, <1>8, <1>9, <1>10, <1>11, <1>12, Zenon DEF Next

\* The coordinator's variables have their types in every reachable state.
THEOREM TypeCorrect == Spec => []TypeOK
<1>1. Init => TypeOK
  BY OrderAssumption, ParameterAssumption, SMTT(40) DEF Init, TypeOK, Actors, Stoppable, Core
<1>. QED
  BY <1>1, TypeNext, PTL DEF Spec

-----------------------------------------------------------------------------
\* A step that starts no component's exit and ends none keeps the barrier.
LEMMA BarrierFrame ==
  ASSUME TypeOK, BarrierInv, QuitBarrier,
         \A a \in Stoppable : /\ awaiting'[a] = awaiting[a]
                              /\ mon'[a] = mon[a]
                              /\ downs'[a] \in Nat /\ downs'[a] <= downs[a],
         exiting' = exiting,
         \A a \in exiting : a \in alive' => a \in alive,
         ctls \subseteq ctls',
         coord' = "quit" => coord = "quit"
  PROVE  BarrierInv' /\ QuitBarrier'
<1>1. exiting \subseteq Stoppable
  BY Zenon DEF TypeOK
<1>2. \A a \in Stoppable : awaiting[a] \in Nat /\ mon[a] \in Nat /\ downs[a] \in Nat
  BY Zenon DEF TypeOK, Actors
<1>3. \A a \in Stoppable : awaiting'[a] >= mon'[a] + downs'[a]
  BY <1>2 DEF BarrierInv
<1>4. \A a \in exiting' \cap alive' : mon'[a] > 0
  BY <1>1, Zenon DEF BarrierInv
<1>5. exiting' \subseteq ctls' \cup Core \cup {"logging_service"}
  BY Zenon DEF BarrierInv
<1>6. QuitBarrier'
  BY Zenon DEF QuitBarrier
<1>. QED
  BY <1>3, <1>4, <1>5, <1>6, Zenon DEF BarrierInv

\* The same when the barrier's own variables do not change.
LEMMA BarrierSame ==
  ASSUME TypeOK, BarrierInv, QuitBarrier,
         awaiting' = awaiting, mon' = mon, downs' = downs, exiting' = exiting,
         \A a \in exiting : a \in alive' => a \in alive,
         ctls \subseteq ctls',
         coord' = "quit" => coord = "quit"
  PROVE  BarrierInv' /\ QuitBarrier'
<1>1. \A a \in Stoppable : downs[a] \in Nat
  BY Zenon DEF TypeOK, Actors
<1>. QED
  BY <1>1, BarrierFrame

\* Monitoring and counting every actor of S before its exit_msg keeps it.
LEMMA BarrierStop ==
  ASSUME TypeOK, NEW S, S \subseteq ctls \cup Core \cup {"logging_service"},
         NEW aw \in [Stoppable -> Nat], NEW dn \in [Actors -> Nat],
         \A a \in Stoppable : aw[a] >= mon[a] + dn[a],
         \A a \in exiting \cap alive : mon[a] > 0,
         exiting \subseteq ctls \cup Core \cup {"logging_service"},
         StopActors(S, aw, dn), alive' = alive, ctls' = ctls
  PROVE  BarrierInv'
<1>1. S \subseteq Stoppable /\ exiting \subseteq Stoppable /\ Stoppable \subseteq Actors
  BY Zenon DEF TypeOK, Stoppable, Actors
<1>2. mon \in [Actors -> Nat]
  BY Zenon DEF TypeOK
<1>3. \A n \in Nat : Subscribe(n) \in Nat /\ 1 <= Subscribe(n) /\ Subscribe(n) <= n + 1
  BY DEF Subscribe
<1>4. ASSUME NEW a \in Stoppable PROVE awaiting'[a] >= mon'[a] + downs'[a]
  <2>1. awaiting'[a] = IF a \in S THEN aw[a] + 1 ELSE aw[a]
    BY Zenon DEF StopActors
  <2>2. mon'[a] = IF a \in S /\ a \in alive THEN Subscribe(mon[a]) ELSE mon[a]
    BY <1>1, Zenon DEF StopActors
  <2>3. downs'[a] = IF a \in S /\ a \notin alive THEN dn[a] + 1 ELSE dn[a]
    BY <1>1, Zenon DEF StopActors
  <2>4. aw[a] \in Nat /\ mon[a] \in Nat /\ dn[a] \in Nat
    BY <1>1, <1>2, Zenon
  <2>5. Subscribe(mon[a]) \in Nat /\ Subscribe(mon[a]) <= mon[a] + 1
    BY <1>3, <2>4, Zenon
  <2>. QED
    BY <2>1, <2>2, <2>3, <2>4, <2>5, SMTT(40)
<1>5. ASSUME NEW a \in exiting' \cap alive' PROVE mon'[a] > 0
  <2>1. a \in Actors /\ a \in alive /\ a \in exiting \cup S
    BY <1>1, <1>5, Zenon DEF StopActors
  <2>2. mon'[a] = IF a \in S THEN Subscribe(mon[a]) ELSE mon[a]
    BY <2>1, Zenon DEF StopActors
  <2>3. CASE a \in S
    <3>1. Subscribe(mon[a]) \in Nat /\ 1 <= Subscribe(mon[a])
      BY <1>2, <1>3, <2>1, Zenon
    <3>. QED
      BY ONLY <2>2, <2>3, <3>1
  <2>4. CASE a \notin S
    <3>1. mon[a] > 0
      BY <2>1, <2>4, Zenon
    <3>. QED
      BY ONLY <2>2, <2>4, <3>1, Zenon
  <2>. QED
    BY ONLY <2>3, <2>4, Zenon
<1>6. exiting' \subseteq ctls' \cup Core \cup {"logging_service"}
  BY Zenon DEF StopActors
<1>. QED
  BY <1>4, <1>5, <1>6, Zenon DEF BarrierInv

\* finish_shutdown keeps the barrier.
LEMMA BarrierFinishShutdown ==
  ASSUME TypeOK, BarrierInv, finish_shutdown,
         alive' = alive, ctls' = ctls, coord = "running", coord' = coord
  PROVE  BarrierInv' /\ QuitBarrier'
<1>1. awaiting \in [Stoppable -> Nat] /\ downs \in [Actors -> Nat]
  BY Zenon DEF TypeOK
<1>2. BarrierInv'
  BY <1>1, BarrierStop, Zenon DEF BarrierInv, finish_shutdown
<1>. QED
  BY <1>2, Zenon DEF QuitBarrier

\* The last awaited down_msg: finish_last extends the barrier, and quit comes
\* only when no down_msg is outstanding.
LEMMA BarrierDown ==
  ASSUME TypeOK, BarrierInv, QuitBarrier, NEW a \in Stoppable, DownOfComponent(a)
  PROVE  BarrierInv' /\ QuitBarrier'
<1>. DEFINE aw == [awaiting EXCEPT ![a] = @ - 1]
            dn == [downs EXCEPT ![a] = @ - 1]
<1>1. Stoppable \subseteq Actors /\ exiting \subseteq Stoppable
  BY Zenon DEF Actors, TypeOK
<1>0. /\ awaiting \in [Stoppable -> Nat] /\ downs \in [Actors -> Nat]
      /\ awaiting[a] > 0 /\ downs[a] > 0 /\ a \in Actors
  BY <1>1, Zenon DEF DownOfComponent, TypeOK
<1>2. aw \in [Stoppable -> Nat] /\ dn \in [Actors -> Nat]
  BY <1>0, Decrement, Zenon
<1>3. \A b \in Stoppable : aw[b] >= mon[b] + dn[b]
  BY <1>1, SMTT(40) DEF BarrierInv, TypeOK
<1>4. alive' = alive /\ ctls' = ctls /\ coord = "running"
  BY Zenon DEF DownOfComponent
<1>5. \A b \in Stoppable : mon[b] \in Nat
  BY <1>1, Zenon DEF TypeOK
<1>6. CASE finish_last(aw, dn)
  <2>1. BarrierInv'
    BY <1>2, <1>3, <1>4, <1>6, BarrierStop, ZenonT(40) DEF BarrierInv, finish_last
  <2>. QED
    BY <1>4, <1>6, <2>1, Zenon DEF finish_last, QuitBarrier
<1>7. CASE /\ awaiting' = aw /\ downs' = dn /\ UNCHANGED <<mon, exiting>>
           /\ coord' = "quit" => \A b \in Stoppable : aw[b] = 0
  <2>1. BarrierInv'
    BY <1>3, <1>4, <1>7, Zenon DEF BarrierInv
  <2>2. ASSUME coord' = "quit", NEW b \in exiting' \cap alive' PROVE FALSE
    <3>1. b \in exiting \cap alive /\ b \in Stoppable
      BY <1>1, <1>4, <1>7, <2>2, Zenon
    <3>2. mon[b] > 0
      BY <3>1, Zenon DEF BarrierInv
    <3>3. aw[b] = 0 /\ aw[b] >= mon[b] + dn[b] /\ dn[b] \in Nat /\ mon[b] \in Nat
      BY <1>1, <1>2, <1>3, <1>5, <1>7, <2>2, <3>1, Zenon
    <3>. QED
      BY <3>2, <3>3
  <2>. QED
    BY <2>1, <2>2, Zenon DEF QuitBarrier
<1>. QED
  BY <1>4, <1>6, <1>7, Zenon DEF DownOfComponent, BarrierDone

\* A terminating actor turns its monitors into down_msgs: the sum is kept.
LEMMA BarrierTerminate ==
  ASSUME TypeOK, BarrierInv, QuitBarrier, NEW a \in Actors, Terminate(a)
  PROVE  BarrierInv' /\ QuitBarrier'
<1>. USE DEF coordVars, chainVars, actorVars, dataVars, bootVars
<1>1. Stoppable \subseteq Actors /\ exiting \subseteq Stoppable
  BY Zenon DEF Actors, TypeOK
<1>2. /\ mon \in [Actors -> Nat] /\ downs \in [Actors -> Nat]
      /\ awaiting \in [Stoppable -> Nat]
  BY Zenon DEF TypeOK
<1>3. /\ alive' = alive \ {a} /\ exiting' = exiting /\ awaiting' = awaiting
      /\ ctls' = ctls /\ coord' = coord
      /\ downs' = [downs EXCEPT ![a] = @ + mon[a]]
      /\ mon' = [mon EXCEPT ![a] = 0]
  BY Zenon DEF Terminate
<1>4. ASSUME NEW b \in Stoppable PROVE awaiting'[b] >= mon'[b] + downs'[b]
  <2>1. awaiting[b] >= mon[b] + downs[b] /\ b \in Actors
    BY <1>1, Zenon DEF BarrierInv
  <2>2. mon[b] \in Nat /\ downs[b] \in Nat /\ awaiting[b] \in Nat
    BY <1>2, <2>1, Zenon
  <2>3. CASE b = a
    <3>1. mon'[b] = 0 /\ downs'[b] = downs[b] + mon[b] /\ awaiting'[b] = awaiting[b]
      BY <1>2, <1>3, <2>1, <2>3, Zenon
    <3>2. mon'[b] + downs'[b] = mon[b] + downs[b]
      BY ONLY <2>2, <3>1
    <3>. QED
      BY ONLY <2>1, <3>1, <3>2, Zenon
  <2>4. CASE b # a
    <3>1. mon'[b] = mon[b] /\ downs'[b] = downs[b] /\ awaiting'[b] = awaiting[b]
      BY <1>2, <1>3, <2>1, <2>4, Zenon
    <3>. QED
      BY ONLY <2>1, <2>2, <3>1, Zenon
  <2>. QED
    BY ONLY <2>3, <2>4, Zenon
<1>5. \A b \in exiting' \cap alive' : mon'[b] > 0
  BY <1>1, <1>2, <1>3, Zenon DEF BarrierInv
<1>6. exiting' \subseteq ctls' \cup Core \cup {"logging_service"}
  BY <1>3, Zenon DEF BarrierInv
<1>7. QuitBarrier'
  BY <1>3, Zenon DEF QuitBarrier
<1>. QED
  BY <1>4, <1>5, <1>6, <1>7, Zenon DEF BarrierInv

\* Every step keeps the barrier.
LEMMA BarrierNext ==
  TypeOK /\ BarrierInv /\ QuitBarrier /\ [Next]_vars => BarrierInv' /\ QuitBarrier'
<1>. SUFFICES ASSUME TypeOK, BarrierInv, QuitBarrier, [Next]_vars
              PROVE  BarrierInv' /\ QuitBarrier'
  BY Zenon
<1>. USE DEF coordVars, chainVars, actorVars, dataVars, bootVars
<1>same. ASSUME UNCHANGED <<awaiting, mon, downs, exiting, alive, ctls, coord>>
         PROVE  BarrierInv' /\ QuitBarrier'
  BY <1>same, BarrierSame, Zenon
<1>1. CASE ready_atom
  BY <1>1, <1>same, Zenon DEF ready_atom
<1>2. CASE shutdown_atom
  <2>1. CASE finish_shutdown
    BY <1>2, <2>1, BarrierFinishShutdown, Zenon DEF shutdown_atom
  <2>2. CASE UNCHANGED <<awaiting, mon, downs, exiting>>
    BY <1>2, <2>2, <1>same, Zenon DEF shutdown_atom
  <2>. QED
    BY <1>2, <2>1, <2>2, Zenon
       DEF shutdown_atom, ShutdownIgnored, ShutdownNotReady, ShutdownStart
<1>3. CASE force_exit_atom
  <2>1. CASE finish_shutdown
    BY <1>3, <2>1, BarrierFinishShutdown, Zenon DEF force_exit_atom
  <2>2. CASE UNCHANGED <<awaiting, mon, downs, exiting>>
    BY <1>3, <2>2, <1>same, Zenon DEF force_exit_atom
  <2>. QED
    BY <1>3, <2>1, <2>2, Zenon DEF force_exit_atom
<1>4. ASSUME NEW p \in Plugins, Chain(p) PROVE BarrierInv' /\ QuitBarrier'
  <2>1. CASE ResolveHit(p)
    <3>1. \A a \in Stoppable : a # p
      BY NamesAssumption, Zenon
    <3>2. \A a \in Stoppable : mon'[a] = mon[a] /\ downs'[a] = downs[a]
      BY <2>1, <3>1, Zenon DEF ResolveHit, TypeOK, Actors
    <3>3. UNCHANGED <<awaiting, exiting, alive, ctls, coord>>
      BY <2>1, Zenon DEF ResolveHit
    <3>4. \A a \in Stoppable : downs[a] \in Nat
      BY Zenon DEF TypeOK, Actors
    <3>5. ASSUME NEW a \in Stoppable
          PROVE  /\ awaiting'[a] = awaiting[a]
                 /\ mon'[a] = mon[a]
                 /\ downs'[a] \in Nat /\ downs'[a] <= downs[a]
      <4>1. awaiting' = awaiting
        BY ONLY <3>3, Zenon
      <4>2. mon'[a] = mon[a] /\ downs'[a] = downs[a] /\ downs[a] \in Nat
        BY ONLY <3>2, <3>4, a \in Stoppable, Zenon
      <4>. QED
        BY ONLY <4>1, <4>2
    <3>6. \A a \in exiting : a \in alive' => a \in alive
      BY <3>3, Zenon
    <3>7. exiting' = exiting /\ ctls \subseteq ctls' /\ (coord' = "quit" => coord = "quit")
      BY <3>3, Zenon
    <3>. QED
      BY <3>5, <3>6, <3>7, BarrierFrame, Zenon
  <2>2. CASE plugin_saved_atom(p)
    <3>1. CASE finish_shutdown
      BY <2>2, <3>1, BarrierFinishShutdown, ZenonT(40) DEF plugin_saved_atom
    <3>2. CASE UNCHANGED <<awaiting, mon, downs, exiting>>
      BY <2>2, <3>2, <1>same, Zenon DEF plugin_saved_atom
    <3>3. finish_shutdown \/ UNCHANGED <<awaiting, mon, downs, exiting>>
      BY ONLY <2>2, Zenon DEF plugin_saved_atom
    <3>. QED
      BY ONLY <3>1, <3>2, <3>3, Zenon
  <2>3. CASE /\ UNCHANGED <<awaiting, mon, downs, exiting, alive, ctls>>
             /\ coord' \in {"died", coord}
    BY <2>3, BarrierSame, Zenon
  <2>. QED
    BY <1>4, <2>1, <2>2, <2>3, ZenonT(40)
       DEF Chain, ResolveMiss, SavedState, SavedNothing, SaveFailed, Checkpointed,
           CheckpointError
<1>5. ASSUME NEW a \in Actors, Down(a) PROVE BarrierInv' /\ QuitBarrier'
  <2>1. CASE (a \in Plugins /\ DownOfPlugin(a)) \/ DownDropped(a)
    <3>1. /\ UNCHANGED <<awaiting, mon, exiting, alive, ctls, coord>>
          /\ downs[a] > 0 /\ downs' = [downs EXCEPT ![a] = @ - 1]
      BY <2>1, Zenon DEF DownOfPlugin, DownDropped
    <3>2. \A b \in Stoppable : downs'[b] \in Nat /\ downs'[b] <= downs[b]
      <4>1. downs \in [Actors -> Nat] /\ Stoppable \subseteq Actors
        BY Zenon DEF TypeOK, Actors
      <4>. QED
        BY <1>5, <3>1, <4>1, Decrement, SMTT(40)
    <3>3. \A b \in Stoppable : /\ awaiting'[b] = awaiting[b]
                               /\ mon'[b] = mon[b]
                               /\ downs'[b] \in Nat /\ downs'[b] <= downs[b]
      BY <3>1, <3>2, Zenon
    <3>4. \A b \in exiting : b \in alive' => b \in alive
      BY <3>1, Zenon
    <3>5. exiting' = exiting /\ ctls \subseteq ctls' /\ (coord' = "quit" => coord = "quit")
      BY <3>1, Zenon
    <3>. QED
      BY <3>3, <3>4, <3>5, BarrierFrame, Zenon
  <2>2. CASE a \in Stoppable /\ DownOfComponent(a)
    BY <2>2, BarrierDown, Zenon
  <2>. QED
    BY <1>5, <2>1, <2>2, Zenon DEF Down
<1>6. ASSUME NEW p \in Plugins, PluginQuits(p) \/ PluginCrashes(p)
      PROVE  BarrierInv' /\ QuitBarrier'
  BY <1>6, BarrierTerminate, Zenon DEF PluginQuits, PluginCrashes, Actors
<1>7. ASSUME NEW p \in Plugins, Work(p) PROVE BarrierInv' /\ QuitBarrier'
  BY <1>7, <1>same, Zenon DEF Work
<1>8. ASSUME NEW a \in Stoppable, ComponentExits(a) PROVE BarrierInv' /\ QuitBarrier'
  BY <1>8, BarrierTerminate, Zenon DEF ComponentExits, Actors
<1>9. CASE Main
  <2>1. CASE LoadPlugin
    <3>1. LoadOrder[nloaded + 1] \in Plugins
      <4>1. nloaded + 1 \in 1 .. Len(LoadOrder)
        BY <2>1, OrderAssumption, SMTT(40) DEF LoadPlugin, TypeOK
      <4>. QED
        BY ONLY <4>1, OrderAssumption, SMTT(40)
    <3>2. \A a \in exiting : a \in alive' => a \in alive
      BY <2>1, <3>1, NamesAssumption, Zenon DEF LoadPlugin, TypeOK
    <3>3. UNCHANGED <<awaiting, mon, downs, exiting, ctls, coord>>
      BY <2>1, Zenon DEF LoadPlugin
    <3>. QED
      BY <3>2, <3>3, BarrierSame, Zenon
  <2>2. CASE ComponentsReady \/ PublishOrder \/ HealthCheck \/ BootDone
    <3>1. UNCHANGED <<coordVars, actorVars>>
      BY <2>2, Zenon DEF ComponentsReady, PublishOrder, HealthCheck, BootDone
    <3>. QED
      BY <3>1, <1>same, Zenon
  <2>3. ASSUME NEW c \in Ctls, RegisterCluster(c) PROVE BarrierInv' /\ QuitBarrier'
    <3>1. c \notin exiting
      BY <2>3, NamesAssumption, ZenonT(40) DEF RegisterCluster, BarrierInv
    <3>2. \A a \in exiting : a \in alive' => a \in alive
      BY <2>3, <3>1, Zenon DEF RegisterCluster
    <3>3. UNCHANGED <<awaiting, mon, downs, exiting, coord>> /\ ctls \subseteq ctls'
      BY <2>3, Zenon DEF RegisterCluster
    <3>. QED
      BY <3>2, <3>3, BarrierSame, Zenon
  <2>. QED
    BY <1>9, <2>1, <2>2, <2>3, Zenon DEF Main
<1>10. CASE Signal
  BY <1>10, <1>same, Zenon DEF Signal
<1>11. CASE UNCHANGED vars
  BY <1>11, <1>same, Zenon DEF vars
<1>. QED
  BY <1>1, <1>2, <1>3, <1>4, <1>5, <1>6, <1>7, <1>8, <1>9, <1>10, <1>11, Zenon DEF Next

\* The exit barrier holds whatever the environment does (early signals, time
\* limits that expire, failed saves, crashes): the coordinator never quits
\* while an actor that it sent an exit_msg to is still running.
THEOREM BarrierHolds == Spec => [](QuitBarrier /\ BarrierInv)
<1>1. Init => QuitBarrier /\ BarrierInv
  BY SMTT(40) DEF Init, QuitBarrier, BarrierInv, Actors
<1>. QED
  BY <1>1, TypeCorrect, BarrierNext, PTL DEF Spec
-----------------------------------------------------------------------------
\* What Post and Take do to each counter of the table of continuations.
LEMMA ContValues ==
  ASSUME NEW c \in [Phases -> [Plugins -> Nat]], NEW k \in Phases, NEW p \in Plugins
  PROVE  \A l \in Phases, q \in Plugins :
           /\ Post(c, k, p)[l][q] = IF l = k /\ q = p THEN c[l][q] + 1 ELSE c[l][q]
           /\ Take(c, k, p)[l][q] = IF l = k /\ q = p THEN c[l][q] - 1 ELSE c[l][q]
  BY Zenon DEF Post, Take

\* The coordinator does not quit, and stops nothing, before the boot is complete.
LEMMA BeforeUp ==
  ASSUME TypeOK, BootInv, PhaseInv, boot # "up"
  PROVE  sys \in {"initializing", "ready"} /\ Idle
  BY Zenon DEF TypeOK, BootInv, PhaseInv

\* A step that moves no message and starts no actor keeps what the boot set up.
LEMMA BootFrame ==
  ASSUME BootInv, UNCHANGED <<boot, inbox, sys, nloaded, spawned, ctls>>,
         alive' \subseteq alive, boot = "up" \/ alive' = alive
  PROVE  BootInv'
  BY Zenon DEF BootInv

\* An undisturbed boot keeps its promises, whatever follows it.
LEMMA BootNext ==
  ASSUME Undisturbed, TypeOK, BootInv, PhaseInv, [Next]_vars
  PROVE  BootInv'
<1>. USE DEF coordVars, chainVars, actorVars, dataVars, bootVars
<1>names. /\ Plugins \cap Stoppable = {} /\ Ctls \subseteq Stoppable
          /\ Ctls \cap (Core \cup {"logging_service"}) = {}
  BY NamesAssumption, Zenon DEF Stoppable
<1>inbox. inbox \in Seq({"ready_atom", "shutdown_atom"})
  BY Zenon DEF TypeOK
<1>0. CASE UNCHANGED <<boot, inbox, sys, nloaded, spawned, ctls, alive>>
  BY <1>0, BootFrame, Zenon
<1>1. CASE ready_atom
  <2>1. /\ inbox' = Tail(inbox) /\ inbox # << >> /\ inbox[1] = "ready_atom"
        /\ sys' = "ready" /\ UNCHANGED <<boot, nloaded, spawned, ctls, alive>>
    BY <1>1 DEF ready_atom
  <2>2. /\ DOMAIN inbox' = 1 .. Len(inbox) - 1 /\ DOMAIN inbox = 1 .. Len(inbox)
        /\ \A i \in DOMAIN inbox' : inbox'[i] = inbox[i + 1] /\ i + 1 \in DOMAIN inbox
    BY <1>inbox, <2>1
  <2>3. 1 \in DOMAIN inbox
    BY <1>inbox, <2>1
  <2>4. sys \in {"initializing", "ready"} /\ boot # "components"
    BY <2>1, <2>3, Zenon DEF BootInv, TypeOK
  <2>5. \A i, j \in DOMAIN inbox' : i < j /\ inbox'[j] = "ready_atom" => inbox'[i] = "ready_atom"
    BY <2>2 DEF BootInv
  <2>6. \A i \in DOMAIN inbox' : inbox'[i] = "shutdown_atom" => boot' = "up"
    BY <2>1, <2>2, Zenon DEF BootInv
  <2>. QED
    BY <2>1, <2>4, <2>5, <2>6, Zenon DEF BootInv
<1>2. CASE shutdown_atom
  <2>1. /\ inbox' = Tail(inbox) /\ inbox # << >> /\ inbox[1] = "shutdown_atom"
        /\ UNCHANGED <<boot, nloaded, spawned, ctls, alive>>
    BY <1>2 DEF shutdown_atom
  <2>2. /\ DOMAIN inbox' = 1 .. Len(inbox) - 1 /\ DOMAIN inbox = 1 .. Len(inbox)
        /\ \A i \in DOMAIN inbox' : inbox'[i] = inbox[i + 1] /\ i + 1 \in DOMAIN inbox
    BY <1>inbox, <2>1
  <2>3. 1 \in DOMAIN inbox
    BY <1>inbox, <2>1
  <2>4. boot = "up" /\ sys # "initializing"
    BY <2>1, <2>3, Zenon DEF BootInv
  <2>5. sys' \in {sys, "shutting_down"}
    BY <1>2, Zenon DEF shutdown_atom, ShutdownIgnored, ShutdownNotReady, ShutdownStart
  <2>6. ASSUME NEW i \in DOMAIN inbox' PROVE inbox'[i] = "shutdown_atom"
    <3>1. inbox[i + 1] # "ready_atom"
      BY <2>1, <2>2, <2>3 DEF BootInv
    <3>. QED
      BY <1>inbox, <2>2, <3>1
  <2>. QED
    BY <2>1, <2>4, <2>5, <2>6, Zenon DEF BootInv
<1>3. ASSUME NEW a \in Actors, Terminate(a), boot = "up" PROVE BootInv'
  BY <1>3, BootFrame, Zenon DEF Terminate
<1>4. ASSUME NEW p \in Plugins, PluginQuits(p) \/ PluginCrashes(p) PROVE BootInv'
  <2>1. boot = "up"
    BY <1>4, BeforeUp, Zenon DEF PluginQuits, PluginCrashes, Undisturbed, Idle
  <2>. QED
    BY <1>3, <1>4, <2>1, Zenon DEF PluginQuits, PluginCrashes, Actors
<1>5. ASSUME NEW a \in Stoppable, ComponentExits(a) PROVE BootInv'
  <2>1. boot = "up"
    BY <1>5, BeforeUp, Zenon DEF ComponentExits, Idle
  <2>. QED
    BY <1>3, <1>5, <2>1, Zenon DEF ComponentExits, Actors
<1>6. ASSUME NEW a \in Stoppable, DownOfComponent(a) PROVE BootInv'
  <2>1. sys' \in {sys, "stopped"} /\ UNCHANGED <<boot, inbox, nloaded, spawned, ctls, alive>>
    BY <1>6, Zenon DEF DownOfComponent, BarrierDone, finish_last
  <2>2. sys \in {"shutting_down", "stopped"}
    <3>1. awaiting[a] > 0
      BY <1>6, Zenon DEF DownOfComponent
    <3>. QED
      BY <3>1 DEF PhaseInv, Idle, TypeOK
  <2>. QED
    BY <2>1, <2>2, Zenon DEF BootInv
<1>7. CASE Main
  <2>up. boot # "up" /\ sys \in {"initializing", "ready"} /\ Idle
    <3>1. boot # "up"
      BY <1>7, Zenon DEF Main, ComponentsReady, PublishOrder, LoadPlugin, HealthCheck,
                  RegisterCluster, BootDone
    <3>. QED
      BY <3>1, BeforeUp, Zenon
  <2>1. CASE ComponentsReady
    BY <2>1, <2>up DEF ComponentsReady, BootInv
  <2>2. CASE PublishOrder \/ BootDone
    BY <2>2, <2>up, Zenon DEF PublishOrder, BootDone, BootInv
  <2>3. CASE LoadPlugin
    <3>1. /\ LoadOrder \in Seq(Plugins) /\ nloaded \in Nat /\ nloaded < Len(LoadOrder)
      BY <2>3, OrderAssumption DEF LoadPlugin, TypeOK
    <3>2. LoadOrder[nloaded + 1] \in Plugins \cap Names(LoadOrder)
      BY <3>1 DEF Names
    <3>3. /\ alive' = alive \cup {LoadOrder[nloaded + 1]}
          /\ spawned' = spawned \cup {LoadOrder[nloaded + 1]}
          /\ nloaded' = nloaded + 1 /\ UNCHANGED <<boot, inbox, sys, ctls>>
      BY <2>3, <2>up, Zenon DEF LoadPlugin, Idle
    <3>4. \A i \in 1 .. nloaded' : LoadOrder[i] \in spawned'
      BY <3>1, <3>3 DEF BootInv
    <3>5. alive' \cap Ctls \subseteq ctls'
      BY <3>2, <3>3, <1>names, Zenon DEF BootInv
    <3>. QED
      BY <3>2, <3>3, <3>4, <3>5, <2>up, Zenon DEF BootInv
  <2>4. CASE HealthCheck
    <3>1. \A i \in 1 .. Len(LoadOrder) : LoadOrder[i] \in alive
      BY <2>4, <2>up, Zenon DEF HealthCheck, BootInv
    <3>2. Names(LoadOrder) \subseteq alive
      BY <3>1, OrderAssumption DEF Names
    <3>3. /\ boot' = "ctls" /\ boot = "loading" /\ inbox' = Append(inbox, "ready_atom")
          /\ UNCHANGED <<sys, ctls, alive, spawned, nloaded>>
      BY <2>4, <2>up, <3>2, Zenon DEF HealthCheck, Idle
    <3>4. \A i \in DOMAIN inbox : inbox[i] = "ready_atom"
      BY <1>inbox, <3>3 DEF BootInv
    <3>5. /\ \A i \in DOMAIN inbox' : inbox'[i] = "ready_atom"
          /\ inbox' # << >> /\ 1 \in DOMAIN inbox'
      BY <1>inbox, <3>3, <3>4
    <3>. QED
      BY <2>up, <3>3, <3>5, Zenon DEF BootInv
  <2>5. ASSUME NEW c \in Ctls, RegisterCluster(c) PROVE BootInv'
    BY <2>5, <2>up, <1>names, Zenon DEF RegisterCluster, BootInv, Idle
  <2>. QED
    BY <1>7, <2>1, <2>2, <2>3, <2>4, <2>5, Zenon DEF Main
<1>8. CASE Signal
  <2>1. /\ boot = "up" /\ inbox' = Append(inbox, "shutdown_atom")
        /\ UNCHANGED <<boot, sys, ctls, alive, spawned, nloaded>>
    BY <1>8, Zenon DEF Signal, Undisturbed
  <2>2. /\ DOMAIN inbox' = 1 .. Len(inbox) + 1 /\ DOMAIN inbox = 1 .. Len(inbox)
        /\ \A i \in DOMAIN inbox : inbox'[i] = inbox[i]
        /\ inbox'[Len(inbox) + 1] = "shutdown_atom" /\ Len(inbox) \in Nat
    BY <1>inbox, <2>1
  <2>3. \A i, j \in DOMAIN inbox' : i < j /\ inbox'[j] = "ready_atom" => inbox'[i] = "ready_atom"
    BY <2>2 DEF BootInv
  <2>4. inbox # << >> => inbox' # << >> /\ inbox'[1] = inbox[1]
    BY <1>inbox, <2>1
  <2>5. sys \in {"shutting_down", "stopped"} =>
          \A i \in DOMAIN inbox' : inbox'[i] = "shutdown_atom"
    BY <2>2 DEF BootInv
  <2>. QED
    BY <2>1, <2>3, <2>4, <2>5, Zenon DEF BootInv
<1>9. ASSUME NEW p \in Plugins, Chain(p) \/ Work(p)
      PROVE UNCHANGED <<boot, inbox, sys, nloaded, spawned, ctls, alive>>
  BY <1>9, Zenon DEF Chain, ResolveHit, ResolveMiss, SavedState, SavedNothing, SaveFailed,
              Checkpointed, CheckpointError, plugin_saved_atom, Work
<1>10. ASSUME NEW a \in Actors, (a \in Plugins /\ DownOfPlugin(a)) \/ DownDropped(a)
       PROVE  UNCHANGED <<boot, inbox, sys, nloaded, spawned, ctls, alive>>
  BY <1>10, Zenon DEF DownOfPlugin, DownDropped
<1>11. CASE force_exit_atom
  BY <1>11, <1>0, Zenon DEF force_exit_atom
<1>12. CASE UNCHANGED vars
  BY <1>12, <1>0, Zenon DEF vars
<1>. QED
  BY <1>0, <1>1, <1>2, <1>4, <1>5, <1>6, <1>7, <1>8, <1>9, <1>10, <1>11, <1>12, Zenon
     DEF Next, Down
-----------------------------------------------------------------------------
\* A step that leaves the phase alone: before the shutdown nothing of it begins,
\* during it actors may only terminate.
LEMMA PhaseFrame ==
  ASSUME PhaseInv, UNCHANGED <<sys, remaining, exiting, awaiting>>,
         coord' = "quit" => coord = "quit",
         sys \in {"initializing", "ready"} => Idle',
         sys \in {"shutting_down", "stopped"} => alive' \subseteq alive /\ ctls' = ctls
  PROVE  PhaseInv'
  BY Zenon DEF PhaseInv

\* What finish_shutdown does to the actors that the plugins are not among.
LEMMA FinishValues ==
  ASSUME TypeOK, finish_shutdown
  PROVE  /\ exiting' = exiting \cup ctls \cup Core
         /\ \A p \in Plugins : mon'[p] = mon[p] /\ downs'[p] = downs[p]
         /\ "plugin_mgr" \in Core /\ "logging_service" \notin ctls \cup Core
<1>1. ctls \cup Core \subseteq Stoppable /\ "logging_service" \notin ctls \cup Core
  BY NamesAssumption, Zenon DEF TypeOK, Stoppable, Core
<1>2. \A p \in Plugins : p \in Actors /\ p \notin ctls \cup Core
  BY <1>1, NamesAssumption, Zenon DEF Actors
<1>3. \A p \in Plugins : mon'[p] = mon[p] /\ downs'[p] = downs[p]
  BY <1>2, Zenon DEF finish_shutdown, StopActors
<1>. QED
  BY <1>1, <1>3, Zenon DEF finish_shutdown, StopActors, Core

\* After the boot the coordinator stops every plugin that runs.
LEMMA StartsWithAll ==
  ASSUME Undisturbed, TypeOK, BootInv, boot = "up", remaining' \in get_stop_order
  PROVE  alive \cap Plugins \subseteq remaining'
<1>1. remaining' = Names(StopOrder)
  BY Zenon DEF get_stop_order
<1>. QED
  BY <1>1, Zenon DEF Undisturbed, BootInv

\* Every step keeps the phases in their order.
LEMMA PhaseNext ==
  ASSUME Undisturbed, TypeOK, TypeOK', BarrierInv, BootInv, PhaseInv, ChainInv, [Next]_vars
  PROVE  PhaseInv'
<1>. USE DEF coordVars, chainVars, actorVars, dataVars, bootVars
<1>sys. sys \in {"initializing", "ready"} \/ sys \in {"shutting_down", "stopped"}
  BY Zenon DEF TypeOK
<1>phases. /\ "resolve" \in Phases /\ "save" \in Phases /\ "checkpoint" \in Phases
           /\ "refused" \in Phases /\ "plugin_saved" \in Phases
  BY Zenon DEF Phases
<1>same. ASSUME UNCHANGED <<sys, remaining, exiting, awaiting, stopping, told, timers, coord,
                            conts, ctls>>, alive' \subseteq alive
         PROVE  PhaseInv'
  <2>1. Idle => Idle'
    BY <1>same, Zenon DEF Idle
  <2>. QED
    BY <1>same, <2>1, PhaseFrame, Zenon DEF PhaseInv
<1>1. CASE ready_atom
  <2>1. /\ inbox # << >> /\ inbox[1] = "ready_atom" /\ sys' = "ready" /\ 1 \in DOMAIN inbox
        /\ UNCHANGED <<remaining, exiting, awaiting, stopping, told, timers, coord, conts>>
    BY <1>1 DEF ready_atom, TypeOK
  <2>2. sys \in {"initializing", "ready"}
    BY <2>1, <1>sys, Zenon DEF BootInv
  <2>3. Idle /\ Idle'
    BY <2>1, <2>2, Zenon DEF PhaseInv, Idle
  <2>. QED
    BY <2>1, <2>3, Zenon DEF PhaseInv, Idle
<1>2. CASE shutdown_atom
  <2>1. /\ inbox # << >> /\ inbox[1] = "shutdown_atom" /\ 1 \in DOMAIN inbox
        /\ UNCHANGED <<stopping, ctls, coord, alive, told>>
    BY <1>2 DEF shutdown_atom, TypeOK
  <2>2. boot = "up" /\ sys # "initializing"
    BY <2>1, Zenon DEF BootInv
  <2>3. CASE ShutdownIgnored
    BY <2>1, <2>3, <1>same, Zenon DEF ShutdownIgnored
  <2>4. CASE ShutdownStart
    <3>1. Idle /\ sys' = "shutting_down"
      BY <2>4, Zenon DEF ShutdownStart, PhaseInv
    <3>2. alive \cap Plugins \subseteq remaining'
      BY <2>2, <2>4, StartsWithAll, Zenon DEF ShutdownStart
    <3>3. CASE remaining' = {} /\ finish_shutdown
      BY <2>1, <3>1, <3>2, <3>3, FinishValues, Zenon DEF PhaseInv, Idle
    <3>4. CASE remaining' # {} /\ UNCHANGED <<awaiting, mon, downs, exiting>>
      BY <2>1, <3>1, <3>2, <3>4, Zenon DEF PhaseInv, Idle
    <3>. QED
      BY <2>4, <3>3, <3>4, Zenon DEF ShutdownStart
  <2>. QED
    BY <1>2, <2>2, <2>3, <2>4, Zenon DEF shutdown_atom, ShutdownNotReady
<1>3. CASE force_exit_atom
  <2>1. timers > 0 /\ remaining = {}
    BY <1>3, Zenon DEF force_exit_atom, Undisturbed
  <2>2. sys \in {"shutting_down", "stopped"}
    BY <2>1, <1>sys DEF PhaseInv, Idle
  <2>3. UNCHANGED <<sys, remaining, ctls, coord, alive>>
    BY <1>3, Zenon DEF force_exit_atom
  <2>4. CASE UNCHANGED <<awaiting, mon, downs, exiting>>
    BY <2>2, <2>3, <2>4, PhaseFrame, Zenon
  <2>5. CASE sys # "stopped" /\ finish_shutdown
    BY <2>1, <2>2, <2>3, <2>5, FinishValues, Zenon DEF PhaseInv
  <2>. QED
    BY <1>3, <2>4, <2>5, Zenon DEF force_exit_atom
<1>4. ASSUME NEW p \in Plugins, Chain(p) PROVE PhaseInv'
  <2>1. sys \in {"shutting_down", "stopped"}
    <3>1. \E k \in Phases : conts[k][p] > 0
      BY <1>4, <1>phases, Zenon DEF Chain, ResolveHit, ResolveMiss, SavedState, SavedNothing, SaveFailed,
                  Checkpointed, CheckpointError, plugin_saved_atom
    <3>. QED
      BY <3>1, <1>sys DEF PhaseInv, Idle
  <2>2. CASE plugin_saved_atom(p)
    <3>1. /\ conts["plugin_saved"][p] > 0 /\ remaining' = remaining \ {p}
          /\ UNCHANGED <<sys, ctls, coord, alive>>
      BY <2>2, Zenon DEF plugin_saved_atom
    <3>2. p \in remaining \ alive
      BY <3>1, Zenon DEF ChainInv
    <3>3. sys = "shutting_down" /\ exiting = {}
      BY <3>2, Zenon DEF PhaseInv
    <3>4. CASE remaining' = {} /\ finish_shutdown
      BY <3>1, <3>2, <3>3, <3>4, FinishValues, Zenon DEF PhaseInv
    <3>5. CASE remaining' # {} /\ UNCHANGED <<awaiting, mon, downs, exiting>>
      BY <3>1, <3>2, <3>3, <3>5, Zenon DEF PhaseInv
    <3>. QED
      BY <2>2, <3>4, <3>5, Zenon DEF plugin_saved_atom
  <2>3. CASE ~plugin_saved_atom(p)
    <3>1. UNCHANGED <<sys, remaining, exiting, awaiting, ctls, alive>> /\ coord' \in {coord, "died"}
      BY <1>4, <2>3, Zenon DEF Chain, ResolveHit, ResolveMiss, SavedState, SavedNothing, SaveFailed,
                        Checkpointed, CheckpointError
    <3>. QED
      BY <2>1, <3>1, PhaseFrame, Zenon
  <2>. QED
    BY <2>2, <2>3, Zenon
<1>5. ASSUME NEW a \in Plugins, DownOfPlugin(a) PROVE PhaseInv'
  <2>1. /\ stopping = a /\ UNCHANGED <<sys, remaining, exiting, awaiting, ctls, alive, coord>>
    BY <1>5, Zenon DEF DownOfPlugin
  <2>2. sys \in {"shutting_down", "stopped"}
    BY <2>1, <1>sys, NamesAssumption, Zenon DEF PhaseInv, Idle
  <2>. QED
    BY <2>1, <2>2, PhaseFrame, Zenon
<1>6. ASSUME NEW a \in Actors, DownDropped(a) PROVE PhaseInv'
  BY <1>6, <1>same, Zenon DEF DownDropped
<1>7. ASSUME NEW a \in Stoppable, DownOfComponent(a) PROVE PhaseInv'
  <2>. DEFINE aw == [awaiting EXCEPT ![a] = @ - 1]
              dn == [downs EXCEPT ![a] = @ - 1]
  <2>1. awaiting[a] > 0 /\ downs[a] > 0 /\ UNCHANGED <<remaining, ctls, alive>>
    BY <1>7, Zenon DEF DownOfComponent
  <2>2. exiting # {} /\ awaiting[a] \in Nat
    BY <2>1, SMTT(30) DEF PhaseInv, TypeOK
  <2>3. sys \in {"shutting_down", "stopped"} /\ remaining = {}
    BY <2>2, <1>sys, Zenon DEF PhaseInv, Idle
  <2>4. CASE (\A b \in Stoppable : aw[b] = 0) /\ sys # "stopped" /\ finish_last(aw, dn)
    <3>1. sys' = "stopped" /\ exiting' = exiting \cup {"logging_service"} /\ coord' = coord
      BY <2>4, Zenon DEF finish_last, StopActors
    <3>2. ASSUME NEW b \in alive \cap Stoppable, b # "logging_service" PROVE FALSE
      <4>1. b \in exiting
        BY <2>3, <3>2, Zenon DEF PhaseInv, BootInv, Stoppable
      <4>2. mon[b] > 0 /\ awaiting[b] >= mon[b] + downs[b]
        BY <4>1, <3>2, Zenon DEF BarrierInv
      <4>3. mon[b] \in Nat /\ downs[b] \in Nat /\ awaiting[b] \in Nat
        BY <3>2, Zenon DEF TypeOK, Actors
      <4>4. aw[b] = IF b = a THEN awaiting[b] - 1 ELSE awaiting[b]
        BY <3>2, Zenon DEF TypeOK
      <4>. QED
        BY <2>1, <2>4, <3>2, <4>2, <4>3, <4>4
    <3>. QED
      BY <2>1, <2>3, <3>1, <3>2, Zenon DEF PhaseInv
  <2>5. CASE sys = "stopped" /\ coord' = "quit" /\ UNCHANGED <<sys, exiting>>
    BY <2>1, <2>2, <2>3, <2>5, Zenon DEF PhaseInv
  <2>6. CASE UNCHANGED <<sys, coord, exiting>>
    BY <2>1, <2>2, <2>3, <2>6, Zenon DEF PhaseInv
  <2>. QED
    BY <1>7, <2>4, <2>5, <2>6, Zenon DEF DownOfComponent, BarrierDone
<1>8. ASSUME NEW a \in Actors, Terminate(a) PROVE PhaseInv'
  BY <1>8, <1>same, Zenon DEF Terminate
<1>9. ASSUME NEW p \in Plugins, PluginQuits(p) \/ PluginCrashes(p) PROVE PhaseInv'
  BY <1>8, <1>9, Zenon DEF PluginQuits, PluginCrashes, Actors
<1>10. ASSUME NEW a \in Stoppable, ComponentExits(a) PROVE PhaseInv'
  BY <1>8, <1>10, Zenon DEF ComponentExits, Actors
<1>11. CASE Main
  <2>1. boot # "up"
    BY <1>11, Zenon DEF Main, ComponentsReady, PublishOrder, LoadPlugin, HealthCheck,
                 RegisterCluster, BootDone
  <2>2. sys \in {"initializing", "ready"} /\ Idle
    BY <2>1, BeforeUp, Zenon
  <2>3. UNCHANGED <<sys, remaining, exiting, awaiting, stopping, told, timers, coord, conts>>
    BY <1>11, Zenon DEF Main, ComponentsReady, PublishOrder, LoadPlugin, HealthCheck,
                 RegisterCluster, BootDone
  <2>. QED
    BY <2>2, <2>3, PhaseFrame, Zenon DEF Idle
<1>12. CASE Signal \/ UNCHANGED vars \/ \E p \in Plugins : Work(p)
  BY <1>12, <1>same, Zenon DEF Signal, Work, vars
<1>. QED
  BY <1>1, <1>2, <1>3, <1>4, <1>5, <1>6, <1>7, <1>9, <1>10, <1>11, <1>12, Zenon DEF Next, Down
===========================================================================
