------------------------ MODULE ShutdownOrderProofs ------------------------
(***************************************************************************)
(* Theorems about an undisturbed shutdown: the phases follow their order,  *)
(* nothing is left running and nothing is left unsaved.  They rest on the  *)
(* boot, phase and barrier lemmas of GracefulShutdownProofs.               *)
(***************************************************************************)
EXTENDS GracefulShutdownProofs

\* A step outside the chain of plugins: actors may only terminate, and what the
\* coordinator holds on the plugins does not change.
LEMMA ChainFrame ==
  ASSUME ChainInv, UNCHANGED <<conts, stopping, remaining, told>>,
         alive' \cap Plugins \subseteq alive,
         \A p \in Plugins : mon'[p] = mon[p] /\ downs'[p] = downs[p]
  PROVE  ChainInv'
  BY DEF ChainInv, OneChain

\* While no plugin is being stopped none is monitored.
LEMMA ChainQuiet ==
  ASSUME TypeOK, ChainInv, stopping = NoPlugin
  PROVE  \A p \in Plugins : mon[p] = 0 /\ downs[p] = 0
<1>. SUFFICES ASSUME NEW p \in Plugins PROVE mon[p] = 0 /\ downs[p] = 0
  BY Zenon
<1>1. mon[p] \in Nat /\ downs[p] \in Nat /\ p # NoPlugin
  BY NamesAssumption, Zenon DEF TypeOK, Actors
<1>2. mon[p] + downs[p] = 0
  BY <1>1, Zenon DEF ChainInv
<1>. QED
  BY <1>1, <1>2

\* The continuation that drives the chain is the only one.
LEMMA OneToken ==
  ASSUME TypeOK, ChainInv, NEW k \in {"resolve", "plugin_saved"}, NEW p \in Plugins,
         conts[k][p] > 0
  PROVE  /\ stopping = NoPlugin /\ p \in remaining /\ conts[k][p] = 1
         /\ \A l \in {"resolve", "plugin_saved"}, q \in Plugins :
              l # k \/ q # p => conts[l][q] = 0
<1>1. \A l \in {"resolve", "plugin_saved"}, q \in Plugins : conts[l][q] \in Nat
  BY Zenon DEF TypeOK, Phases
<1>2. OneChain
  BY Zenon DEF ChainInv
<1>3. \A l \in {"resolve", "plugin_saved"}, q \in Plugins : conts[l][q] > 0 => k = l /\ p = q
  BY <1>2, Zenon DEF OneChain
<1>4. stopping = NoPlugin /\ conts[k][p] = 1
  BY <1>2, Zenon DEF OneChain
<1>5. p \in remaining
  BY Zenon DEF ChainInv
<1>. QED
  BY <1>1, <1>3, <1>4, <1>5

\* Before the shutdown the chain is empty, whatever the boot starts.
LEMMA ChainIdle ==
  ASSUME Idle, TypeOK, ChainInv, \A p \in Plugins : mon'[p] = mon[p] /\ downs'[p] = downs[p],
         UNCHANGED <<conts, stopping, remaining, told>>
  PROVE  ChainInv'
<1>1. "plugin_saved" \in Phases /\ "resolve" \in Phases
  BY Zenon DEF Phases
<1>2. \A p \in Plugins : mon[p] = 0 /\ downs[p] = 0
  BY ChainQuiet, Zenon DEF Idle
<1>. QED
  BY <1>1, <1>2 DEF ChainInv, OneChain, Idle

\* The chain is started with one plugin, of which nothing is known yet.
LEMMA ChainStarts ==
  ASSUME TypeOK, ChainInv, Idle, NEW p \in Plugins, remaining' \subseteq Plugins, p \in remaining',
         conts' = stop_next(conts, p), UNCHANGED <<mon, downs, stopping, told>>
  PROVE  ChainInv'
<1>1. conts' = Post(conts, "resolve", p)
  BY Zenon DEF Idle, stop_next
<1>2. \A k \in Phases, q \in Plugins : conts[k][q] = 0
  BY Zenon DEF Idle
<1>3. /\ "resolve" \in Phases /\ "save" \in Phases /\ "checkpoint" \in Phases
      /\ "refused" \in Phases /\ "plugin_saved" \in Phases
  BY Zenon DEF Phases
<1>4. \A k \in Phases, q \in Plugins :
        conts'[k][q] = IF k = "resolve" /\ q = p THEN 1 ELSE 0
  BY <1>1, <1>2, <1>3, ContValues, SMTT(30) DEF TypeOK
<1>5. OneChain'
  BY <1>3, <1>4 DEF OneChain, Idle
<1>6. \A q \in Plugins : mon[q] = 0 /\ downs[q] = 0
  BY ChainQuiet, Zenon DEF Idle
<1>. QED
  BY <1>3, <1>4, <1>5, <1>6, NamesAssumption DEF ChainInv, Idle

\* resolve_plugin answered: its continuation turns into the wait for the plugin.
LEMMA ChainHit ==
  ASSUME TypeOK, TypeOK', ChainInv, NEW p \in Plugins, ResolveHit(p)
  PROVE  ChainInv'
<1>. USE DEF coordVars, chainVars, actorVars, dataVars, bootVars
<1>1. /\ "resolve" \in Phases /\ "save" \in Phases /\ "checkpoint" \in Phases
      /\ "refused" \in Phases /\ "plugin_saved" \in Phases
  BY Zenon DEF Phases
<1>2. /\ conts["resolve"][p] > 0 /\ conts' = Post(Take(conts, "resolve", p), "save", p)
      /\ stopping' = p /\ UNCHANGED <<remaining, alive, told>>
  BY Zenon DEF ResolveHit
<1>3. /\ stopping = NoPlugin /\ p \in remaining /\ conts["resolve"][p] = 1
      /\ \A q \in Plugins : conts["plugin_saved"][q] = 0
      /\ \A q \in Plugins : q # p => conts["resolve"][q] = 0
  BY <1>2, OneToken, Zenon
<1>4. \A k \in Phases, q \in Plugins :
        conts'[k][q] = IF q = p /\ k = "resolve" THEN conts[k][q] - 1
                       ELSE IF q = p /\ k = "save" THEN conts[k][q] + 1 ELSE conts[k][q]
  <2>. DEFINE t == Take(conts, "resolve", p)
  <2>1. conts \in [Phases -> [Plugins -> Nat]]
    BY Zenon DEF TypeOK
  <2>2. t \in [Phases -> [Plugins -> Nat]]
    BY <2>1, <1>1, <1>2, ContTypes, Zenon
  <2>3. \A k \in Phases, q \in Plugins :
          t[k][q] = IF k = "resolve" /\ q = p THEN conts[k][q] - 1 ELSE conts[k][q]
    BY <2>1, <1>1, ContValues
  <2>. HIDE DEF t
  <2>4. \A k \in Phases, q \in Plugins :
          Post(t, "save", p)[k][q] = IF k = "save" /\ q = p THEN t[k][q] + 1 ELSE t[k][q]
    BY <2>2, <1>1, ContValues
  <2>5. conts' = Post(t, "save", p)
    BY <1>2, Zenon DEF t
  <2>. QED
    BY <2>3, <2>4, <2>5
<1>5. OneChain'
  BY <1>1, <1>3, <1>4 DEF OneChain
<1>6. p \in Actors /\ mon \in [Actors -> Nat] /\ downs \in [Actors -> Nat] /\ p # NoPlugin
  BY NamesAssumption, Zenon DEF TypeOK, Actors
<1>7. mon[p] = 0 /\ downs[p] = 0
  BY <1>3, <1>6 DEF ChainInv
<1>8. /\ mon'[p] = IF p \in alive THEN 1 ELSE 0
      /\ downs'[p] = IF p \in alive THEN 0 ELSE 1
      /\ \A q \in Plugins : q # p => mon'[q] = mon[q] /\ downs'[q] = downs[q]
  BY <1>6, <1>7 DEF ResolveHit, Subscribe, Actors
<1>9. \A q \in Plugins : mon'[q] + downs'[q] = IF stopping' = q THEN 1 ELSE 0
  BY <1>2, <1>3, <1>8, NamesAssumption DEF ChainInv
<1>10. \A q \in Plugins : downs'[q] > 0 => q \notin alive'
  BY <1>2, <1>8 DEF ChainInv
<1>11. \A q \in remaining' :
         stopping' # q /\ conts'["plugin_saved"][q] = 0 =>
           conts'["save"][q] = 0 /\ conts'["checkpoint"][q] = 0 /\ q \notin told'
  <2>1. remaining \subseteq Plugins
    BY Zenon DEF TypeOK
  <2>. QED
    BY <2>1, <1>1, <1>2, <1>3, <1>4, NamesAssumption DEF ChainInv
<1>12. /\ \A q \in Plugins : conts'["resolve"][q] > 0 => q \in remaining'
       /\ \A q \in Plugins : conts'["plugin_saved"][q] > 0 => q \in remaining' \ alive'
       /\ \A q \in Plugins : conts'["refused"][q] = 0
  BY <1>1, <1>2, <1>3, <1>4 DEF ChainInv
<1>. QED
  BY <1>2, <1>3, <1>5, <1>9, <1>10, <1>11, <1>12, Zenon DEF ChainInv

\* No actor was found: the plugin does not run, and counts as stopped.
LEMMA ChainMiss ==
  ASSUME Undisturbed, TypeOK, TypeOK', ChainInv, NEW p \in Plugins, ResolveMiss(p)
  PROVE  ChainInv'
<1>. USE DEF coordVars, chainVars, actorVars, dataVars, bootVars
<1>1. /\ "resolve" \in Phases /\ "save" \in Phases /\ "checkpoint" \in Phases
      /\ "refused" \in Phases /\ "plugin_saved" \in Phases
  BY Zenon DEF Phases
<1>2. /\ conts["resolve"][p] > 0 /\ conts' = Post(Take(conts, "resolve", p), "plugin_saved", p)
      /\ p \notin alive /\ UNCHANGED <<remaining, alive, told, stopping, mon, downs>>
  BY Zenon DEF ResolveMiss, Undisturbed
<1>3. /\ stopping = NoPlugin /\ p \in remaining /\ conts["resolve"][p] = 1
      /\ \A q \in Plugins : conts["plugin_saved"][q] = 0
      /\ \A q \in Plugins : q # p => conts["resolve"][q] = 0
  BY <1>2, OneToken, Zenon
<1>4. \A k \in Phases, q \in Plugins :
        conts'[k][q] = IF q = p /\ k = "resolve" THEN conts[k][q] - 1
                       ELSE IF q = p /\ k = "plugin_saved" THEN conts[k][q] + 1 ELSE conts[k][q]
  <2>. DEFINE t == Take(conts, "resolve", p)
  <2>1. conts \in [Phases -> [Plugins -> Nat]]
    BY Zenon DEF TypeOK
  <2>2. t \in [Phases -> [Plugins -> Nat]]
    BY <2>1, <1>1, <1>2, ContTypes, Zenon
  <2>3. \A k \in Phases, q \in Plugins :
          t[k][q] = IF k = "resolve" /\ q = p THEN conts[k][q] - 1 ELSE conts[k][q]
    BY <2>1, <1>1, ContValues
  <2>. HIDE DEF t
  <2>4. \A k \in Phases, q \in Plugins :
          Post(t, "plugin_saved", p)[k][q] = IF k = "plugin_saved" /\ q = p THEN t[k][q] + 1 ELSE t[k][q]
    BY <2>2, <1>1, ContValues
  <2>5. conts' = Post(t, "plugin_saved", p)
    BY <1>2, Zenon DEF t
  <2>. QED
    BY <2>3, <2>4, <2>5
<1>5. OneChain'
  BY <1>1, <1>2, <1>3, <1>4, SMTT(30) DEF OneChain
<1>11. \A q \in remaining' :
         stopping' # q /\ conts'["plugin_saved"][q] = 0 =>
           conts'["save"][q] = 0 /\ conts'["checkpoint"][q] = 0 /\ q \notin told'
  <2>1. remaining \subseteq Plugins
    BY Zenon DEF TypeOK
  <2>. QED
    BY <2>1, <1>1, <1>2, <1>3, <1>4, NamesAssumption DEF ChainInv
<1>12. /\ \A q \in Plugins : conts'["resolve"][q] > 0 => q \in remaining'
       /\ \A q \in Plugins : conts'["plugin_saved"][q] > 0 => q \in remaining' \ alive'
       /\ \A q \in Plugins : conts'["refused"][q] = 0
  BY <1>1, <1>2, <1>3, <1>4 DEF ChainInv
<1>. QED
  BY <1>2, <1>5, <1>11, <1>12, Zenon DEF ChainInv

\* The answer of save_state or of the checkpoint manager, late ones included:
\* the plugin is the one being stopped, or has terminated.
LEMMA ChainSave ==
  ASSUME TypeOK, TypeOK', PhaseInv, ChainInv, NEW p \in Plugins,
         SavedState(p) \/ SavedNothing(p) \/ SaveFailed(p) \/ Checkpointed(p) \/ CheckpointError(p)
  PROVE  ChainInv'
<1>. USE DEF coordVars, chainVars, actorVars, dataVars, bootVars
<1>1. /\ "resolve" \in Phases /\ "save" \in Phases /\ "checkpoint" \in Phases
      /\ "refused" \in Phases /\ "plugin_saved" \in Phases
  BY Zenon DEF Phases
<1>2. conts \in [Phases -> [Plugins -> Nat]] /\ remaining \subseteq Plugins
  BY Zenon DEF TypeOK
<1>3. /\ UNCHANGED <<remaining, alive, stopping, mon, downs>> /\ told' \in {told, told \cup {p}}
      /\ conts["save"][p] > 0 \/ conts["checkpoint"][p] > 0
  BY <1>2, SMTT(30) DEF SavedState, SavedNothing, SaveFailed, Checkpointed, CheckpointError, ChainInv
<1>4. p \in remaining => stopping = p \/ conts["plugin_saved"][p] > 0
  BY <1>1, <1>2, <1>3 DEF ChainInv
<1>5. /\ \A k \in {"resolve", "plugin_saved", "refused"}, q \in Plugins : conts'[k][q] = conts[k][q]
      /\ \A k \in Phases, q \in Plugins : q # p => conts'[k][q] = conts[k][q]
  <2>1. CASE SavedState(p)
    <3>1. "checkpoint_mgr" \notin exiting
      <4>1. p \in alive /\ sys \in {"shutting_down", "stopped"}
        BY <1>1, <2>1 DEF SavedState, PhaseInv, TypeOK, Idle
      <4>2. p \in remaining
        BY <4>1, Zenon DEF PhaseInv
      <4>. QED
        BY <4>2, Zenon DEF PhaseInv
    <3>2. conts["save"][p] > 0 /\ conts' = Post(Take(conts, "save", p), "checkpoint", p)
      BY <2>1, <3>1, Zenon DEF SavedState
    <3>. DEFINE t == Take(conts, "save", p)
    <3>3. t \in [Phases -> [Plugins -> Nat]]
      BY <1>1, <1>2, <3>2, ContTypes, Zenon
    <3>4. \A k \in Phases, q \in Plugins :
            t[k][q] = IF k = "save" /\ q = p THEN conts[k][q] - 1 ELSE conts[k][q]
      BY <1>1, <1>2, ContValues
    <3>5. conts' = Post(t, "checkpoint", p)
      BY <3>2, ZenonT(30)
    <3>. HIDE DEF t
    <3>6. \A k \in Phases, q \in Plugins :
            conts'[k][q] = IF k = "checkpoint" /\ q = p THEN t[k][q] + 1 ELSE t[k][q]
      BY <1>1, <3>3, <3>5, ContValues
    <3>7. \A k \in {"resolve", "plugin_saved", "refused"} :
            k \in Phases /\ k # "save" /\ k # "checkpoint"
      BY <1>1, Zenon
    <3>8. ASSUME NEW k \in Phases, NEW q \in Plugins, q # p \/ (k # "save" /\ k # "checkpoint")
          PROVE  conts'[k][q] = conts[k][q]
      <4>1. conts'[k][q] = t[k][q]
        BY <3>6, <3>8, Zenon
      <4>2. t[k][q] = conts[k][q]
        BY <3>4, <3>8, Zenon
      <4>. QED
        BY <4>1, <4>2, Zenon
    <3>. QED
      BY <3>7, <3>8, Zenon
  <2>2. ASSUME NEW k \in {"save", "checkpoint"}, conts' = Take(conts, k, p)
        PROVE  /\ \A l \in {"resolve", "plugin_saved", "refused"}, q \in Plugins :
                     conts'[l][q] = conts[l][q]
               /\ \A l \in Phases, q \in Plugins : q # p => conts'[l][q] = conts[l][q]
    <3>1. k \in Phases
      BY <1>1, Zenon
    <3>2. \A l \in Phases, q \in Plugins :
            conts'[l][q] = IF l = k /\ q = p THEN conts[l][q] - 1 ELSE conts[l][q]
      BY <1>2, <2>2, <3>1, ContValues
    <3>. QED
      BY <1>1, <3>2, Zenon
  <2>3. CASE SavedNothing(p) \/ SaveFailed(p) \/ Checkpointed(p)
    BY <2>2, <2>3, Zenon DEF SavedNothing, SaveFailed, Checkpointed
  <2>4. CASE CheckpointError(p)
    <3>1. conts' = Take(conts, "checkpoint", p)
      BY <2>4, SMTT(30) DEF CheckpointError, ChainInv
    <3>. QED
      BY <2>2, <3>1, Zenon
  <2>. QED
    BY <2>1, <2>3, <2>4, ZenonT(30)
<1>6. OneChain'
  BY <1>3, <1>5, SMTT(30) DEF OneChain, ChainInv
<1>7. \A q \in remaining' :
         stopping' # q /\ conts'["plugin_saved"][q] = 0 =>
           conts'["save"][q] = 0 /\ conts'["checkpoint"][q] = 0 /\ q \notin told'
  BY <1>1, <1>2, <1>3, <1>4, <1>5 DEF ChainInv
<1>. QED
  BY <1>3, <1>5, <1>6, <1>7, Zenon DEF ChainInv

\* plugin_saved: the chain goes on with the next plugin, or ends.
LEMMA ChainAdvances ==
  ASSUME TypeOK, TypeOK', PhaseInv, ChainInv, NEW p \in Plugins, plugin_saved_atom(p)
  PROVE  ChainInv'
<1>. USE DEF coordVars, chainVars, actorVars, dataVars, bootVars
<1>1. /\ "resolve" \in Phases /\ "save" \in Phases /\ "checkpoint" \in Phases
      /\ "refused" \in Phases /\ "plugin_saved" \in Phases
  BY Zenon DEF Phases
<1>2. conts \in [Phases -> [Plugins -> Nat]] /\ remaining \subseteq Plugins
  BY Zenon DEF TypeOK
<1>3. /\ conts["plugin_saved"][p] > 0 /\ remaining' = remaining \ {p}
      /\ UNCHANGED <<stopping, alive, told>>
  BY Zenon DEF plugin_saved_atom
<1>4. /\ stopping = NoPlugin /\ p \in remaining /\ conts["plugin_saved"][p] = 1
      /\ \A q \in Plugins : conts["resolve"][q] = 0
      /\ \A q \in Plugins : q # p => conts["plugin_saved"][q] = 0
  BY <1>3, OneToken, Zenon
<1>. DEFINE t == Take(conts, "plugin_saved", p)
<1>5. t \in [Phases -> [Plugins -> Nat]]
  BY <1>1, <1>2, <1>3, ContTypes, Zenon
<1>6. \A k \in Phases, q \in Plugins :
        t[k][q] = IF k = "plugin_saved" /\ q = p THEN conts[k][q] - 1 ELSE conts[k][q]
  BY <1>1, <1>2, ContValues, SMTT(30)
<1>. HIDE DEF t
<1>7. CASE conts' = t /\ finish_shutdown
  <2>1. \A q \in Plugins : mon'[q] = mon[q] /\ downs'[q] = downs[q]
    BY <1>7, FinishValues, Zenon
  <2>2. OneChain'
    BY <1>1, <1>3, <1>4, <1>6, <1>7, SMTT(30) DEF OneChain
  <2>3. \A q \in remaining' : conts'["save"][q] = 0 /\ conts'["checkpoint"][q] = 0 /\ q \notin told'
    BY <1>1, <1>2, <1>3, <1>4, <1>6, <1>7, NamesAssumption, SMTT(30) DEF ChainInv
  <2>. QED
    BY <1>1, <1>3, <1>4, <1>6, <1>7, <2>1, <2>2, <2>3 DEF ChainInv
<1>8. ASSUME NEW q \in remaining', conts' = stop_next(t, q), UNCHANGED <<mon, downs>>
      PROVE  ChainInv'
  <2>1. exiting = {} /\ q \in Plugins /\ q # p /\ q \in remaining
    BY <1>2, <1>3, <1>4, <1>8, Zenon DEF PhaseInv
  <2>2. conts' = Post(t, "resolve", q)
    BY <1>8, <2>1, Zenon DEF stop_next
  <2>3. \A k \in Phases, r \in Plugins :
          conts'[k][r] = IF k = "plugin_saved" /\ r = p THEN conts[k][r] - 1
                         ELSE IF k = "resolve" /\ r = q THEN conts[k][r] + 1 ELSE conts[k][r]
    <3>1. \A k \in Phases, r \in Plugins :
            conts'[k][r] = IF k = "resolve" /\ r = q THEN t[k][r] + 1 ELSE t[k][r]
      BY <1>1, <1>5, <2>1, <2>2, ContValues
    <3>. QED
      BY <1>6, <3>1, <2>1
  <2>4. OneChain'
    BY <1>1, <1>3, <1>4, <2>1, <2>3 DEF OneChain
  <2>5. ASSUME NEW r \in remaining'
        PROVE  conts'["save"][r] = 0 /\ conts'["checkpoint"][r] = 0 /\ r \notin told'
    <3>1. r \in remaining /\ r \in Plugins /\ r # p /\ r # NoPlugin
      BY <1>2, <1>3, <2>5, NamesAssumption, Zenon
    <3>2. conts["save"][r] = 0 /\ conts["checkpoint"][r] = 0 /\ r \notin told
      BY <1>4, <3>1, Zenon DEF ChainInv
    <3>. QED
      BY <1>1, <1>3, <2>3, <3>1, <3>2, Zenon
  <2>. QED
    BY <1>1, <1>3, <1>4, <1>8, <2>1, <2>3, <2>4, <2>5 DEF ChainInv
<1>. QED
  BY <1>7, <1>8, Zenon DEF plugin_saved_atom, t

\* The down_msg of the plugin being stopped: the chain may go on.
LEMMA ChainDown ==
  ASSUME TypeOK, TypeOK', ChainInv, NEW p \in Plugins, DownOfPlugin(p)
  PROVE  ChainInv'
<1>. USE DEF coordVars, chainVars, actorVars, dataVars, bootVars
<1>1. /\ "resolve" \in Phases /\ "save" \in Phases /\ "checkpoint" \in Phases
      /\ "refused" \in Phases /\ "plugin_saved" \in Phases
  BY DEF Phases
<1>2. /\ conts \in [Phases -> [Plugins -> Nat]] /\ remaining \subseteq Plugins
      /\ mon \in [Actors -> Nat] /\ downs \in [Actors -> Nat] /\ Plugins \subseteq Actors
      /\ p # NoPlugin
  BY NamesAssumption, Zenon DEF TypeOK, Actors
<1>3. /\ downs[p] > 0 /\ stopping = p /\ stopping' = NoPlugin
      /\ downs' = [downs EXCEPT ![p] = @ - 1] /\ conts' = Post(conts, "plugin_saved", p)
      /\ UNCHANGED <<remaining, alive, told, mon>>
  BY Zenon DEF DownOfPlugin
<1>4. /\ p \in remaining \ alive
      /\ \A q \in Plugins : conts["resolve"][q] = 0 /\ conts["plugin_saved"][q] = 0
  BY <1>2, <1>3, SMTT(30) DEF ChainInv, OneChain, Phases
<1>5. \A k \in Phases, q \in Plugins :
        conts'[k][q] = IF k = "plugin_saved" /\ q = p THEN conts[k][q] + 1 ELSE conts[k][q]
  BY <1>1, <1>2, <1>3, ContValues
<1>6. OneChain'
  BY <1>1, <1>3, <1>4, <1>5 DEF OneChain
<1>7. /\ downs'[p] = downs[p] - 1
      /\ \A q \in Plugins : q # p => downs'[q] = downs[q]
  BY <1>2, <1>3, Zenon
<1>8. \A q \in Plugins : mon[q] \in Nat /\ downs[q] \in Nat
  BY <1>2, Zenon
<1>9. \A q \in Plugins : mon'[q] + downs'[q] = IF stopping' = q THEN 1 ELSE 0
  BY <1>2, <1>3, <1>7, <1>8, NamesAssumption DEF ChainInv
<1>10. \A q \in Plugins : downs'[q] > 0 => q \notin alive'
  BY <1>2, <1>3, <1>7, <1>8, Zenon DEF ChainInv
<1>11. \A q \in remaining' :
         stopping' # q /\ conts'["plugin_saved"][q] = 0 =>
           conts'["save"][q] = 0 /\ conts'["checkpoint"][q] = 0 /\ q \notin told'
  BY <1>1, <1>2, <1>3, <1>4, <1>5 DEF ChainInv
<1>. QED
  BY <1>1, <1>3, <1>4, <1>5, <1>6, <1>9, <1>10, <1>11 DEF ChainInv

\* A terminating actor turns its monitors into down_msgs.
LEMMA ChainTerminates ==
  ASSUME TypeOK, ChainInv, NEW a \in Actors, Terminate(a)
  PROVE  ChainInv'
<1>. USE DEF coordVars, chainVars, actorVars, dataVars, bootVars
<1>1. /\ mon \in [Actors -> Nat] /\ downs \in [Actors -> Nat] /\ Plugins \subseteq Actors
  BY Zenon DEF TypeOK, Actors
<1>2. /\ alive' = alive \ {a} /\ downs' = [downs EXCEPT ![a] = @ + mon[a]]
      /\ mon' = [mon EXCEPT ![a] = 0] /\ UNCHANGED <<conts, stopping, remaining, told>>
  BY Zenon DEF Terminate
<1>3. \A q \in Plugins : mon[q] \in Nat /\ downs[q] \in Nat
  BY <1>1, Zenon
<1>4. \A q \in Plugins : /\ mon'[q] = IF q = a THEN 0 ELSE mon[q]
                         /\ downs'[q] = IF q = a THEN downs[q] + mon[q] ELSE downs[q]
  BY <1>1, <1>2, Zenon
<1>5. \A q \in Plugins : mon'[q] + downs'[q] = mon[q] + downs[q]
  BY <1>3, <1>4
<1>6. \A q \in Plugins : downs'[q] > 0 => q \notin alive'
  BY <1>2, <1>4, Zenon DEF ChainInv
<1>7. OneChain'
  BY <1>2 DEF OneChain, ChainInv
<1>. QED
  BY <1>2, <1>5, <1>6, <1>7, Zenon DEF ChainInv

\* Every step keeps the chain.
LEMMA ChainNext ==
  ASSUME Undisturbed, TypeOK, TypeOK', BootInv, PhaseInv, ChainInv, [Next]_vars
  PROVE  ChainInv'
<1>. USE DEF coordVars, chainVars, actorVars, dataVars, bootVars
<1>same. ASSUME UNCHANGED <<conts, stopping, remaining, told, alive, mon, downs>>
         PROVE  ChainInv'
  BY <1>same, ChainFrame, Zenon
<1>1. CASE ready_atom
  BY <1>1, <1>same, Zenon DEF ready_atom
<1>2. CASE shutdown_atom
  <2>1. /\ inbox # << >> /\ inbox[1] = "shutdown_atom" /\ 1 \in DOMAIN inbox
        /\ UNCHANGED <<stopping, alive, told>>
    BY <1>2 DEF shutdown_atom, TypeOK
  <2>2. sys # "initializing"
    BY <2>1, Zenon DEF BootInv
  <2>3. CASE ShutdownIgnored
    BY <2>1, <2>3, <1>same, Zenon DEF ShutdownIgnored
  <2>4. CASE ShutdownStart
    <3>1. Idle /\ remaining' \subseteq Plugins
      BY <2>4, TypeOK', Zenon DEF ShutdownStart, PhaseInv, TypeOK
    <3>2. CASE remaining' = {} /\ finish_shutdown /\ UNCHANGED chainVars
      BY <2>1, <3>1, <3>2, FinishValues, ChainFrame, Zenon DEF Idle
    <3>3. ASSUME NEW p \in remaining', conts' = stop_next(conts, p), UNCHANGED <<mon, downs>>
          PROVE  ChainInv'
      BY <2>1, <3>1, <3>3, ChainStarts, Zenon
    <3>. QED
      BY <2>4, <3>2, <3>3, Zenon DEF ShutdownStart
  <2>. QED
    BY <1>2, <2>2, <2>3, <2>4, Zenon DEF shutdown_atom, ShutdownNotReady
<1>3. CASE force_exit_atom
  <2>1. UNCHANGED <<conts, stopping, remaining, told, alive>>
    BY <1>3, Zenon DEF force_exit_atom
  <2>2. \A p \in Plugins : mon'[p] = mon[p] /\ downs'[p] = downs[p]
    BY <1>3, FinishValues, Zenon DEF force_exit_atom
  <2>. QED
    BY <2>1, <2>2, ChainFrame, Zenon
<1>4. ASSUME NEW p \in Plugins, Chain(p) PROVE ChainInv'
  BY <1>4, ChainHit, ChainMiss, ChainSave, ChainAdvances, Zenon DEF Chain
<1>5. ASSUME NEW a \in Actors, DownDropped(a) PROVE ChainInv'
  <2>1. /\ downs[a] > 0 /\ stopping # a /\ downs' = [downs EXCEPT ![a] = @ - 1]
        /\ UNCHANGED <<conts, stopping, remaining, told, alive, mon>>
    BY <1>5, Zenon DEF DownDropped
  <2>2. a \notin Plugins
    <3>1. a \in Plugins => downs[a] \in Nat /\ mon[a] \in Nat
      BY Zenon DEF TypeOK, Actors
    <3>. QED
      BY <2>1, <3>1 DEF ChainInv
  <2>3. \A p \in Plugins : downs'[p] = downs[p]
    BY <2>1, <2>2, Zenon DEF TypeOK, Actors
  <2>. QED
    BY <2>1, <2>3, ChainFrame, Zenon
<1>6. ASSUME NEW a \in Stoppable, DownOfComponent(a) PROVE ChainInv'
  <2>1. UNCHANGED <<conts, stopping, remaining, told, alive>>
    BY <1>6, Zenon DEF DownOfComponent
  <2>2. \A p \in Plugins : p # a /\ p \notin {"logging_service"} /\ p \in Actors
    BY NamesAssumption, Zenon DEF Stoppable, Actors
  <2>3. \A p \in Plugins : mon'[p] = mon[p] /\ downs'[p] = downs[p]
    <3>. DEFINE aw == [awaiting EXCEPT ![a] = @ - 1]
                dn == [downs EXCEPT ![a] = @ - 1]
    <3>1. \A p \in Plugins : dn[p] = downs[p]
      BY <2>2, Zenon DEF TypeOK
    <3>. HIDE DEF dn, aw
    <3>2. CASE finish_last(aw, dn)
      BY <2>2, <3>1, <3>2, Zenon DEF finish_last, StopActors
    <3>3. CASE downs' = dn /\ mon' = mon
      BY <3>1, <3>3, Zenon
    <3>. QED
      BY <1>6, <3>2, <3>3, Zenon DEF DownOfComponent, BarrierDone, aw, dn
  <2>. QED
    BY <2>1, <2>3, ChainFrame, Zenon
<1>7. ASSUME NEW p \in Plugins, PluginQuits(p) \/ PluginCrashes(p) PROVE ChainInv'
  BY <1>7, ChainTerminates, Zenon DEF PluginQuits, PluginCrashes, Actors
<1>8. ASSUME NEW a \in Stoppable, ComponentExits(a) PROVE ChainInv'
  BY <1>8, ChainTerminates, Zenon DEF ComponentExits, Actors
<1>9. CASE Main
  <2>1. boot # "up"
    BY <1>9, Zenon DEF Main, ComponentsReady, PublishOrder, LoadPlugin, HealthCheck,
                 RegisterCluster, BootDone
  <2>2. Idle
    BY <2>1, BeforeUp, Zenon
  <2>3. UNCHANGED <<conts, stopping, remaining, told, mon, downs>>
    BY <1>9, Zenon DEF Main, ComponentsReady, PublishOrder, LoadPlugin, HealthCheck,
                 RegisterCluster, BootDone
  <2>. QED
    BY <2>2, <2>3, ChainIdle, Zenon
<1>10. CASE Signal \/ UNCHANGED vars \/ \E p \in Plugins : Work(p)
  BY <1>10, <1>same, Zenon DEF Signal, Work, vars
<1>. QED
  BY <1>1, <1>2, <1>3, <1>4, <1>5, <1>6, <1>7, <1>8, <1>9, <1>10, ChainDown, Zenon DEF Next, Down

\* The invariant that makes the order of the phases inductive.
OrderInv == TypeOK /\ BarrierInv /\ BootInv /\ PhaseInv /\ ChainInv

\* It holds when the process starts.
LEMMA OrderInit == Init => OrderInv
<1>. SUFFICES ASSUME Init PROVE OrderInv
  BY Zenon
<1>1. TypeOK
  BY OrderAssumption, ParameterAssumption, SMTT(40) DEF Init, TypeOK, Actors, Stoppable, Core
<1>2. BarrierInv
  BY SMTT(40) DEF Init, BarrierInv, Actors
<1>3. alive \cap Plugins = {} /\ alive \cap Ctls = {} /\ "logging_service" \notin exiting
  BY NamesAssumption, Zenon DEF Init, Stoppable
<1>4. BootInv
  BY <1>3 DEF Init, BootInv
<1>5. PhaseInv
  BY <1>3, Zenon DEF Init, PhaseInv, Idle
<1>6. \A k \in Phases, p \in Plugins : conts[k][p] = 0
  BY Zenon DEF Init
<1>7. \A p \in Plugins : mon[p] = 0 /\ downs[p] = 0 /\ p # NoPlugin
  BY NamesAssumption, Zenon DEF Init, Actors
<1>8. ChainInv
  BY <1>6, <1>7 DEF Init, ChainInv, OneChain, Phases
<1>. QED
  BY <1>1, <1>2, <1>4, <1>5, <1>8, Zenon DEF OrderInv

\* Nothing that a shutdown after an undisturbed boot meets breaks it.
LEMMA OrderNext == Undisturbed /\ OrderInv /\ QuitBarrier /\ [Next]_vars => OrderInv'
  BY TypeNext, BarrierNext, BootNext, PhaseNext, ChainNext, Zenon DEF OrderInv

\* What the invariant says of the shutdown.
LEMMA OrderImplies ==
  ASSUME OrderInv, QuitBarrier
  PROVE  PhasesInOrder /\ NoOrphan
<1>. USE DEF OrderInv
<1>sys. sys \in {"initializing", "ready"} \/ sys \in {"shutting_down", "stopped"}
  BY Zenon DEF TypeOK
<1>1. OneAtATime
  <2>. SUFFICES ASSUME NEW p \in Plugins \cap alive, mon[p] > 0 \/ p \in told
                PROVE  stopping = p
    BY Zenon DEF OneAtATime
  <2>1. CASE mon[p] > 0
    <3>1. mon[p] \in Nat /\ downs[p] \in Nat
      BY Zenon DEF TypeOK, Actors
    <3>. QED
      BY <2>1, <3>1 DEF ChainInv
  <2>2. CASE p \in told
    <3>1. p \in remaining
      BY <2>2, <1>sys, Zenon DEF PhaseInv, Idle
    <3>2. conts["plugin_saved"][p] = 0
      BY DEF ChainInv, TypeOK, Phases
    <3>. QED
      BY <2>2, <3>1, <3>2, Zenon DEF ChainInv
  <2>. QED
    BY <2>1, <2>2, Zenon
<1>2. ComponentsAfterPlugins
  BY <1>sys, Zenon DEF ComponentsAfterPlugins, PhaseInv, Idle
<1>3. LoggingLast
  BY Zenon DEF LoggingLast, PhaseInv
<1>4. NoOrphan
  <2>. SUFFICES ASSUME coord = "quit", NEW a \in alive PROVE FALSE
    BY Zenon DEF NoOrphan
  <2>1. sys = "stopped" /\ "logging_service" \in exiting /\ remaining = {}
    BY Zenon DEF PhaseInv
  <2>2. a \notin Plugins
    BY <2>1, Zenon DEF PhaseInv
  <2>3. a \in Stoppable
    BY <2>2, Zenon DEF TypeOK, Actors
  <2>4. a = "logging_service"
    BY <2>1, <2>3, Zenon DEF PhaseInv
  <2>. QED
    BY <2>1, <2>4, Zenon DEF QuitBarrier
<1>. QED
  BY <1>1, <1>2, <1>3, <1>4, Zenon DEF PhasesInOrder

\* The invariant of an undisturbed chain holds at every step of it.
LEMMA OrderHolds ==
  ASSUME Undisturbed
  PROVE  Spec => [](PhasesInOrder /\ NoOrphan)
<1>1. OrderInv /\ QuitBarrier /\ [Next]_vars => OrderInv'
  BY OrderNext, Zenon
<1>2. OrderInv /\ QuitBarrier => PhasesInOrder /\ NoOrphan
  BY OrderImplies, Zenon
<1>. QED
  BY <1>1, <1>2, OrderInit, BarrierHolds, PTL DEF Spec

\* A shutdown after the boot stops the plugins one by one, then the components
\* and controllers, then the logging service; for any number of plugins and
\* controllers, any number of triggers, plugins that crash, saves and
\* checkpoints that fail or take too long.  It needs a stop order that names
\* every loaded plugin and a chain that the force timer does not cut short.
THEOREM ShutdownInOrder ==
  ASSUME Undisturbed
  PROVE  Spec => []PhasesInOrder
  BY OrderHolds, PTL

\* Under the same conditions nothing that a plugin or the boot has started is
\* still running when the coordinator quits, so that await_all_actors_done returns.
THEOREM NothingLeftRunning ==
  ASSUME Undisturbed
  PROVE  Spec => []NoOrphan
  BY OrderHolds, PTL

-----------------------------------------------------------------------------
\* The answers of save_state and of the checkpoint manager still expected are
\* those of the plugin the step posts or takes one for.
LEMMA SaveCounts ==
  ASSUME NEW c \in [Phases -> [Plugins -> Nat]], NEW p \in Plugins,
         NEW k \in {"resolve", "plugin_saved"}
  PROVE  \A q \in Plugins :
           /\ Post(c, k, p)["save"][q] = c["save"][q]
           /\ Take(c, k, p)["save"][q] = c["save"][q]
           /\ Post(c, k, p)["checkpoint"][q] = c["checkpoint"][q]
           /\ Take(c, k, p)["checkpoint"][q] = c["checkpoint"][q]
           /\ Post(c, "save", p)["save"][q] = IF q = p THEN c["save"][q] + 1 ELSE c["save"][q]
           /\ Post(c, "save", p)["checkpoint"][q] = c["checkpoint"][q]
<1>1. "save" \in Phases /\ "checkpoint" \in Phases /\ k \in Phases
  BY Zenon DEF Phases
<1>2. k # "save" /\ k # "checkpoint"
  BY Zenon
<1>. QED
  BY <1>1, <1>2, Zenon DEF Post, Take

\* The answer of save_state and of the checkpoint manager: what is told to stop
\* has been saved, or its save has failed.
LEMMA SaveChain ==
  ASSUME TypeOK, ChainInv, SaveInv, NEW p \in Plugins,
         SavedState(p) \/ SavedNothing(p) \/ SaveFailed(p) \/ Checkpointed(p) \/ CheckpointError(p)
  PROVE  SaveInv' /\ (NoUnsavedExit => NoUnsavedExit')
<1>. USE DEF coordVars, chainVars, actorVars, dataVars, bootVars
<1>1. "save" \in Phases /\ "checkpoint" \in Phases
  BY Zenon DEF Phases
<1>2. /\ conts \in [Phases -> [Plugins -> Nat]] /\ told \subseteq Plugins
      /\ mem \in [Plugins -> {"dirty", "snapshot", "saved"}]
  BY Zenon DEF TypeOK
<1>3. \A q \in Plugins : conts["save"][q] \in Nat /\ conts["checkpoint"][q] \in Nat
  BY <1>1, <1>2, Zenon
<1>4. UNCHANGED <<alive, spawned>>
  BY Zenon DEF SavedState, SavedNothing, SaveFailed, Checkpointed, CheckpointError
<1>5. CASE SavedState(p)
  <2>1. conts["save"][p] > 0 /\ p \in alive
    BY <1>5, ZenonT(30) DEF SavedState
  <2>2. p \notin told /\ conts["save"][p] = 1 /\ conts["checkpoint"][p] = 0
    BY <1>3, <2>1 DEF SaveInv
  <2>. DEFINE t == Take(conts, "save", p)
  <2>3. t \in [Phases -> [Plugins -> Nat]]
    BY <1>1, <1>2, <2>1, ContTypes, ZenonT(30)
  <2>4. \A k \in Phases, q \in Plugins :
          t[k][q] = IF k = "save" /\ q = p THEN conts[k][q] - 1 ELSE conts[k][q]
    BY <1>1, <1>2, ContValues
  <2>5. conts' = Post(t, "checkpoint", p) \/ conts' = Post(t, "refused", p)
    BY <1>5, Zenon DEF SavedState
  <2>. HIDE DEF t
  <2>6. \E l \in {"checkpoint", "refused"} : \A k \in Phases, q \in Plugins :
          conts'[k][q] = IF k = l /\ q = p THEN t[k][q] + 1 ELSE t[k][q]
    <3>1. "refused" \in Phases
      BY Zenon DEF Phases
    <3>2. CASE conts' = Post(t, "checkpoint", p)
      <4>1. \A k \in Phases, q \in Plugins :
              Post(t, "checkpoint", p)[k][q]
                = IF k = "checkpoint" /\ q = p THEN t[k][q] + 1 ELSE t[k][q]
        BY ONLY <1>1, <2>3, p \in Plugins, ContValues
      <4>. QED
        BY <3>2, <4>1, Zenon
    <3>3. CASE conts' = Post(t, "refused", p)
      <4>1. \A k \in Phases, q \in Plugins :
              Post(t, "refused", p)[k][q]
                = IF k = "refused" /\ q = p THEN t[k][q] + 1 ELSE t[k][q]
        BY ONLY <2>3, <3>1, p \in Plugins, ContValues, SMTT(30)
      <4>. QED
        BY <3>3, <4>1, Zenon
    <3>. QED
      BY <2>5, <3>2, <3>3, Zenon
  <2>7. /\ \A q \in Plugins : q # p => conts'["save"][q] = conts["save"][q]
                                    /\ conts'["checkpoint"][q] = conts["checkpoint"][q]
        /\ conts'["save"][p] = 0 /\ conts'["checkpoint"][p] \in {0, 1}
    BY <1>1, <2>2, <2>4, <2>6
  <2>8. /\ mem' = [mem EXCEPT ![p] = "snapshot"] /\ UNCHANGED <<told, excused>>
    BY <1>5, ZenonT(30) DEF SavedState
  <2>9. SaveInv'
    BY <1>2, <1>3, <1>4, <2>2, <2>7, <2>8 DEF SaveInv
  <2>10. NoUnsavedExit => NoUnsavedExit'
    BY <1>2, <1>4, <2>1, <2>8, Zenon DEF NoUnsavedExit, TypeOK
  <2>. QED
    BY <2>9, <2>10, Zenon
<1>6. ASSUME NEW k \in {"save", "checkpoint", "refused"}, conts[k][p] > 0,
             conts' = Take(conts, k, p)
      PROVE  /\ \A q \in Plugins : q # p => conts'["save"][q] = conts["save"][q]
                                         /\ conts'["checkpoint"][q] = conts["checkpoint"][q]
             /\ conts'["save"][p] \in Nat /\ conts'["save"][p] <= conts["save"][p]
             /\ conts'["checkpoint"][p] \in Nat
             /\ conts'["checkpoint"][p] <= conts["checkpoint"][p]
             /\ k # "refused" => conts'["save"][p] = 0 /\ conts'["checkpoint"][p] = 0
  <2>1. k \in Phases
    BY Zenon DEF Phases
  <2>2. \A l \in Phases, q \in Plugins :
          Take(conts, k, p)[l][q] = IF l = k /\ q = p THEN conts[l][q] - 1 ELSE conts[l][q]
    BY ONLY <1>2, <2>1, p \in Plugins, ContValues
  <2>3. conts["save"][p] + conts["checkpoint"][p] <= 1
    BY Zenon DEF SaveInv
  <2>4. \A q \in Plugins : q # p => conts'["save"][q] = conts["save"][q]
                                  /\ conts'["checkpoint"][q] = conts["checkpoint"][q]
    BY <1>1, <1>6, <2>2, Zenon
  <2>5. conts'["save"][p] = IF k = "save" THEN conts["save"][p] - 1 ELSE conts["save"][p]
    BY <1>1, <1>6, <2>2, Zenon
  <2>6. conts'["checkpoint"][p]
          = IF k = "checkpoint" THEN conts["checkpoint"][p] - 1 ELSE conts["checkpoint"][p]
    BY <1>1, <1>6, <2>2, Zenon
  <2>7. conts["save"][p] \in Nat /\ conts["checkpoint"][p] \in Nat /\ conts[k][p] > 0
    BY <1>3, <1>6, Zenon
  <2>8. /\ conts'["save"][p] \in Nat /\ conts'["save"][p] <= conts["save"][p]
        /\ conts'["checkpoint"][p] \in Nat
        /\ conts'["checkpoint"][p] <= conts["checkpoint"][p]
        /\ k # "refused" => conts'["save"][p] = 0 /\ conts'["checkpoint"][p] = 0
    <3>1. ASSUME NEW a \in Nat, NEW b \in Nat, a + b <= 1
          PROVE  /\ a <= a /\ b <= b
                 /\ a > 0 => a - 1 \in Nat /\ a - 1 <= a /\ a - 1 = 0 /\ b = 0
                 /\ b > 0 => b - 1 \in Nat /\ b - 1 <= b /\ b - 1 = 0 /\ a = 0
      BY ONLY <3>1
    <3>. QED
      BY <2>3, <2>5, <2>6, <2>7, <3>1, Zenon
  <2>. QED
    BY <2>4, <2>8, Zenon
<1>7. CASE SavedNothing(p) \/ SaveFailed(p) \/ Checkpointed(p)
  <2>1. \E k \in {"save", "checkpoint"} : conts[k][p] > 0 /\ conts' = Take(conts, k, p)
    BY <1>7, Zenon DEF SavedNothing, SaveFailed, Checkpointed
  <2>2. /\ \A q \in Plugins : q # p => conts'["save"][q] = conts["save"][q]
                                    /\ conts'["checkpoint"][q] = conts["checkpoint"][q]
        /\ conts'["save"][p] = 0 /\ conts'["checkpoint"][p] = 0
    BY <1>6, <2>1, Zenon
  <2>3. told' = told \cup {p} /\ excused \subseteq excused'
    BY <1>7, Zenon DEF SavedNothing, SaveFailed, Checkpointed
  <2>4. /\ \A q \in Plugins : q # p => mem'[q] = mem[q]
        /\ mem'[p] = "saved" \/ p \in excused'
        /\ mem[p] = "saved" => mem'[p] = "saved"
    <3>1. CASE SavedNothing(p)
      BY <1>2, <3>1, Zenon DEF SavedNothing
    <3>2. CASE SaveFailed(p)
      BY <1>2, <3>2, Zenon DEF SaveFailed
    <3>3. CASE Checkpointed(p)
      <4>1. mem[p] # "dirty" /\ mem[p] \in {"dirty", "snapshot", "saved"}
        BY <1>2, <3>3, ZenonT(30) DEF Checkpointed, SaveInv
      <4>. QED
        BY <1>2, <3>3, <4>1, Zenon DEF Checkpointed
    <3>. QED
      BY <1>7, <3>1, <3>2, <3>3, Zenon
  <2>5. SaveInv'
    BY <1>2, <1>3, <1>4, <2>2, <2>3, <2>4 DEF SaveInv
  <2>6. NoUnsavedExit => NoUnsavedExit'
    BY <1>4, <2>3, <2>4, Zenon DEF NoUnsavedExit, TypeOK
  <2>. QED
    BY <2>5, <2>6
<1>8. CASE CheckpointError(p)
  <2>1. \E k \in {"checkpoint", "refused"} : conts[k][p] > 0 /\ conts' = Take(conts, k, p)
    BY <1>8, Zenon DEF CheckpointError
  <2>2. UNCHANGED <<told, mem, excused>>
    BY <1>8, Zenon DEF CheckpointError
  <2>3. \A q \in Plugins : /\ conts'["save"][q] \in Nat /\ conts'["save"][q] <= conts["save"][q]
                           /\ conts'["checkpoint"][q] \in Nat
                           /\ conts'["checkpoint"][q] <= conts["checkpoint"][q]
    <3>1. PICK k \in {"checkpoint", "refused"} : conts[k][p] > 0 /\ conts' = Take(conts, k, p)
      BY <2>1, Zenon
    <3>2. k \in {"save", "checkpoint", "refused"}
      BY Zenon
    <3>3. /\ \A q \in Plugins : q # p => conts'["save"][q] = conts["save"][q]
                                      /\ conts'["checkpoint"][q] = conts["checkpoint"][q]
          /\ conts'["save"][p] \in Nat /\ conts'["save"][p] <= conts["save"][p]
          /\ conts'["checkpoint"][p] \in Nat
          /\ conts'["checkpoint"][p] <= conts["checkpoint"][p]
      BY <1>6, <3>1, <3>2, Zenon
    <3>4. \A n \in Nat : n <= n
      BY SMTT(30)
    <3>. QED
      BY <1>3, <3>3, <3>4, Zenon
  <2>4. ASSUME NEW q \in Plugins
        PROVE  /\ conts["save"][q] + conts["checkpoint"][q] <= 1 =>
                    conts'["save"][q] + conts'["checkpoint"][q] <= 1
               /\ conts'["checkpoint"][q] > 0 => conts["checkpoint"][q] > 0
               /\ conts["save"][q] = 0 => conts'["save"][q] = 0
               /\ conts["checkpoint"][q] = 0 => conts'["checkpoint"][q] = 0
    <3>1. /\ conts["save"][q] \in Nat /\ conts["checkpoint"][q] \in Nat
          /\ conts'["save"][q] \in Nat /\ conts'["save"][q] <= conts["save"][q]
          /\ conts'["checkpoint"][q] \in Nat /\ conts'["checkpoint"][q] <= conts["checkpoint"][q]
      BY <1>3, <2>3, Zenon
    <3>. QED
      BY ONLY <3>1
  <2>5. \A q \in Plugins : conts'["save"][q] + conts'["checkpoint"][q] <= 1
    BY <2>4, Zenon DEF SaveInv
  <2>6. \A q \in Plugins : conts'["checkpoint"][q] > 0 => mem'[q] # "dirty"
    BY <2>2, <2>4, Zenon DEF SaveInv
  <2>7. \A q \in told' \cap alive' :
          /\ conts'["save"][q] = 0 /\ conts'["checkpoint"][q] = 0
          /\ mem'[q] = "saved" \/ q \in excused'
    BY <1>2, <1>4, <2>2, <2>4, Zenon DEF SaveInv
  <2>8. SaveInv'
    BY <2>5, <2>6, <2>7, Zenon DEF SaveInv
  <2>. QED
    BY <1>4, <2>2, <2>8, Zenon DEF NoUnsavedExit
<1>. QED
  BY <1>5, <1>7, <1>8, Zenon

\* A step that does not touch what is being saved, and ends at most actors that
\* have been saved or are excused.
LEMMA SaveFrame ==
  ASSUME SaveInv, NoUnsavedExit, TypeOK,
         \A p \in Plugins : /\ conts'["save"][p] = conts["save"][p]
                            /\ conts'["checkpoint"][p] = conts["checkpoint"][p],
         UNCHANGED <<mem, told>>, excused \subseteq excused',
         \A p \in told : p \in alive' => p \in alive,
         \A p \in spawned' \ alive' :
            p \in spawned \ alive \/ mem[p] = "saved" \/ p \in excused'
  PROVE  SaveInv' /\ NoUnsavedExit'
<1>1. told \subseteq Plugins
  BY Zenon DEF TypeOK
<1>2. SaveInv'
  BY <1>1, Zenon DEF SaveInv
<1>3. NoUnsavedExit'
  BY Zenon DEF NoUnsavedExit
<1>. QED
  BY <1>2, <1>3, Zenon

\* Every step keeps it, when no caller changes a plugin's state in between.
LEMMA SaveNext ==
  ASSUME Undisturbed, ~Traffic, OrderInv, OrderInv', SaveInv, NoUnsavedExit, [Next]_vars
  PROVE  SaveInv' /\ NoUnsavedExit'
<1>. USE DEF coordVars, chainVars, actorVars, dataVars, bootVars, OrderInv
<1>1. /\ "resolve" \in Phases /\ "save" \in Phases /\ "checkpoint" \in Phases
      /\ "plugin_saved" \in Phases
  BY Zenon DEF Phases
<1>2. conts \in [Phases -> [Plugins -> Nat]]
  BY Zenon DEF TypeOK
<1>same. ASSUME UNCHANGED <<conts, mem, told, excused, alive, spawned>>
         PROVE  SaveInv' /\ NoUnsavedExit'
  BY <1>same, SaveFrame, Zenon
<1>3. ASSUME NEW p \in Plugins, Chain(p) PROVE SaveInv' /\ NoUnsavedExit'
  <2>1. CASE ResolveHit(p)
    <3>1. /\ conts["resolve"][p] > 0 /\ conts' = Post(Take(conts, "resolve", p), "save", p)
          /\ UNCHANGED <<mem, told, excused, alive, spawned>>
      BY <2>1, Zenon DEF ResolveHit
    <3>2. /\ p \in remaining /\ stopping = NoPlugin /\ conts["plugin_saved"][p] = 0
      BY <3>1, OneToken, Zenon
    <3>3. conts["save"][p] = 0 /\ conts["checkpoint"][p] = 0 /\ p \notin told
      BY <3>2, NamesAssumption, Zenon DEF ChainInv
    <3>. DEFINE t == Take(conts, "resolve", p)
    <3>4. t \in [Phases -> [Plugins -> Nat]]
      BY <1>1, <1>2, <3>1, ContTypes, Zenon
    <3>5. \A q \in Plugins : t["save"][q] = conts["save"][q] /\ t["checkpoint"][q] = conts["checkpoint"][q]
      BY <1>1, <1>2, SaveCounts, SMTT(30)
    <3>6. conts' = Post(t, "save", p)
      BY <3>1, Zenon
    <3>. HIDE DEF t
    <3>7. \A q \in Plugins : /\ conts'["save"][q] = IF q = p THEN t["save"][q] + 1 ELSE t["save"][q]
                             /\ conts'["checkpoint"][q] = t["checkpoint"][q]
      BY <1>1, <3>4, <3>6, SaveCounts, SMTT(30)
    <3>8. SaveInv'
      <4>1. conts'["save"][p] = 1 /\ conts'["checkpoint"][p] = 0
        BY <3>3, <3>5, <3>7
      <4>2. \A q \in Plugins : q # p => conts'["save"][q] = conts["save"][q]
                                       /\ conts'["checkpoint"][q] = conts["checkpoint"][q]
        BY <3>5, <3>7, Zenon
      <4>. QED
        <5>1. \A q \in Plugins : conts'["save"][q] + conts'["checkpoint"][q] <= 1
          BY <4>1, <4>2, SMTT(30) DEF SaveInv
        <5>2. \A q \in Plugins : conts'["checkpoint"][q] > 0 => mem'[q] # "dirty"
          BY <3>1, <4>1, <4>2 DEF SaveInv
        <5>3. \A q \in told' \cap alive' :
                /\ conts'["save"][q] = 0 /\ conts'["checkpoint"][q] = 0
                /\ mem'[q] = "saved" \/ q \in excused'
          BY <3>1, <3>3, <4>2, ZenonT(30) DEF SaveInv, TypeOK
        <5>. QED
          BY <5>1, <5>2, <5>3, Zenon DEF SaveInv
    <3>. QED
      BY <3>1, <3>8, Zenon DEF NoUnsavedExit
  <2>2. CASE ResolveMiss(p)
    <3>1. /\ conts["resolve"][p] > 0 /\ conts' = Post(Take(conts, "resolve", p), "plugin_saved", p)
          /\ UNCHANGED <<mem, told, excused, alive, spawned>>
      BY <2>2, Zenon DEF ResolveMiss
    <3>. DEFINE t == Take(conts, "resolve", p)
    <3>4. t \in [Phases -> [Plugins -> Nat]]
      BY <1>1, <1>2, <3>1, ContTypes, Zenon
    <3>5. \A q \in Plugins : t["save"][q] = conts["save"][q] /\ t["checkpoint"][q] = conts["checkpoint"][q]
      BY <1>1, <1>2, SaveCounts
    <3>6. conts' = Post(t, "plugin_saved", p)
      BY <3>1, Zenon
    <3>. HIDE DEF t
    <3>7. \A q \in Plugins : conts'["save"][q] = t["save"][q] /\ conts'["checkpoint"][q] = t["checkpoint"][q]
      BY <1>1, <3>4, <3>6, SaveCounts
    <3>. QED
      BY <3>1, <3>5, <3>7, SaveFrame, Zenon
  <2>3. CASE plugin_saved_atom(p)
    <3>1. /\ conts["plugin_saved"][p] > 0
          /\ UNCHANGED <<mem, told, excused, alive, spawned>>
      BY <2>3, Zenon DEF plugin_saved_atom
    <3>. DEFINE t == Take(conts, "plugin_saved", p)
    <3>4. t \in [Phases -> [Plugins -> Nat]]
      BY <1>1, <1>2, <3>1, ContTypes, Zenon
    <3>5. \A q \in Plugins : t["save"][q] = conts["save"][q] /\ t["checkpoint"][q] = conts["checkpoint"][q]
      BY <1>1, <1>2, SaveCounts
    <3>6. conts' = t \/ \E q \in remaining' : conts' = stop_next(t, q)
      BY <2>3, Zenon DEF plugin_saved_atom
    <3>7. remaining' \subseteq Plugins
      BY Zenon DEF TypeOK
    <3>. HIDE DEF t
    <3>8. ASSUME NEW q \in Plugins, conts' = stop_next(t, q)
          PROVE  \A r \in Plugins : conts'["save"][r] = t["save"][r]
                                    /\ conts'["checkpoint"][r] = t["checkpoint"][r]
      BY <1>1, <3>4, <3>8, SaveCounts DEF stop_next
    <3>9. \A r \in Plugins : conts'["save"][r] = t["save"][r] /\ conts'["checkpoint"][r] = t["checkpoint"][r]
      BY <3>6, <3>7, <3>8, Zenon
    <3>. QED
      BY <3>1, <3>5, <3>9, SaveFrame, Zenon
  <2>. QED
    BY <1>3, <2>1, <2>2, <2>3, SaveChain, Zenon DEF Chain
<1>4. CASE shutdown_atom
  <2>1. UNCHANGED <<mem, told, excused, alive, spawned>>
    BY <1>4, Zenon DEF shutdown_atom
  <2>2. remaining' \subseteq Plugins
    BY Zenon DEF TypeOK
  <2>3. conts' = conts \/ \E p \in Plugins : conts' = stop_next(conts, p)
    BY <1>4, <2>2, Zenon DEF shutdown_atom, ShutdownIgnored, ShutdownNotReady, ShutdownStart
  <2>4. ASSUME NEW p \in Plugins, conts' = stop_next(conts, p)
        PROVE  \A r \in Plugins : conts'["save"][r] = conts["save"][r]
                                  /\ conts'["checkpoint"][r] = conts["checkpoint"][r]
    BY <1>1, <1>2, <2>4, SaveCounts DEF stop_next
  <2>. QED
    BY <2>1, <2>3, <2>4, SaveFrame, Zenon
<1>5. ASSUME NEW p \in Plugins, DownOfPlugin(p) PROVE SaveInv' /\ NoUnsavedExit'
  <2>1. conts' = Post(conts, "plugin_saved", p) /\ UNCHANGED <<mem, told, excused, alive, spawned>>
    BY <1>5, ZenonT(30) DEF DownOfPlugin
  <2>2. \A r \in Plugins : conts'["save"][r] = conts["save"][r]
                           /\ conts'["checkpoint"][r] = conts["checkpoint"][r]
    BY <1>1, <1>2, <2>1, SaveCounts
  <2>. QED
    BY <2>1, <2>2, SaveFrame, Zenon
<1>6. ASSUME NEW p \in Plugins, PluginQuits(p) \/ PluginCrashes(p)
      PROVE  SaveInv' /\ NoUnsavedExit'
  <2>1. /\ alive' = alive \ {p} /\ p \in alive /\ UNCHANGED <<conts, mem, told, spawned>>
        /\ excused \subseteq excused'
    BY <1>6, Zenon DEF PluginQuits, PluginCrashes, Terminate
  <2>2. mem[p] = "saved" \/ p \in excused'
    BY <1>6, <2>1, Zenon DEF PluginQuits, PluginCrashes, SaveInv
  <2>. QED
    BY <2>1, <2>2, SaveFrame, Zenon
<1>7. ASSUME NEW a \in Stoppable, ComponentExits(a) PROVE SaveInv' /\ NoUnsavedExit'
  <2>1. /\ alive' = alive \ {a} /\ UNCHANGED <<conts, mem, told, spawned, excused>>
    BY <1>7, Zenon DEF ComponentExits, Terminate
  <2>2. a \notin spawned
    BY NamesAssumption, Zenon DEF TypeOK
  <2>. QED
    BY <2>1, <2>2, SaveFrame, Zenon
<1>8. CASE Main
  <2>1. /\ UNCHANGED <<conts, mem, told, excused>> /\ alive \subseteq alive'
        /\ spawned' \ spawned \subseteq alive'
    BY <1>8, Zenon DEF Main, ComponentsReady, PublishOrder, LoadPlugin, HealthCheck,
                 RegisterCluster, BootDone
  <2>2. boot # "up"
    BY <1>8, Zenon DEF Main, ComponentsReady, PublishOrder, LoadPlugin, HealthCheck,
                 RegisterCluster, BootDone
  <2>3. told = {}
    BY <2>2, BeforeUp, Zenon DEF Idle
  <2>. QED
    BY <2>1, <2>3, SaveFrame, Zenon
<1>9. CASE \/ ready_atom \/ force_exit_atom \/ Signal \/ UNCHANGED vars
           \/ \E a \in Actors : DownDropped(a)
           \/ \E a \in Stoppable : DownOfComponent(a)
  BY <1>9, <1>same, Zenon DEF ready_atom, force_exit_atom, Signal, vars, DownDropped, DownOfComponent
<1>10. \A p \in Plugins : ~Work(p)
  BY Zenon DEF Work
<1>. QED
  BY <1>3, <1>4, <1>5, <1>6, <1>7, <1>8, <1>9, <1>10, Zenon DEF Next, Down

\* No plugin terminates with state that is not on disk, unless its save failed or
\* it crashed, when no caller changes its state during the shutdown: a late
\* answer of save_state or of the checkpoint manager does no harm.
THEOREM NothingUnsaved ==
  ASSUME Undisturbed, ~Traffic
  PROVE  Spec => []NoUnsavedExit
<1>1. Init => SaveInv /\ NoUnsavedExit
  BY DEF Init, SaveInv, NoUnsavedExit, Phases
<1>2. OrderInv /\ QuitBarrier /\ [Next]_vars => OrderInv'
  BY OrderNext, Zenon
<1>3. OrderInv /\ OrderInv' /\ SaveInv /\ NoUnsavedExit /\ [Next]_vars => SaveInv' /\ NoUnsavedExit'
  BY SaveNext, Zenon
<1>. QED
  BY <1>1, <1>2, <1>3, OrderInit, BarrierHolds, PTL DEF Spec
===========================================================================
