----------------------------- MODULE HotReload -----------------------------
(***************************************************************************)
(* Hot reload and unload of one plugin: the plugin manager's reload_atom,  *)
(* unload_atom, down_msg and exit_msg handlers, the service registry's     *)
(* ledger, one proxy actor per service, the plugin's actors (one           *)
(* generation for each version that was loaded) and the clients that call  *)
(* through the proxies.                                                    *)
(*                                                                         *)
(* A mailbox is a sequence: a local send enqueues at once and a handler    *)
(* takes the head.  The plugin manager's handler is cut where it blocks    *)
(* (each quiesce, the save_state) and before it retires the old actor, so  *)
(* that every other actor may run in between.  The registry's mailbox is   *)
(* kept per service: its handlers for different services touch different   *)
(* entries.                                                                *)
(*                                                                         *)
(* A reload rejected before the first quiesce (unknown plugin, library or  *)
(* symbols missing, another name, a service removed, a dependency missing) *)
(* changes nothing and is not an action.                                   *)
(***************************************************************************)
EXTENDS Integers, Sequences, Positions

CONSTANTS
  Clients,           \* the callers
  Services,          \* manifest.provides of the first version
  Added,             \* the services that later versions provide in addition
  NoService,         \* no service
  MaxReloads,        \* bound: reloads attempted
  MaxCalls,          \* bound: calls of one client
  Restricted,        \* acl_allow is declared: the proxies have an ACL
  Allowed,           \* the clients in acl_allow
  Remote,            \* the clients on another node
  CrossNode,         \* allow_cross_node
  \* what the environment may do
  MayUnload,         \* the plugin may be unloaded
  MayStop,           \* the plugin manager may be stopped
  Async,             \* handlers may finish a call in a later continuation
  QuiesceMayTimeout, \* a proxy may answer later than 5 s
  SaveMayTimeout,    \* the old actor may answer save_state later than 5 s
  CrashWhen          \* plugin actors terminate by themselves: "never",
                     \* "idle" (while no reload runs) or "always"

Svcs == Services \cup Added
Gens == 1 .. MaxReloads + 1
Calls == [from : Clients, n : 1 .. MaxCalls, to : Svcs]

ASSUME ServicesAssumption ==
  /\ Services # {}
  /\ Services \cap Added = {}
  /\ NoService \notin Svcs

ASSUME BoundsAssumption ==
  /\ MaxReloads \in Nat
  /\ MaxCalls \in Nat
  /\ Allowed \subseteq Clients
  /\ Remote \subseteq Clients
  /\ {Restricted, CrossNode, MayUnload, MayStop, Async, QuiesceMayTimeout,
      SaveMayTimeout} \subseteq BOOLEAN
  /\ CrashWhen \in {"never", "idle", "always"}

VARIABLES
  \* the plugin manager
  op,        \* the handler that runs: "idle", "reload", "unload" or "exited"
  pc,        \* where it is: "start", "ack", "save" or "retire"
  todo,      \* services whose proxies it has still to quiesce
  asking,    \* the service whose proxy it waits for
  held,      \* the vector proxies: services whose proxies are quiesced
  acked,     \* the answer to quiesce_atom has arrived
  reply,     \* the answer to save_state_atom: << >> or <<snapshot>>
  round,     \* number of the operation: tells its requests from older ones
  ngen,      \* generations created so far
  entry,     \* the generation in plugins_, 0 when the plugin is not there
  retired,   \* the generations in retired_
  pmdowns,   \* down_msgs in the plugin manager's mailbox
  inst,      \* the plugin instance of each generation
  \* the service registry
  impl,      \* impl[s]: the ledger's implementation, 0 when not registered
  regbox,    \* regbox[s]: messages about service s
  \* the proxies
  pup, pbox, current, paused, buffered, restricted,
  \* the plugin's actors
  up, box, applied, pending, watchers,
  \* the clients
  asked, done, refused, failed,
  \* history
  serving,   \* the generation that took over last
  crashed    \* generations that terminated by themselves

pmVars == <<op, pc, todo, asking, held, acked, reply, round, ngen, entry,
            retired, inst>>
regVars == <<impl, regbox>>
proxyVars == <<pup, current, paused, buffered, restricted>>
actorVars == <<up, box, applied, pending, watchers, pmdowns>>
answers == <<done, refused, failed>>
callVars == <<asked, done, refused, failed>>
history == <<serving, crashed>>
vars == <<pmVars, regVars, proxyVars, pbox, actorVars, callVars, history>>
-----------------------------------------------------------------------------
\* manifest.provides of a generation.
Provides(g) == IF g = 1 THEN Services ELSE Svcs

\* The actors' messages.
CallMsg(c) == [kind |-> "call", call |-> c]
Quiesce(r) == [kind |-> "quiesce", round |-> r]
Resume(g) == [kind |-> "resume", gen |-> g]
DownOf(g) == [kind |-> "down", gen |-> g]
Save(r) == [kind |-> "save", round |-> r]
Restore(d) == [kind |-> "restore", data |-> d]
Switch(g) == [kind |-> "hot_reload", gen |-> g]
Register(g) == [kind |-> "register", gen |-> g]
SetAcl == [kind |-> "set_acl"]
Unregister == [kind |-> "unregister"]
ExitMsg == [kind |-> "exit"]

\* The calls in a mailbox, the elements of a sequence.
Elements(q) == {q[i] : i \in DOMAIN q}
CallsIn(q) == {m.call : m \in {x \in Elements(q) : x.kind = "call"}}

\* The plugin is loaded, its services are registered and have their ACL.
Init ==
  /\ op = "idle" /\ pc = "start" /\ todo = {} /\ asking = NoService
  /\ held = {} /\ acked = FALSE /\ reply = << >> /\ round = 0
  /\ ngen = 1 /\ entry = 1 /\ retired = {} /\ pmdowns = {}
  /\ inst = [g \in Gens |-> IF g = 1 THEN "live" ELSE "none"]
  /\ impl = [s \in Svcs |-> IF s \in Services THEN 1 ELSE 0]
  /\ regbox = [s \in Svcs |-> << >>]
  /\ pup = [s \in Svcs |-> IF s \in Services THEN "up" ELSE "none"]
  /\ pbox = [s \in Svcs |-> << >>]
  /\ current = [s \in Svcs |-> IF s \in Services THEN 1 ELSE 0]
  /\ paused = [s \in Svcs |-> FALSE]
  /\ buffered = [s \in Svcs |-> << >>]
  /\ restricted = [s \in Svcs |-> s \in Services /\ Restricted]
  /\ up = [g \in Gens |-> IF g = 1 THEN "up" ELSE "none"]
  /\ box = [g \in Gens |-> << >>]
  /\ applied = [g \in Gens |-> << >>]
  /\ pending = [g \in Gens |-> {}]
  /\ watchers = [g \in Gens |-> IF g = 1 THEN Services ELSE {}]
  /\ asked = {} /\ done = {} /\ refused = {} /\ failed = {}
  /\ serving = 1 /\ crashed = {}
-----------------------------------------------------------------------------
(* The plugin manager *)

\* send to the proxies of a set of services; a dead actor takes no message.
ToProxies(S, m) ==
  pbox' = [s \in Svcs |-> IF s \in S /\ pup[s] = "up" THEN Append(pbox[s], m)
                         ELSE pbox[s]]

Destroy(S) ==
  inst' = [g \in Gens |-> IF g \notin S THEN inst[g]
                         ELSE IF inst[g] = "live" THEN "destroyed" ELSE "twice"]

\* reload_atom up to the first quiesce: the new instance is created.
BeginReload ==
  /\ op = "idle" /\ entry # 0 /\ ngen <= MaxReloads
  /\ op' = "reload"
  /\ todo' = Provides(entry)
  /\ held' = {}
  /\ round' = round + 1
  /\ ngen' = ngen + 1
  /\ inst' = [inst EXCEPT ![ngen + 1] = "live"]
  /\ UNCHANGED <<pc, asking, acked, reply, entry, retired, regVars, proxyVars,
                 pbox, actorVars, callVars, history>>

\* unload_atom up to the first quiesce.
BeginUnload ==
  /\ MayUnload
  /\ op = "idle" /\ entry # 0
  /\ op' = "unload"
  /\ todo' = Provides(entry)
  /\ held' = {}
  /\ round' = round + 1
  /\ UNCHANGED <<pc, asking, acked, reply, ngen, entry, retired, inst, regVars,
                 proxyVars, pbox, actorVars, callVars, history>>

\* The request resolve_atom has been answered (behind the earlier messages
\* about the service) with a proxy, which is sent quiesce_atom.
AskQuiesce(s) ==
  /\ op \in {"reload", "unload"} /\ pc = "start" /\ s \in todo
  /\ regbox[s] = << >> /\ impl[s] # 0 /\ pup[s] = "up"
  /\ pc' = "ack"
  /\ asking' = s
  /\ acked' = FALSE
  /\ ToProxies({s}, Quiesce(round))
  /\ UNCHANGED <<op, todo, held, reply, round, ngen, entry, retired, inst,
                 regVars, proxyVars, actorVars, callVars, history>>

Quiesced ==
  /\ pc = "ack" /\ acked
  /\ pc' = "start"
  /\ todo' = todo \ {asking}
  /\ held' = held \cup {asking}
  /\ asking' = NoService
  /\ UNCHANGED <<op, acked, reply, round, ngen, entry, retired, inst, regVars,
                 proxyVars, pbox, actorVars, callVars, history>>

\* The proxy is not registered any more, is dead, or did not answer in time.
QuiesceFails(s) ==
  \/ /\ op \in {"reload", "unload"} /\ pc = "start" /\ s \in todo
     /\ regbox[s] = << >> /\ (impl[s] = 0 \/ pup[s] # "up")
  \/ /\ pc = "ack" /\ asking = s /\ ~acked
     /\ pup[s] # "up" \/ QuiesceMayTimeout

GiveUp(instances) ==
  /\ op = "reload"
  /\ \E s \in todo : QuiesceFails(s)
  /\ op' = "idle" /\ pc' = "start" /\ asking' = NoService
  /\ ToProxies(held, Resume(entry))
  /\ Destroy(instances)
  /\ UNCHANGED <<todo, held, acked, reply, round, ngen, entry, retired, regVars,
                 proxyVars, actorVars, callVars, history>>

\* A reload resumes the proxies it holds on the old actor and gives up; the
\* timed-out request stays in the proxy's mailbox.
Rollback == GiveUp({ngen})

\* An unload goes on with the next service.
SkipProxy(s) ==
  /\ op = "unload"
  /\ s \in todo /\ QuiesceFails(s)
  /\ pc' = "start" /\ asking' = NoService
  /\ todo' = todo \ {s}
  /\ UNCHANGED <<op, held, acked, reply, round, ngen, entry, retired, inst,
                 regVars, proxyVars, pbox, actorVars, callVars, history>>

RequestSave(ready) ==
  /\ op \in {"reload", "unload"} /\ pc = "start" /\ ready
  /\ pc' = "save"
  /\ reply' = << >>
  /\ box' = IF up[entry] = "up" THEN [box EXCEPT ![entry] = Append(@, Save(round))]
            ELSE box
  /\ UNCHANGED <<op, todo, asking, held, acked, round, ngen, entry, retired,
                 inst, regVars, proxyVars, pbox, up, applied, pending, watchers,
                 pmdowns, callVars, history>>

\* Faulty form: the snapshot is taken while the proxies still forward.
SnapshotBeforeDrain == RequestSave(TRUE)

\* save_state_atom is requested of the old actor once no proxy forwards to it.
AskSave == RequestSave(todo = {})

\* Faulty form: the services that the new version adds are not registered.
OnlyOldServices(s) == IF s \in Provides(entry) THEN <<Switch(ngen)>> ELSE << >>

\* What the registry is told of service s: an old one switches, a new one is
\* registered, with its ACL when the white list is not empty.
LedgerMessages(s) ==
  IF s \in Provides(entry) THEN <<Switch(ngen)>>
  ELSE IF Restricted /\ Allowed # {} THEN <<Register(ngen), SetAcl>>
  ELSE <<Register(ngen)>>

\* reload_atom behind the save_state request: the new actor is spawned, sent
\* the snapshot (when there is one) and monitored; the registry is told, and
\* the proxies that are held resume on the new actor.
SwitchOver(d) ==
  /\ op = "reload"
  /\ up' = [up EXCEPT ![ngen] = "up"]
  /\ box' = IF d = << >> THEN box ELSE [box EXCEPT ![ngen] = <<Restore(d)>>]
  /\ regbox' = [s \in Svcs |-> regbox[s] \o LedgerMessages(s)]
  /\ ToProxies(held, Resume(ngen))
  /\ pc' = "retire"
  /\ serving' = ngen
  /\ UNCHANGED <<op, todo, asking, held, acked, reply, round, ngen, entry,
                 retired, inst, impl, proxyVars, applied, pending, watchers,
                 pmdowns, asked, answers, crashed>>

\* unload_atom behind the save_state request.
Withdraw ==
  /\ op = "unload"
  /\ regbox' = [s \in Svcs |-> IF s \in Provides(entry) THEN Append(regbox[s], Unregister)
                              ELSE regbox[s]]
  /\ pc' = "retire"
  /\ UNCHANGED <<op, todo, asking, held, acked, reply, round, ngen, entry,
                 retired, inst, impl, proxyVars, pbox, actorVars, callVars,
                 history>>

Saved ==
  /\ pc = "save" /\ reply # << >>
  /\ SwitchOver(reply[1]) \/ Withdraw

\* The old actor is dead or too slow: the handlers go on with no state.
SaveFails ==
  /\ pc = "save" /\ reply = << >>
  /\ up[entry] # "up" \/ SaveMayTimeout
  /\ SwitchOver(<< >>) \/ Withdraw

RetireOld(toOld, instances, next) ==
  /\ pc = "retire"
  /\ box' = IF up[entry] = "up" THEN [box EXCEPT ![entry] = @ \o toOld] ELSE box
  /\ inst' = instances
  /\ retired' = retired \cup {entry}
  /\ entry' = next
  /\ op' = "idle" /\ pc' = "start"
  /\ UNCHANGED <<todo, asking, held, acked, reply, round, ngen, regVars,
                 proxyVars, pbox, up, applied, pending, watchers, pmdowns,
                 callVars, history>>

\* Faulty forms: the old actor is not told to exit; its instance is destroyed
\* at once.
RetireSilently == RetireOld(<< >>, inst, IF op = "reload" THEN ngen ELSE 0)
RetireDestroys == RetireOld(<<ExitMsg>>, [inst EXCEPT ![entry] = "destroyed"],
                            IF op = "reload" THEN ngen ELSE 0)
\* send_exit to the old actor, whose entry moves to retired_.
Retire == RetireOld(<<ExitMsg>>, inst, IF op = "reload" THEN ngen ELSE 0)

Reap(g, left) ==
  /\ op = "idle" /\ g \in pmdowns /\ g \in retired
  /\ pmdowns' = pmdowns \ {g}
  /\ retired' = left
  /\ Destroy({g})
  /\ UNCHANGED <<op, pc, todo, asking, held, acked, reply, round, ngen, entry,
                 regVars, proxyVars, pbox, up, box, applied, pending, watchers,
                 callVars, history>>

\* down_msg of a retired actor: its instance is destroyed.
DownOfRetired(g) == Reap(g, retired \ {g})

\* down_msg of the plugin's current actor: its services are unregistered.
DownOfEntry(g) ==
  /\ op = "idle" /\ g \in pmdowns /\ g \notin retired
  /\ pmdowns' = pmdowns \ {g}
  /\ IF entry = g
     THEN /\ entry' = 0
          /\ Destroy({g})
          /\ regbox' = [s \in Svcs |-> IF s \in Provides(g)
                                      THEN Append(regbox[s], Unregister)
                                      ELSE regbox[s]]
     ELSE UNCHANGED <<entry, inst, regbox>>
  /\ UNCHANGED <<op, pc, todo, asking, held, acked, reply, round, ngen, retired,
                 impl, proxyVars, pbox, up, box, applied, pending, watchers,
                 callVars, history>>

\* exit_msg, sent when the plugin's actor has stopped: every instance that is
\* left is destroyed.
ManagerExit ==
  /\ MayStop
  /\ op = "idle" /\ (entry # 0 => up[entry] = "down")
  /\ op' = "exited"
  /\ Destroy({entry} \cup retired)
  /\ entry' = 0 /\ retired' = {}
  /\ UNCHANGED <<pc, todo, asking, held, acked, reply, round, ngen, regVars,
                 proxyVars, pbox, actorVars, callVars, history>>
-----------------------------------------------------------------------------
(* The service registry *)

\* The registry handles a message about service s.  A registration spawns the
\* proxy, which monitors the implementation.
RegistryStep(s) ==
  /\ regbox[s] # << >>
  /\ regbox' = [regbox EXCEPT ![s] = Tail(@)]
  /\ LET m == Head(regbox[s]) IN
     \/ /\ m.kind = "hot_reload"
        /\ impl' = IF impl[s] # 0 THEN [impl EXCEPT ![s] = m.gen] ELSE impl
        /\ UNCHANGED <<proxyVars, pbox, watchers>>
     \/ /\ m.kind = "register"
        /\ IF impl[s] = 0
           THEN /\ impl' = [impl EXCEPT ![s] = m.gen]
                /\ pup' = [pup EXCEPT ![s] = "up"]
                /\ current' = [current EXCEPT ![s] = m.gen]
                /\ watchers' = [watchers EXCEPT ![m.gen] = @ \cup {s}]
                /\ pbox' = IF up[m.gen] = "down"
                           THEN [pbox EXCEPT ![s] = <<DownOf(m.gen)>>] ELSE pbox
           ELSE UNCHANGED <<impl, pup, current, watchers, pbox>>
        /\ UNCHANGED <<paused, buffered, restricted>>
     \/ /\ m.kind = "set_acl"
        /\ IF impl[s] # 0 THEN ToProxies({s}, SetAcl) ELSE UNCHANGED pbox
        /\ UNCHANGED <<impl, proxyVars, watchers>>
     \/ /\ m.kind = "unregister"
        /\ IF impl[s] # 0 THEN ToProxies({s}, ExitMsg) ELSE UNCHANGED pbox
        /\ impl' = [impl EXCEPT ![s] = 0]
        /\ UNCHANGED <<proxyVars, watchers>>
  /\ UNCHANGED <<pmVars, up, box, applied, pending, pmdowns, callVars, history>>
-----------------------------------------------------------------------------
(* The proxies *)

\* The default handler's ACL check.
Trusted(c) == c \in Allowed \/ (CrossNode /\ c \in Remote)

\* The check resume_atom makes of a buffered call.
TrustedAtFlush(c) == c \in Allowed

\* delegate: the calls of q go to generation g, which answers the callers; a
\* dead actor's callers get an error.
Delegate(g, q) ==
  IF up[g] = "up"
  THEN /\ box' = [box EXCEPT ![g] = @ \o [i \in DOMAIN q |-> CallMsg(q[i])]]
       /\ UNCHANGED failed
  ELSE /\ failed' = failed \cup Elements(q)
       /\ UNCHANGED box

\* The default handler: a call is buffered, refused or forwarded.
ProxyCall(s, c) ==
  \/ /\ paused[s]
     /\ buffered' = [buffered EXCEPT ![s] = Append(@, c)]
     /\ UNCHANGED <<box, refused, failed>>
  \/ /\ ~paused[s] /\ restricted[s] /\ ~Trusted(c.from)
     /\ refused' = refused \cup {c}
     /\ UNCHANGED <<buffered, box, failed>>
  \/ /\ ~paused[s] /\ (restricted[s] => Trusted(c.from))
     /\ Delegate(current[s], <<c>>)
     /\ UNCHANGED <<buffered, refused>>

\* quiesce_atom: the answer reaches the plugin manager unless it has stopped
\* waiting for it.
ProxyQuiesce(s, r) ==
  /\ paused' = [paused EXCEPT ![s] = TRUE]
  /\ acked' = (acked \/ (pc = "ack" /\ asking = s /\ round = r))

ResumeOn(s, g, flushed, rejected, left) ==
  /\ current' = [current EXCEPT ![s] = g]
  /\ paused' = [paused EXCEPT ![s] = FALSE]
  /\ watchers' = [watchers EXCEPT ![g] = @ \cup {s}]
  /\ pbox' = [pbox EXCEPT ![s] = Tail(@) \o (IF up[g] = "down" THEN <<DownOf(g)>>
                                             ELSE << >>)]
  /\ Delegate(g, flushed)
  /\ refused' = refused \cup rejected
  /\ buffered' = [buffered EXCEPT ![s] = left]

\* Faulty forms: no ACL check; the buffer is not flushed.
FlushUnchecked(s, g) == ResumeOn(s, g, buffered[s], {}, << >>)
FlushForgotten(s, g) == ResumeOn(s, g, << >>, {}, << >>)

\* resume_atom: switch to g, monitor it and flush what was buffered.
ProxyResume(s, g) ==
  LET passes(c) == restricted[s] => TrustedAtFlush(c.from)
      q == buffered[s] IN
  \E flushed \in Kept(q, {i \in DOMAIN q : passes(q[i])}) :
    ResumeOn(s, g, flushed, {c \in Elements(q) : ~passes(c)}, << >>)

\* The proxy terminates: what it has not forwarded is answered with an error.
ProxyQuits(s) ==
  /\ pup' = [pup EXCEPT ![s] = "down"]
  /\ pbox' = [pbox EXCEPT ![s] = << >>]
  /\ buffered' = [buffered EXCEPT ![s] = << >>]
  /\ failed' = failed \cup CallsIn(Tail(pbox[s])) \cup Elements(buffered[s])

\* down_msg: the proxy of a dead implementation quits, that of a retired one
\* goes on.
ProxyDown(s, g) ==
  IF current[s] = g THEN ProxyQuits(s)
  ELSE /\ pbox' = [pbox EXCEPT ![s] = Tail(@)]
       /\ UNCHANGED <<pup, buffered, failed>>

ProxyStep(s) ==
  /\ pbox[s] # << >>
  /\ LET m == Head(pbox[s])
         rest == [pbox EXCEPT ![s] = Tail(@)] IN
     \/ /\ m.kind = "call"
        /\ ProxyCall(s, m.call)
        /\ pbox' = rest
        /\ UNCHANGED <<acked, pup, current, paused, restricted, watchers, done>>
     \/ /\ m.kind = "quiesce"
        /\ ProxyQuiesce(s, m.round)
        /\ pbox' = rest
        /\ UNCHANGED <<pup, current, buffered, restricted, box, watchers,
                       answers>>
     \/ /\ m.kind = "resume"
        /\ ProxyResume(s, m.gen)
        /\ UNCHANGED <<acked, pup, restricted, done>>
     \/ /\ m.kind = "down"
        /\ ProxyDown(s, m.gen)
        /\ UNCHANGED <<acked, current, paused, restricted, box, watchers, done,
                       refused>>
     \/ /\ m.kind = "set_acl"
        /\ restricted' = [restricted EXCEPT ![s] = TRUE]
        /\ pbox' = rest
        /\ UNCHANGED <<acked, pup, current, paused, buffered, box, watchers,
                       answers>>
     \/ /\ m.kind = "exit"
        /\ ProxyQuits(s)
        /\ UNCHANGED <<acked, current, paused, restricted, box, watchers, done,
                       refused>>
  /\ UNCHANGED <<op, pc, todo, asking, held, reply, round, ngen, entry, retired,
                 inst, regVars, up, applied, pending, pmdowns, asked, history>>
-----------------------------------------------------------------------------
(* The plugin's actors and the clients *)

\* An actor terminates: its callers get an error; the plugin manager and the
\* proxies that monitor it get a down_msg.
Terminate(g) ==
  /\ up' = [up EXCEPT ![g] = "down"]
  /\ failed' = failed \cup CallsIn(box[g]) \cup pending[g]
  /\ box' = [box EXCEPT ![g] = << >>]
  /\ pending' = [pending EXCEPT ![g] = {}]
  /\ pmdowns' = pmdowns \cup {g}
  /\ ToProxies(watchers[g], DownOf(g))

\* A call is carried out and answered.
Apply(g, c) ==
  /\ applied' = [applied EXCEPT ![g] = Append(@, c)]
  /\ done' = done \cup {c}

ActorStep(g) ==
  /\ box[g] # << >>
  /\ LET m == Head(box[g]) IN
     \/ /\ m.kind = "call"
        /\ Apply(g, m.call)
        /\ box' = [box EXCEPT ![g] = Tail(@)]
        /\ UNCHANGED <<reply, up, pending, pmdowns, pbox, failed>>
     \/ /\ m.kind = "call" /\ Async
        /\ pending' = [pending EXCEPT ![g] = @ \cup {m.call}]
        /\ box' = [box EXCEPT ![g] = Tail(@)]
        /\ UNCHANGED <<reply, up, applied, pmdowns, pbox, done, failed>>
     \/ /\ m.kind = "save"
        /\ reply' = IF pc = "save" /\ round = m.round THEN <<applied[g]>> ELSE reply
        /\ box' = [box EXCEPT ![g] = Tail(@)]
        /\ UNCHANGED <<up, applied, pending, pmdowns, pbox, done, failed>>
     \/ /\ m.kind = "restore"
        /\ applied' = [applied EXCEPT ![g] = m.data]
        /\ box' = [box EXCEPT ![g] = Tail(@)]
        /\ UNCHANGED <<reply, up, pending, pmdowns, pbox, done, failed>>
     \/ /\ m.kind = "exit"
        /\ Terminate(g)
        /\ UNCHANGED <<reply, applied, done>>
  /\ UNCHANGED <<op, pc, todo, asking, held, acked, round, ngen, entry, retired,
                 inst, regVars, proxyVars, watchers, asked, refused, history>>

\* The continuation of a call that waited for another service.
Continue(g, c) ==
  /\ c \in pending[g]
  /\ Apply(g, c)
  /\ pending' = [pending EXCEPT ![g] = @ \ {c}]
  /\ UNCHANGED <<pmVars, regVars, proxyVars, pbox, up, box, watchers, pmdowns,
                 asked, refused, failed, history>>

\* An actor terminates by itself: a handler threw, or it was told to shut down.
Crash(g) ==
  /\ up[g] = "up"
  /\ CrashWhen = "always" \/ (CrashWhen = "idle" /\ op \in {"idle", "exited"})
  /\ Terminate(g)
  /\ crashed' = crashed \cup {g}
  /\ UNCHANGED <<pmVars, regVars, proxyVars, applied, watchers, asked, done,
                 refused, serving>>

\* A client makes its n-th call, through the proxy of a service.
Call(c, s) ==
  /\ pup[s] # "none"
  /\ \E n \in 1 .. MaxCalls :
       LET x == [from |-> c, n |-> n, to |-> s] IN
       /\ {y.n : y \in {z \in asked : z.from = c}} = 1 .. n - 1
       /\ asked' = asked \cup {x}
       /\ ToProxies({s}, CallMsg(x))
       /\ failed' = IF pup[s] = "up" THEN failed ELSE failed \cup {x}
  /\ UNCHANGED <<pmVars, regVars, proxyVars, actorVars, done, refused, history>>
-----------------------------------------------------------------------------
\* A step of the plugin manager that does not wait for a clock.
ManagerStep ==
  \/ \E s \in Svcs : AskQuiesce(s)
  \/ Quiesced
  \/ Rollback
  \/ \E s \in Svcs : SkipProxy(s)
  \/ AskSave
  \/ Saved
  \/ SaveFails
  \/ Retire
  \/ \E g \in Gens : DownOfRetired(g)
  \/ \E g \in Gens : DownOfEntry(g)

Next ==
  \/ BeginReload
  \/ BeginUnload
  \/ ManagerStep
  \/ ManagerExit
  \/ \E s \in Svcs : RegistryStep(s)
  \/ \E s \in Svcs : ProxyStep(s)
  \/ \E g \in Gens : ActorStep(g)
  \/ \E g \in Gens : \E c \in pending[g] : Continue(g, c)
  \/ \E g \in Gens : Crash(g)
  \/ \E c \in Clients, s \in Svcs : Call(c, s)

Spec == Init /\ [][Next]_vars

\* CAF schedules every actor that has a message; a request that a plugin made
\* is answered, if only by its timeout.
Fairness ==
  /\ WF_vars(ManagerStep)
  /\ \A s \in Svcs : WF_vars(RegistryStep(s)) /\ WF_vars(ProxyStep(s))
  /\ \A g \in Gens : WF_vars(ActorStep(g))
  /\ \A g \in Gens : WF_vars(\E c \in pending[g] : Continue(g, c))

FairSpec == Spec /\ Fairness
-----------------------------------------------------------------------------
(* Properties *)

\* What may be in a mailbox.
Msgs ==
  [kind : {"call"}, call : Calls] \cup [kind : {"quiesce", "save"}, round : Nat]
    \cup [kind : {"resume", "down", "hot_reload", "register"}, gen : Gens]
    \cup [kind : {"restore"}, data : Seq(Calls)]
    \cup [kind : {"set_acl", "unregister", "exit"}]

\* Every variable stays in its range.
TypeOK ==
  /\ op \in {"idle", "reload", "unload", "exited"}
  /\ pc \in {"start", "ack", "save", "retire"}
  /\ todo \subseteq Svcs /\ held \subseteq Svcs
  /\ asking \in IF pc = "ack" THEN Svcs ELSE {NoService}
  /\ acked \in BOOLEAN
  /\ reply \in Seq(Seq(Calls))
  /\ round \in Nat
  /\ ngen \in Gens
  /\ entry \in Gens \cup {0}
  /\ retired \subseteq Gens /\ pmdowns \subseteq Gens /\ crashed \subseteq Gens
  /\ inst \in [Gens -> {"none", "live", "destroyed", "twice"}]
  /\ impl \in [Svcs -> Gens \cup {0}]
  /\ current \in [Svcs -> Gens \cup {0}]
  /\ pup \in [Svcs -> {"none", "up", "down"}]
  /\ up \in [Gens -> {"none", "up", "down"}]
  /\ paused \in [Svcs -> BOOLEAN] /\ restricted \in [Svcs -> BOOLEAN]
  /\ regbox \in [Svcs -> Seq(Msgs)] /\ pbox \in [Svcs -> Seq(Msgs)]
  /\ buffered \in [Svcs -> Seq(Calls)]
  /\ box \in [Gens -> Seq(Msgs)] /\ watchers \in [Gens -> SUBSET Svcs]
  /\ applied \in [Gens -> Seq(Calls)] /\ pending \in [Gens -> SUBSET Calls]
  /\ asked \in SUBSET Calls
  /\ serving \in Gens

\* The state that generation g answers from: its own, or the snapshot that it
\* will restore before it handles a call.
StateOf(g) ==
  IF \E i \in DOMAIN box[g] : box[g][i].kind = "restore"
  THEN (CHOOSE m \in Elements(box[g]) : m.kind = "restore").data
  ELSE applied[g]

\* "先排空后快照，无状态丢失窗口" (plugin_manager.cpp:185): a call that was
\* acknowledged is in the state of the generation that serves, whatever
\* reloads came between.
NoLostUpdate == crashed = {} => done \subseteq Elements(StateOf(serving))

\* Callers cannot tell a reload: the composition implements a service that
\* applies each call at most once, in each client's order, and forgets none.
Stable == INSTANCE StableService WITH errors <- refused \cup failed,
                                      state <- StateOf(serving)
ReloadInvisible == Stable!Spec

\* Between operations the plugin manager, the ledger and the proxies agree:
\* each service of a running plugin is registered with its current actor, and
\* its proxy is alive, forwards to that actor and is not left quiesced.
ServicesReachable ==
  (op = "idle" /\ entry # 0 /\ up[entry] = "up") =>
    \A s \in Provides(entry) :
      /\ regbox[s] = << >> => impl[s] = entry /\ pup[s] = "up"
      /\ (pup[s] = "up" /\ \A m \in Elements(pbox[s]) : m.kind # "resume")
           => current[s] = entry /\ ~paused[s]

\* Every plugin instance has one owner (plugins_, retired_ or the reload that
\* created it) until it is destroyed, and is destroyed once.
InstanceOwned ==
  \A g \in Gens :
    /\ inst[g] # "twice"
    /\ (inst[g] = "live") <=>
         (g \in {entry} \cup retired \/ (op = "reload" /\ g = ngen))

\* "down_msg 到达才 destroy(instance)" (docs/hot-reload-procedure.md:94): no
\* instance is destroyed while its actor can still run.
DestroyedAfterExit == \A g \in Gens : inst[g] = "destroyed" => up[g] # "up"

\* The same while the plugin manager runs: its reload, unload and down_msg
\* handlers never destroy an instance under a running actor.
DestroyedAfterDown == op # "exited" => DestroyedAfterExit

\* Why both hold: plugins_, retired_ and the running reload never share a
\* generation, a version is spawned only after its predecessors' instances have
\* found their owners, a message waits only for a running actor, and a down_msg
\* is in the manager's mailbox only when its actor has stopped.
InstanceInv ==
  /\ op \in {"idle", "reload", "unload", "exited"}
  /\ pc \in {"start", "ack", "save", "retire"}
  /\ ngen \in Gens /\ entry \in 0 .. ngen
  /\ retired \subseteq (1 .. ngen) \ {entry}
  /\ inst \in [Gens -> {"none", "live", "destroyed", "twice"}]
  /\ up \in [Gens -> {"none", "up", "down"}]
  /\ pc # "start" => op \in {"reload", "unload"}
  /\ op \in {"reload", "unload"} => entry # 0
  /\ op = "reload" => entry < ngen /\ ngen \notin retired
  /\ op = "reload" /\ pc # "retire" => up[ngen] = "none"
  /\ \A g \in Gens : g > ngen => inst[g] = "none" /\ up[g] = "none"
  /\ DOMAIN box = Gens /\ \A g \in Gens : box[g] # << >> => up[g] = "up"
  /\ pmdowns \subseteq {g \in Gens : up[g] = "down"}
  /\ InstanceOwned
  /\ DestroyedAfterDown

\* The ACL holds through a reload: no plugin actor of any generation carries
\* out a call from a client that is not trusted.
UntrustedBlocked ==
  Restricted => \A g \in Gens : \A c \in Elements(applied[g]) :
                  c.to \in Services => Trusted(c.from)

\* ... and refuses nobody whom it trusts (service_registry.cpp:74).
TrustedServed == \A c \in refused : ~Trusted(c.from)

\* The direct path of a proxy and the flush after a reload decide alike: both
\* carry out what the ACL of the service allows and nothing else.
AclHolds == UntrustedBlocked /\ TrustedServed

\* Why it holds: a proxy has its ACL from its registration on, a call waits at
\* the proxy it was sent to, and what is on its way to an actor, in its state or
\* in a snapshot of it has been let through.
LetThrough(c) == c.to \in Services => Trusted(c.from)

CallsAtOwnProxy ==
  \A s \in Svcs :
    /\ \A m \in Elements(pbox[s]) : m.kind = "call" => m.call.to = s
    /\ \A c \in Elements(buffered[s]) : c.to = s

OnlyLetThrough ==
  /\ \A g \in Gens :
       /\ \A c \in pending[g] \cup Elements(applied[g]) : LetThrough(c)
       /\ \A m \in Elements(box[g]) :
            /\ m.kind = "call" => LetThrough(m.call)
            /\ m.kind = "restore" => \A c \in Elements(m.data) : LetThrough(c)
  /\ reply # << >> => \A c \in Elements(reply[1]) : LetThrough(c)

AclInv ==
  /\ Restricted => \A s \in Services : restricted[s]
  /\ CallsAtOwnProxy
  /\ Restricted => OnlyLetThrough
  /\ TrustedServed

\* Why services stay reachable when no actor crashes and no proxy answers late.
\* The generation that the proxies and the ledger are to end up with:
target == IF op = "reload" /\ pc = "retire" THEN ngen ELSE entry

\* the plugin has not been withdrawn;
Provided == entry # 0 /\ ~(op = "unload" /\ pc = "retire")

Kinds(q) == {m.kind : m \in Elements(q)}

\* the manager holds the proxy of s, or waits for its answer;
Operating == op \in {"reload", "unload"} /\ pc # "retire"
HeldNow(s) == Operating /\ (s \in held \/ (pc = "ack" /\ asking = s /\ acked))
Awaited(s) == Operating /\ pc = "ack" /\ asking = s /\ ~acked

\* the ledger knows s, or learns of it with the next message;
LedgerInv(s) ==
  \/ regbox[s] \in {<< >>, <<SetAcl>>} /\ impl[s] = target /\ pup[s] = "up"
  \/ regbox[s] = <<Switch(target)>> /\ impl[s] # 0 /\ pup[s] = "up"
  \/ /\ regbox[s] \in {<<Register(target)>>, <<Register(target), SetAcl>>}
     /\ impl[s] = 0 /\ pup[s] = "none" /\ pbox[s] = << >> /\ ~paused[s]

\* a proxy with mailbox q that forwards to generation cur ends up with
\* generation g: it resumes on it before it learns that its own is gone;
Arrives(q, cur, g, ups) ==
  /\ \A i \in DOMAIN q : q[i].kind \in {"call", "quiesce", "resume", "down", "set_acl"}
  /\ \A i \in DOMAIN q : q[i].kind = "resume" => q[i].gen = g
  /\ \A i, j \in DOMAIN q : q[i].kind = "resume" /\ q[j].kind = "resume" => i = j
  /\ \A i, j \in DOMAIN q : q[i].kind = "quiesce" /\ q[j].kind \in {"resume", "quiesce"} => j <= i
  /\ "resume" \notin Kinds(q) => cur = g
  /\ \A i \in DOMAIN q : q[i].kind = "down" =>
       /\ ups[q[i].gen] = "down"
       /\ cur = q[i].gen => \E j \in 1 .. i - 1 : q[j].kind = "resume"

\* and it is paused only while the manager holds it or its resume is on its way;
ProxyInv(s) ==
  /\ Arrives(pbox[s], current[s], target, up)
  /\ \A m \in Elements(pbox[s]) : m.kind = "quiesce" => Awaited(s) /\ m.round = round
  /\ paused[s] => HeldNow(s) \/ "resume" \in Kinds(pbox[s])
  /\ HeldNow(s) => "resume" \notin Kinds(pbox[s])

\* a service that only a later version provides is not known yet;
ServiceInv(s) ==
  IF s \in Provides(target)
  THEN LedgerInv(s) /\ (pup[s] = "up" => ProxyInv(s))
  ELSE /\ impl[s] = 0 /\ regbox[s] = << >> /\ pup[s] = "none" /\ pbox[s] = << >>
       /\ ~paused[s]

\* and the operation has yet to quiesce the proxies that it does not hold.
OperationInv ==
  op \in {"reload", "unload"} =>
    /\ held \cup todo = Provides(entry) /\ held \cap todo = {}
    /\ pc = "ack" => asking \in todo
    /\ pc # "retire" => \A s \in Svcs : s \in held \/ asking = s => regbox[s] = << >>
    /\ pc \in {"save", "retire"} => todo = {}

ReachInv ==
  Provided =>
    /\ up[target] = "up" /\ "exit" \notin Kinds(box[target])
    /\ \A s \in Svcs : ServiceInv(s)
    /\ OperationInv

\* Every call is answered, with a result or an error.
EveryCallAnswered ==
  \A c \in Calls : (c \in asked) ~> (c \in done \cup refused \cup failed)

\* Reloads and unloads end, and the instance of a retired actor is destroyed.
ReloadEnds ==
  /\ (op \in {"reload", "unload"}) ~> (op = "idle")
  /\ \A g \in Gens : (g \in retired) ~> (g \notin retired)
=============================================================================
