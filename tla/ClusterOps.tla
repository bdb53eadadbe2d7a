----------------------------- MODULE ClusterOps -----------------------------
(***************************************************************************)
(* Remote hot reload: the ops actor of the master, told by the console to  *)
(* reload a plugin at one node or at all that match, and the ops actors of *)
(* the nodes.  For each node a chain of requests runs: ask the registry    *)
(* for the route, connect, look the ops actor up, ask it to reload.  The   *)
(* lookups of all chains go through one worker, which blocks on each.      *)
(*                                                                         *)
(* A request fails or times out after k_ops_timeout, and a later answer is *)
(* dropped.  A node of Reliable answers every request well within that     *)
(* time.  External: the registry, CAF's middleman, and the plugin managers *)
(* (HotReload), which answer true or false, or late.                       *)
(***************************************************************************)
EXTENDS Integers, Sequences, FiniteSets

CONSTANTS
  OpsNodes,      \* the other nodes of the cluster
  Reliable,      \* those that answer everything in time
  Commands,      \* reload-nodes commands
  Singles        \* reload-node commands

ASSUME OpsAssumption == Reliable \subseteq OpsNodes /\ IsFiniteSet(OpsNodes)

AllCommands == Commands \cup Singles

VARIABLES
  ops,      \* the ops actor of the master: up, and per command its BatchState
            \* (total, ok, fail, and how often the summary was printed)
  chains,   \* requests of the master under way: [cmd, node, at]
  worker,   \* mailbox of the lookup worker; it blocks on the first
  inbox,    \* per node: remote_reload requests that have arrived
  managers, \* per node: reloads that its plugin manager is to do
  waits,    \* requests of the nodes' ops actors to their managers
  said,     \* per command and node: what was printed, "no", "OK" or "FAILED"
  reloaded  \* history: reloads that were done

masterVars == <<ops, chains, said>>
opsVars == <<ops, chains, worker, inbox, managers, waits, said, reloaded>>

OpsInit ==
  /\ ops = [up |-> TRUE,
            batch |-> [k \in AllCommands |->
                         [state |-> "no", total |-> 0, ok |-> 0, fail |-> 0, summaries |-> 0]]]
  /\ chains = {} /\ worker = << >> /\ waits = {}
  /\ inbox = [n \in OpsNodes |-> << >>]
  /\ managers = [n \in OpsNodes |-> << >>]
  /\ said = [k \in AllCommands |-> [n \in OpsNodes |-> "no"]]
  /\ reloaded = {}

Chain(k, n, at) == [cmd |-> k, node |-> n, at |-> at]
Job(c) == [cmd |-> c.cmd, node |-> c.node]

-----------------------------------------------------------------------------
(* The master.                                                             *)

AllReported(b) == b.ok + b.fail = b.total

\* on_done: the count, the line of the node and, after the last, the summary.
\* A reload-node command has no count.
Count(b, ok) ==
  LET n == IF ok THEN [b EXCEPT !.ok = @ + 1] ELSE [b EXCEPT !.fail = @ + 1]
  IN  IF AllReported(n) THEN [n EXCEPT !.summaries = @ + 1, !.state = "done"] ELSE n
on_done(c, ok) ==
  /\ ops' = [ops EXCEPT !.batch[c.cmd] =
               IF c.cmd \in Singles THEN [@ EXCEPT !.state = "done"] ELSE Count(@, ok)]
  /\ said' = [said EXCEPT ![c.cmd][c.node] = IF ok THEN "OK" ELSE "FAILED"]

\* reload-node: a chain, or a failure at once if the library is a local file that
\* cannot be read.
console_remote_reload(k) ==
  /\ ops.up /\ k \in Singles /\ ops.batch[k].state = "no"
  /\ \E n \in OpsNodes :
       \/ /\ ops' = [ops EXCEPT !.batch[k].state = "running"]
          /\ chains' = chains \cup {Chain(k, n, "resolve")}
          /\ UNCHANGED said
       \/ /\ ops' = [ops EXCEPT !.batch[k].state = "unreadable"]
          /\ said' = [said EXCEPT ![k][n] = "FAILED"]
          /\ UNCHANGED chains
  /\ UNCHANGED <<worker, inbox, managers, waits, reloaded>>

\* reload-nodes and reload-all (the pattern "*") ask for the topology first.
console_reload_nodes(k) ==
  /\ ops.up /\ k \in Commands /\ ops.batch[k].state = "no"
  /\ ops' = [ops EXCEPT !.batch[k].state = "topology"]
  /\ UNCHANGED <<chains, worker, inbox, managers, waits, said, reloaded>>

\* The nodes that match are reloaded, each by its own chain.
console_reload_batch(k) ==
  /\ ops.up /\ ops.batch[k].state = "topology"
  /\ \E matched \in SUBSET OpsNodes, readable \in BOOLEAN :
       LET b == [ops.batch[k] EXCEPT !.total = Cardinality(matched)] IN
       IF matched = {} THEN
         /\ ops' = [ops EXCEPT !.batch[k].state = "done"]
         /\ UNCHANGED <<chains, said>>
       ELSE IF readable THEN
         /\ ops' = [ops EXCEPT !.batch[k] = [b EXCEPT !.state = "running"]]
         /\ chains' = chains \cup {Chain(k, n, "resolve") : n \in matched}
         /\ UNCHANGED said
       ELSE
         /\ ops' = [ops EXCEPT !.batch[k] =
                      [b EXCEPT !.state = "unreadable", !.fail = b.total, !.summaries = 1]]
         /\ said' = [said EXCEPT ![k] =
                       [n \in OpsNodes |-> IF n \in matched THEN "FAILED" ELSE @[n]]]
         /\ UNCHANGED chains
  /\ UNCHANGED <<worker, inbox, managers, waits, reloaded>>

TopologyFails(k) ==
  /\ ops.up /\ ops.batch[k].state = "topology"
  /\ ops' = [ops EXCEPT !.batch[k].state = "done"]
  /\ UNCHANGED <<chains, worker, inbox, managers, waits, said, reloaded>>

\* The next request of a chain: connect after the route, the lookup after the
\* connection.
Next1(c) == [c EXCEPT !.at = IF @ = "resolve" THEN "connect" ELSE "lookup"]

ChainAdvances(c) ==
  /\ ops.up /\ c.at \in {"resolve", "connect"}
  /\ chains' = (chains \ {c}) \cup {Next1(c)}
  /\ worker' = IF c.at = "connect" THEN Append(worker, Job(c)) ELSE worker
  /\ UNCHANGED <<ops, inbox, managers, waits, said, reloaded>>

\* A request may fail or time out: at a node that is not reliable, and a lookup
\* also while the worker blocks on one of such a node.
MayFail(c) ==
  \/ c.node \notin Reliable
  \/ /\ c.at = "lookup" /\ Job(c) \in {worker[i] : i \in DOMAIN worker}
     /\ Head(worker).node \notin Reliable

\* Mutant: a lookup that fails is forgotten.
ChainFailsUnheard(c) ==
  /\ ops.up /\ MayFail(c)
  /\ chains' = chains \ {c}
  /\ IF c.at = "lookup" THEN UNCHANGED <<ops, said>> ELSE on_done(c, FALSE)
  /\ UNCHANGED <<worker, inbox, managers, waits, reloaded>>
\* Mutant: a chain that has failed goes on.
ChainFailsAndStays(c) ==
  /\ ops.up /\ MayFail(c) /\ ops.batch[c.cmd].fail <= Cardinality(OpsNodes)
  /\ on_done(c, FALSE)
  /\ UNCHANGED <<chains, worker, inbox, managers, waits, reloaded>>

ChainFails(c) ==
  /\ ops.up /\ MayFail(c)
  /\ chains' = chains \ {c}
  /\ on_done(c, FALSE)
  /\ UNCHANGED <<worker, inbox, managers, waits, reloaded>>

\* The worker has its answer: a handle, or none.  The chain goes on, if it is
\* still waiting.
LookedUpAt(j) == {c \in chains : Job(c) = j /\ c.at = "lookup"}
WorkerFinds ==
  /\ worker # << >>
  /\ worker' = Tail(worker)
  /\ LET j == Head(worker) IN
     /\ chains' = (chains \ LookedUpAt(j)) \cup {[c EXCEPT !.at = "reload"] : c \in LookedUpAt(j)}
     /\ inbox' = IF LookedUpAt(j) = {} THEN inbox ELSE [inbox EXCEPT ![j.node] = Append(@, j)]
  /\ UNCHANGED <<ops, managers, waits, said, reloaded>>
WorkerFails ==
  /\ worker # << >> /\ Head(worker).node \notin Reliable
  /\ worker' = Tail(worker)
  /\ IF LookedUpAt(Head(worker)) = {} THEN UNCHANGED masterVars
     ELSE \E c \in LookedUpAt(Head(worker)) : chains' = chains \ {c} /\ on_done(c, FALSE)
  /\ UNCHANGED <<inbox, managers, waits, reloaded>>

\* quit: the coordinator is told (GracefulShutdown), and the actor is gone; the
\* worker, which watches it, ends.
OpsQuit ==
  /\ ops.up
  /\ ops' = [ops EXCEPT !.up = FALSE]
  /\ chains' = {} /\ worker' = << >>
  /\ UNCHANGED <<inbox, managers, waits, said, reloaded>>

-----------------------------------------------------------------------------
(* A node.                                                                 *)

Asked(j) == {c \in chains : Job(c) = j /\ c.at = "reload"}

\* The answer of the node, to a chain that still waits for it.
Reply(j, ok) ==
  IF Asked(j) = {} THEN UNCHANGED masterVars
  ELSE \E c \in Asked(j) : chains' = chains \ {c} /\ on_done(c, ok)

\* handle_remote_reload: no framework, no path, or the library cannot be staged;
\* otherwise the plugin manager is asked.
RejectReload(n) ==
  /\ inbox[n] # << >> /\ n \notin Reliable
  /\ inbox' = [inbox EXCEPT ![n] = Tail(@)]
  /\ Reply(Head(inbox[n]), FALSE)
  /\ UNCHANGED <<worker, managers, waits, reloaded>>
handle_remote_reload(n) ==
  /\ inbox[n] # << >>
  /\ inbox' = [inbox EXCEPT ![n] = Tail(@)]
  /\ managers' = [managers EXCEPT ![n] = Append(@, Head(inbox[n]))]
  /\ waits' = waits \cup {Head(inbox[n])}
  /\ UNCHANGED <<ops, chains, worker, said, reloaded>>

\* The node's own request to its manager times out; the manager will still do it.
ManagerLate(j) ==
  /\ j.node \notin Reliable
  /\ waits' = waits \ {j}
  /\ Reply(j, FALSE)
  /\ UNCHANGED <<worker, inbox, managers, reloaded>>

\* The manager reloads the plugin, or cannot, and answers.
ManagerReloads(n) ==
  /\ managers[n] # << >>
  /\ LET j == Head(managers[n]) IN
     \E ok \in BOOLEAN :
       /\ ok \/ n \notin Reliable
       /\ managers' = [managers EXCEPT ![n] = Tail(@)]
       /\ waits' = waits \ {j}
       /\ reloaded' = IF ok THEN reloaded \cup {j} ELSE reloaded
       /\ IF j \in waits THEN Reply(j, ok) ELSE UNCHANGED masterVars
  /\ UNCHANGED <<worker, inbox>>

-----------------------------------------------------------------------------
OpsCommand(k) ==
  console_remote_reload(k) \/ console_reload_nodes(k) \/ console_reload_batch(k) \/ TopologyFails(k)
OpsChain(c) == ChainAdvances(c) \/ ChainFails(c)

OpsNext ==
  \/ \E k \in AllCommands : OpsCommand(k)
  \/ \E c \in chains : OpsChain(c)
  \/ WorkerFinds \/ WorkerFails
  \/ \E n \in OpsNodes : RejectReload(n) \/ handle_remote_reload(n) \/ ManagerReloads(n)
  \/ \E j \in waits : ManagerLate(j)
  \/ OpsQuit

-----------------------------------------------------------------------------
(* Properties.                                                             *)

\* Types; the worker has one lookup per chain, and a node's request to its
\* manager is one that the manager has.
OpsTypeOK ==
  /\ \A k \in AllCommands :
       ops.batch[k].state \in {"no", "topology", "running", "done", "unreadable"}
  /\ \A c \in chains : c.at \in {"resolve", "connect", "lookup", "reload"}
  /\ \A i, j \in DOMAIN worker : worker[i] = worker[j] => i = j
  /\ \A j \in waits : \E i \in DOMAIN managers[j.node] : managers[j.node][i] = j

\* Each node of a batch is counted once, also when its answer races with a
\* timeout: the counts and the chains under way add up to the nodes matched, the
\* counts are what was printed, and the summary comes once, at the end
\* (shared BatchState of console_reload_batch).
BatchCounts ==
  ops.up => \A k \in Commands :
    LET b == ops.batch[k]
        Said(w) == Cardinality({n \in OpsNodes : said[k][n] = w})
    IN  /\ b.ok = Said("OK") /\ b.fail = Said("FAILED")
        /\ b.state = "running" =>
             b.ok + b.fail + Cardinality({c \in chains : c.cmd = k}) = b.total
        /\ b.summaries = IF b.total > 0 /\ b.ok + b.fail = b.total THEN 1 ELSE 0

\* A node that is reported OK has done the reload for this command.
OkReloaded ==
  \A k \in AllCommands : \A n \in OpsNodes :
    said[k][n] = "OK" => [cmd |-> k, node |-> n] \in reloaded

\* What the console reports of a reload is true and complete.
ReportHonest == OpsTypeOK /\ BatchCounts /\ OkReloaded

\* Every command comes to its end, unless the console quits.
BatchEnds ==
  \A k \in AllCommands :
    ops.batch[k].state # "no" ~> ops.batch[k].state \in {"done", "unreadable"} \/ ~ ops.up

\* "逐节点并行发起（异步链互不阻塞）… 单节点失败不影响其他节点" (docs/hot-reload-
\* procedure.md:142-143): a node that answers in time is not reported as failed
\* because of another one.
NodesIndependent ==
  \A k \in AllCommands : \A n \in Reliable :
    ops.batch[k].state # "unreadable" => said[k][n] # "FAILED"
=============================================================================
