---------------------------- MODULE PluginLoader ----------------------------
(***************************************************************************)
(* From the scanned manifests to the load order: resolve_dependencies (a   *)
(* work list from the entry plugins), then compute_load_order, which       *)
(* builds a DependencyGraph, looks for a cycle from every plugin (has_     *)
(* cycle_from, a depth-first search) and sorts it (topological_order,      *)
(* Kahn's algorithm with a priority queue).  Every loop iteration is a     *)
(* step.                                                                   *)
(***************************************************************************)
EXTENDS Integers, Sequences, FiniteSets, Positions

CONSTANTS
  Plugins,       \* plugin names: integers, compared as the names are
  Services,      \* service names
  NoPlugin,      \* no provider
  Inputs         \* what the scan and the configuration may yield

Names(q) == {q[i] : i \in DOMAIN q}

\* scan: the plugins found, in directory order; entries: entry-plugins.
ASSUME InputsAssumption ==
  /\ Plugins \subseteq Int /\ IsFiniteSet(Plugins)
  /\ NoPlugin \notin Plugins
  /\ \A x \in Inputs :
       /\ x.scan \in Seq(Plugins)
       /\ x.entries \in Seq(Plugins)
       /\ x.provides \in [Plugins -> SUBSET Services]
       /\ x.dependencies \in [Plugins -> Seq(Services)]
       /\ x.priority \in [Plugins -> Int]

VARIABLES
  input,     \* the manifests and the configuration
  phase,     \* "resolve", "cycles", "sort" or "done"
  stack,     \* resolve_dependencies: names still to visit
  resolved,  \* resolve_dependencies: plugins visited and known, in order
  unknown,   \* resolve_dependencies: names visited and not known
  graph,     \* graph_: for each plugin the providers of its dependencies
  unchecked, \* compute_load_order: plugins not yet searched for a cycle
  visiting,  \* dfs: the current path
  visited,   \* dfs: plugins confirmed to reach no cycle
  in_degree, \* topological_order
  queue,     \* topological_order: plugins whose in-degree is 0
  order      \* topological_order: the result

resolveVars == <<stack, resolved, unknown>>
dfsVars == <<unchecked, visiting, visited>>
sortVars == <<in_degree, queue, order>>
vars == <<input, phase, resolveVars, graph, dfsVars, sortVars>>

Nodes == Names(resolved)

Init ==
  /\ input \in Inputs
  /\ phase = "resolve"
  /\ stack = input.entries
  /\ resolved = << >> /\ unknown = {}
  /\ graph = [p \in {} |-> << >>]
  /\ unchecked = {} /\ visiting = << >> /\ visited = {}
  /\ in_degree = [p \in {} |-> 0] /\ queue = {} /\ order = << >>
-----------------------------------------------------------------------------
Greatest(I) == CHOOSE i \in I : \A j \in I : j <= i

\* The last plugin of q that provides service s: register_service and
\* service_to_plugin overwrite an earlier provider.  A core service (@core) and
\* a service that nobody provides are both skipped.
Provider(q, s) ==
  LET I == {i \in DOMAIN q : s \in input.provides[q[i]]} IN
  IF I = {} THEN NoPlugin ELSE q[Greatest(I)]

\* The plugins to visit for p: the providers of its dependencies, in the order
\* of the manifest (one list).
Needs(q, p) ==
  LET found == [i \in DOMAIN input.dependencies[p] |->
                  Provider(q, input.dependencies[p][i])]
  IN  Kept(found, {i \in DOMAIN found : found[i] # NoPlugin})

FirstOf(q) == IF q = << >> THEN q ELSE <<q[1]>>

\* One round of resolve_dependencies: the last name of the stack.
name == stack[Len(stack)]

Take(push) ==
  LET rest == SubSeq(stack, 1, Len(stack) - 1) IN
  /\ phase = "resolve" /\ stack # << >>
  /\ \/ /\ name \in Nodes \cup unknown
        /\ stack' = rest
        /\ UNCHANGED <<resolved, unknown>>
     \/ /\ name \notin Nodes \cup unknown
        /\ name \notin Names(input.scan)
        /\ stack' = rest
        /\ unknown' = unknown \cup {name}
        /\ UNCHANGED resolved
     \/ /\ name \notin Nodes \cup unknown
        /\ name \in Names(input.scan)
        /\ stack' = rest \o push
        /\ resolved' = Append(resolved, name)
        /\ UNCHANGED unknown
  /\ UNCHANGED <<input, phase, graph, dfsVars, sortVars>>

\* Faulty form: only the first dependency is followed.
VisitFirstOnly ==
  stack # << >> /\ \E push \in Needs(input.scan, name) : Take(FirstOf(push))

Visit == stack # << >> /\ \E push \in Needs(input.scan, name) : Take(push)

Edges(p, I) == [i \in I |-> Provider(resolved, input.dependencies[p][i])]

\* The dependencies of p that another resolved plugin provides.
Provided(p) ==
  {i \in DOMAIN input.dependencies[p] :
     Provider(resolved, input.dependencies[p][i]) \notin {NoPlugin, p}}

\* add_plugin: the providers of p's dependencies, p itself left out.  The list
\* is kept as a function from positions in the manifest.
add_plugin(p) == Edges(p, Provided(p))

\* The registration loops of compute_load_order.
BuildGraph ==
  /\ phase = "resolve" /\ stack = << >>
  /\ phase' = "cycles"
  /\ graph' = [p \in Nodes |-> add_plugin(p)]
  /\ unchecked' = Nodes
  /\ UNCHANGED <<input, resolveVars, visiting, visited, sortVars>>
-----------------------------------------------------------------------------
\* has_cycle_from(p) begins with empty sets.
DfsStart(p) ==
  /\ phase = "cycles" /\ visiting = << >> /\ p \in unchecked
  /\ unchecked' = unchecked \ {p}
  /\ visiting' = <<p>>
  /\ visited' = {}
  /\ UNCHANGED <<input, phase, resolveVars, graph, sortVars>>

Top == visiting[Len(visiting)]

\* dfs meets a plugin of the current path: compute_load_order returns {}.
DfsCycle ==
  /\ phase = "cycles" /\ visiting # << >>
  /\ Names(graph[Top]) \cap Names(visiting) # {}
  /\ phase' = "done"
  /\ UNCHANGED <<input, resolveVars, graph, dfsVars, sortVars>>

\* dfs descends into a dependency that is not visited yet.
DfsEnter(d) ==
  /\ phase = "cycles" /\ visiting # << >>
  /\ d \in Names(graph[Top]) \ (visited \cup Names(visiting))
  /\ visiting' = Append(visiting, d)
  /\ UNCHANGED <<input, phase, resolveVars, graph, unchecked, visited, sortVars>>

Leave(confirmed) ==
  /\ phase = "cycles" /\ visiting # << >>
  /\ Names(graph[Top]) \subseteq visited
  /\ visiting' = SubSeq(visiting, 1, Len(visiting) - 1)
  /\ visited' = visited \cup confirmed
  /\ UNCHANGED <<input, phase, resolveVars, graph, unchecked, sortVars>>

\* dfs leaves a plugin whose dependencies are all visited.
DfsLeave == Leave({Top})
-----------------------------------------------------------------------------
\* topological_order: the in-degree of a plugin is the size of its list.
SortStart ==
  /\ phase = "cycles" /\ visiting = << >> /\ unchecked = {}
  /\ phase' = "sort"
  /\ in_degree' = [p \in Nodes |-> Cardinality(DOMAIN graph[p])]
  /\ queue' = {p \in Nodes : DOMAIN graph[p] = {}}
  /\ UNCHANGED <<input, resolveVars, graph, dfsVars, order>>

\* The comparison of the priority queue: p leaves it before q.
Sooner(p, q) ==
  \/ input.priority[p] < input.priority[q]
  \/ input.priority[p] = input.priority[q] /\ p < q

\* Faulty form: the comparison is the wrong way round.
LastFirst(p) == \A q \in queue \ {p} : Sooner(q, p)

First(p) == \A q \in queue \ {p} : Sooner(p, q)

\* The plugins that wait for u: their in-degree falls by one.
Dependents(u) == {p \in Nodes : u \in Names(graph[p])}

Pop(u, freed) ==
  /\ phase = "sort" /\ u \in queue /\ First(u)
  /\ order' = Append(order, u)
  /\ in_degree' = [p \in Nodes |-> IF p \in Dependents(u) THEN in_degree[p] - 1
                                   ELSE in_degree[p]]
  /\ queue' = (queue \ {u}) \cup freed
  /\ UNCHANGED <<input, phase, resolveVars, graph, dfsVars>>

\* Faulty forms: a dependent is queued when its first provider is done; a
\* plugin whose in-degree has become 0 is not queued.
PopTooEarly(u) == Pop(u, {p \in Dependents(u) : in_degree[p] > 0} \ Names(order))
PopForgets(u) == Pop(u, {})

\* One round of the loop.
PopFirst(u) == Pop(u, {p \in Dependents(u) : in_degree[p] = 1})

FinishSort(result) ==
  /\ phase = "sort" /\ queue = {}
  /\ phase' = "done"
  /\ order' = result
  /\ UNCHANGED <<input, resolveVars, graph, dfsVars, in_degree, queue>>

\* The size check behind the loop.
SortEnd == FinishSort(IF Len(order) # Cardinality(Nodes) THEN << >> ELSE order)

Next ==
  \/ Visit
  \/ BuildGraph
  \/ \E p \in Nodes : DfsStart(p)
  \/ DfsCycle
  \/ \E d \in Nodes : DfsEnter(d)
  \/ DfsLeave
  \/ SortStart
  \/ \E u \in Nodes : PopFirst(u)
  \/ SortEnd

Spec == Init /\ [][Next]_vars
-----------------------------------------------------------------------------
(* Properties *)

\* The first i plugins of the order.
Prefix(i) == {order[j] : j \in 1 .. i}

\* "返回加载顺序（依赖在前，被依赖在后）" (plugin_loader.hpp:36): the providers
\* of a plugin's dependencies come before it.
DependenciesFirst ==
  \A i \in DOMAIN order : Names(graph[order[i]]) \subseteq Prefix(i - 1)

\* Reference: a graph has no cycle when each set of plugins has one that needs
\* none of the others.
Acyclic ==
  \A S \in (SUBSET Nodes) \ {{}} : \E p \in S : Names(graph[p]) \cap S = {}

\* "环检测：结果数量不等于节点数量说明有环" (dependency_graph.hpp:82): the order
\* has every resolved plugin, and is empty exactly when there is a cycle.
EmptyIffCyclic ==
  phase = "done" => Names(order) = IF Acyclic THEN Nodes ELSE {}

\* p needs two services of one provider.
Twin(p) == \E s, t \in DOMAIN graph[p] : s # t /\ graph[p][s] = graph[p][t]

Twins == \E p \in Nodes : Twin(p)

\* Exactly when topological_order succeeds: the order has every resolved plugin
\* when there is no cycle and no plugin that counts one provider twice, and is
\* empty otherwise.
CompleteOrEmpty ==
  phase = "done" => Names(order) = IF Acyclic /\ ~Twins THEN Nodes ELSE {}

\* What bootstrap_plugins relies on when it starts to load: an order that is
\* not empty names every resolved plugin once, and there is no cycle.
NeverPartial ==
  phase = "done" /\ order # << >> =>
    /\ Names(order) = Nodes /\ Len(order) = Cardinality(Nodes)
    /\ Acyclic

\* Why the order is right: the in-degree of a plugin counts the providers that
\* topological_order has yet to append, so that a queued plugin misses none,
\* and no plugin is appended twice.
SortInv ==
  /\ input \in Inputs /\ resolved \in Seq(Plugins) /\ order \in Seq(Nodes)
  /\ phase \in {"resolve", "cycles"} => order = << >>
  /\ phase # "resolve" => graph = [p \in Nodes |-> add_plugin(p)]
  /\ \A i, j \in DOMAIN order : order[i] = order[j] => i = j
  /\ phase = "sort" =>
       /\ \A p \in Nodes : in_degree[p] = Cardinality(DOMAIN graph[p])
                             - Cardinality(Names(graph[p]) \cap Names(order))
       /\ \A p \in queue : p \in Nodes \ Names(order) /\ in_degree[p] = 0
       /\ \A p \in Names(order) : in_degree[p] = 0
  /\ phase = "done" /\ order # << >> => Len(order) = Cardinality(Nodes)
  /\ DependenciesFirst

\* Reference for the priority queue (dependency_graph.hpp:50): each plugin is
\* the first, by priority and then by name, of those that can be loaded next.
LeastFirst ==
  phase = "done" =>
    \A i \in DOMAIN order : \A q \in Nodes \ Prefix(i) :
      Names(graph[q]) \subseteq Prefix(i - 1) => Sooner(order[i], q)

\* Reference: the least set with the known entry plugins that has, with each
\* plugin, the providers of its dependencies.
Needed(q, p) ==
  {Provider(q, s) : s \in Names(input.dependencies[p])} \ {NoPlugin}
Closed(S) ==
  /\ Names(input.entries) \cap Names(input.scan) \subseteq S
  /\ \A p \in S : Needed(input.scan, p) \subseteq S

\* resolve_dependencies yields exactly the plugins that the entry plugins need.
ResolvesClosure ==
  phase # "resolve" =>
    /\ Closed(Nodes)
    /\ \A S \in SUBSET Names(input.scan) : Closed(S) => Nodes \subseteq S

\* Why resolve_dependencies is complete: what a visited plugin needs has been
\* visited or is on the stack; and nothing else ever gets there.
ResolveInv ==
  /\ input \in Inputs /\ stack \in Seq(Plugins) /\ resolved \in Seq(Plugins)
  /\ Nodes \subseteq Names(input.scan) /\ unknown \cap Names(input.scan) = {}
  /\ phase # "resolve" => stack = << >>
  /\ Names(input.entries) \cap Names(input.scan) \subseteq Nodes \cup Names(stack)
  /\ \A p \in Nodes : Needed(input.scan, p) \subseteq Nodes \cup Names(stack)
  /\ \A S \in SUBSET Names(input.scan) :
       Closed(S) => Nodes \subseteq S /\ Names(stack) \cap Names(input.scan) \subseteq S

\* Why a plugin that dfs meets again closes a cycle: the plugins being visited
\* are a path of the graph.
PathInv ==
  /\ visiting \in Seq(Nodes)
  /\ phase = "resolve" => visiting = << >>
  /\ \A i \in 1 .. Len(visiting) - 1 : visiting[i + 1] \in Names(graph[visiting[i]])

\* Why the priority queue is enough: every plugin that misses no provider is
\* queued, unless one provider was counted twice.
ReadyInv ==
  /\ phase = "sort" =>
       \A q \in Nodes \ Names(order) : in_degree[q] = 0 => q \in queue
  /\ \A i \in DOMAIN order : \A q \in Nodes \ Prefix(i) :
       Names(graph[q]) \subseteq Prefix(i - 1) /\ ~Twin(q) => Sooner(order[i], q)
=============================================================================
