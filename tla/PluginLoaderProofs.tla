------------------------- MODULE PluginLoaderProofs -------------------------
(***************************************************************************)
(* For any manifests: the load order has dependencies first, and an order  *)
(* that is not empty is complete and shows that there is no cycle.         *)
(***************************************************************************)
EXTENDS PluginLoader, WellFoundedInduction, FiniteSetTheorems, SequenceTheorems, TLAPS

\* A set of naturals that is not empty has a first element.
LEMMA FirstExists ==
  ASSUME NEW T \in SUBSET Nat, T # {}
  PROVE  \E i \in T : \A j \in T : i <= j
<1>1. PICK i \in T : \A j \in T : <<j, i>> \notin OpToRel(<, Nat)
  BY NatLessThanWellFounded, WFMin, Zenon
<1>2. \A j \in T : ~ (j < i)
  BY <1>1, ZenonT(40) DEF OpToRel
<1>. QED
  BY <1>2

\* The values of a function with a finite domain are finitely many, and no more
\* than the domain has elements.
LEMMA ImageFinite ==
  ASSUME NEW f, IsFiniteSet(DOMAIN f), f = [x \in DOMAIN f |-> f[x]]
  PROVE  IsFiniteSet(Names(f)) /\ Cardinality(Names(f)) <= Cardinality(DOMAIN f)
<1>1. f \in Surjection(DOMAIN f, Names(f))
  BY DEF Names, Surjection
<1>. QED
  BY ONLY <1>1, FS_Surjection, IsFiniteSet(DOMAIN f)

\* A list without repetitions has as many values as positions.
LEMMA InjectiveLength ==
  ASSUME NEW S, NEW q \in Seq(S), \A i, j \in DOMAIN q : q[i] = q[j] => i = j
  PROVE  IsFiniteSet(Names(q)) /\ Cardinality(Names(q)) = Len(q)
<1>1. DOMAIN q = 1 .. Len(q) /\ Len(q) \in Nat
  OBVIOUS
<1>2. IsFiniteSet(1 .. Len(q)) /\ Cardinality(1 .. Len(q)) = Len(q)
  BY ONLY <1>1, FS_Interval, SMTT(40)
<1>3. q \in Surjection(1 .. Len(q), Names(q)) /\ q \in Injection(1 .. Len(q), Names(q))
  BY <1>1 DEF Names, Surjection, Injection, IsInjective
<1>. QED
  BY <1>2, <1>3, FS_Surjection

\* What Append does to the values of a list.
LEMMA NamesAppend ==
  ASSUME NEW S, NEW q \in Seq(S), NEW x \in S
  PROVE  /\ Names(Append(q, x)) = Names(q) \cup {x}
         /\ Append(q, x) \in Seq(S)
<1>1. DOMAIN Append(q, x) = 1 .. Len(q) + 1 /\ DOMAIN q = 1 .. Len(q) /\ Len(q) \in Nat
  OBVIOUS
<1>2. \A i \in 1 .. Len(q) : Append(q, x)[i] = q[i]
  OBVIOUS
<1>3. Append(q, x)[Len(q) + 1] = x
  OBVIOUS
<1>. QED
  BY <1>1, <1>2, <1>3 DEF Names

\* A plugin of in-degree 0 has all its providers in the order.
LEMMA ZeroDegree ==
  ASSUME NEW f, IsFiniteSet(DOMAIN f), f = [x \in DOMAIN f |-> f[x]], NEW O,
         Cardinality(DOMAIN f) - Cardinality(Names(f) \cap O) = 0
  PROVE  Names(f) \subseteq O
<1>1. IsFiniteSet(Names(f)) /\ Cardinality(Names(f)) <= Cardinality(DOMAIN f)
  BY ImageFinite
<1>2. /\ IsFiniteSet(Names(f) \cap O)
      /\ Cardinality(Names(f) \cap O) <= Cardinality(Names(f))
      /\ Cardinality(Names(f)) = Cardinality(Names(f) \cap O) => Names(f) = Names(f) \cap O
  <2>1. Names(f) \cap O \in SUBSET Names(f)
    OBVIOUS
  <2>. QED
    BY ONLY <1>1, <2>1, FS_Subset
<1>3. /\ Cardinality(Names(f)) \in Nat /\ Cardinality(DOMAIN f) \in Nat
      /\ Cardinality(Names(f) \cap O) \in Nat
  BY <1>1, <1>2, FS_CardinalityType
<1>4. Cardinality(Names(f)) = Cardinality(Names(f) \cap O)
  BY ONLY <1>1, <1>2, <1>3, Cardinality(DOMAIN f) - Cardinality(Names(f) \cap O) = 0
<1>. QED
  BY <1>2, <1>4

\* Appending u to the order lowers by one what a plugin that needs u misses.
LEMMA CountAppend ==
  ASSUME NEW N, IsFiniteSet(N), NEW O, NEW u, u \notin O
  PROVE  /\ Cardinality(N \cap O) \in Nat
         /\ Cardinality(N \cap (O \cup {u})) =
              IF u \in N THEN Cardinality(N \cap O) + 1 ELSE Cardinality(N \cap O)
<1>1. IsFiniteSet(N \cap O)
  <2>1. N \cap O \in SUBSET N
    OBVIOUS
  <2>. QED
    BY <2>1, FS_Subset
<1>2. CASE u \in N
  <2>1. N \cap (O \cup {u}) = (N \cap O) \cup {u} /\ u \notin N \cap O
    BY <1>2
  <2>. QED
    BY <1>1, <1>2, <2>1, FS_AddElement, FS_CardinalityType, ZenonT(40)
<1>3. CASE u \notin N
  <2>1. N \cap (O \cup {u}) = N \cap O
    BY <1>3
  <2>. QED
    BY <1>1, <1>3, <2>1, FS_CardinalityType, ZenonT(40)
<1>. QED
  BY <1>2, <1>3

\* add_plugin yields a finite list.
LEMMA AddPluginFinite ==
  ASSUME SortInv, phase # "resolve", NEW p \in Nodes
  PROVE  /\ IsFiniteSet(DOMAIN graph[p])
         /\ graph[p] = [i \in DOMAIN graph[p] |-> graph[p][i]]
<1>1. graph[p] = add_plugin(p)
  BY DEF SortInv
<1>2. p \in Plugins
  BY DEF SortInv, Nodes, Names
<1>3. input.dependencies[p] \in Seq(Services)
  BY <1>2, InputsAssumption DEF SortInv
<1>4. IsFiniteSet(DOMAIN input.dependencies[p])
  <2>1. DOMAIN input.dependencies[p] = 1 .. Len(input.dependencies[p])
        /\ Len(input.dependencies[p]) \in Nat
    BY <1>3
  <2>. QED
    BY <2>1, FS_Interval
<1>5. Provided(p) \in SUBSET DOMAIN input.dependencies[p]
  BY DEF Provided
<1>6. IsFiniteSet(Provided(p))
  BY <1>4, <1>5, FS_Subset
<1>. QED
  BY <1>1, <1>6 DEF add_plugin, Edges

\* A queued plugin has all its providers in the order.
LEMMA QueuedReady ==
  ASSUME SortInv, phase = "sort", NEW u \in queue
  PROVE  /\ u \in Nodes \ Names(order)
         /\ in_degree[u] = 0
         /\ Names(graph[u]) \subseteq Names(order)
<1>1. u \in Nodes \ Names(order) /\ in_degree[u] = 0
  BY DEF SortInv
<1>2. IsFiniteSet(DOMAIN graph[u]) /\ graph[u] = [i \in DOMAIN graph[u] |-> graph[u][i]]
  BY <1>1, AddPluginFinite
<1>3. Cardinality(DOMAIN graph[u]) - Cardinality(Names(graph[u]) \cap Names(order)) = 0
  BY <1>1 DEF SortInv
<1>. QED
  BY <1>1, <1>2, <1>3, ZeroDegree

\* So has a plugin of the order.
LEMMA OrderedReady ==
  ASSUME SortInv, NEW p \in Names(order)
  PROVE  Names(graph[p]) \subseteq Names(order)
<1>1. PICK i \in DOMAIN order : order[i] = p
  BY DEF Names
<1>2. order \in Seq(Nodes)
  BY DEF SortInv
<1>3. Names(graph[p]) \subseteq Prefix(i - 1)
  BY <1>1 DEF SortInv, DependenciesFirst
<1>4. Prefix(i - 1) \subseteq Names(order)
  BY <1>2 DEF Prefix, Names
<1>. QED
  BY <1>3, <1>4

\* The graph stays what add_plugin made of the manifests.
LEMMA GraphSame ==
  ASSUME UNCHANGED <<input, resolved, graph>>, graph = [p \in Nodes |-> add_plugin(p)]
  PROVE  (graph = [p \in Nodes |-> add_plugin(p)])'
<1>1. ASSUME NEW s
      PROVE  Provider(resolved, s)' = Provider(resolved, s)
  BY DEF Provider
<1>2. ASSUME NEW p
      PROVE  add_plugin(p)' = add_plugin(p)
  <2>1. Provided(p)' = Provided(p)
    BY <1>1 DEF Provided
  <2>. QED
    BY <1>1, <2>1 DEF add_plugin, Edges
<1>3. Nodes' = Nodes
  BY DEF Nodes, Names
<1>. QED
  BY <1>2, <1>3

\* A round of topological_order's loop keeps the invariant.
LEMMA PopKeeps ==
  ASSUME SortInv, NEW u \in Nodes, PopFirst(u)
  PROVE  SortInv'
<1>. DEFINE O == Names(order)
            Missing(p, Q) == Cardinality(DOMAIN graph[p]) - Cardinality(Names(graph[p]) \cap Q)
<1>1. /\ phase = "sort" /\ phase' = "sort" /\ u \in queue
      /\ order' = Append(order, u)
      /\ in_degree' = [p \in Nodes |-> IF p \in Dependents(u) THEN in_degree[p] - 1
                                       ELSE in_degree[p]]
      /\ queue' = (queue \ {u}) \cup {p \in Dependents(u) : in_degree[p] = 1}
      /\ UNCHANGED <<input, resolved, graph>>
  BY DEF PopFirst, Pop, resolveVars
<1>2. Nodes' = Nodes
  BY <1>1 DEF Nodes, Names
<1>3. order \in Seq(Nodes) /\ order' \in Seq(Nodes) /\ Names(order') = O \cup {u}
  BY <1>1, NamesAppend DEF SortInv
<1>4. u \notin O /\ in_degree[u] = 0 /\ Names(graph[u]) \subseteq O
  BY <1>1, QueuedReady
<1>5. /\ DOMAIN order' = 1 .. Len(order) + 1 /\ DOMAIN order = 1 .. Len(order)
      /\ Len(order) \in Nat
      /\ \A i \in 1 .. Len(order) : order'[i] = order[i]
      /\ order'[Len(order) + 1] = u
  BY <1>1, <1>3
<1>6. \A i, j \in DOMAIN order' : order'[i] = order'[j] => i = j
  <2>1. \A i \in 1 .. Len(order) : order[i] \in O
    BY <1>5 DEF Names
  <2>2. \A i, j \in 1 .. Len(order) : order[i] = order[j] => i = j
    BY <1>5 DEF SortInv
  <2>. QED
    BY <1>4, <1>5, <2>1, <2>2
<1>7. \A p \in Nodes : in_degree'[p] = Missing(p, O \cup {u})
  <2>. SUFFICES ASSUME NEW p \in Nodes
                PROVE  in_degree'[p] = Missing(p, O \cup {u})
    OBVIOUS
  <2>1. in_degree[p] = Missing(p, O)
    BY <1>1 DEF SortInv
  <2>2. IsFiniteSet(DOMAIN graph[p]) /\ IsFiniteSet(Names(graph[p]))
    BY <1>1, AddPluginFinite, ImageFinite, ZenonT(40)
  <2>3. /\ Cardinality(Names(graph[p]) \cap O) \in Nat
        /\ Cardinality(DOMAIN graph[p]) \in Nat
        /\ Cardinality(Names(graph[p]) \cap (O \cup {u})) =
             IF u \in Names(graph[p]) THEN Cardinality(Names(graph[p]) \cap O) + 1
             ELSE Cardinality(Names(graph[p]) \cap O)
    BY <1>4, <2>2, CountAppend, FS_CardinalityType
  <2>4. in_degree'[p] = IF u \in Names(graph[p]) THEN in_degree[p] - 1 ELSE in_degree[p]
    BY <1>1 DEF Dependents
  <2>. HIDE DEF O
  <2>. QED
    BY <2>1, <2>3, <2>4
<1>8. \A p \in O : p \in Nodes /\ in_degree[p] = 0 /\ u \notin Names(graph[p])
  <2>. SUFFICES ASSUME NEW p \in O
                PROVE  p \in Nodes /\ in_degree[p] = 0 /\ u \notin Names(graph[p])
    OBVIOUS
  <2>1. p \in Nodes
    BY <1>3 DEF Names
  <2>2. in_degree[p] = 0
    BY <1>1 DEF SortInv
  <2>3. Names(graph[p]) \subseteq O
    BY OrderedReady
  <2>. QED
    BY <1>4, <2>1, <2>2, <2>3
<1>9. u \notin Dependents(u)
  BY <1>4 DEF Dependents
<1>10. \A p \in queue' : p \in Nodes \ (O \cup {u}) /\ in_degree'[p] = 0
  <2>. SUFFICES ASSUME NEW p \in queue'
                PROVE  p \in Nodes \ (O \cup {u}) /\ in_degree'[p] = 0
    OBVIOUS
  <2>1. CASE p \in queue \ {u}
    <3>1. p \in Nodes \ O /\ in_degree[p] = 0 /\ Names(graph[p]) \subseteq O
      BY <1>1, <2>1, QueuedReady
    <3>2. p \notin Dependents(u)
      BY <1>4, <3>1 DEF Dependents
    <3>. QED
      BY <1>1, <2>1, <3>1, <3>2
  <2>2. CASE p \in Dependents(u) /\ in_degree[p] = 1
    <3>1. p \in Nodes /\ p \notin O /\ p # u
      BY <1>8, <1>9, <2>2 DEF Dependents
    <3>. QED
      BY <1>1, <2>2, <3>1
  <2>. QED
    BY <1>1, <2>1, <2>2
<1>11. \A p \in O \cup {u} : in_degree'[p] = 0
  BY <1>1, <1>4, <1>8, <1>9 DEF Dependents
<1>12. \A i \in DOMAIN order' : Names(graph[order'[i]]) \subseteq {order'[j] : j \in 1 .. i - 1}
  <2>. SUFFICES ASSUME NEW i \in DOMAIN order'
                PROVE  Names(graph[order'[i]]) \subseteq {order'[j] : j \in 1 .. i - 1}
    OBVIOUS
  <2>1. CASE i \in 1 .. Len(order)
    <3>1. Names(graph[order[i]]) \subseteq Prefix(i - 1)
      BY <1>5, <2>1 DEF SortInv, DependenciesFirst
    <3>2. \A j \in 1 .. i - 1 : order'[j] = order[j]
      BY <1>5, <2>1
    <3>. QED
      BY <1>5, <2>1, <3>1, <3>2, ZenonT(40) DEF Prefix
  <2>2. CASE i = Len(order) + 1
    <3>1. O = {order'[j] : j \in 1 .. i - 1}
      BY <1>5, <2>2 DEF Names
    <3>. QED
      BY <1>4, <1>5, <2>2, <3>1
  <2>. QED
    BY <1>5, <2>1, <2>2
<1>13. DependenciesFirst'
  <2>1. graph' = graph /\ \A i : Prefix(i)' = {order'[j] : j \in 1 .. i}
    BY <1>1 DEF Prefix
  <2>2. \A q : Names(q)' = Names(q)
    BY DEF Names
  <2>3. \A i \in DOMAIN order' : Names(graph'[order'[i]]) \subseteq Prefix(i - 1)'
    BY ONLY <1>12, <2>1
  <2>. QED
    BY ONLY <2>3 DEF DependenciesFirst
<1>14. (graph = [p \in Nodes |-> add_plugin(p)])'
  BY <1>1, GraphSame DEF SortInv
<1>15. (input \in Inputs /\ resolved \in Seq(Plugins))'
  BY <1>1 DEF SortInv
<1>16. Names(order)' = O \cup {u} /\ \A p \in Nodes : Names(graph[p])' = Names(graph[p])
  BY <1>1, <1>3 DEF Names
<1>17. (/\ \A p \in Nodes : in_degree[p] = Cardinality(DOMAIN graph[p])
                              - Cardinality(Names(graph[p]) \cap Names(order))
        /\ \A p \in queue : p \in Nodes \ Names(order) /\ in_degree[p] = 0
        /\ \A p \in Names(order) : in_degree[p] = 0)'
  <2>. HIDE DEF O
  <2>. QED
    BY <1>1, <1>2, <1>7, <1>10, <1>11, <1>16, ZenonT(40)
<1>18. (order \in Seq(Nodes))' /\ phase' = "sort"
  BY <1>1, <1>2, <1>3
<1>. QED
  BY <1>6, <1>13, <1>14, <1>15, <1>17, <1>18, SMTT(40) DEF SortInv

\* DependenciesFirst depends on the graph and the order only.
LEMMA FirstSame ==
  ASSUME UNCHANGED <<graph, order>>, DependenciesFirst
  PROVE  DependenciesFirst'
<1>1. \A i : Prefix(i)' = Prefix(i)
  BY DEF Prefix
<1>. QED
  BY <1>1 DEF DependenciesFirst

\* Steps that leave the graph and the sort alone.
LEMMA SameKeeps ==
  ASSUME SortInv, UNCHANGED <<input, resolved, graph, sortVars>>,
         phase' = phase \/ (phase = "cycles" /\ phase' = "done")
  PROVE  SortInv'
<1>1. UNCHANGED <<input, resolved, graph, in_degree, queue, order>>
  BY DEF sortVars
<1>2. Nodes' = Nodes /\ Names(order)' = Names(order)
      /\ \A p : Names(graph[p])' = Names(graph[p])
  BY <1>1 DEF Nodes, Names
<1>3. DependenciesFirst'
  BY <1>1, FirstSame DEF SortInv
<1>4. (phase # "resolve" => graph = [p \in Nodes |-> add_plugin(p)])'
  BY <1>1, GraphSame DEF SortInv
<1>. QED
  BY <1>1, <1>2, <1>3, <1>4 DEF SortInv

\* Every step of the loader keeps the invariant.
LEMMA SortInvStep == SortInv /\ [Next]_vars => SortInv'
<1>. SUFFICES ASSUME SortInv, [Next]_vars
              PROVE  SortInv'
  OBVIOUS
<1>1. CASE Visit
  <2>1. /\ phase = "resolve" /\ phase' = "resolve" /\ order' = order /\ input' = input
        /\ graph' = graph
        /\ \/ resolved' = resolved
           \/ name \in Names(input.scan) /\ resolved' = Append(resolved, name)
    BY <1>1, ZenonT(40) DEF Visit, Take, sortVars
  <2>2. order = << >>
    BY <2>1 DEF SortInv
  <2>3. input \in Inputs /\ resolved \in Seq(Plugins)
    BY DEF SortInv
  <2>4. Names(input.scan) \subseteq Plugins
    BY <2>3, InputsAssumption DEF Names
  <2>5. resolved' \in Seq(Plugins)
    BY <2>1, <2>3, <2>4
  <2>. QED
    BY <2>1, <2>2, <2>3, <2>5, SMTT(40) DEF SortInv, DependenciesFirst
<1>2. CASE BuildGraph
  <2>1. /\ phase' = "cycles" /\ phase = "resolve" /\ UNCHANGED <<input, resolved, order>>
        /\ graph' = [p \in Nodes |-> add_plugin(p)]
    BY <1>2 DEF BuildGraph, resolveVars, sortVars
  <2>2. order = << >> /\ input \in Inputs /\ resolved \in Seq(Plugins)
    BY <2>1 DEF SortInv
  <2>3. ASSUME NEW p
        PROVE  add_plugin(p)' = add_plugin(p)
    <3>1. ASSUME NEW s
          PROVE  Provider(resolved, s)' = Provider(resolved, s)
      BY <2>1 DEF Provider
    <3>2. Provided(p)' = Provided(p)
      BY <2>1, <3>1 DEF Provided
    <3>. QED
      BY <2>1, <3>1, <3>2 DEF add_plugin, Edges
  <2>4. Nodes' = Nodes
    BY <2>1 DEF Nodes, Names
  <2>5. (graph = [p \in Nodes |-> add_plugin(p)])'
    BY <2>1, <2>3, <2>4
  <2>. QED
    BY <2>1, <2>2, <2>5, SMTT(40) DEF SortInv, DependenciesFirst
<1>3. CASE (\E p \in Nodes : DfsStart(p)) \/ DfsCycle \/ (\E d \in Nodes : DfsEnter(d)) \/ DfsLeave
  <2>1. UNCHANGED <<input, resolved, graph, sortVars>>
        /\ (phase' = phase \/ (phase = "cycles" /\ phase' = "done"))
    BY <1>3, SMTT(40) DEF DfsStart, DfsCycle, DfsEnter, DfsLeave, Leave, resolveVars
  <2>. QED
    BY <2>1, SameKeeps
<1>4. CASE SortStart
  <2>1. /\ phase = "cycles" /\ phase' = "sort" /\ UNCHANGED <<input, resolved, graph, order>>
        /\ in_degree' = [p \in Nodes |-> Cardinality(DOMAIN graph[p])]
        /\ queue' = {p \in Nodes : DOMAIN graph[p] = {}}
    BY <1>4 DEF SortStart, resolveVars
  <2>2. order = << >> /\ input \in Inputs /\ resolved \in Seq(Plugins)
    BY <2>1 DEF SortInv
  <2>3. Nodes' = Nodes /\ Names(order)' = {}
    BY <2>1, <2>2 DEF Nodes, Names
  <2>4. \A p \in Nodes : Cardinality(DOMAIN graph[p]) \in Nat
    BY <2>1, AddPluginFinite, FS_CardinalityType, ZenonT(40)
  <2>5. \A Q : Cardinality(Q \cap {}) = 0
    BY FS_EmptySet
  <2>6. (\A p \in Nodes : in_degree[p] = Cardinality(DOMAIN graph[p])
                              - Cardinality(Names(graph[p]) \cap Names(order)))'
    <3>1. \A p \in Nodes : Cardinality((Names(graph[p]) \cap Names(order))') = 0
      BY <2>3, <2>5
    <3>. QED
      BY <2>1, <2>3, <2>4, <3>1
  <2>7. (\A p \in queue : p \in Nodes \ Names(order) /\ in_degree[p] = 0)'
    BY <2>1, <2>3, FS_EmptySet, ZenonT(40)
  <2>8. (graph = [p \in Nodes |-> add_plugin(p)])'
    BY <2>1, GraphSame DEF SortInv
  <2>. QED
    BY <2>1, <2>2, <2>3, <2>6, <2>7, <2>8, SMTT(40) DEF SortInv, DependenciesFirst
<1>5. CASE \E u \in Nodes : PopFirst(u)
  BY <1>5, PopKeeps
<1>6. CASE SortEnd
  <2>1. /\ phase = "sort" /\ phase' = "done" /\ UNCHANGED <<input, resolved, graph>>
        /\ order' = IF Len(order) # Cardinality(Nodes) THEN << >> ELSE order
    BY <1>6 DEF SortEnd, FinishSort, resolveVars
  <2>2. Nodes' = Nodes
    BY <2>1 DEF Nodes, Names
  <2>3. (graph = [p \in Nodes |-> add_plugin(p)])'
    BY <2>1, GraphSame, SMTT(40) DEF SortInv
  <2>4. CASE order' = << >>
    BY <2>1, <2>3, <2>4, SMTT(40) DEF SortInv, DependenciesFirst
  <2>5. CASE order' = order /\ Len(order) = Cardinality(Nodes)
    <3>1. DependenciesFirst'
      BY <2>1, <2>5, FirstSame DEF SortInv
    <3>. QED
      BY <2>1, <2>2, <2>3, <2>5, <3>1, SMTT(40) DEF SortInv
  <2>. QED
    BY <2>1, <2>4, <2>5
<1>7. CASE UNCHANGED vars
  BY <1>7, SameKeeps DEF vars, resolveVars, sortVars
<1>. QED
  BY <1>1, <1>2, <1>3, <1>4, <1>5, <1>6, <1>7 DEF Next

\* Init and the steps establish the invariant.
THEOREM SortInvariant == Spec => []SortInv
<1>1. Init => SortInv
  <2>. SUFFICES ASSUME Init
                PROVE  SortInv
    OBVIOUS
  <2>1. input \in Inputs /\ resolved = << >> /\ order = << >> /\ phase = "resolve"
    BY DEF Init
  <2>. QED
    BY <2>1 DEF SortInv, DependenciesFirst
<1>. QED
  BY <1>1, SortInvStep, PTL DEF Spec

\* compute_load_order returns an order in which the providers of a plugin's
\* dependencies come before the plugin (plugin_loader.hpp:36), whatever the
\* manifests say.
THEOREM DependenciesComeFirst == Spec => []DependenciesFirst
<1>1. SortInv => DependenciesFirst
  BY DEF SortInv
<1>. QED
  BY <1>1, SortInvariant, PTL

\* In an order with dependencies first, each set of its plugins has one that
\* needs none of the set: the one that comes first.
LEMMA OrderAcyclic ==
  ASSUME SortInv, NEW S \in SUBSET Names(order), S # {}
  PROVE  \E p \in S : Names(graph[p]) \cap S = {}
<1>. DEFINE T == {i \in DOMAIN order : order[i] \in S}
<1>1. DOMAIN order = 1 .. Len(order) /\ Len(order) \in Nat
  BY DEF SortInv
<1>2. T \subseteq Nat /\ T # {}
  BY <1>1 DEF Names
<1>3. PICK i \in T : \A j \in T : i <= j
  <2>. HIDE DEF T
  <2>. QED
    BY <1>2, FirstExists
<1>4. Names(graph[order[i]]) \subseteq Prefix(i - 1)
  BY <1>3 DEF SortInv, DependenciesFirst
<1>5. Prefix(i - 1) \cap S = {}
  BY <1>1, <1>3 DEF Prefix
<1>. QED
  BY <1>3, <1>4, <1>5

\* The load order that bootstrap_plugins receives is empty or names every
\* resolved plugin once, and if there is a cycle it is empty: the size check
\* of topological_order is enough, even without has_cycle_from.
THEOREM OrderComplete == Spec => []NeverPartial
<1>1. SortInv => NeverPartial
  <2>. SUFFICES ASSUME SortInv, phase = "done", order # << >>
                PROVE  /\ Names(order) = Nodes /\ Len(order) = Cardinality(Nodes)
                       /\ Acyclic
    BY DEF NeverPartial
  <2>1. order \in Seq(Nodes) /\ Len(order) = Cardinality(Nodes)
        /\ \A i, j \in DOMAIN order : order[i] = order[j] => i = j
    BY DEF SortInv
  <2>2. Cardinality(Names(order)) = Cardinality(Nodes)
    BY <2>1, InjectiveLength
  <2>3. IsFiniteSet(Nodes)
    <3>1. Nodes \in SUBSET Plugins
      BY DEF SortInv, Nodes, Names
    <3>. QED
      BY <3>1, FS_Subset, InputsAssumption, ZenonT(40)
  <2>4. Names(order) \in SUBSET Nodes
    BY <2>1 DEF Names
  <2>5. Names(order) = Nodes
    BY <2>2, <2>3, <2>4, FS_Subset
  <2>6. Acyclic
    BY <2>5, OrderAcyclic DEF Acyclic
  <2>. QED
    BY <2>1, <2>5, <2>6
<1>. QED
  BY <1>1, SortInvariant, PTL
-----------------------------------------------------------------------------
\* A set of positions that is not empty has a greatest element.
LEMMA GreatestIn ==
  ASSUME NEW n \in Nat, NEW I \in SUBSET (1 .. n), I # {}
  PROVE  Greatest(I) \in I
<1>. DEFINE T == {n - i : i \in I}
<1>1. T \in SUBSET Nat /\ T # {}
  OBVIOUS
<1>2. PICK m \in T : \A j \in T : m <= j
  <2>. HIDE DEF T
  <2>. QED
    BY <1>1, FirstExists
<1>3. PICK i \in I : m = n - i
  BY <1>2
<1>4. ASSUME NEW j \in I PROVE j <= i
  <2>1. n - j \in T /\ i \in Nat /\ j \in Nat
    OBVIOUS
  <2>2. n - i <= n - j
    BY <1>2, <1>3, <2>1
  <2>. QED
    BY ONLY <2>1, <2>2, n \in Nat
<1>. QED
  BY <1>4, Zenon DEF Greatest

\* The provider of a service is one of the plugins registered.
LEMMA ProviderIn ==
  ASSUME NEW S, NEW q \in Seq(S), NEW s, Provider(q, s) # NoPlugin
  PROVE  Provider(q, s) \in Names(q)
<1>. DEFINE I == {i \in DOMAIN q : s \in input.provides[q[i]]}
<1>1. I \in SUBSET (1 .. Len(q)) /\ Len(q) \in Nat /\ I \subseteq DOMAIN q
  OBVIOUS
<1>2. I # {} /\ Provider(q, s) = q[Greatest(I)]
  BY DEF Provider
<1>3. Greatest(I) \in I
  <2>. HIDE DEF I
  <2>. QED
    BY <1>1, <1>2, GreatestIn
<1>. QED
  BY <1>1, <1>2, <1>3 DEF Names

\* What resolve_dependencies pushes are the plugins that are needed, and the
\* scan found them.
LEMMA NeedsIn ==
  ASSUME input \in Inputs, NEW p \in Plugins, NEW q \in Seq(Plugins)
  PROVE  /\ Needed(q, p) \subseteq Names(q)
         /\ \A l \in Needs(q, p) : l \in Seq(Plugins) /\ Names(l) = Needed(q, p)
<1>. DEFINE deps == input.dependencies[p]
            found == [i \in DOMAIN deps |-> Provider(q, deps[i])]
            I == {i \in DOMAIN found : found[i] # NoPlugin}
<1>1. deps \in Seq(Services)
  BY InputsAssumption
<1>2. Len(deps) \in Nat /\ DOMAIN deps = 1 .. Len(deps) /\ DOMAIN found = DOMAIN deps
  BY <1>1
<1>3. {found[i] : i \in I} = Needed(q, p)
  BY DEF Needed, Names
<1>4. Needed(q, p) \subseteq Names(q)
  BY ProviderIn DEF Needed, Names
<1>5. Names(q) \subseteq Plugins
  BY DEF Names
<1>6. ASSUME NEW l \in Needs(q, p) PROVE l \in Seq(Plugins) /\ Names(l) = Needed(q, p)
  <2>1. l \in Kept(found, I)
    BY DEF Needs
  <2>. HIDE DEF found, I
  <2>2. PICK o \in InOrder(I, Len(found)) : l = [k \in DOMAIN o |-> found[o[k]]]
    BY <2>1 DEF Kept
  <2>3. Len(found) \in Nat
    <3>1. found = [i \in 1 .. Len(deps) |-> found[i]]
      BY <1>2 DEF found
    <3>. QED
      BY <1>2, <3>1
  <2>4. PICK n \in 0 .. Len(found) : o \in [1 .. n -> I]
    BY <2>2 DEF InOrder
  <2>5. \A i \in I : \E k \in 1 .. n : o[k] = i
    BY <2>2, <2>4 DEF InOrder
  <2>6. DOMAIN l = 1 .. n /\ \A k \in 1 .. n : o[k] \in I /\ l[k] = found[o[k]]
    BY <2>2, <2>4
  <2>7. Names(l) = {found[i] : i \in I}
    BY <2>5, <2>6 DEF Names
  <2>8. l \in [1 .. n -> Plugins]
    BY <1>3, <1>4, <1>5, <2>2, <2>4, <2>6
  <2>. QED
    BY <1>3, <2>3, <2>4, <2>7, <2>8
<1>. QED
  BY <1>4, <1>6

\* What is left of a list without its last element.
LEMMA PopLast ==
  ASSUME NEW S, NEW q \in Seq(S), q # << >>
  PROVE  LET rest == SubSeq(q, 1, Len(q) - 1) IN
         /\ rest \in Seq(S) /\ Len(rest) = Len(q) - 1 /\ DOMAIN rest = 1 .. Len(q) - 1
         /\ \A i \in 1 .. Len(q) - 1 : rest[i] = q[i]
<1>1. Len(q) \in Nat /\ Len(q) > 0 /\ DOMAIN q = 1 .. Len(q)
  OBVIOUS
<1>. QED
  BY <1>1

\* Popping the last name of the stack, and pushing more.
LEMMA NamesPushPop ==
  ASSUME NEW S, NEW q \in Seq(S), q # << >>, NEW r \in Seq(S)
  PROVE  LET rest == SubSeq(q, 1, Len(q) - 1) IN
         /\ q[Len(q)] \in S /\ rest \in Seq(S) /\ rest \o r \in Seq(S)
         /\ Names(q) = Names(rest) \cup {q[Len(q)]}
         /\ Names(rest \o r) = Names(rest) \cup Names(r)
<1>. DEFINE rest == SubSeq(q, 1, Len(q) - 1)
<1>1. Len(q) \in Nat /\ Len(q) > 0 /\ DOMAIN q = 1 .. Len(q)
  OBVIOUS
<1>2. /\ rest \in Seq(S) /\ Len(rest) = Len(q) - 1 /\ DOMAIN rest = 1 .. Len(q) - 1
      /\ \A i \in 1 .. Len(q) - 1 : rest[i] = q[i]
  BY PopLast
<1>3. Names(q) = Names(rest) \cup {q[Len(q)]}
  <2>1. \A i : i \in 1 .. Len(q) <=> i \in 1 .. Len(q) - 1 \/ i = Len(q)
    BY <1>1
  <2>. HIDE DEF rest
  <2>. QED
    BY <1>1, <1>2, <2>1 DEF Names
<1>. HIDE DEF rest
<1>4. /\ Len(rest) \in Nat /\ Len(r) \in Nat
      /\ DOMAIN r = 1 .. Len(r) /\ DOMAIN rest = 1 .. Len(rest)
      /\ DOMAIN (rest \o r) = 1 .. Len(rest) + Len(r)
  <2>1. rest \in Seq(S)
    BY <1>2
  <2>2. rest \o r \in Seq(S) /\ Len(rest \o r) = Len(rest) + Len(r)
    BY ONLY <2>1, r \in Seq(S), ConcatProperties
  <2>. QED
    BY ONLY <2>1, <2>2, r \in Seq(S), LenProperties
<1>5. \A i \in 1 .. Len(rest) + Len(r) :
        (rest \o r)[i] = IF i <= Len(rest) THEN rest[i] ELSE r[i - Len(rest)]
  BY <1>2, ConcatProperties
<1>6. Names(rest \o r) = Names(rest) \cup Names(r)
  <2>1. \A i \in 1 .. Len(rest) + Len(r) : (rest \o r)[i] \in Names(rest) \cup Names(r)
    BY <1>4, <1>5 DEF Names
  <2>2. ASSUME NEW i \in 1 .. Len(rest) PROVE rest[i] \in Names(rest \o r)
    <3>1. i \in 1 .. Len(rest) + Len(r) /\ i <= Len(rest)
      BY <1>4
    <3>. QED
      BY <1>4, <1>5, <3>1 DEF Names
  <2>3. ASSUME NEW i \in 1 .. Len(r) PROVE r[i] \in Names(rest \o r)
    <3>1. /\ Len(rest) + i \in 1 .. Len(rest) + Len(r) /\ ~ (Len(rest) + i <= Len(rest))
          /\ (Len(rest) + i) - Len(rest) = i
      BY <1>4
    <3>2. (rest \o r)[Len(rest) + i] = r[i]
      BY <1>5, <3>1
    <3>. QED
      BY <1>4, <3>1, <3>2 DEF Names
  <2>. QED
    BY <1>4, <2>1, <2>2, <2>3 DEF Names
<1>7. rest \o r \in Seq(S) /\ q[Len(q)] \in S
  BY <1>1, <1>2
<1>. QED
  BY <1>2, <1>3, <1>6, <1>7 DEF rest

\* What a plugin needs depends on the manifests only.
LEMMA NeedsSame ==
  ASSUME input' = input
  PROVE  /\ \A p : Needed(input.scan, p)' = Needed(input.scan, p)
         /\ \A S : Closed(S)' = Closed(S)
<1>1. ASSUME NEW s PROVE Provider(input.scan, s)' = Provider(input.scan, s)
  BY DEF Provider
<1>2. ASSUME NEW p PROVE Needed(input.scan, p)' = Needed(input.scan, p)
  BY <1>1 DEF Needed, Names
<1>. QED
  BY <1>2 DEF Closed

\* A round of resolve_dependencies keeps the invariant.
LEMMA VisitKeeps ==
  ASSUME ResolveInv, Visit
  PROVE  ResolveInv'
<1>. DEFINE rest == SubSeq(stack, 1, Len(stack) - 1)
            N(p) == Needed(input.scan, p)
            scan == Names(input.scan)
<1>0. PICK need \in Needs(input.scan, name) : Take(need)
  BY DEF Visit
<1>1. phase = "resolve" /\ stack # << >> /\ UNCHANGED <<input, phase>>
  BY <1>0 DEF Take
<1>2. stack \in Seq(Plugins) /\ resolved \in Seq(Plugins) /\ input \in Inputs
  BY DEF ResolveInv
<1>3. input.scan \in Seq(Plugins)
  BY <1>2, InputsAssumption
<1>4. name \in Plugins /\ rest \in Seq(Plugins) /\ Names(stack) = Names(rest) \cup {name}
  BY <1>1, <1>2, NamesPushPop DEF name
<1>5. /\ \A p \in Plugins : N(p) \subseteq scan
      /\ need \in Seq(Plugins) /\ Names(need) = N(name)
  BY <1>2, <1>3, <1>4, NeedsIn
<1>6. Names(rest \o need) = Names(rest) \cup N(name) /\ rest \o need \in Seq(Plugins)
  BY <1>1, <1>2, <1>4, <1>5, NamesPushPop
<1>7. /\ Nodes \subseteq scan /\ unknown \cap scan = {}
      /\ Names(input.entries) \cap scan \subseteq Nodes \cup Names(stack)
      /\ \A p \in Nodes : N(p) \subseteq Nodes \cup Names(stack)
      /\ \A S \in SUBSET scan : Closed(S) => Nodes \subseteq S /\ Names(stack) \cap scan \subseteq S
  BY DEF ResolveInv
<1>8. /\ \A p : N(p)' = N(p)
      /\ \A S : Closed(S)' = Closed(S)
      /\ scan' = scan /\ Names(input.entries)' = Names(input.entries)
  <2>1. \A q : Names(q)' = Names(q)
    BY DEF Names
  <2>. QED
    BY <1>1, NeedsSame
<1>9. Nodes \subseteq Plugins
  BY <1>2 DEF Nodes, Names
<1>. DEFINE Goal(stk, nds, unk) ==
       /\ stk \in Seq(Plugins) /\ nds \subseteq scan /\ unk \cap scan = {}
       /\ Names(input.entries) \cap scan \subseteq nds \cup Names(stk)
       /\ \A p \in nds : N(p) \subseteq nds \cup Names(stk)
       /\ \A S \in SUBSET scan : Closed(S) => nds \subseteq S /\ Names(stk) \cap scan \subseteq S
<1>10. ASSUME Goal(stack', Nodes', unknown'), resolved' \in Seq(Plugins)
       PROVE  ResolveInv'
  <2>1. Names(stack)' = Names(stack')
    BY DEF Names
  <2>. HIDE DEF scan, N
  <2>2. \A p \in Nodes' : N(p)' \subseteq Nodes' \cup Names(stack)'
    BY <1>8, <1>10, <2>1
  <2>3. \A S \in SUBSET scan' : Closed(S)' =>
          Nodes' \subseteq S /\ Names(stack)' \cap scan' \subseteq S
    BY <1>8, <1>10, <2>1
  <2>4. /\ input' \in Inputs /\ stack' \in Seq(Plugins) /\ phase' = "resolve"
        /\ Nodes' \subseteq scan' /\ unknown' \cap scan' = {}
        /\ Names(input.entries)' \cap scan' \subseteq Nodes' \cup Names(stack)'
    BY <1>1, <1>2, <1>8, <1>10, <2>1
  <2>. QED
    BY <1>10, <2>2, <2>3, <2>4 DEF ResolveInv, N, scan
<1>11. CASE name \in Nodes \cup unknown /\ stack' = rest /\ UNCHANGED <<resolved, unknown>>
  <2>1. Nodes' = Nodes
    BY <1>11 DEF Nodes, Names
  <2>2. Names(stack) \cap scan \subseteq Nodes \cup Names(rest)
    BY <1>4, <1>7, <1>11
  <2>3. \A p \in Nodes : N(p) \subseteq Nodes \cup Names(rest)
    <3>. HIDE DEF N, scan, rest
    <3>. QED
      BY <1>5, <1>7, <1>9, <2>2
  <2>4. Goal(rest, Nodes, unknown)
    <3>. HIDE DEF N, scan, rest
    <3>. QED
      BY <1>4, <1>7, <2>2, <2>3
  <2>. QED
    BY <1>2, <1>10, <1>11, <2>1, <2>4
<1>12. CASE /\ name \notin scan /\ stack' = rest /\ unknown' = unknown \cup {name}
            /\ resolved' = resolved
  <2>1. Nodes' = Nodes
    BY <1>12 DEF Nodes, Names
  <2>2. Names(stack) \cap scan \subseteq Nodes \cup Names(rest)
    BY <1>4, <1>12
  <2>3. \A p \in Nodes : N(p) \subseteq Nodes \cup Names(rest)
    <3>. HIDE DEF N, scan, rest
    <3>. QED
      BY <1>5, <1>7, <1>9, <2>2
  <2>4. Goal(rest, Nodes, unknown \cup {name})
    <3>. HIDE DEF N, scan, rest
    <3>. QED
      BY <1>4, <1>7, <1>12, <2>2, <2>3
  <2>. QED
    BY <1>2, <1>10, <1>12, <2>1, <2>4
<1>13. CASE /\ name \in scan /\ stack' = rest \o need
            /\ resolved' = Append(resolved, name) /\ unknown' = unknown
  <2>1. Nodes' = Nodes \cup {name} /\ resolved' \in Seq(Plugins)
    BY <1>2, <1>4, <1>13, NamesAppend DEF Nodes
  <2>2. ASSUME NEW S \in SUBSET scan, Closed(S)
        PROVE  Nodes \cup {name} \subseteq S /\ Names(rest) \cup N(name) \subseteq S \cup (Names(rest) \ scan)
    <3>1. Nodes \subseteq S /\ Names(stack) \cap scan \subseteq S
      BY <1>7, <2>2
    <3>2. name \in S
      BY <1>4, <1>13, <3>1
    <3>3. N(name) \subseteq S
      BY <2>2, <3>2 DEF Closed
    <3>. QED
      BY <1>4, <3>1, <3>2, <3>3
  <2>3. Goal(rest \o need, Nodes \cup {name}, unknown)
    <3>. HIDE DEF N, scan, rest
    <3>1. Names(input.entries) \cap scan \subseteq Nodes \cup {name} \cup Names(rest \o need)
      BY <1>4, <1>6, <1>7
    <3>2. \A p \in Nodes \cup {name} : N(p) \subseteq Nodes \cup {name} \cup Names(rest \o need)
      BY <1>4, <1>6, <1>7
    <3>3. \A S \in SUBSET scan : Closed(S) =>
            Nodes \cup {name} \subseteq S /\ Names(rest \o need) \cap scan \subseteq S
      BY <1>6, <2>2
    <3>. QED
      BY <1>6, <1>7, <1>13, <3>1, <3>2, <3>3
  <2>. QED
    BY <1>10, <1>13, <2>1, <2>3
<1>. QED
  BY <1>0, <1>11, <1>12, <1>13 DEF Take

\* resolve_dependencies yields the entry plugins that the scan found and all
\* that they need through the services of others, and nothing else, for any
\* manifests: cyclic ones, services that nobody or several plugins provide, and
\* entry plugins named twice or not at all.
THEOREM ResolvedExactly == Spec => []ResolvesClosure
<1>1. Init => ResolveInv
  <2>. SUFFICES ASSUME Init PROVE ResolveInv
    OBVIOUS
  <2>1. /\ input \in Inputs /\ phase = "resolve" /\ stack = input.entries
        /\ resolved = << >> /\ unknown = {}
    BY DEF Init
  <2>2. Nodes = {} /\ resolved \in Seq(Plugins) /\ stack \in Seq(Plugins)
    BY <2>1, InputsAssumption DEF Nodes, Names
  <2>. QED
    BY <2>1, <2>2 DEF ResolveInv, Closed
<1>2. ResolveInv /\ [Next]_vars => ResolveInv'
  <2>. SUFFICES ASSUME ResolveInv, [Next]_vars PROVE ResolveInv'
    OBVIOUS
  <2>1. CASE Visit
    BY <2>1, VisitKeeps
  <2>2. CASE /\ UNCHANGED <<input, resolveVars>>
             /\ phase' # "resolve" => phase # "resolve" \/ stack = << >>
    <3>1. UNCHANGED <<input, stack, resolved, unknown>>
      BY <2>2 DEF resolveVars
    <3>2. \A q : Names(q)' = Names(q)
      BY DEF Names
    <3>3. Nodes' = Nodes /\ Names(stack)' = Names(stack) /\ Names(input.scan)' = Names(input.scan)
          /\ Names(input.entries)' = Names(input.entries)
      BY <3>1 DEF Nodes, Names
    <3>4. \A p : Needed(input.scan, p)' = Needed(input.scan, p)
      BY <3>1, NeedsSame
    <3>5. \A S : Closed(S)' = Closed(S)
      BY <3>1, NeedsSame
    <3>. QED
      BY <2>2, <3>1, <3>3, <3>4, <3>5 DEF ResolveInv
  <2>3. CASE Next /\ ~Visit
    <3>1. /\ UNCHANGED <<input, resolveVars>>
          /\ phase' # "resolve" => phase # "resolve" \/ stack = << >>
      BY <2>3 DEF Next, BuildGraph, DfsStart, DfsCycle, DfsEnter, DfsLeave, Leave,
                   SortStart, PopFirst, Pop, SortEnd, FinishSort
    <3>. QED
      BY <2>2, <3>1
  <2>4. CASE UNCHANGED vars
    <3>1. UNCHANGED <<input, phase, resolveVars>>
      BY <2>4 DEF vars
    <3>. QED
      BY <2>2, <3>1
  <2>. QED
    BY <2>1, <2>3, <2>4
<1>3. ResolveInv => ResolvesClosure
  <2>. SUFFICES ASSUME ResolveInv, phase # "resolve"
                PROVE  /\ Closed(Nodes)
                       /\ \A S \in SUBSET Names(input.scan) : Closed(S) => Nodes \subseteq S
    BY DEF ResolvesClosure
  <2>1. Names(stack) = {}
    BY DEF ResolveInv, Names
  <2>. QED
    BY <2>1 DEF ResolveInv, Closed
<1>. QED
  BY <1>1, <1>2, <1>3, PTL DEF Spec
-----------------------------------------------------------------------------
\* The providers that add_plugin records are resolved plugins.
LEMMA GraphInside ==
  ASSUME SortInv, phase # "resolve", NEW p \in Nodes
  PROVE  Names(graph[p]) \subseteq Nodes
<1>1. graph[p] = add_plugin(p) /\ resolved \in Seq(Plugins)
  BY DEF SortInv
<1>2. \A i \in Provided(p) : Provider(resolved, input.dependencies[p][i]) \in Names(resolved)
  BY <1>1, ProviderIn DEF Provided
<1>. QED
  BY <1>1, <1>2 DEF add_plugin, Edges, Names, Nodes

\* A list of providers is as long as it has values exactly when none is twice.
LEMMA TwinCount ==
  ASSUME NEW f, IsFiniteSet(DOMAIN f), f = [x \in DOMAIN f |-> f[x]]
  PROVE  Cardinality(Names(f)) = Cardinality(DOMAIN f)
           <=> \A s, t \in DOMAIN f : f[s] = f[t] => s = t
<1>1. f \in Surjection(DOMAIN f, Names(f))
  BY DEF Names, Surjection
<1>2. Cardinality(Names(f)) = Cardinality(DOMAIN f) <=> f \in Injection(DOMAIN f, Names(f))
  BY ONLY <1>1, FS_Surjection, IsFiniteSet(DOMAIN f)
<1>3. f \in [DOMAIN f -> Names(f)]
  BY DEF Names
<1>4. f \in Injection(DOMAIN f, Names(f)) <=> \A s, t \in DOMAIN f : f[s] = f[t] => s = t
  BY <1>3 DEF Injection, IsInjective
<1>. QED
  BY <1>2, <1>4

\* In-degree 0 means that every provider is in the order and was counted once.
LEMMA DegreeZero ==
  ASSUME SortInv, phase = "sort", NEW p \in Nodes
  PROVE  /\ in_degree[p] \in Int
         /\ in_degree[p] = 0 <=> Names(graph[p]) \subseteq Names(order) /\ ~Twin(p)
<1>. DEFINE f == graph[p]
            D == Cardinality(DOMAIN f)
            M == Cardinality(Names(f))
            C == Cardinality(Names(f) \cap Names(order))
<1>1. IsFiniteSet(DOMAIN f) /\ f = [i \in DOMAIN f |-> f[i]]
  BY AddPluginFinite
<1>2. IsFiniteSet(Names(f)) /\ M <= D
  BY <1>1, ImageFinite
<1>3. IsFiniteSet(Names(f) \cap Names(order)) /\ C <= M
      /\ (M = C => Names(f) = Names(f) \cap Names(order))
  <2>1. Names(f) \cap Names(order) \in SUBSET Names(f)
    OBVIOUS
  <2>. QED
    BY ONLY <1>2, <2>1, FS_Subset
<1>4. D \in Nat /\ M \in Nat /\ C \in Nat
  BY <1>1, <1>2, <1>3, FS_CardinalityType
<1>5. in_degree[p] = D - C
  BY DEF SortInv
<1>6. M = D <=> ~Twin(p)
  BY <1>1, TwinCount DEF Twin
<1>7. Names(f) \subseteq Names(order) => C = M
  <2>1. Names(f) \subseteq Names(order) => Names(f) \cap Names(order) = Names(f)
    OBVIOUS
  <2>. QED
    BY <2>1
<1>8. M = C <=> Names(f) \subseteq Names(order)
  BY <1>3, <1>7
<1>9. D - C = 0 <=> M = C /\ M = D
  <2>. HIDE DEF D, M, C
  <2>. QED
    BY <1>2, <1>3, <1>4
<1>10. in_degree[p] \in Int
  <2>. HIDE DEF D, M, C
  <2>. QED
    BY <1>4, <1>5
<1>. QED
  BY <1>5, <1>6, <1>8, <1>9, <1>10

\* What is said of the graph stays true while the graph does.
LEMMA GraphFacts ==
  ASSUME UNCHANGED <<input, resolved, graph>>
  PROVE  /\ Nodes' = Nodes /\ Acyclic' = Acyclic /\ Twins' = Twins
         /\ \A p : Names(graph[p])' = Names(graph[p]) /\ Twin(p)' = Twin(p)
         /\ \A p, q : Sooner(p, q)' = Sooner(p, q)
<1>1. Nodes' = Nodes
  BY DEF Nodes, Names
<1>2. ASSUME NEW p PROVE Names(graph[p])' = Names(graph[p]) /\ Twin(p)' = Twin(p)
  BY DEF Names, Twin
<1>3. \A p, q : Sooner(p, q)' = Sooner(p, q)
  BY DEF Sooner
<1>. QED
  BY <1>1, <1>2, <1>3 DEF Acyclic, Twins

\* A round of the loop keeps the order the least: what comes first is the first
\* of all that are ready.
LEMMA ReadyPop ==
  ASSUME SortInv, ReadyInv, NEW u \in Nodes, PopFirst(u)
  PROVE  ReadyInv'
<1>. DEFINE O == Names(order)
<1>1. /\ phase = "sort" /\ phase' = "sort" /\ u \in queue /\ First(u)
      /\ order' = Append(order, u)
      /\ in_degree' = [p \in Nodes |-> IF p \in Dependents(u) THEN in_degree[p] - 1
                                       ELSE in_degree[p]]
      /\ queue' = (queue \ {u}) \cup {p \in Dependents(u) : in_degree[p] = 1}
      /\ UNCHANGED <<input, resolved, graph>>
  BY DEF PopFirst, Pop, resolveVars
<1>2. /\ Nodes' = Nodes
      /\ \A p : Names(graph[p])' = Names(graph[p]) /\ Twin(p)' = Twin(p)
      /\ \A p, q : Sooner(p, q)' = Sooner(p, q)
  BY <1>1, GraphFacts
<1>3. order \in Seq(Nodes) /\ Names(order') = O \cup {u}
  BY <1>1, NamesAppend DEF SortInv
<1>4. /\ DOMAIN order' = 1 .. Len(order) + 1 /\ DOMAIN order = 1 .. Len(order)
      /\ Len(order) \in Nat
      /\ \A i \in 1 .. Len(order) : order'[i] = order[i]
      /\ order'[Len(order) + 1] = u
  BY <1>1, <1>3
<1>5. Names(order)' = O \cup {u}
  BY <1>3 DEF Names
<1>6. ASSUME NEW q \in Nodes' \ Names(order)', in_degree'[q] = 0
      PROVE  q \in queue'
  <2>1. q \in Nodes /\ q \notin O /\ q # u /\ in_degree[q] \in Int
    BY <1>1, <1>2, <1>5, <1>6, DegreeZero
  <2>2. CASE q \in Dependents(u)
    <3>1. in_degree[q] - 1 = 0
      BY <1>1, <1>6, <2>1, <2>2
    <3>2. in_degree[q] = 1
      BY ONLY <2>1, <3>1
    <3>. QED
      BY <1>1, <2>2, <3>2
  <2>3. CASE q \notin Dependents(u)
    <3>1. in_degree[q] = 0
      BY <1>1, <1>6, <2>1, <2>3
    <3>. QED
      BY <1>1, <2>1, <3>1 DEF ReadyInv
  <2>. QED
    BY <2>2, <2>3
<1>7. /\ \A i \in 0 .. Len(order) : Prefix(i)' = Prefix(i)
      /\ Prefix(Len(order)) = O
      /\ \A i \in Nat : i = Len(order) + 1 => Prefix(i)' = O \cup {u}
  <2>1. ASSUME NEW i \in 0 .. Len(order) PROVE Prefix(i)' = Prefix(i)
    <3>1. \A j \in 1 .. i : order'[j] = order[j]
      BY <1>4
    <3>2. Prefix(i)' = {order'[j] : j \in 1 .. i}
      BY DEF Prefix
    <3>. QED
      BY <3>1, <3>2 DEF Prefix
  <2>2. Prefix(Len(order)) = O
    BY <1>4 DEF Prefix, Names
  <2>3. ASSUME NEW i \in Nat, i = Len(order) + 1 PROVE Prefix(i)' = Names(order')
    <3>1. Prefix(i)' = {order'[j] : j \in 1 .. i}
      BY DEF Prefix
    <3>. QED
      BY <1>4, <2>3, <3>1 DEF Names
  <2>. QED
    BY <1>3, <2>1, <2>2, <2>3
<1>8. ASSUME NEW i \in DOMAIN order', NEW q \in Nodes' \ Prefix(i)',
             Names(graph[q])' \subseteq Prefix(i - 1)', ~Twin(q)'
      PROVE  Sooner(order[i], q)'
  <2>1. q \in Nodes /\ ~Twin(q)
    BY <1>2, <1>8
  <2>2. CASE i \in 1 .. Len(order)
    <3>1. i \in 0 .. Len(order) /\ i - 1 \in 0 .. Len(order) /\ i \in DOMAIN order
      BY <1>4, <2>2
    <3>2. q \notin Prefix(i) /\ Names(graph[q]) \subseteq Prefix(i - 1)
      BY <1>2, <1>7, <1>8, <3>1
    <3>3. Sooner(order[i], q)
      BY <2>1, <3>1, <3>2 DEF ReadyInv
    <3>4. order'[i] = order[i]
      BY <1>4, <2>2
    <3>. QED
      BY <1>1, <3>3, <3>4 DEF Sooner
  <2>3. CASE i = Len(order) + 1
    <3>1. i - 1 = Len(order) /\ Len(order) \in 0 .. Len(order) /\ i \in Nat
          /\ i - 1 \in 0 .. Len(order)
      BY <1>4, <2>3
    <3>2. q \notin O \cup {u} /\ Names(graph[q]) \subseteq O
      BY <1>2, <1>7, <1>8, <2>3, <3>1
    <3>3. in_degree[q] = 0
      BY <1>1, <2>1, <3>2, DegreeZero
    <3>4. q \in queue \ {u}
      BY <1>1, <2>1, <3>2, <3>3 DEF ReadyInv
    <3>5. Sooner(u, q) /\ order'[i] = u
      BY <1>1, <1>4, <2>3, <3>4 DEF First
    <3>. QED
      BY <1>1, <3>5 DEF Sooner
  <2>. QED
    BY <1>4, <2>2, <2>3
<1>. QED
  BY <1>6, <1>8 DEF ReadyInv

\* Every step keeps it.
LEMMA ReadyNext == SortInv /\ SortInv' /\ ReadyInv /\ [Next]_vars => ReadyInv'
<1>. SUFFICES ASSUME SortInv, SortInv', ReadyInv, [Next]_vars PROVE ReadyInv'
  OBVIOUS
<1>1. ASSUME order' = << >>, phase' # "sort" PROVE ReadyInv'
  BY <1>1 DEF ReadyInv
<1>2. CASE \E u \in Nodes : PopFirst(u)
  BY <1>2, ReadyPop
<1>3. CASE SortStart
  <2>1. /\ phase = "cycles" /\ phase' = "sort" /\ UNCHANGED <<input, resolved, graph, order>>
        /\ in_degree' = [p \in Nodes |-> Cardinality(DOMAIN graph[p])]
        /\ queue' = {p \in Nodes : DOMAIN graph[p] = {}}
    BY <1>3 DEF SortStart, resolveVars
  <2>2. order' = << >>
    BY <2>1 DEF SortInv
  <2>3. Nodes' = Nodes
    BY <2>1, GraphFacts
  <2>4. ASSUME NEW q \in Nodes, in_degree'[q] = 0 PROVE q \in queue'
    <3>1. IsFiniteSet(DOMAIN graph[q]) /\ Cardinality(DOMAIN graph[q]) = 0
      BY <2>1, <2>4, AddPluginFinite
    <3>2. DOMAIN graph[q] = {}
      BY ONLY <3>1, FS_EmptySet
    <3>. QED
      BY <2>1, <3>2
  <2>. QED
    BY <2>2, <2>3, <2>4 DEF ReadyInv
<1>4. CASE SortEnd
  <2>1. /\ phase' = "done" /\ UNCHANGED <<input, resolved, graph>>
        /\ order' = << >> \/ order' = order
    BY <1>4 DEF SortEnd, FinishSort, resolveVars
  <2>2. CASE order' = << >>
    BY <1>1, <2>1, <2>2
  <2>3. CASE order' = order
    <3>1. \A i : Prefix(i)' = Prefix(i)
      BY <2>3 DEF Prefix
    <3>2. /\ Nodes' = Nodes
          /\ \A p : Names(graph[p])' = Names(graph[p]) /\ Twin(p)' = Twin(p)
      BY <2>1, GraphFacts
    <3>3. \A i \in DOMAIN order : \A q : Sooner(order[i], q)' = Sooner(order[i], q)
      BY <2>1, <2>3 DEF Sooner
    <3>. QED
      BY <2>1, <2>3, <3>1, <3>2, <3>3 DEF ReadyInv
  <2>. QED
    BY <2>1, <2>2, <2>3
<1>5. CASE \/ Visit \/ BuildGraph \/ (\E p \in Nodes : DfsStart(p)) \/ DfsCycle
           \/ (\E d \in Nodes : DfsEnter(d)) \/ DfsLeave
  <2>1. phase \in {"resolve", "cycles"} /\ phase' \in {"resolve", "cycles", "done"} /\ order' = order
    BY <1>5 DEF Visit, Take, BuildGraph, DfsStart, DfsCycle, DfsEnter, DfsLeave, Leave, sortVars
  <2>2. order = << >>
    BY <2>1 DEF SortInv
  <2>. QED
    BY <1>1, <2>1, <2>2
<1>6. CASE UNCHANGED vars
  <2>1. UNCHANGED <<input, resolved, graph, phase, order, in_degree, queue>>
    BY <1>6 DEF vars, resolveVars, sortVars
  <2>2. \A i : Prefix(i)' = Prefix(i)
    BY <2>1 DEF Prefix
  <2>3. /\ Nodes' = Nodes /\ Names(order)' = Names(order)
        /\ \A p : Names(graph[p])' = Names(graph[p]) /\ Twin(p)' = Twin(p)
    BY <2>1, GraphFacts DEF Names
  <2>4. \A i \in DOMAIN order : \A q : Sooner(order[i], q)' = Sooner(order[i], q)
    BY <2>1 DEF Sooner
  <2>. QED
    BY <2>1, <2>2, <2>3, <2>4 DEF ReadyInv
<1>. QED
  BY <1>2, <1>3, <1>4, <1>5, <1>6 DEF Next

\* The plugins being visited stay a path of the graph.
LEMMA PathNext == SortInv /\ PathInv /\ [Next]_vars => PathInv'
<1>. SUFFICES ASSUME SortInv, PathInv, [Next]_vars PROVE PathInv'
  OBVIOUS
<1>1. visiting \in Seq(Nodes) /\ Len(visiting) \in Nat
  BY DEF PathInv
<1>2. ASSUME visiting' = << >> PROVE PathInv'
  BY <1>2 DEF PathInv
<1>3. CASE Visit \/ BuildGraph
  <2>1. phase = "resolve" /\ visiting' = visiting
    BY <1>3 DEF Visit, Take, BuildGraph, dfsVars
  <2>. QED
    BY <1>2, <2>1 DEF PathInv
<1>4. CASE \E p \in Nodes : DfsStart(p)
  <2>1. PICK p \in Nodes : DfsStart(p)
    BY <1>4
  <2>2. visiting' = <<p>> /\ phase' = "cycles" /\ UNCHANGED <<resolved, graph>>
    BY <2>1 DEF DfsStart, resolveVars
  <2>3. Nodes' = Nodes
    BY <2>2 DEF Nodes, Names
  <2>. QED
    BY <2>2, <2>3 DEF PathInv
<1>5. CASE \E d \in Nodes : DfsEnter(d)
  <2>1. PICK d \in Nodes : DfsEnter(d)
    BY <1>5
  <2>2. /\ visiting' = Append(visiting, d) /\ phase' = "cycles" /\ UNCHANGED <<resolved, graph>>
        /\ visiting # << >> /\ d \in Names(graph[visiting[Len(visiting)]])
    BY <2>1 DEF DfsEnter, resolveVars, Top
  <2>3. Nodes' = Nodes /\ \A p : Names(graph[p])' = Names(graph[p])
    BY <2>2 DEF Nodes, Names
  <2>4. /\ Len(visiting') = Len(visiting) + 1 /\ visiting'[Len(visiting) + 1] = d
        /\ \A i \in 1 .. Len(visiting) : visiting'[i] = visiting[i]
        /\ visiting' \in Seq(Nodes)
    BY <1>1, <2>2
  <2>5. ASSUME NEW i \in 1 .. Len(visiting') - 1
        PROVE  visiting'[i + 1] \in Names(graph[visiting[i]])'
    <3>1. i \in 1 .. Len(visiting) /\ visiting'[i] = visiting[i]
      BY <1>1, <2>4
    <3>2. visiting'[i + 1] \in Names(graph[visiting[i]])
      <4>1. CASE i = Len(visiting)
        BY <2>2, <2>4, <4>1
      <4>2. CASE i \in 1 .. Len(visiting) - 1
        <5>1. i + 1 \in 1 .. Len(visiting)
          BY <1>1, <4>2
        <5>. QED
          BY <2>4, <4>2, <5>1 DEF PathInv
      <4>. QED
        BY <1>1, <3>1, <4>1, <4>2
    <3>. QED
      BY <2>2, <3>1, <3>2 DEF Names
  <2>. QED
    BY <2>2, <2>3, <2>4, <2>5 DEF PathInv
<1>6. CASE DfsLeave
  <2>1. /\ visiting' = SubSeq(visiting, 1, Len(visiting) - 1) /\ phase' = "cycles"
        /\ UNCHANGED <<resolved, graph>> /\ visiting # << >>
    BY <1>6 DEF DfsLeave, Leave, resolveVars
  <2>2. Nodes' = Nodes
    BY <2>1 DEF Nodes, Names
  <2>3. /\ visiting' \in Seq(Nodes) /\ Len(visiting') = Len(visiting) - 1
        /\ \A i \in 1 .. Len(visiting) - 1 : visiting'[i] = visiting[i]
    <3>1. Len(visiting) > 0
      BY <1>1, <2>1
    <3>. QED
      BY <1>1, <2>1, <3>1, PopLast
  <2>4. ASSUME NEW i \in 1 .. Len(visiting') - 1
        PROVE  visiting'[i + 1] \in Names(graph[visiting[i]])'
    <3>1. i \in 1 .. Len(visiting) - 1 /\ i + 1 \in 1 .. Len(visiting) - 1
      BY <1>1, <2>3
    <3>2. visiting[i + 1] \in Names(graph[visiting[i]])
      BY <3>1 DEF PathInv
    <3>. QED
      BY <2>1, <2>3, <3>1, <3>2 DEF Names
  <2>. QED
    BY <2>1, <2>2, <2>3, <2>4 DEF PathInv
<1>7. CASE DfsCycle \/ SortStart \/ (\E u \in Nodes : PopFirst(u)) \/ SortEnd \/ UNCHANGED vars
  <2>1. UNCHANGED <<resolved, graph, visiting>> /\ (phase' = "resolve" => phase = "resolve")
    BY <1>7 DEF DfsCycle, SortStart, PopFirst, Pop, SortEnd, FinishSort, vars, resolveVars, dfsVars
  <2>2. Nodes' = Nodes
    BY <2>1 DEF Nodes, Names
  <2>. QED
    BY <2>1, <2>2 DEF PathInv, Names
<1>. QED
  BY <1>3, <1>4, <1>5, <1>6, <1>7 DEF Next

\* has_cycle_from reports a cycle only if there is one.
LEMMA CycleFound ==
  ASSUME PathInv, DfsCycle
  PROVE  ~Acyclic
<1>. DEFINE n == Len(visiting)
<1>1. visiting \in Seq(Nodes) /\ n \in Nat /\ n > 0 /\ DOMAIN visiting = 1 .. n
  BY DEF PathInv, DfsCycle
<1>2. PICK d \in Names(graph[visiting[n]]) : d \in Names(visiting)
  BY DEF DfsCycle, Top
<1>3. PICK k \in 1 .. n : visiting[k] = d
  BY <1>1, <1>2 DEF Names
<1>. DEFINE S == {visiting[i] : i \in k .. n}
<1>4. S \in (SUBSET Nodes) \ {{}}
  BY <1>1
<1>5. ASSUME NEW p \in S PROVE Names(graph[p]) \cap S # {}
  <2>1. PICK i \in k .. n : visiting[i] = p
    BY <1>5
  <2>2. CASE i = n
    <3>1. d \in S
      BY <1>1, <1>3
    <3>. QED
      BY <1>2, <2>1, <2>2, <3>1
  <2>3. CASE i < n
    <3>1. i \in 1 .. n - 1 /\ i + 1 \in k .. n
      BY <1>1, <2>1, <2>3
    <3>2. visiting[i + 1] \in Names(graph[visiting[i]])
      BY <3>1 DEF PathInv
    <3>3. visiting[i + 1] \in S
      BY <3>1
    <3>. QED
      BY <2>1, <3>2, <3>3
  <2>4. i = n \/ i < n
    <3>1. i \in k .. n /\ k \in 1 .. n
      BY <1>3, <2>1
    <3>. HIDE DEF n
    <3>. QED
      BY ONLY <1>1, <3>1
  <2>. QED
    BY ONLY <2>2, <2>3, <2>4
<1>. QED
  BY <1>4, <1>5, Zenon DEF Acyclic

\* The resolved plugins are finitely many.
LEMMA NodesFinite == SortInv => IsFiniteSet(Nodes)
<1>. SUFFICES ASSUME SortInv PROVE IsFiniteSet(Nodes)
  OBVIOUS
<1>1. Nodes \in SUBSET Plugins
  BY DEF SortInv, Nodes, Names
<1>. QED
  BY <1>1, FS_Subset, InputsAssumption, ZenonT(40)

\* The size check of topological_order tells whether all plugins were appended.
LEMMA SizeCheck ==
  ASSUME SortInv
  PROVE  Len(order) = Cardinality(Nodes) <=> Names(order) = Nodes
<1>1. order \in Seq(Nodes) /\ \A i, j \in DOMAIN order : order[i] = order[j] => i = j
  BY DEF SortInv
<1>2. Cardinality(Names(order)) = Len(order)
  BY <1>1, InjectiveLength
<1>3. Names(order) \in SUBSET Nodes
  BY <1>1 DEF Names
<1>4. Cardinality(Names(order)) = Cardinality(Nodes) => Names(order) = Nodes
  BY <1>3, NodesFinite, FS_Subset
<1>. QED
  BY <1>2, <1>4

\* When the queue is empty, all plugins are in the order exactly when there is
\* no cycle and no provider that is counted twice.
LEMMA QueueEmpty ==
  ASSUME SortInv, ReadyInv, phase = "sort", queue = {}
  PROVE  Names(order) = Nodes <=> Acyclic /\ ~Twins
<1>1. Names(order) \subseteq Nodes
  BY DEF SortInv, Names
<1>2. ASSUME Names(order) = Nodes PROVE Acyclic /\ ~Twins
  <2>1. Acyclic
    BY <1>2, OrderAcyclic DEF Acyclic
  <2>2. ASSUME NEW p \in Nodes PROVE ~Twin(p)
    <3>1. in_degree[p] = 0
      BY <1>2, <2>2 DEF SortInv
    <3>. QED
      BY <3>1, DegreeZero
  <2>. QED
    BY <2>1, <2>2 DEF Twins
<1>3. ASSUME Names(order) # Nodes, ~Twins PROVE ~Acyclic
  <2>. DEFINE S == Nodes \ Names(order)
  <2>1. S \in (SUBSET Nodes) \ {{}}
    BY <1>1, <1>3
  <2>2. ASSUME NEW p \in S PROVE Names(graph[p]) \cap S # {}
    <3>1. ~Twin(p) /\ p \in Nodes
      BY <1>3 DEF Twins
    <3>2. in_degree[p] # 0
      BY <3>1 DEF ReadyInv
    <3>3. ~ (Names(graph[p]) \subseteq Names(order))
      BY <3>1, <3>2, DegreeZero
    <3>4. Names(graph[p]) \subseteq Nodes
      BY <3>1, GraphInside
    <3>. QED
      BY <3>3, <3>4
  <2>. HIDE DEF S
  <2>. QED
    BY <2>1, <2>2, Zenon DEF Acyclic
<1>. QED
  BY <1>2, <1>3

\* Every step keeps it.
LEMMA CompleteNext ==
  SortInv /\ ReadyInv /\ PathInv /\ CompleteOrEmpty /\ [Next]_vars => CompleteOrEmpty'
<1>. SUFFICES ASSUME SortInv, ReadyInv, PathInv, CompleteOrEmpty, [Next]_vars, phase' = "done"
              PROVE  Names(order)' = IF (Acyclic /\ ~Twins)' THEN Nodes' ELSE {}
  BY DEF CompleteOrEmpty
<1>1. CASE DfsCycle
  <2>1. phase = "cycles" /\ UNCHANGED <<input, resolved, graph, order>>
    BY <1>1 DEF DfsCycle, resolveVars, sortVars
  <2>2. order = << >>
    BY <2>1 DEF SortInv
  <2>3. ~Acyclic'
    BY <1>1, <2>1, CycleFound, GraphFacts
  <2>. QED
    BY <2>1, <2>2, <2>3 DEF Names
<1>2. CASE SortEnd
  <2>1. /\ phase = "sort" /\ queue = {} /\ UNCHANGED <<input, resolved, graph>>
        /\ order' = IF Len(order) # Cardinality(Nodes) THEN << >> ELSE order
    BY <1>2 DEF SortEnd, FinishSort, resolveVars
  <2>2. Nodes' = Nodes /\ Acyclic' = Acyclic /\ Twins' = Twins
    BY <2>1, GraphFacts
  <2>3. Names(order)' = IF Names(order) = Nodes THEN Nodes ELSE {}
    <3>1. CASE Names(order) = Nodes
      <4>1. order' = order
        BY <2>1, <3>1, SizeCheck
      <4>. QED
        BY <3>1, <4>1 DEF Names
    <3>2. CASE Names(order) # Nodes
      <4>1. order' = << >>
        BY <2>1, <3>2, SizeCheck
      <4>. QED
        BY <3>2, <4>1 DEF Names
    <3>. QED
      BY <3>1, <3>2
  <2>. QED
    BY <2>1, <2>2, <2>3, QueueEmpty
<1>3. CASE UNCHANGED vars
  <2>1. UNCHANGED <<input, resolved, graph, phase, order>>
    BY <1>3 DEF vars, resolveVars, sortVars
  <2>2. Nodes' = Nodes /\ Acyclic' = Acyclic /\ Twins' = Twins /\ Names(order)' = Names(order)
    BY <2>1, GraphFacts DEF Names
  <2>. QED
    BY <2>1, <2>2 DEF CompleteOrEmpty
<1>4. CASE \/ Visit \/ BuildGraph \/ (\E p \in Nodes : DfsStart(p)) \/ SortStart
           \/ (\E d \in Nodes : DfsEnter(d)) \/ DfsLeave \/ (\E u \in Nodes : PopFirst(u))
  <2>1. phase' # "done"
    BY <1>4 DEF Visit, Take, BuildGraph, DfsStart, DfsEnter, DfsLeave, Leave, SortStart,
                 PopFirst, Pop
  <2>. QED
    BY <2>1
<1>. QED
  BY <1>1, <1>2, <1>3, <1>4 DEF Next

\* What the three searches keep true together.
LEMMA OrderHolds == Spec => [](CompleteOrEmpty /\ LeastFirst)
<1>1. Init => ReadyInv /\ PathInv /\ CompleteOrEmpty
  <2>. SUFFICES ASSUME Init PROVE ReadyInv /\ PathInv /\ CompleteOrEmpty
    OBVIOUS
  <2>1. phase = "resolve" /\ order = << >> /\ visiting = << >>
    BY DEF Init
  <2>. QED
    BY <2>1 DEF ReadyInv, PathInv, CompleteOrEmpty
<1>2. SortInv /\ SortInv' /\ ReadyInv /\ PathInv /\ CompleteOrEmpty /\ [Next]_vars
        => (ReadyInv /\ PathInv /\ CompleteOrEmpty)'
  BY ReadyNext, PathNext, CompleteNext
<1>3. SortInv /\ ReadyInv /\ CompleteOrEmpty => LeastFirst
  <2>. SUFFICES ASSUME SortInv, ReadyInv, CompleteOrEmpty, phase = "done",
                       NEW i \in DOMAIN order, NEW q \in Nodes \ Prefix(i),
                       Names(graph[q]) \subseteq Prefix(i - 1)
                PROVE  Sooner(order[i], q)
    BY DEF LeastFirst
  <2>1. Names(order) # {}
    BY DEF Names
  <2>2. ~Twin(q)
    BY <2>1 DEF CompleteOrEmpty, Twins
  <2>. QED
    BY <2>2 DEF ReadyInv
<1>. QED
  BY <1>1, <1>2, <1>3, SortInvariant, PTL DEF Spec

\* For any manifests, what compute_load_order returns has every resolved plugin
\* when there is no cycle and no plugin that needs two services of one provider,
\* and is empty otherwise ("环检测", dependency_graph.hpp:82): has_cycle_from
\* finds no cycle that is not there, and the loop stops short of nothing else.
THEOREM OrderExact == Spec => []CompleteOrEmpty
  BY OrderHolds, PTL

\* In an order that is returned each plugin is the first, by priority and then
\* by name, of those that could be next (dependency_graph.hpp:50).
THEOREM OrderByPriority == Spec => []LeastFirst
  BY OrderHolds, PTL
=============================================================================
