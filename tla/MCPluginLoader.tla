--------------------------- MODULE MCPluginLoader ---------------------------
\* PluginLoader over all manifests of three plugins and a few services.
EXTENDS PluginLoader, TLC

\* Sequences without repetition over a set of at most two services.
Lists(S) == {<< >>} \cup {<<s>> : s \in S}
              \cup {<<x[1], x[2]>> : x \in {y \in S \X S : y[1] # y[2]}}

\* One service per plugin; every dependency list; priorities of one plugin.
OwnService ==
  [scan : {<<1, 2, 3>>}, entries : {<<1, 2, 3>>, <<2>>, <<1, 3>>},
   provides : {[p \in Plugins |-> {p}]},
   dependencies : [Plugins -> Lists(Services)],
   priority : {[p \in Plugins |-> IF p = 3 THEN k ELSE 0] : k \in {-1, 1}}]

\* Services provided by several plugins or by none, and plugins that need two
\* services of one provider.
Shared ==
  [scan : {<<3, 1, 2>>, <<2, 1>>}, entries : {<<3, 1>>},
   provides : [Plugins -> SUBSET {1, 2}],
   dependencies : [Plugins -> Lists({1, 2})],
   priority : {[p \in Plugins |-> 0]}]

All == OwnService \cup Shared

\* A plugin that needs two services of one provider.
TwinServices ==
  {[scan |-> <<1, 2>>, entries |-> <<2>>,
    provides |-> (1 :> {1, 2} @@ 2 :> {3} @@ 3 :> {}),
    dependencies |-> (1 :> << >> @@ 2 :> <<1, 2>> @@ 3 :> << >>),
    priority |-> [p \in Plugins |-> 0]]}
=============================================================================
