------------------------ MODULE MCGracefulShutdown ------------------------
(* Model-checking instances of the shutdown coordinator. *)
EXTENDS GracefulShutdown

CONSTANTS db, cache, biz, ops

\* biz uses cache and db, cache uses db: dependencies are loaded first.
Three == <<db, cache, biz>>
Two == <<db, biz>>
NoOrder == << >>
OnlyBiz == <<biz>>

\* The dependencies behind the load order: <<p, q>> when p uses q's service.
DependsOn == {<<cache, db>>, <<biz, db>>, <<biz, cache>>}

\* framework_bootstrap.hpp: without a configured order the plugins stop in
\* reverse load order, dependents first.
DependentsFirst ==
  \A d \in DependsOn : stopping = d[2] => d[1] \notin alive
===========================================================================
