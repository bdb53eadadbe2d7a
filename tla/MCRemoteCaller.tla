--------------------------- MODULE MCRemoteCaller ---------------------------
\* RemoteCaller for TLC: two calls of a service at any node, of which there
\* are two or one, and a call of the service at the node n1.
EXTENDS RemoteCaller

MCKeyOf == [c1 |-> "svc", c2 |-> "svc", c3 |-> "svc@n1"]
MCAttempts == [c1 |-> 2, c2 |-> 1, c3 |-> 1]
MCRoutes == [k \in {"svc@n1", "svc"} |->
  IF k = "svc" THEN {<<"n1", "n2">>, <<"n2">>} ELSE {<<"n1">>}]
=============================================================================
