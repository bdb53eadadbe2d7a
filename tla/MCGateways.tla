----------------------------- MODULE MCGateways -----------------------------
\* The three actors by which the outside reaches a node, for TLC: the Pomelo
\* endpoint, the line bridge and the console's cluster operations.  They share
\* nothing but the registry, which is external to each, so every behaviour is
\* one of a single gateway, chosen at the start.
EXTENDS PomeloBridge, LineBridge, ClusterOps

CONSTANTS Gateways   \* those to check

VARIABLE gateway

mcVars == <<gateway, pomeloVars, lineVars, opsVars>>

\* What clients of the Pomelo endpoint send.
HandshakeOf(u) == [type |-> "handshake", uid |-> u]
Request(id, known) == [type |-> "request", id |-> id, known |-> known]
Notify(known) == [type |-> "notify", id |-> 0, known |-> known]
Simple(t) == [type |-> t]
HttpGet(key, early) == [type |-> "upgrade", key |-> key, early |-> early]
Frame(op, fin, payload) == [type |-> "frame", op |-> op, fin |-> fin, payload |-> payload]
Bytes(p) == Cut(<<p>>)
First(p) == SubSeq(Bytes(p), 1, 1)
Second(p) == SubSeq(Bytes(p), 2, 2)

\* TCP: a client that logs in and asks, one that breaks the protocol.
MCTcp == {
  <<HandshakeOf("u1"), Simple("ack"), Request(1, TRUE)>>,
  <<Request(1, FALSE), Simple("heartbeat"), Notify(FALSE), Simple("garbled"), Request(2, TRUE)>>}
\* WebSocket: a login in pieces with a ping between them, a garbled package with
\* others behind it, a frame that is too large, a request without a key.
MCWs == {
  <<HttpGet(TRUE, FALSE), Frame("data", FALSE, First(HandshakeOf("u1"))),
    Frame("ping", TRUE, << >>), Frame("continuation", FALSE, Second(HandshakeOf("u1"))),
    Frame("continuation", TRUE, Bytes(Simple("ack")))>>,
  <<HttpGet(TRUE, FALSE), Frame("data", TRUE, Bytes(Simple("garbled")) \o Bytes(Simple("ack"))),
    Frame("close", TRUE, << >>)>>,
  <<HttpGet(TRUE, FALSE), Frame("data", TRUE, Bytes(Notify(TRUE)) \o Bytes(Simple("ignored"))),
    Frame("pong", TRUE, << >>), Frame("oversized", TRUE, << >>)>>,
  <<HttpGet(FALSE, FALSE), Frame("ping", TRUE, << >>)>>}
MCScripts == MCTcp \cup MCWs

\* One stream each for the configurations that show a weakness.
MCEarlyCut == {<<HttpGet(TRUE, TRUE), Frame("data", TRUE, Bytes(HandshakeOf("u1")))>>}
MCEmptyPiece == {<<HttpGet(TRUE, FALSE), Frame("data", FALSE, << >>),
                   Frame("continuation", TRUE, Bytes(HandshakeOf("u1")))>>}

MCInit == gateway \in Gateways /\ PomeloInit /\ LineInit /\ OpsInit

InPomelo(A) == gateway = "pomelo" /\ A /\ UNCHANGED <<gateway, lineVars, opsVars>>
InLine(A) == gateway = "line" /\ A /\ UNCHANGED <<gateway, pomeloVars, opsVars>>
InOps(A) == gateway = "ops" /\ A /\ UNCHANGED <<gateway, pomeloVars, lineVars>>

MCNext == InPomelo(PomeloNext) \/ InLine(LineNext) \/ InOps(OpsNext)

\* Requests are answered or time out; an actor handles the messages that it has.
MCFairness ==
  /\ WF_mcVars(InLine(ImplExits)) /\ WF_mcVars(InLine(BrokerExits))
  /\ \A k \in Commands : WF_mcVars(InOps(console_reload_batch(k) \/ TopologyFails(k)))
  /\ \A k \in AllCommands, n \in OpsNodes :
       WF_mcVars(InOps(\E c \in chains : c.cmd = k /\ c.node = n /\ OpsChain(c)))
  /\ WF_mcVars(InOps(WorkerFinds \/ WorkerFails))
  /\ \A n \in OpsNodes : WF_mcVars(InOps(handle_remote_reload(n) \/ RejectReload(n)))
  /\ \A n \in OpsNodes : WF_mcVars(InOps(ManagerReloads(n)))

MCSpec == MCInit /\ [][MCNext]_mcVars /\ MCFairness

\* What was begun ends: a reload of any nodes is reported, and a bridge that is
\* told to exit takes its broker and its echo actor with it (bridge_actor.cpp:315).
GatewaysEnd == BatchEnds /\ BridgeExitStopsAll
=============================================================================
