---------------------------- MODULE PomeloBridge ----------------------------
(***************************************************************************)
(* The Pomelo endpoint: a broker that serves many connections, each over   *)
(* TCP or over WebSocket, and the service that pushes to them.             *)
(*                                                                         *)
(* What a client sends is a stream of items, each in two parts because the *)
(* network cuts the bytes where it likes: packages over TCP; an upgrade    *)
(* request and then frames over WebSocket, whose payloads are parts of     *)
(* packages again.  External: the network, the registry and the services,  *)
(* and CAF, which names a connection by its socket, so that a handle comes *)
(* back once its connection is closed.                                     *)
(***************************************************************************)
EXTENDS Integers, Sequences, SequencesExt, FiniteSets

CONSTANTS
  Handles, Uids,
  Scripts,           \* streams of items that clients send
  MaxLives,          \* bound: connections
  MaxPushes,         \* bound: pushes
  HandlesReused,     \* handles come back
  None               \* a model value: no entry

ASSUME PomeloAssumption ==
  /\ MaxLives \in Nat /\ MaxPushes \in Nat /\ HandlesReused \in BOOLEAN
  /\ IsFiniteSet(Handles) /\ IsFiniteSet(Uids)

VARIABLES
  pomelo,   \* the broker: the maps that its handlers share (rx, bad, ready,
            \* transport, ws_done, ws_frag, uid_map), its requests (calls), and
            \* as history what it wrote, whether a response was written twice,
            \* what clients told (told, acked, latest) and packages handled
  life,     \* per handle: connections that it has named; 0 before the first
  open,     \* handles whose connection stands
  script,   \* per handle: what its client sends
  got,      \* per handle: parts of it that have arrived
  pushes,   \* mailbox of the broker: write_atoms of the push service
  pushed    \* number of pushes

pomeloVars == <<pomelo, life, open, script, got, pushes, pushed>>

Cut(items) == [i \in 1 .. 2 * Len(items) |->
  [item |-> items[(i + 1) \div 2], part |-> 2 - (i % 2)]]

PomeloInit ==
  /\ pomelo = [up |-> TRUE,
               rx |-> [h \in Handles |-> None], bad |-> {},
               ready |-> [h \in Handles |-> FALSE],
               transport |-> [h \in Handles |-> None],
               ws_done |-> [h \in Handles |-> FALSE],
               ws_frag |-> [h \in Handles |-> << >>],
               uid_map |-> [u \in Uids |-> None],
               calls |-> {},
               wrote |-> {}, twice |-> FALSE, told |-> {}, acked |-> {},
               latest |-> [u \in Uids |-> None],
               handled |-> [h \in Handles |-> << >>]]
  /\ life = [h \in Handles |-> 0] /\ open = {}
  /\ script = [h \in Handles |-> << >>]
  /\ got = [h \in Handles |-> 0]
  /\ pushes = << >> /\ pushed = 0

-----------------------------------------------------------------------------
(* Writing.                                                                *)

\* write_frame and write_raw: nothing for a connection that is closed or bad.
write_frame(b, h, item) ==
  LET w == [to |-> h, life |-> life[h], item |-> item] IN
  IF b.rx[h] = None \/ h \in b.bad THEN b
  ELSE [b EXCEPT !.wrote = @ \cup {w},
                 !.twice = @ \/ (w \in b.wrote /\ item.kind = "response")]

Control == [kind |-> "control"]
Response(h, l, id) == [kind |-> "response", from |-> h, life |-> l, id |-> id]
PushFrame(uid) == [kind |-> "push", uid |-> uid]

\* A protocol error: the connection stays, and is served no more.
Fail(b, h) ==
  [b EXCEPT !.bad = @ \cup {h}, !.rx[h] = None, !.ready[h] = FALSE]

-----------------------------------------------------------------------------
(* handle_package.                                                         *)

\* A handshake binds the uid, if it has one, to this connection.
Handshake(b, h, p) ==
  IF p.uid = None THEN write_frame(b, h, Control)
  ELSE write_frame(
         [b EXCEPT !.uid_map[p.uid] = h,
                   !.told = @ \cup {[uid |-> p.uid, to |-> h, life |-> life[h]]},
                   !.latest[p.uid] = [to |-> h, life |-> life[h]]],
         h, Control)

\* A message: a route that is not in the table is answered at once (a request)
\* or dropped (a notification); the service of the others is looked up.
Data(b, h, p) ==
  IF p.known
    THEN [b EXCEPT !.calls = @ \cup {[type |-> p.type, src |-> h, life |-> life[h],
                                      id |-> p.id, at |-> "resolve"]}]
  ELSE IF p.type = "request"
    THEN write_frame(b, h, Response(h, life[h], p.id))
  ELSE b

\* A DATA package whose message parse_msg refuses.
Garbled(p) == p.type = "garbled"

handle_package(b0, h, p) ==
  LET b == [b0 EXCEPT !.handled[h] = Append(@, p)] IN
  CASE p.type = "handshake" -> Handshake(b, h, p)
    [] p.type = "ack" ->
         [b EXCEPT !.ready[h] = TRUE,
                   !.acked = @ \cup {[to |-> h, life |-> life[h]]}]
    [] p.type = "heartbeat" -> write_frame(b, h, Control)
    [] p.type \in {"request", "notify"} -> Data(b, h, p)
    [] Garbled(p) -> Fail(b, h)
    [] p.type = "ignored" -> b

-----------------------------------------------------------------------------
(* new_data_msg.                                                           *)

\* Where a parser stops.  parse_frame (of a WebSocket) refuses a frame that is too
\* large as soon as it has the header.  parse_pkg waits for ever when it meets
\* text: its first bytes are the length of a package that does not come.  It
\* refuses nothing: 24 bits of length are never more than kMaxBody.
Stops(ws, x) == IF ws THEN x.op = "oversized" ELSE x.type = "upgrade"

\* Items that a parser finds in a buffer: whole ones, up to the first at which
\* it stops.
Found(buf, ws) ==
  LET n == CHOOSE n \in 0 .. Len(buf) \div 2 :
             /\ \A i \in 1 .. n : ~ Stops(ws, buf[2 * i].item)
             /\ 2 * n + 2 > Len(buf) \/ Stops(ws, buf[2 * n + 1].item)
  IN  [i \in 1 .. n |-> buf[2 * i].item]
\* What it leaves: part of an item, or the one at which it stops.
Left(buf, ws) == SubSeq(buf, 2 * Len(Found(buf, ws)) + 1, Len(buf))

\* The payload of a message: whatever comes after its last whole package is
\* dropped.
Payload(b, h, parts) == FoldLeft(LAMBDA x, p : handle_package(x, h, p), b,
           Found(parts, FALSE))

\* Mutant: what was collected is not put before the last piece.
FrameWithoutFragments(b, h, f) ==
  CASE f.op = "data" /\ f.fin -> Payload(b, h, f.payload)
    [] f.op = "data" /\ ~ f.fin -> [b EXCEPT !.ws_frag[h] = f.payload]
    [] f.op = "continuation" /\ f.fin -> Payload(b, h, f.payload)
    [] f.op = "ping" -> write_frame(b, h, Control)
    [] OTHER -> b

\* A frame of a WebSocket: a message in one piece, or its first piece, or a
\* continuation, which counts only if something has been collected.
WsFrame(b, h, f) ==
  LET frag == b.ws_frag[h] IN
  CASE f.op = "data" /\ f.fin ->
         Payload([b EXCEPT !.ws_frag[h] = << >>], h, frag \o f.payload)
    [] f.op = "data" /\ ~ f.fin -> [b EXCEPT !.ws_frag[h] = f.payload]
    [] f.op = "continuation" /\ frag # << >> /\ f.fin ->
         Payload([b EXCEPT !.ws_frag[h] = << >>], h, frag \o f.payload)
    [] f.op = "continuation" /\ frag # << >> /\ ~ f.fin ->
         [b EXCEPT !.ws_frag[h] = @ \o f.payload]
    [] f.op = "ping" -> write_frame(b, h, Control)
    [] f.op = "close" -> Fail(write_frame(b, h, Control), h)
    [] OTHER -> b

\* The loop over the items of the buffer.  An error inside handle_package
\* erases the buffer that the loop goes on to read; what the loop then finds
\* in it is not defined: nothing, or the items as they were.  An error that
\* the loop itself meets ends it.
Loop(b, h, items, ws) ==
  LET Step(x, item) == IF ws THEN WsFrame(x, h, item) ELSE handle_package(x, h, item)
      After(i) == FoldLeft(Step, b, SubSeq(items, 1, i))
      breaks == {i \in 1 .. Len(items) : ws /\ items[i].op = "close"}
      last == IF breaks = {} THEN Len(items) ELSE CHOOSE i \in breaks : \A j \in breaks : i <= j
      fails == {i \in 1 .. last : h \in After(i).bad}
  IN  {After(last)} \cup {After(i) : i \in {j \in fails : \A k \in fails : j <= k}}

\* A TCP client sends packages.
TcpData(b, h) ==
  LET buf == b.rx[h]
  IN  Loop([b EXCEPT !.rx[h] = Left(buf, FALSE)], h, Found(buf, FALSE), FALSE)

\* A WebSocket client sends frames.
WsData(b, h) ==
  LET buf == b.rx[h]
      left == Left(buf, TRUE)
      loop == Loop([b EXCEPT !.rx[h] = left], h, Found(buf, TRUE), TRUE)
  IN  IF left # << >> /\ Stops(TRUE, left[1].item) THEN {Fail(x, h) : x \in loop} ELSE loop

\* The request to upgrade, once its header is there; frames may follow it.
Upgrade(b, h) ==
  LET buf == b.rx[h] IN
  IF Len(buf) < 2 THEN {b}
  ELSE IF ~ buf[1].item.key THEN {Fail(b, h)}
  ELSE WsData([write_frame(b, h, Control) EXCEPT
                 !.ws_done[h] = TRUE, !.rx[h] = SubSeq(buf, 3, Len(buf))], h)

\* The first bytes tell the transport; fewer than four are taken for TCP.
Detected(b, h) ==
  LET buf == b.rx[h] IN
  IF b.transport[h] # None THEN b
  ELSE IF buf[1].item.type = "upgrade" /\ (Len(buf) > 1 \/ ~ buf[1].item.early)
    THEN [b EXCEPT !.transport[h] = "ws", !.ws_frag[h] = << >>]
  ELSE [b EXCEPT !.transport[h] = "tcp"]

Received(b, h, parts) ==
  IF h \in b.bad THEN {b}
  ELSE LET d == Detected([b EXCEPT !.rx[h] =
                            (IF @ = None THEN << >> ELSE @) \o parts], h) IN
       IF d.transport[h] = "tcp" THEN TcpData(d, h)
       ELSE IF d.ws_done[h] THEN WsData(d, h)
       ELSE Upgrade(d, h)

new_data(h) ==
  /\ pomelo.up /\ h \in open
  /\ \E n \in 1 .. 2 * Len(script[h]) - got[h] :
       /\ pomelo' \in Received(pomelo, h,
                               SubSeq(Cut(script[h]), got[h] + 1, got[h] + n))
       /\ got' = [got EXCEPT ![h] = @ + n]
  /\ UNCHANGED <<life, open, script, pushes, pushed>>

-----------------------------------------------------------------------------
(* Connections.                                                            *)

new_connection(h) ==
  /\ pomelo.up /\ h \notin open
  /\ life[h] = 0 \/ HandlesReused
  /\ MapThenSumSet(LAMBDA k : life[k], Handles) < MaxLives
  /\ life' = [life EXCEPT ![h] = @ + 1]
  /\ open' = open \cup {h}
  /\ \E s \in Scripts : script' = [script EXCEPT ![h] = s]
  /\ got' = [got EXCEPT ![h] = 0]
  /\ pomelo' = [pomelo EXCEPT !.rx[h] = << >>, !.bad = @ \ {h},
                              !.ready[h] = FALSE, !.transport[h] = None,
                              !.ws_done[h] = FALSE, !.handled[h] = << >>]
  /\ UNCHANGED <<pushes, pushed>>

Forgotten(b, h) ==
  [b EXCEPT !.rx[h] = None, !.bad = @ \ {h}, !.ready[h] = FALSE,
            !.transport[h] = None, !.ws_done[h] = FALSE, !.ws_frag[h] = << >>]

\* Mutant: every uid that the connection has told is unbound.
UnboundTold(b, h) ==
  [u \in Uids |-> IF [uid |-> u, to |-> h, life |-> life[h]] \in b.told
                    THEN None ELSE b.uid_map[u]]

\* Uids that are bound to the connection are unbound.
Unbound(b, h) == [u \in Uids |-> IF b.uid_map[u] = h THEN None ELSE b.uid_map[u]]

connection_closed(h) ==
  /\ pomelo.up /\ h \in open
  /\ open' = open \ {h}
  /\ pomelo' = [Forgotten(pomelo, h) EXCEPT !.uid_map = Unbound(pomelo, h)]
  /\ UNCHANGED <<life, script, got, pushes, pushed>>

-----------------------------------------------------------------------------
(* Requests to the registry and to services.                               *)

Answer(b, c) ==
  LET d == [b EXCEPT !.calls = @ \ {c}] IN
  IF c.type = "notify" THEN d
  ELSE write_frame(d, c.src, Response(c.src, c.life, c.id))

\* Mutant: an error of the registry is not answered.
ResolveFailsSilently(c) ==
  /\ pomelo.up /\ c.at = "resolve"
  /\ pomelo' = [pomelo EXCEPT !.calls = @ \ {c}]
  /\ UNCHANGED <<life, open, script, got, pushes, pushed>>

\* The registry does not know the service, or does not answer in time.
ResolveFails(c) ==
  /\ pomelo.up /\ c.at = "resolve"
  /\ pomelo' = Answer(pomelo, c)
  /\ UNCHANGED <<life, open, script, got, pushes, pushed>>

\* The service is called; a notification is sent and done with.
Resolved(c) ==
  /\ pomelo.up /\ c.at = "resolve"
  /\ pomelo' = [pomelo EXCEPT !.calls =
                  (@ \ {c}) \cup IF c.type = "notify" THEN {}
                                 ELSE {[c EXCEPT !.at = "call"]}]
  /\ UNCHANGED <<life, open, script, got, pushes, pushed>>

\* The service answers, or fails to.
Called(c) ==
  /\ pomelo.up /\ c.at = "call"
  /\ pomelo' = Answer(pomelo, c)
  /\ UNCHANGED <<life, open, script, got, pushes, pushed>>

-----------------------------------------------------------------------------
(* Pushes.                                                                 *)

\* The push service takes an envelope and sends it to the broker, for one uid
\* or (None) for all.
push(u) ==
  /\ pushed < MaxPushes
  /\ pushed' = pushed + 1
  /\ pushes' = IF pomelo.up THEN Append(pushes, u) ELSE pushes
  /\ UNCHANGED <<pomelo, life, open, script, got>>

write_to_uid(b, u) ==
  IF b.uid_map[u] = None THEN b ELSE write_frame(b, b.uid_map[u], PushFrame(u))
write_to_all(b) ==
  FoldLeft(LAMBDA x, h : IF x.ready[h] THEN write_frame(x, h, PushFrame(None)) ELSE x,
           b, SetToSeq(Handles))

write_atom ==
  /\ pomelo.up /\ pushes # << >>
  /\ pushes' = Tail(pushes)
  /\ pomelo' = IF Head(pushes) = None THEN write_to_all(pomelo)
               ELSE write_to_uid(pomelo, Head(pushes))
  /\ UNCHANGED <<life, open, script, got, pushed>>

\* exit_msg: the broker quits and its connections are closed.
PomeloExit ==
  /\ pomelo.up
  /\ pomelo' = [pomelo EXCEPT !.up = FALSE, !.calls = {}]
  /\ open' = {} /\ pushes' = << >>
  /\ UNCHANGED <<life, script, got, pushed>>

-----------------------------------------------------------------------------
PomeloRequests == \E c \in pomelo.calls : Resolved(c) \/ ResolveFails(c) \/ Called(c)

PomeloNext ==
  \/ \E h \in Handles : new_connection(h) \/ new_data(h) \/ connection_closed(h)
  \/ PomeloRequests
  \/ \E u \in Uids \cup {None} : push(u)
  \/ write_atom \/ PomeloExit

-----------------------------------------------------------------------------
(* Properties.                                                             *)

PomeloTypeOK ==
  /\ DOMAIN pomelo = {"up", "rx", "bad", "ready", "transport", "ws_done",
                      "ws_frag", "uid_map", "calls", "wrote", "twice", "told",
                      "acked", "latest", "handled"}
  /\ pomelo.bad \subseteq open \/ ~ pomelo.up
  /\ pomelo.ready \in [Handles -> BOOLEAN]
  /\ pomelo.transport \in [Handles -> {None, "tcp", "ws"}]
  /\ \A h \in Handles : pomelo.ws_done[h] => pomelo.transport[h] = "ws"
  /\ pomelo.uid_map \in [Uids -> Handles \cup {None}]
  /\ \A c \in pomelo.calls : c.src \in Handles /\ c.at \in {"resolve", "call"}
  /\ \A h \in open : got[h] <= 2 * Len(script[h])

\* A push for a uid is written only to a connection whose client has told this
\* uid, in its present life: the binding does not outlive the connection, also
\* when the handle comes back for another client.
PushToOwner ==
  \A w \in pomelo.wrote :
    w.item.kind = "push" /\ w.item.uid # None =>
      [uid |-> w.item.uid, to |-> w.to, life |-> w.life] \in pomelo.told

\* A uid is bound to the connection that told it last, as long as that one
\* stands: the end of an earlier connection of the same client does not unbind
\* the new one.
LatestBound ==
  pomelo.up => \A u \in Uids :
    LET l == pomelo.latest[u] IN
    l # None /\ l.to \in open /\ l.life = life[l.to] => pomelo.uid_map[u] = l.to

\* A broadcast reaches only connections whose client has acknowledged the
\* handshake, each in its present life ("所有已握手（ready）连接都收到",
\* pomelo_bridge.cpp:716).
BroadcastAfterAck ==
  \A w \in pomelo.wrote :
    w.item.kind = "push" /\ w.item.uid = None =>
      [to |-> w.to, life |-> w.life] \in pomelo.acked

\* A push reaches whom it is for and nobody else, whoever connects, leaves and
\* connects again meanwhile.
PushesDirected == PushToOwner /\ LatestBound /\ BroadcastAfterAck

\* No request gets two responses.
AnsweredAtMostOnce == ~ pomelo.twice

\* What the packages of a stream are, told from the stream alone: over TCP its
\* whole items; over WebSocket the packages of the messages that are complete.
Messages(frames) ==
  FoldLeft(LAMBDA m, f :
             IF f.op \notin {"data", "continuation"} THEN m
             ELSE IF f.fin THEN [whole |-> m.whole \o m.part \o f.payload, part |-> << >>]
             ELSE [m EXCEPT !.part = @ \o f.payload],
           [whole |-> << >>, part |-> << >>], frames).whole
Expected(s, n) ==
  LET whole == SubSeq(s, 1, n \div 2) IN
  IF whole # << >> /\ whole[1].type = "upgrade"
    THEN LET parts == Messages(Tail(whole))
         IN  [i \in 1 .. Len(parts) \div 2 |-> parts[2 * i].item]
  ELSE whole

\* However the network cuts the stream and the client its messages, the packages
\* that are handled are those that were sent, in order, each once, as soon as
\* they are complete.
Reassembled ==
  \A h \in open \ pomelo.bad : pomelo.handled[h] = Expected(script[h], got[h])

\* No request is forgotten: as long as its connection stands and keeps to the
\* protocol, each request that was handled is under way to the registry or to
\* the service, or its response was written.
NoRequestForgotten ==
  pomelo.up => \A h \in open \ pomelo.bad : \A i \in 1 .. Len(pomelo.handled[h]) :
    LET p == pomelo.handled[h][i] IN
    p.type = "request" =>
      \/ [to |-> h, life |-> life[h], item |-> Response(h, life[h], p.id)] \in pomelo.wrote
      \/ \E c \in pomelo.calls : c.src = h /\ c.life = life[h] /\ c.id = p.id

\* Each request is answered once (process_data and its continuations).
RequestsAnswered == PomeloTypeOK /\ AnsweredAtMostOnce /\ NoRequestForgotten

\* "REQUEST 响应写回发起连接" (pomelo_bridge.cpp:125): a response is written to the
\* connection that the request came from.
ResponsesAtHome ==
  \A w \in pomelo.wrote :
    w.item.kind = "response" => w.item.from = w.to /\ w.item.life = w.life

\* "bad = 协议错误连接（忽略后续数据）" (pomelo_bridge.cpp:213): nothing that comes
\* after a protocol error is handled.
IgnoredAfterError ==
  \A h \in open : \A i \in 1 .. Len(pomelo.handled[h]) :
    pomelo.handled[h][i].type = "garbled" => i = Len(pomelo.handled[h])
=============================================================================
