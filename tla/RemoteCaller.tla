---------------------------- MODULE RemoteCaller ----------------------------
(***************************************************************************)
(* RemoteCallerActor, by which a node calls a service of another node.     *)
(* Calls of one key (a service, or a service at a named node) are          *)
(* performed one after the other: ask the master for the candidates, go    *)
(* through them round robin, connect and look the service up when its      *)
(* handle is not known yet, call, and fail over to the next candidate.     *)
(*                                                                         *)
(* Each request leaves a continuation (conts) that is run once, with the   *)
(* result or with an error; errors include timeouts.  External: the        *)
(* master, which answers with candidates or not at all, the connections,   *)
(* and the services, which perform the calls in their mailboxes in order,  *)
(* also those that their caller no longer waits for.                       *)
(***************************************************************************)
EXTENDS Integers, Sequences
LOCAL INSTANCE Functions

CONSTANTS
  Calls,      \* cross_call and cross_call_ex requests
  KeyOf,      \* the key of each
  Attempts,   \* its attempts: 1, or what cross_call_ex asks for
  Routes,     \* per key: the lists of candidates the master may answer with
  MaxSends    \* bound: calls that reach a service

Keys == {KeyOf[c] : c \in Calls}
Nodes == UNION {Range(r) : r \in UNION {Routes[k] : k \in Keys}}

None == "none"

ASSUME CallerAssumption ==
  /\ Attempts \in [Calls -> Nat \ {0}] /\ MaxSends \in Nat
  /\ None \notin Calls
  /\ \A k \in Keys : \A r \in Routes[k] : r \in Seq(Nodes)

VARIABLES
  keys,     \* keys_: the KeyState of each key
  conts,    \* per key: the continuations that wait for a message
  lookups,  \* mailbox of the lookup worker
  arrived,  \* per key: the calls in the order of their arrival
  result,   \* per call: "none", "ok" or "error"
  inbox,    \* mailbox of the service at each node
  replied,  \* keys to which the reply of the service has come
  ran,      \* per node and key: the call performed last, by its arrival
  sends     \* calls that have reached a service

vars == <<keys, conts, lookups, arrived, result, inbox, replied, ran, sends>>
remoteVars == <<inbox, replied, ran, sends>>

Cont(kind, idx) == [kind |-> kind, idx |-> idx]
Route(n) == [node |-> n, target |-> FALSE, healthy |-> TRUE]

Init ==
  /\ keys = [k \in Keys |-> [routes |-> << >>, cursor |-> 1,
               in_flight |-> FALSE, call |-> None, left |-> 0,
               queue |-> << >>]]
  /\ conts = [k \in Keys |-> {}]
  /\ lookups = << >>
  /\ arrived = [k \in Keys |-> << >>]
  /\ result = [c \in Calls |-> "none"]
  /\ inbox = [n \in Nodes |-> << >>]
  /\ replied = {}
  /\ ran = [n \in Nodes |-> [k \in Keys |-> 0]]
  /\ sends = 0

-----------------------------------------------------------------------------
(* The state machine of a key.  Each operator gives the new KeyState, the  *)
(* request that is made, and the answer, if any; a step of the actor       *)
(* applies one (Handler).                                                  *)

\* What a handler does to its key: the state ks and the continuations cs it
\* leaves, and the call it answers, if any.
Outcome(ks, cs) == [ks |-> ks, cs |-> cs, call |-> None, result |-> "none"]

resolve(ks) == Outcome(ks, {Cont("resolve", 0)})

\* try_route: the first healthy candidate from the cursor on, if there is
\* one; otherwise the list is thrown away and asked for again.
Healthy(ks) ==
  {t \in 0 .. Len(ks.routes) - 1 :
     ks.routes[((ks.cursor - 1 + t) % Len(ks.routes)) + 1].healthy}
try_route(ks) ==
  IF Healthy(ks) = {} THEN resolve([ks EXCEPT !.routes = << >>])
  ELSE LET t == CHOOSE x \in Healthy(ks) : \A y \in Healthy(ks) : x <= y
           idx == ((ks.cursor - 1 + t) % Len(ks.routes)) + 1
       IN  Outcome([ks EXCEPT !.cursor = (idx % Len(ks.routes)) + 1],
                   {Cont(IF ks.routes[idx].target THEN "call" ELSE "connect",
                         idx)})

pump(ks) == IF ks.routes = << >> THEN resolve(ks) ELSE try_route(ks)

start(ks, c) ==
  pump([ks EXCEPT !.in_flight = TRUE, !.call = c, !.left = Attempts[c]])

\* Mutant: the next waiting call is not started.
FinishStops(ks, r) ==
  LET o == Outcome([ks EXCEPT !.in_flight = FALSE, !.call = None], {})
  IN  [o EXCEPT !.call = ks.call, !.result = r]

\* deliver and finish: the next waiting call is started.
finish(ks, r) ==
  LET o == IF ks.queue = << >>
             THEN Outcome([ks EXCEPT !.in_flight = FALSE, !.call = None], {})
             ELSE start([ks EXCEPT !.queue = Tail(@)], Head(ks.queue))
  IN  [o EXCEPT !.call = ks.call, !.result = r]

\* Mutant: a call that is to be tried again lets the next one go first.
RetryBehind(ks) ==
  IF ks.left > 1 /\ ks.queue # << >>
    THEN start([ks EXCEPT !.queue = Append(Tail(@), ks.call)], Head(ks.queue))
  ELSE IF ks.left > 1
    THEN Outcome([ks EXCEPT !.left = @ - 1], {Cont("retry", 0)})
  ELSE finish([ks EXCEPT !.left = @ - 1], "error")

\* retry_or_fail: the next attempt after a second, or the error.
retry_or_fail(ks) ==
  IF ks.left > 1
    THEN Outcome([ks EXCEPT !.left = @ - 1], {Cont("retry", 0)})
  ELSE finish([ks EXCEPT !.left = @ - 1], "error")

\* Mutant: the reply to a request that timed out is taken for the next one.
HandlerHears(k, used, o) ==
  LET calls == {c \in o.cs : c.kind = "call"} IN
  /\ keys' = [keys EXCEPT ![k] = o.ks]
  /\ conts' = [conts EXCEPT ![k] = (@ \ used) \cup o.cs]
  /\ result' = IF o.call = None THEN result
               ELSE [result EXCEPT ![o.call] = o.result]
  /\ UNCHANGED replied
  /\ \/ UNCHANGED <<inbox, sends>>
     \/ \E c \in calls :
          LET n == o.ks.routes[c.idx].node IN
          /\ sends < MaxSends
          /\ sends' = sends + 1
          /\ inbox' = [inbox EXCEPT ![n] =
               Append(@, [key |-> k, call |-> o.ks.call, live |-> TRUE])]
  /\ UNCHANGED ran

\* The effect of a handler of key k that was woken by the continuations in
\* used.  do_call sends the envelope to the service, which it does not reach
\* over a connection that is gone.  The caller of a key waits for its last
\* request only.
Handler(k, used, o) ==
  LET calls == {c \in o.cs : c.kind = "call"}
      deaf == [n \in Nodes |-> [i \in DOMAIN inbox[n] |->
                 IF inbox[n][i].key = k THEN [inbox[n][i] EXCEPT !.live = FALSE]
                 ELSE inbox[n][i]]]
  IN
  /\ keys' = [keys EXCEPT ![k] = o.ks]
  /\ conts' = [conts EXCEPT ![k] = (@ \ used) \cup o.cs]
  /\ result' = IF o.call = None THEN result
               ELSE [result EXCEPT ![o.call] = o.result]
  /\ replied' = replied \ {k}
  /\ \/ inbox' = deaf /\ UNCHANGED sends
     \/ \E c \in calls :
          LET n == o.ks.routes[c.idx].node IN
          /\ sends < MaxSends
          /\ sends' = sends + 1
          /\ inbox' = [deaf EXCEPT ![n] =
               Append(@, [key |-> k, call |-> o.ks.call, live |-> TRUE])]
  /\ UNCHANGED ran

-----------------------------------------------------------------------------
(* The handlers.                                                           *)

\* Mutant: a call does not wait for the one in flight.
EnqueueAtOnce(c) ==
  LET k == KeyOf[c] IN
  /\ result[c] = "none" /\ \A i \in DOMAIN arrived[k] : arrived[k][i] # c
  /\ arrived' = [arrived EXCEPT ![k] = Append(@, c)]
  /\ Handler(k, {}, start(keys[k], c))
  /\ UNCHANGED lookups

\* enqueue, for the four kinds of call.
enqueue(c) ==
  LET k == KeyOf[c] IN
  /\ result[c] = "none" /\ \A i \in DOMAIN arrived[k] : arrived[k][i] # c
  /\ arrived' = [arrived EXCEPT ![k] = Append(@, c)]
  /\ IF keys[k].in_flight
       THEN /\ keys' = [keys EXCEPT ![k].queue = Append(@, c)]
            /\ UNCHANGED <<conts, result, remoteVars>>
       ELSE Handler(k, {}, start(keys[k], c))
  /\ UNCHANGED lookups

\* resolve_any and resolve_named: candidates, or an error.
Resolved(k) ==
  /\ Cont("resolve", 0) \in conts[k]
  /\ \E r \in Routes[k] :
       LET ks == [keys[k] EXCEPT !.routes = [i \in DOMAIN r |-> Route(r[i])]]
       IN  Handler(k, {Cont("resolve", 0)}, try_route(ks))
  /\ UNCHANGED <<arrived, lookups>>
ResolveFails(k) ==
  /\ Cont("resolve", 0) \in conts[k]
  /\ Handler(k, {Cont("resolve", 0)}, retry_or_fail(keys[k]))
  /\ UNCHANGED <<arrived, lookups>>

\* do_connect: connected, and the lookup is handed to the worker.
Connected(k) ==
  \E c \in conts[k] :
    /\ c.kind = "connect"
    /\ conts' = [conts EXCEPT ![k] = (@ \ {c}) \cup {Cont("lookup", c.idx)}]
    /\ lookups' = Append(lookups, [key |-> k, idx |-> c.idx])
    /\ UNCHANGED <<keys, arrived, result, remoteVars>>

\* The lookup of key k, if there is one, is not waited for any more.
Withdrawn(k) ==
  LET I == {i \in DOMAIN lookups : lookups[i].key = k}
      at == CHOOSE i \in I : TRUE
  IN  IF I = {} THEN lookups
      ELSE SubSeq(lookups, 1, at - 1) \o SubSeq(lookups, at + 1, Len(lookups))

\* A step on a candidate fails: it is not used any more, and the next one
\* is tried.
Unhealthy(k, c) == [keys[k] EXCEPT !.routes[c.idx].healthy = FALSE]
StepFails(k) ==
  \E c \in conts[k] :
    /\ c.kind \in {"connect", "lookup", "call"}
    /\ Handler(k, {c}, try_route(Unhealthy(k, c)))
    /\ lookups' = Withdrawn(k)
    /\ UNCHANGED arrived

\* remote_lookup_worker: one lookup after the other, for all keys.
LookedUp ==
  /\ lookups # << >>
  /\ lookups' = Tail(lookups)
  /\ LET k == Head(lookups).key
         idx == Head(lookups).idx
         ks == [keys[k] EXCEPT !.routes[idx].target = TRUE]
     IN  Handler(k, {Cont("lookup", idx)}, Outcome(ks, {Cont("call", idx)}))
  /\ UNCHANGED arrived

\* The service performs the next call of its mailbox and replies.
Position(k, c) == CHOOSE i \in DOMAIN arrived[k] : arrived[k][i] = c
Performed(n) ==
  LET e == Head(inbox[n]) IN
  /\ inbox[n] # << >>
  /\ ran' = [ran EXCEPT ![n][e.key] = Position(e.key, e.call)]
  /\ inbox' = [inbox EXCEPT ![n] = Tail(@)]
  /\ replied' = IF e.live THEN replied \cup {e.key} ELSE replied
  /\ UNCHANGED <<keys, conts, lookups, arrived, result, sends>>

\* do_call: the reply.
Answered(k) ==
  \E c \in conts[k] :
    /\ c.kind = "call" /\ k \in replied
    /\ Handler(k, {c}, finish(keys[k], "ok"))
    /\ UNCHANGED <<arrived, lookups>>

\* remote_retry_tick_atom.
RetryTick(k) ==
  /\ Cont("retry", 0) \in conts[k]
  /\ Handler(k, {Cont("retry", 0)}, pump(keys[k]))
  /\ UNCHANGED <<arrived, lookups>>

-----------------------------------------------------------------------------
KeyStep(k) ==
  \/ Resolved(k) \/ ResolveFails(k) \/ Connected(k) \/ StepFails(k)
  \/ Answered(k) \/ RetryTick(k)

Next ==
  \/ \E c \in Calls : enqueue(c)
  \/ \E k \in Keys : KeyStep(k)
  \/ LookedUp
  \/ \E n \in Nodes : Performed(n)

\* Every request is answered or times out, timers fire, actors run.
Fairness ==
  /\ \A k \in Keys : WF_vars(KeyStep(k))
  /\ WF_vars(LookedUp)
  /\ \A n \in Nodes : WF_vars(Performed(n))

Spec == Init /\ [][Next]_vars /\ Fairness

\* The same with a master that does not offer unreachable nodes for ever: it
\* removes a node whose lease has run out, and then has no candidates.
SpecLeased == Spec /\ \A k \in Keys : SF_vars(ResolveFails(k))

-----------------------------------------------------------------------------
(* Properties.                                                             *)

\* A key in flight waits for one thing, an idle one for nothing.
Chained(ks, cs) ==
  IF ks.in_flight
  THEN \E c \in cs :
         /\ cs = {c}
         /\ c.kind \in {"connect", "lookup", "call"} => c.idx \in DOMAIN ks.routes
  ELSE cs = {} /\ ks.queue = << >>

\* A key has one request or timer outstanding exactly when a call is in
\* flight, the candidate that its continuation will use is still in the list,
\* so the list does not change under it, and no call waits behind an idle key.
OneChain == \A k \in Keys : Chained(keys[k], conts[k])

\* The calls of a key are answered in the order in which they came.
AnsweredInOrder ==
  \A k \in Keys : \A i, j \in DOMAIN arrived[k] :
    i < j /\ result[arrived[k][j]] # "none" => result[arrived[k][i]] # "none"

KeyStates ==
  [routes : Seq([node : Nodes, target : BOOLEAN, healthy : BOOLEAN]),
   cursor : Nat \ {0}, in_flight : BOOLEAN, call : Calls \cup {None},
   left : Int, queue : Seq(Calls)]
Conts == [kind : {"resolve", "connect", "lookup", "call", "retry"}, idx : Nat]

\* The calls of key k that are answered: all but the queue and the one in
\* flight.
Settled(k) ==
  Len(arrived[k]) - Len(keys[k].queue) - IF keys[k].in_flight THEN 1 ELSE 0

\* The calls of k came in this order: answered ones, the one in flight, the
\* queue.
InLine(k) ==
  /\ Settled(k) \in Nat
  /\ \A i \in DOMAIN arrived[k] : result[arrived[k][i]] # "none" <=> i <= Settled(k)
  /\ keys[k].in_flight => keys[k].call = arrived[k][Settled(k) + 1]
  /\ \A j \in DOMAIN keys[k].queue :
       keys[k].queue[j] = arrived[k][Settled(k) + 1 + j]

\* Why the two properties above hold.
CallerInv ==
  /\ keys \in [Keys -> KeyStates] /\ conts \in [Keys -> SUBSET Conts]
  /\ lookups \in Seq([key : Keys, idx : Nat])
  /\ arrived \in [Keys -> Seq(Calls)]
  /\ result \in [Calls -> {"none", "ok", "error"}]
  /\ \A k \in Keys : Chained(keys[k], conts[k])
  /\ \A i \in DOMAIN lookups :
       conts[lookups[i].key] = {Cont("lookup", lookups[i].idx)}
  /\ \A i, j \in DOMAIN lookups : lookups[i].key = lookups[j].key => i = j
  /\ \A k \in Keys : \A i, j \in DOMAIN arrived[k] :
       /\ KeyOf[arrived[k][i]] = k
       /\ arrived[k][i] = arrived[k][j] => i = j
  /\ \A k \in Keys : InLine(k)

\* A service performs the calls of a key in the order in which they came,
\* also those whose caller has gone on to the next one without a reply.
PerformedInOrder ==
  [][\A n \in Nodes : \A k \in Keys : ran'[n][k] >= ran[n][k]]_vars

\* A call that was reported as successful has been performed.
OkPerformed ==
  \A k \in Keys : \A i \in DOMAIN arrived[k] :
    result[arrived[k][i]] = "ok" => \E n \in Nodes : ran[n][k] >= i

\* The calls of key k that have left its queue.
Started(k) == Len(arrived[k]) - Len(keys[k].queue)

Envelopes == [key : Keys, call : Calls, live : BOOLEAN]

\* The call e in the mailbox of the service at n has been started and comes
\* after those the service has performed.  A caller waits for it only if it
\* is the one in flight.
Sent(n, e) ==
  \E p \in 1 .. Started(e.key) :
    /\ arrived[e.key][p] = e.call /\ ran[n][e.key] <= p
    /\ e.live => keys[e.key].in_flight /\ p = Started(e.key)

\* Why the two properties above hold: a mailbox has the calls of a key in
\* their order of arrival, and a reply is that of the call in flight.
RemoteInv ==
  /\ inbox \in [Nodes -> Seq(Envelopes)] /\ replied \in SUBSET Keys
  /\ ran \in [Nodes -> [Keys -> Nat]]
  /\ \A n \in Nodes : \A k \in Keys : ran[n][k] <= Started(k)
  /\ \A k \in replied :
       keys[k].in_flight /\ \E n \in Nodes : ran[n][k] = Started(k)
  /\ \A n \in Nodes : \A i \in DOMAIN inbox[n] : Sent(n, inbox[n][i])
  /\ \A n \in Nodes : \A i, j \in DOMAIN inbox[n] :
       i < j /\ inbox[n][i].key = inbox[n][j].key =>
         \A p, q \in DOMAIN arrived[inbox[n][i].key] :
           /\ arrived[inbox[n][i].key][p] = inbox[n][i].call
           /\ arrived[inbox[n][i].key][q] = inbox[n][j].call
           => p <= q
  /\ OkPerformed

\* Every call is answered: it succeeds, or it fails when its attempts are
\* used up, and in both cases the calls behind it move on.
EveryCallAnswered ==
  \A c \in Calls :
    c \in Range(arrived[KeyOf[c]]) ~> result[c] # "none"
=============================================================================
