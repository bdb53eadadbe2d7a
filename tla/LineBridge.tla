----------------------------- MODULE LineBridge -----------------------------
(***************************************************************************)
(* The bridge to a process outside the cluster, which speaks a line        *)
(* protocol.  Three actors: the broker, which owns the connections; the    *)
(* bridge, which turns a CALL from outside into a call of a service and    *)
(* answers with a RESULT line; and external_echo (impl), which turns a     *)
(* call from the cluster into a REQ line and keeps a promise until the     *)
(* RESULT for it comes.                                                    *)
(*                                                                         *)
(* A frame arrives whole or in two parts; a chunk with several frames is   *)
(* the same as several chunks, since the loop of the handler only sends.   *)
(* External: the process outside, which may answer a REQ twice or never,   *)
(* the network, the registry, the services and the callers.                *)
(***************************************************************************)
EXTENDS Integers, Sequences, FiniteSets

CONSTANTS
  LineHandles,      \* connection handles; they come back
  LineCalls,        \* ids of CALLs from outside
  EchoCalls,        \* calls from the cluster
  MaxConnects, MaxResults   \* bounds: connections, RESULTs from outside

ASSUME LineAssumption == MaxConnects \in Nat /\ MaxResults \in Nat

NoHandle == "no handle"
Senders == {"bridge", "impl"}

VARIABLES
  lbroker,   \* up, exiting, current, rx, bad, and the lines it is to write
  lbridge,   \* up, mail (CALLs), chains (requests under way)
  limpl,     \* up, exiting, seq, pending, mail
  answer,    \* per call from the cluster: "no", "asked", "error", or the RESULT
  outside    \* open connections, those that broke the protocol, REQs seen,
             \* CALLs sent and answered, bounds used, and whether a frame of a
             \* broken connection was taken

lineVars == <<lbroker, lbridge, limpl, answer, outside>>

LineInit ==
  /\ lbroker = [up |-> TRUE, exiting |-> FALSE, current |-> NoHandle,
                rx |-> [h \in LineHandles |-> << >>], bad |-> {},
                mail |-> [s \in Senders |-> << >>]]
  /\ lbridge = [up |-> TRUE, mail |-> << >>, chains |-> {}]
  /\ limpl = [up |-> TRUE, exiting |-> FALSE, seq |-> 0, pending |-> {}, mail |-> << >>]
  /\ answer = [c \in EchoCalls |-> "no"]
  /\ outside = [open |-> {}, broken |-> {}, seen |-> {}, called |-> {},
                taken |-> {}, told |-> [i \in LineCalls |-> 0],
                connects |-> 0, results |-> 0, after |-> FALSE]

-----------------------------------------------------------------------------
(* The broker.                                                             *)

LineConnect(h) ==
  /\ lbroker.up /\ ~ lbroker.exiting
  /\ h \notin outside.open /\ outside.connects < MaxConnects
  /\ lbroker' = [lbroker EXCEPT !.current = h, !.rx[h] = << >>, !.bad = @ \ {h}]
  /\ outside' = [outside EXCEPT !.open = @ \cup {h}, !.connects = @ + 1]
  /\ UNCHANGED <<lbridge, limpl, answer>>

CallFrame(i) == [kind |-> "call", id |-> i]
ResultFrame(r) == [kind |-> "result", req |-> r]
InvalidFrame == [kind |-> "invalid"]

\* A frame that cannot be read: the connection is not listened to any more.
Invalid(h) ==
  /\ lbroker' = [lbroker EXCEPT !.rx[h] = << >>, !.bad = @ \cup {h}]
  /\ UNCHANGED <<lbridge, limpl>>

\* A CALL goes to the bridge and a RESULT to impl, unless that has exited.
Dispatch(h, f) ==
  \/ f.kind = "invalid" /\ Invalid(h)
  \/ /\ f.kind = "call"
     /\ lbroker' = [lbroker EXCEPT !.rx[h] = << >>]
     /\ lbridge' = IF lbridge.up THEN [lbridge EXCEPT !.mail = Append(@, f.id)] ELSE lbridge
     /\ UNCHANGED limpl
  \/ /\ f.kind = "result"
     /\ lbroker' = [lbroker EXCEPT !.rx[h] = << >>]
     /\ limpl' = IF limpl.up THEN [limpl EXCEPT !.mail = Append(@, f)] ELSE limpl
     /\ UNCHANGED lbridge

\* What the process sends next: the rest of a frame, or a new one.
Sendable(h) ==
  IF lbroker.rx[h] # << >> THEN {lbroker.rx[h][1]}
  ELSE {CallFrame(i) : i \in LineCalls \ outside.called}
       \cup {ResultFrame(r) : r \in {q \in outside.seen : outside.results < MaxResults}}
       \cup {InvalidFrame}

\* The bookkeeping of a frame of which the first byte (new) or the last (whole)
\* arrives; took: the broker hands it on.
Sent(h, f, new, took) ==
  outside' = [outside EXCEPT
    !.called = IF new /\ f.kind = "call" THEN @ \cup {f.id} ELSE @,
    !.results = IF new /\ f.kind = "result" THEN @ + 1 ELSE @,
    !.taken = IF took /\ f.kind = "call" /\ lbridge.up THEN @ \cup {f.id} ELSE @,
    !.after = @ \/ (took /\ h \in outside.broken),
    !.broken = IF took /\ f.kind = "invalid" THEN @ \cup {h} ELSE @]

\* new_data_msg.
LineData(h) ==
  /\ lbroker.up /\ ~ lbroker.exiting /\ h \in outside.open
  /\ \E f \in Sendable(h) :
       LET new == lbroker.rx[h] = << >> IN
       \/ \* the connection is not listened to
          /\ h \in lbroker.bad
          /\ Sent(h, f, new, FALSE)
          /\ UNCHANGED <<lbroker, lbridge, limpl>>
       \/ \* the frame is not whole yet
          /\ h \notin lbroker.bad /\ new /\ f.kind # "invalid"
          /\ lbroker' = [lbroker EXCEPT !.rx[h] = <<f>>]
          /\ Sent(h, f, TRUE, FALSE)
          /\ UNCHANGED <<lbridge, limpl>>
       \/ /\ h \notin lbroker.bad
          /\ Dispatch(h, f)
          /\ Sent(h, f, new, TRUE)
  /\ UNCHANGED answer

CurrentAfter(h) == IF lbroker.current = h THEN NoHandle ELSE lbroker.current

LineClosed(h) ==
  /\ lbroker.up /\ ~ lbroker.exiting /\ h \in outside.open
  /\ lbroker' = [lbroker EXCEPT !.rx[h] = << >>, !.bad = @ \ {h}, !.current = CurrentAfter(h)]
  /\ outside' = [outside EXCEPT !.open = @ \ {h}, !.broken = @ \ {h}]
  /\ UNCHANGED <<lbridge, limpl, answer>>

\* write_atom: a line goes to the current connection, or nowhere.
LineWrite(s) ==
  /\ lbroker.up /\ ~ lbroker.exiting /\ lbroker.mail[s] # << >>
  /\ LET line == Head(lbroker.mail[s]) IN
     outside' = IF lbroker.current = NoHandle \/ line.kind # "req" THEN outside
                ELSE [outside EXCEPT !.seen = @ \cup {line}]
  /\ lbroker' = [lbroker EXCEPT !.mail[s] = Tail(@)]
  /\ UNCHANGED <<lbridge, limpl, answer>>

BrokerExits ==
  /\ lbroker.up /\ lbroker.exiting
  /\ lbroker' = [lbroker EXCEPT !.up = FALSE, !.mail = [s \in Senders |-> << >>]]
  /\ outside' = [outside EXCEPT !.open = {}]
  /\ UNCHANGED <<lbridge, limpl, answer>>

-----------------------------------------------------------------------------
(* The bridge: resolve the service, ask for its protocols, call it.        *)

ToBroker(s, line) ==
  IF lbroker.up THEN [lbroker EXCEPT !.mail[s] = Append(@, line)] ELSE lbroker

ext_call ==
  /\ lbridge.up /\ lbridge.mail # << >>
  /\ lbridge' = [lbridge EXCEPT !.mail = Tail(@),
                   !.chains = @ \cup {[id |-> Head(lbridge.mail), at |-> "resolve"]}]
  /\ UNCHANGED <<lbroker, limpl, answer, outside>>

\* Mutant: nothing is said when the protocols cannot be had.
RespondUnlessProtocols(c) ==
  /\ lbridge.up
  /\ lbridge' = [lbridge EXCEPT !.chains = @ \ {c}]
  /\ IF c.at = "protocols" THEN UNCHANGED <<lbroker, outside>>
     ELSE /\ lbroker' = ToBroker("bridge", [kind |-> "result", id |-> c.id])
          /\ outside' = [outside EXCEPT !.told[c.id] = @ + 1]
  /\ UNCHANGED <<limpl, answer>>

\* respond: the service answers, or a step fails or times out, or the service
\* or the protocol number is unknown.
Respond(c) ==
  /\ lbridge.up
  /\ lbridge' = [lbridge EXCEPT !.chains = @ \ {c}]
  /\ lbroker' = ToBroker("bridge", [kind |-> "result", id |-> c.id])
  /\ outside' = [outside EXCEPT !.told[c.id] = @ + 1]
  /\ UNCHANGED <<limpl, answer>>

Advance(c) == [c EXCEPT !.at = IF @ = "resolve" THEN "protocols" ELSE "call"]

ChainGoesOn(c) ==
  /\ lbridge.up /\ c.at # "call"
  /\ lbridge' = [lbridge EXCEPT !.chains = (@ \ {c}) \cup {Advance(c)}]
  /\ UNCHANGED <<lbroker, limpl, answer, outside>>

\* exit_msg: impl and the broker are told to exit as well.
BridgeExits ==
  /\ lbridge.up
  /\ lbridge' = [up |-> FALSE, mail |-> << >>, chains |-> {}]
  /\ limpl' = [limpl EXCEPT !.exiting = TRUE]
  /\ lbroker' = [lbroker EXCEPT !.exiting = TRUE]
  /\ UNCHANGED <<answer, outside>>

-----------------------------------------------------------------------------
(* impl, the service external_echo.                                        *)

\* A caller in the cluster; the request bounces if impl is gone.
EchoCall(c) ==
  /\ answer[c] = "no"
  /\ answer' = [answer EXCEPT ![c] = IF limpl.up THEN "asked" ELSE "error"]
  /\ limpl' = IF limpl.up
                THEN [limpl EXCEPT !.mail = Append(@, [kind |-> "envelope", call |-> c])]
                ELSE limpl
  /\ UNCHANGED <<lbroker, lbridge, outside>>

Rid(i) == i.seq + 1

\* plugin_envelope: a number, a promise and a REQ line.
EchoRequest ==
  /\ limpl.up /\ ~ limpl.exiting
  /\ limpl.mail # << >> /\ Head(limpl.mail).kind = "envelope"
  /\ LET req == [kind |-> "req", rid |-> Rid(limpl), call |-> Head(limpl.mail).call] IN
     /\ limpl' = [limpl EXCEPT !.seq = @ + 1, !.mail = Tail(@), !.pending = @ \cup {req}]
     /\ lbroker' = ToBroker("impl", req)
  /\ UNCHANGED <<lbridge, answer, outside>>

\* ext_result_atom: the promise with this number is kept, with the result or (the
\* process said ERR) with an error; a second RESULT finds none.
EchoResult ==
  /\ limpl.up /\ ~ limpl.exiting
  /\ limpl.mail # << >> /\ Head(limpl.mail).kind = "result"
  /\ LET f == Head(limpl.mail)
         found == {p \in limpl.pending : p.rid = f.req.rid}
     IN  \E ok \in BOOLEAN :
         /\ limpl' = [limpl EXCEPT !.mail = Tail(@), !.pending = @ \ found]
         /\ answer' = [c \in EchoCalls |->
              IF \E p \in found : p.call = c
                THEN (IF ok THEN f.req.call ELSE "error") ELSE answer[c]]
  /\ UNCHANGED <<lbroker, lbridge, outside>>

\* exit_msg: the promises that are left, and the requests not looked at, end in
\* an error.
ImplExits ==
  /\ limpl.up /\ limpl.exiting
  /\ limpl' = [limpl EXCEPT !.up = FALSE, !.pending = {}, !.mail = << >>]
  /\ answer' = [c \in EchoCalls |-> IF answer[c] = "asked" THEN "error" ELSE answer[c]]
  /\ UNCHANGED <<lbroker, lbridge, outside>>

-----------------------------------------------------------------------------
ChainStep == \E c \in lbridge.chains : Respond(c) \/ ChainGoesOn(c)
LineNext ==
  \/ \E h \in LineHandles : LineConnect(h) \/ LineData(h) \/ LineClosed(h)
  \/ \E s \in Senders : LineWrite(s)
  \/ ext_call \/ ChainStep
  \/ \E c \in EchoCalls : EchoCall(c)
  \/ EchoRequest \/ EchoResult
  \/ BridgeExits \/ ImplExits \/ BrokerExits

-----------------------------------------------------------------------------
(* Properties.                                                             *)

\* Types; the connection that lines are written to stands, and promises have
\* numbers that were given out.
LineTypeOK ==
  /\ lbroker.current \in outside.open \cup {NoHandle} \/ ~ lbroker.up
  /\ lbroker.bad \subseteq outside.open \/ ~ lbroker.up
  /\ \A h \in LineHandles : Len(lbroker.rx[h]) <= 1
  /\ \A p \in limpl.pending : p.rid \in 1 .. limpl.seq
  /\ \A c \in lbridge.chains : c.id \in LineCalls /\ c.at \in {"resolve", "protocols", "call"}
  /\ answer \in [EchoCalls -> {"no", "asked", "error"} \cup EchoCalls]

\* A call from the cluster gets the result of its own REQ, also when the process
\* outside answers another one twice or after a reconnection.
ResultToOwner == \A c \in EchoCalls : answer[c] \in {"no", "asked", "error", c}

\* No CALL from outside gets two RESULT lines.
OneResultLine == \A i \in LineCalls : outside.told[i] <= 1

\* Once a connection has sent a frame that cannot be read, none of its frames is
\* taken ("bad = 协议错误连接（忽略后续数据，等对端关）", bridge_actor.cpp:346).
BrokenIgnored == ~ outside.after

\* No CALL from outside is forgotten: one that was taken waits, is under way, or
\* has its RESULT line, until the bridge exits.
NoCallForgotten ==
  lbridge.up => \A i \in outside.taken :
    \/ outside.told[i] = 1
    \/ \E k \in DOMAIN lbridge.mail : lbridge.mail[k] = i
    \/ \E c \in lbridge.chains : c.id = i

\* Both directions of the bridge keep calls and results together, through
\* repeated results, broken frames and reconnections.
CallsAnswered ==
  LineTypeOK /\ ResultToOwner /\ OneResultLine /\ BrokenIgnored /\ NoCallForgotten

\* When the bridge has exited the other two exit, so that the actor system can
\* end, and no caller in the cluster is left waiting.
BridgeExitStopsAll ==
  ~ lbridge.up ~> /\ ~ lbroker.up /\ ~ limpl.up
                  /\ \A c \in EchoCalls : answer[c] # "asked"
=============================================================================
