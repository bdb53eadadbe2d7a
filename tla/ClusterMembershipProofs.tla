----------------------- MODULE ClusterMembershipProofs -----------------------
(***************************************************************************)
(* Proofs about ClusterMembership for any set of nodes, any lease, any     *)
(* delay of messages and any number of faults.                             *)
(***************************************************************************)
EXTENDS ClusterMembership, TLAPS

\* The heartbeat period is a number.
LEMMA PeriodType == heartbeat_period \in Nat
BY MembershipAssumption DEF heartbeat_period

\* What the records of the model are made of.
LEMMA RecordTypes ==
  /\ NoSlot \in Slots
  /\ NoMsg \in Messages
  /\ \A i \in Nat : NewClient(i) \in Clients
BY MembershipAssumption DEF NoSlot, NoMsg, NewClient, Slots, Messages, Clients

\* What the steps of a client's record leave.
LEMMA ClientSteps ==
  ASSUME NEW c \in Clients
  PROVE  /\ \A t \in {"none", "init", "heartbeat", "retry"}, d \in Nat :
              LET e == Scheduled(c, t, d)
              IN  /\ e \in Clients /\ e.inc = c.inc /\ e.up = c.up
                  /\ e.state = c.state /\ e.tick = t /\ e.timer = d
                  /\ e.wait = "none"
         /\ \A k \in {"none", "register", "heartbeat"} :
              LET e == Requested(c, k)
              IN  /\ e \in Clients /\ e.inc = c.inc /\ e.up = c.up
                  /\ e.state = c.state /\ e.tick = "none" /\ e.wait = k
         /\ LET e == Reconnecting(c)
            IN  /\ e \in Clients /\ e.inc = c.inc /\ e.up = c.up
                /\ e.state = "reconnecting" /\ e.tick = "retry"
                /\ e.wait = "none"
BY DEF Scheduled, Requested, Reconnecting, RetryDelay, Clients

\* prune_expired takes out slots whose lease is used up and nothing else.
LEMMA PruneFacts ==
  ASSUME slots \in [Nodes -> Slots]
  PROVE  /\ prune_expired(slots) \in [Nodes -> Slots]
         /\ \A n \in Nodes :
              \/ prune_expired(slots)[n] = slots[n]
              \/ /\ prune_expired(slots)[n] = NoSlot
                 /\ slots[n].in /\ slots[n].left = 0
<1>1. \A n \in Nodes : prune_expired(slots)[n] =
        IF TTL > 0 /\ slots[n].in /\ slots[n].left = 0 THEN NoSlot ELSE slots[n]
  BY DEF prune_expired
<1>2. \A n \in Nodes : prune_expired(slots)[n] \in Slots
  BY <1>1, RecordTypes
<1>3. prune_expired(slots) = [n \in Nodes |-> prune_expired(slots)[n]]
  BY DEF prune_expired
<1> QED BY <1>1, <1>2, <1>3

\* What the updates of the records leave.
LEMMA SlotUpdate ==
  ASSUME NEW s \in Slots, NEW v \in 0 .. TTL
  PROVE  /\ [s EXCEPT !.left = v] \in Slots
         /\ [s EXCEPT !.left = v].inc = s.inc
         /\ [s EXCEPT !.left = v].in = s.in
         /\ [s EXCEPT !.left = v].left = v
BY DEF Slots

\* The fields of a client.
LEMMA ClientFields ==
  ASSUME NEW c \in Clients, NEW b \in BOOLEAN,
         NEW s \in {"connecting", "registered", "reconnecting"}
  PROVE  /\ LET e == [c EXCEPT !.master = b]
            IN  /\ e \in Clients /\ e.inc = c.inc /\ e.up = c.up
                /\ e.state = c.state /\ e.tick = c.tick /\ e.timer = c.timer
                /\ e.wait = c.wait
         /\ LET e == [c EXCEPT !.state = s]
            IN  /\ e \in Clients /\ e.inc = c.inc /\ e.up = c.up
                /\ e.state = s /\ e.tick = c.tick /\ e.timer = c.timer
                /\ e.wait = c.wait
BY DEF Clients

\* The fields of the records, from their types.
LEMMA TypeFacts ==
  ASSUME Typed, NEW n \in Nodes
  PROVE  /\ client[n] \in Clients /\ slots[n] \in Slots /\ msg[n] \in Messages
         /\ client[n].inc \in Nat /\ slots[n].inc \in Nat /\ msg[n].inc \in Nat
         /\ client[n].timer \in Nat /\ client[n].waited \in Nat
         /\ slots[n].left \in 0 .. TTL /\ msg[n].age \in 0 .. MaxDelay
         /\ slots[n].in \in BOOLEAN /\ client[n].up \in BOOLEAN
         /\ faults \in Nat
<1>1. client[n] \in Clients /\ slots[n] \in Slots /\ msg[n] \in Messages
  BY DEF Typed
<1>2. faults \in Nat
  BY MembershipAssumption DEF Typed
<1>3. /\ client[n].inc \in Nat /\ client[n].timer \in Nat
      /\ client[n].waited \in Nat /\ client[n].up \in BOOLEAN
  BY <1>1 DEF Clients
<1>4. slots[n].inc \in Nat /\ slots[n].left \in 0 .. TTL /\ slots[n].in \in BOOLEAN
  BY <1>1 DEF Slots
<1>5. msg[n].inc \in Nat /\ msg[n].age \in 0 .. MaxDelay
  BY <1>1 DEF Messages
<1> QED BY <1>1, <1>2, <1>3, <1>4, <1>5

\* The types hold at the start.
LEMMA TypeInit == Init => TypeOK
<1>1. Init => Typed
  BY MembershipAssumption, RecordTypes DEF Init, Typed
<1>2. Init => Counted
  BY MembershipAssumption DEF Init, Counted, NewClient, NoSlot, NoMsg
<1> QED BY <1>1, <1>2 DEF TypeOK

\* A message that a client sends.
LEMMA MessageType ==
  ASSUME NEW k \in {"none", "register", "heartbeat", "ok", "rejected"},
         NEW i \in Nat
  PROVE  LET m == [kind |-> k, age |-> 0, inc |-> i]
         IN  m \in Messages /\ m.kind = k /\ m.age = 0 /\ m.inc = i
BY MembershipAssumption DEF Messages

-----------------------------------------------------------------------------
(* What each action does, field by field.                                  *)

\* The client's record has one timer or one request, and not both.
Loop(c) == (c.tick # "none") # (c.wait # "none")

\* A step of the client on node n: its record becomes c.
Becomes(n, c) ==
  /\ c \in Clients /\ c.inc = client[n].inc /\ c.up = client[n].up
  /\ client' = [client EXCEPT ![n] = c]
  /\ UNCHANGED <<up, slots, lost, net, faults>>

\* The client sends the request k.
Sends(n, k) ==
  \E m \in Messages :
    /\ m.kind = k /\ m.age = 0 /\ m.inc = client[n].inc
    /\ msg' = [msg EXCEPT ![n] = m]

\* What sending a registration does to the client.
LEMMA RegisterEffect ==
  ASSUME Typed, NEW n \in Nodes, RegisterTick(n)
  PROVE  \E c \in Clients :
           /\ Becomes(n, c)
           /\ c.state # "registered"
           /\ \/ /\ c.tick = "none" /\ c.wait = "register" /\ Sends(n, "register")
                 /\ conn' = [conn EXCEPT ![n] = TRUE]
              \/ /\ c.tick = "retry" /\ c.wait = "none" /\ msg' = msg
                 /\ conn' = [conn EXCEPT ![n] = FALSE]
<1>1. client[n] \in Clients /\ client[n].inc \in Nat /\ client \in [Nodes -> Clients]
  BY TypeFacts DEF Typed
<1>2. client[n].state # "registered"
  BY DEF RegisterTick
<1>3. CASE net[n] /\ up
  <2> DEFINE d == Requested(client[n], "register")
             c == [d EXCEPT !.master = TRUE]
             m == [kind |-> "register", age |-> 0, inc |-> client[n].inc]
  <2>1. /\ c \in Clients /\ c.inc = client[n].inc /\ c.up = client[n].up
        /\ c.state = client[n].state /\ c.tick = "none" /\ c.wait = "register"
    <3>1. /\ d \in Clients /\ d.inc = client[n].inc /\ d.up = client[n].up
          /\ d.state = client[n].state /\ d.tick = "none" /\ d.wait = "register"
      BY <1>1, ClientSteps
    <3> HIDE DEF d
    <3> QED BY <3>1, ClientFields
  <2>2. m \in Messages /\ m.kind = "register" /\ m.age = 0 /\ m.inc = client[n].inc
    BY <1>1, MessageType
  <2>3. /\ client' = [client EXCEPT ![n] = c] /\ msg' = [msg EXCEPT ![n] = m]
        /\ conn' = [conn EXCEPT ![n] = TRUE]
        /\ UNCHANGED <<up, slots, lost, net, faults>>
    BY <1>1, <1>3 DEF RegisterTick, do_register
  <2> HIDE DEF c, m
  <2> QED BY <1>2, <2>1, <2>2, <2>3 DEF Becomes, Sends
<1>4. CASE ~net[n] \/ ~up
  <2> DEFINE d == Reconnecting(client[n])
             c == [d EXCEPT !.master = FALSE]
  <2>1. /\ c \in Clients /\ c.inc = client[n].inc /\ c.up = client[n].up
        /\ c.state = "reconnecting" /\ c.tick = "retry" /\ c.wait = "none"
    <3>1. /\ d \in Clients /\ d.inc = client[n].inc /\ d.up = client[n].up
          /\ d.state = "reconnecting" /\ d.tick = "retry" /\ d.wait = "none"
      BY <1>1, ClientSteps
    <3> HIDE DEF d
    <3> QED BY <3>1, ClientFields
  <2>2. /\ client' = [client EXCEPT ![n] = c] /\ msg' = msg
        /\ conn' = [conn EXCEPT ![n] = FALSE]
        /\ UNCHANGED <<up, slots, lost, net, faults>>
    BY <1>1, <1>4 DEF RegisterTick, do_register
  <2> HIDE DEF c
  <2> QED BY <2>1, <2>2 DEF Becomes
<1> QED BY <1>3, <1>4

\* What sending a heartbeat does to the client.
LEMMA HeartbeatEffect ==
  ASSUME Typed, NEW n \in Nodes, HeartbeatTick(n)
  PROVE  /\ client[n].tick = "heartbeat" /\ client[n].timer = 0 /\ conn' = conn
         /\ \E c \in Clients :
              /\ Becomes(n, c)
              /\ \/ /\ c.state = "reconnecting" /\ c.tick = "retry"
                    /\ c.wait = "none" /\ msg' = msg
                 \/ /\ c.tick = "none" /\ c.wait = "heartbeat"
                    /\ \/ conn[n] /\ Sends(n, "heartbeat")
                       \/ ~conn[n] /\ msg' = msg
<1>1. client[n] \in Clients /\ client[n].inc \in Nat /\ client \in [Nodes -> Clients]
  BY TypeFacts DEF Typed
<1>2. client[n].tick = "heartbeat" /\ client[n].timer = 0 /\ conn' = conn
  BY DEF HeartbeatTick, Fires
<1>3. CASE client[n].state # "registered" \/ ~client[n].master
  <2> DEFINE c == Reconnecting(client[n])
  <2>1. /\ c \in Clients /\ c.inc = client[n].inc /\ c.up = client[n].up
        /\ c.state = "reconnecting" /\ c.tick = "retry" /\ c.wait = "none"
    BY <1>1, ClientSteps
  <2>2. /\ client' = [client EXCEPT ![n] = c] /\ msg' = msg
        /\ UNCHANGED <<up, slots, lost, net, faults>>
    BY <1>1, <1>3 DEF HeartbeatTick
  <2> HIDE DEF c
  <2> QED BY <1>2, <2>1, <2>2 DEF Becomes
<1>4. CASE ~(client[n].state # "registered" \/ ~client[n].master)
  <2> DEFINE c == Requested(client[n], "heartbeat")
             m == [kind |-> "heartbeat", age |-> 0, inc |-> client[n].inc]
  <2>1. /\ c \in Clients /\ c.inc = client[n].inc /\ c.up = client[n].up
        /\ c.tick = "none" /\ c.wait = "heartbeat"
    BY <1>1, ClientSteps
  <2>2. m \in Messages /\ m.kind = "heartbeat" /\ m.age = 0 /\ m.inc = client[n].inc
    BY <1>1, MessageType
  <2>3. /\ client' = [client EXCEPT ![n] = c]
        /\ msg' = IF conn[n] THEN [msg EXCEPT ![n] = m] ELSE msg
        /\ UNCHANGED <<up, slots, lost, net, faults>>
    BY <1>1, <1>4 DEF HeartbeatTick
  <2> HIDE DEF c, m
  <2> QED BY <1>2, <2>1, <2>2, <2>3 DEF Becomes, Sends
<1> QED BY <1>3, <1>4

\* What an answer does to the client.
LEMMA ReplyEffect ==
  ASSUME Typed, NEW n \in Nodes, Reply(n)
  PROVE  /\ conn' = conn /\ msg' = [msg EXCEPT ![n] = NoMsg]
         /\ msg[n].kind \in {"ok", "rejected"}
         /\ client[n].wait # "none"
         /\ \E c \in Clients :
              /\ Becomes(n, c) /\ c.wait = "none"
              /\ \/ /\ c.tick = "heartbeat" /\ c.timer = heartbeat_period
                 \/ /\ c.tick = "retry" /\ c.state = "reconnecting"
<1>1. client[n] \in Clients /\ client \in [Nodes -> Clients]
  BY TypeFacts DEF Typed
<1>2. /\ conn' = conn /\ msg' = [msg EXCEPT ![n] = NoMsg]
      /\ msg[n].kind \in {"ok", "rejected"} /\ client[n].wait # "none"
      /\ UNCHANGED <<up, slots, lost, net, faults>>
  BY DEF Reply
<1> DEFINE a == Scheduled(client[n], "heartbeat", heartbeat_period)
           b == [a EXCEPT !.state = "registered"]
           d == Reconnecting(client[n])
<1>3. /\ a \in Clients /\ a.inc = client[n].inc /\ a.up = client[n].up
      /\ a.tick = "heartbeat" /\ a.timer = heartbeat_period /\ a.wait = "none"
  BY <1>1, PeriodType, ClientSteps
<1>4. /\ b \in Clients /\ b.inc = client[n].inc /\ b.up = client[n].up
      /\ b.tick = "heartbeat" /\ b.timer = heartbeat_period /\ b.wait = "none"
  <2> HIDE DEF a
  <2> QED BY <1>3, ClientFields
<1>5. /\ d \in Clients /\ d.inc = client[n].inc /\ d.up = client[n].up
      /\ d.tick = "retry" /\ d.state = "reconnecting" /\ d.wait = "none"
  BY <1>1, ClientSteps
<1>6. \E c \in {a, b, d} : client' = [client EXCEPT ![n] = c]
  BY DEF Reply
<1> HIDE DEF a, b, d
<1> QED BY <1>2, <1>3, <1>4, <1>5, <1>6 DEF Becomes

\* What an error or a timeout does to the client.
LEMMA FailEffect ==
  ASSUME Typed, NEW n \in Nodes, RequestFails(n)
  PROVE  /\ conn' = conn /\ msg' = msg
         /\ \E c \in Clients :
              /\ Becomes(n, c) /\ c.wait = "none"
              /\ c.tick = "retry" /\ c.state = "reconnecting"
<1>1. client[n] \in Clients /\ client \in [Nodes -> Clients]
  BY TypeFacts DEF Typed
<1> DEFINE d == Reconnecting(client[n])
           b == IF client[n].wait = "heartbeat" THEN FALSE ELSE d.master
           c == [d EXCEPT !.master = b]
<1>2. /\ d \in Clients /\ d.inc = client[n].inc /\ d.up = client[n].up
      /\ d.tick = "retry" /\ d.state = "reconnecting" /\ d.wait = "none"
  BY <1>1, ClientSteps
<1>3. b \in BOOLEAN
  <2>1. d.master \in BOOLEAN
    <3> HIDE DEF d
    <3> QED BY <1>2 DEF Clients
  <2> QED BY <2>1
<1>4. /\ c \in Clients /\ c.inc = client[n].inc /\ c.up = client[n].up
      /\ c.tick = "retry" /\ c.state = "reconnecting" /\ c.wait = "none"
  <2> HIDE DEF d, b
  <2> QED BY <1>2, <1>3, ClientFields
<1>5. client' = [client EXCEPT ![n] = c]
  BY DEF RequestFails
<1>6. /\ conn' = conn /\ msg' = msg
      /\ UNCHANGED <<up, slots, lost, net, faults>>
  BY DEF RequestFails
<1> HIDE DEF c
<1> QED BY <1>4, <1>5, <1>6 DEF Becomes

\* A request of node n is answered with a reply of kind k, or with none.
Answers(n, k) ==
  \E m \in Messages :
    /\ msg' = [msg EXCEPT ![n] = m] /\ m.inc <= client[n].inc
    /\ \/ conn[n] /\ m.kind = k /\ m.age = 0
       \/ ~conn[n] /\ m.kind = "none"

\* A slot that prune_expired leaves or takes out.
Pruned(k) == slots'[k] = slots[k] \/ (slots'[k] = NoSlot /\ slots[k].left = 0)

\* A free slot of the network.
LEMMA NoMsgFields ==
  NoMsg \in Messages /\ NoMsg.kind = "none" /\ NoMsg.inc = 0 /\ NoMsg.age = 0
BY RecordTypes DEF NoMsg

\* A node that is not registered.
LEMMA NoSlotFields ==
  NoSlot \in Slots /\ NoSlot.in = FALSE /\ NoSlot.inc = 0 /\ NoSlot.left = 0
BY RecordTypes DEF NoSlot

\* The type of the master's answers.
LEMMA AnswerType ==
  ASSUME TypeOK, NEW n \in Nodes, NEW k \in {"ok", "rejected"},
         msg' = [msg EXCEPT ![n] =
                   IF conn[n] THEN [@ EXCEPT !.kind = k, !.age = 0] ELSE NoMsg]
  PROVE  Answers(n, k)
<1>1. /\ msg[n] \in Messages /\ msg \in [Nodes -> Messages] /\ 0 \in 0 .. MaxDelay
      /\ msg[n].inc <= client[n].inc /\ client[n].inc \in Nat
  BY TypeFacts, MembershipAssumption DEF TypeOK, Typed, Counted
<1>2. CASE conn[n]
  <2> DEFINE m == [msg[n] EXCEPT !.kind = k, !.age = 0]
  <2>1. m \in Messages /\ m.inc = msg[n].inc /\ m.kind = k /\ m.age = 0
    BY <1>1 DEF Messages
  <2>2. msg' = [msg EXCEPT ![n] = m]
    BY <1>1, <1>2
  <2> HIDE DEF m
  <2> QED BY <1>1, <1>2, <2>1, <2>2 DEF Answers
<1>3. CASE ~conn[n]
  <2>1. msg' = [msg EXCEPT ![n] = NoMsg]
    BY <1>1, <1>3
  <2>2. NoMsg.inc <= client[n].inc /\ NoMsg.kind = "none" /\ NoMsg \in Messages
    BY <1>1, NoMsgFields
  <2> HIDE DEF NoMsg
  <2> QED BY <1>3, <2>1, <2>2, Zenon DEF Answers
<1> QED BY <1>2, <1>3

\* What a registration does to the master.
LEMMA HandleRegisterEffect ==
  ASSUME TypeOK, NEW n \in Nodes, HandleRegister(n)
  PROVE  /\ UNCHANGED <<up, client, conn, net, faults>>
         /\ msg[n].kind = "register" /\ Answers(n, "ok")
         /\ slots' \in [Nodes -> Slots]
         /\ slots'[n].in /\ slots'[n].left = TTL /\ slots'[n].inc = msg[n].inc
         /\ \A k \in Nodes \ {n} : Pruned(k)
         /\ lost' = lost \/ lost' = lost \cup {<<n, msg[n].inc>>}
<1>1. /\ slots \in [Nodes -> Slots] /\ msg[n].inc \in Nat
  BY TypeFacts DEF TypeOK, Typed
<1>2. /\ UNCHANGED <<up, client, conn, net, faults>> /\ msg[n].kind = "register"
      /\ lost' = lost \/ lost' = lost \cup {<<n, msg[n].inc>>}
  BY DEF HandleRegister, upsert
<1>3. Answers(n, "ok")
  BY AnswerType DEF HandleRegister
<1> DEFINE s == [in |-> TRUE, inc |-> msg[n].inc, left |-> TTL]
           kept == prune_expired(slots)
<1>4. s \in Slots /\ s.in /\ s.left = TTL /\ s.inc = msg[n].inc
  BY <1>1, MembershipAssumption DEF Slots
<1>5. slots' = [kept EXCEPT ![n] = s]
  BY DEF HandleRegister, upsert
<1>6. /\ kept \in [Nodes -> Slots]
      /\ \A k \in Nodes : \/ kept[k] = slots[k]
                          \/ kept[k] = NoSlot /\ slots[k].left = 0
  BY <1>1, PruneFacts
<1> HIDE DEF s, kept
<1>7. slots' \in [Nodes -> Slots] /\ slots'[n] = s
  BY <1>4, <1>5, <1>6
<1>8. \A k \in Nodes \ {n} : Pruned(k)
  BY <1>5, <1>6 DEF Pruned
<1> QED BY <1>2, <1>3, <1>4, <1>7, <1>8

\* What a heartbeat does to the master.
LEMMA HandleHeartbeatEffect ==
  ASSUME TypeOK, NEW n \in Nodes, HandleHeartbeat(n)
  PROVE  /\ UNCHANGED <<up, client, conn, net, faults, lost>>
         /\ msg[n].kind = "heartbeat"
         /\ slots' \in [Nodes -> Slots]
         /\ \/ /\ slots'[n].in /\ slots'[n].left = TTL
               /\ slots'[n].inc = slots[n].inc /\ Answers(n, "ok")
            \/ ~slots'[n].in /\ Pruned(n) /\ Answers(n, "rejected")
         /\ \A k \in Nodes \ {n} : Pruned(k)
<1> DEFINE kept == prune_expired(slots)
<1>1. slots \in [Nodes -> Slots] /\ TTL \in 0 .. TTL
  BY MembershipAssumption DEF TypeOK, Typed
<1>2. /\ UNCHANGED <<up, client, conn, net, faults, lost>>
      /\ msg[n].kind = "heartbeat"
  BY DEF HandleHeartbeat
<1>3. /\ kept \in [Nodes -> Slots]
      /\ \A k \in Nodes : \/ kept[k] = slots[k]
                          \/ kept[k] = NoSlot /\ slots[k].left = 0
  BY <1>1, PruneFacts
<1>4. CASE kept[n].in
  <2> DEFINE s == [kept[n] EXCEPT !.left = TTL]
  <2>1. s \in Slots /\ s.in /\ s.left = TTL /\ s.inc = kept[n].inc
    <3> HIDE DEF kept
    <3> QED BY <1>1, <1>3, <1>4, SlotUpdate
  <2>2. kept[n] = slots[n]
    <3> HIDE DEF kept
    <3> QED BY <1>3, <1>4, NoSlotFields
  <2>3. Answers(n, "ok")
    BY <1>4, AnswerType DEF HandleHeartbeat
  <2>4. slots' = [kept EXCEPT ![n] = s]
    BY <1>3, <1>4 DEF HandleHeartbeat, touch
  <2> HIDE DEF s, kept
  <2>5. slots' \in [Nodes -> Slots] /\ slots'[n] = s
    BY <1>3, <2>1, <2>4
  <2>6. \A k \in Nodes \ {n} : Pruned(k)
    BY <1>3, <2>4 DEF Pruned
  <2> QED BY <1>2, <2>1, <2>2, <2>3, <2>5, <2>6
<1>5. CASE ~kept[n].in
  <2>1. Answers(n, "rejected")
    BY <1>5, AnswerType DEF HandleHeartbeat
  <2>2. slots' = kept
    BY <1>5 DEF HandleHeartbeat
  <2> HIDE DEF kept
  <2>3. \A k \in Nodes : Pruned(k)
    BY <1>3, <2>2 DEF Pruned
  <2> QED BY <1>2, <1>3, <1>5, <2>1, <2>2, <2>3
<1> QED BY <1>4, <1>5

\* What a crash of a node leaves.
LEMMA CrashEffect ==
  ASSUME Typed, NEW n \in Nodes, NodeCrash(n)
  PROVE  \E c \in Clients :
           /\ c.inc = client[n].inc /\ ~c.up /\ c.tick = "none"
           /\ c.wait = "none"
           /\ client' = [client EXCEPT ![n] = c]
<1>1. client \in [Nodes -> Clients] /\ client[n] \in Clients
  BY DEF Typed
<1> DEFINE c == [client[n] EXCEPT !.up = FALSE, !.tick = "none",
                                  !.wait = "none", !.waited = 0]
<1>2. /\ c \in Clients /\ c.inc = client[n].inc /\ ~c.up /\ c.tick = "none"
      /\ c.wait = "none"
  BY <1>1 DEF Clients
<1>3. client' = [client EXCEPT ![n] = c]
  BY <1>1 DEF NodeCrash
<1> HIDE DEF c
<1> QED BY <1>2, <1>3

\* What the passing of time changes.
LEMMA TickEffect ==
  ASSUME Typed, Tick, NEW n \in Nodes
  PROVE  /\ client'[n] \in Clients /\ slots'[n] \in Slots /\ msg'[n] \in Messages
         /\ client'[n].inc = client[n].inc /\ client'[n].up = client[n].up
         /\ client'[n].state = client[n].state
         /\ client'[n].tick = client[n].tick /\ client'[n].wait = client[n].wait
         /\ client'[n].timer = Less(client[n].timer)
         /\ slots'[n].in = slots[n].in /\ slots'[n].inc = slots[n].inc
         /\ slots'[n].left = Less(slots[n].left)
         /\ msg'[n].kind = msg[n].kind /\ msg'[n].inc = msg[n].inc
         /\ msg'[n] = msg[n] \/ msg'[n].age = msg[n].age + 1
         /\ msg[n].kind # "none" => msg'[n].age = msg[n].age + 1
<1> DEFINE c == client[n]  s == slots[n]  m == msg[n]
           w == IF c.wait = "none" THEN 0 ELSE c.waited + 1
<1>1. /\ c \in Clients /\ s \in Slots /\ m \in Messages
      /\ c.timer \in Nat /\ c.waited \in Nat /\ s.left \in 0 .. TTL
      /\ m.age \in 0 .. MaxDelay
  BY TypeFacts
<1>2. /\ client'[n] = [c EXCEPT !.timer = Less(c.timer), !.waited = w]
      /\ slots'[n] = [s EXCEPT !.left = Less(s.left)]
      /\ msg'[n] = IF m = NoMsg THEN NoMsg ELSE [m EXCEPT !.age = m.age + 1]
      /\ m # NoMsg => m.age < MaxDelay
  BY DEF Tick
<1> HIDE DEF c, s, m
<1>3. Less(c.timer) \in Nat /\ w \in Nat /\ Less(s.left) \in 0 .. TTL
  BY <1>1, MembershipAssumption DEF Less
<1> HIDE DEF w
<1>4. /\ client'[n] \in Clients /\ client'[n].inc = c.inc
      /\ client'[n].up = c.up /\ client'[n].state = c.state
      /\ client'[n].tick = c.tick /\ client'[n].wait = c.wait
      /\ client'[n].timer = Less(c.timer)
  BY <1>1, <1>2, <1>3 DEF Clients
<1>5. /\ slots'[n] \in Slots /\ slots'[n].in = s.in /\ slots'[n].inc = s.inc
      /\ slots'[n].left = Less(s.left)
  BY <1>1, <1>2, <1>3, SlotUpdate
<1>6. /\ msg'[n] \in Messages /\ msg'[n].kind = m.kind /\ msg'[n].inc = m.inc
      /\ msg'[n] = m \/ msg'[n].age = m.age + 1
      /\ m.kind # "none" => msg'[n].age = m.age + 1
  <2>1. CASE m = NoMsg
    BY <2>1, <1>2, NoMsgFields
  <2>2. CASE m # NoMsg
    <3>1. m.age + 1 \in 0 .. MaxDelay
      BY <2>2, <1>1, <1>2, MembershipAssumption
    <3>2. msg'[n] = [m EXCEPT !.age = m.age + 1]
      BY <2>2, <1>2
    <3>3. /\ msg'[n] \in Messages /\ msg'[n].inc = m.inc
          /\ msg'[n].kind = m.kind /\ msg'[n].age = m.age + 1
      BY <3>1, <3>2, <1>1 DEF Messages
    <3> QED BY <3>3
  <2> QED BY <2>1, <2>2
<1> QED BY <1>4, <1>5, <1>6 DEF c, s, m

-----------------------------------------------------------------------------
(* Type correctness.                                                       *)

\* Node n's message stays, or becomes one of a process that was started.
NewMessage(n) ==
  \/ msg' = msg
  \/ \E m \in Messages :
       msg' = [msg EXCEPT ![n] = m] /\ m.inc <= client[n].inc

\* A send fills one slot of the network.
LEMMA SendsMessage ==
  ASSUME Typed, NEW n \in Nodes, NEW k, Sends(n, k)
  PROVE  NewMessage(n)
<1>1. client[n].inc \in Nat
  BY TypeFacts
<1>2. PICK m \in Messages :
        m.inc = client[n].inc /\ msg' = [msg EXCEPT ![n] = m]
  BY DEF Sends
<1>3. m.inc <= client[n].inc
  BY <1>1, <1>2
<1> QED BY <1>2, <1>3, Zenon DEF NewMessage

\* The type of what is sent.
LEMMA NewMessageType ==
  ASSUME TypeOK, NEW n \in Nodes, NewMessage(n)
  PROVE  /\ msg' \in [Nodes -> Messages]
         /\ \A k \in Nodes : msg'[k].inc <= client[k].inc
BY DEF TypeOK, Typed, Counted, NewMessage

\* The steps of the clients keep the types.
LEMMA ClientTypes ==
  ASSUME TypeOK, NEW n \in Nodes, NEW c \in Clients, Becomes(n, c),
         NewMessage(n), conn' \in [Nodes -> BOOLEAN]
  PROVE  TypeOK'
<1>1. /\ UNCHANGED <<up, slots, lost, net, faults>>
      /\ client' = [client EXCEPT ![n] = c] /\ client \in [Nodes -> Clients]
      /\ c.inc = client[n].inc /\ c.up = client[n].up
  BY DEF Becomes, TypeOK, Typed
<1>2. /\ msg' \in [Nodes -> Messages]
      /\ \A k \in Nodes : msg'[k].inc <= client[k].inc
  BY NewMessageType
<1>3. Typed'
  BY <1>1, <1>2 DEF TypeOK, Typed
<1>4. \A k \in Nodes : /\ client'[k].inc = client[k].inc
                       /\ client'[k].up = client[k].up
  BY <1>1
<1>5. \A d \in lost : d[1] \in Nodes
  BY DEF TypeOK, Typed
<1>6. Counted'
  BY <1>1, <1>2, <1>4, <1>5 DEF TypeOK, Counted
<1> QED BY <1>3, <1>6 DEF TypeOK

\* The steps of the master keep the types.
LEMMA MasterTypes ==
  ASSUME TypeOK, NEW n \in Nodes, NewMessage(n),
         slots' \in [Nodes -> Slots],
         \A k \in Nodes : slots'[k].inc <= client[k].inc,
         \/ lost' \subseteq lost
         \/ \E i \in Nat : i <= client[n].inc /\ lost' = lost \cup {<<n, i>>},
         UNCHANGED <<up, client, conn, net, faults>>
  PROVE  TypeOK'
<1>1. /\ msg' \in [Nodes -> Messages]
      /\ \A k \in Nodes : msg'[k].inc <= client[k].inc
  BY NewMessageType
<1>2. /\ lost' \subseteq Nodes \X Nat
      /\ \A d \in lost' : d[2] <= client[d[1]].inc
  BY DEF TypeOK, Typed, Counted
<1>3. Typed'
  BY <1>1, <1>2 DEF TypeOK, Typed
<1>4. Counted'
  BY <1>1, <1>2 DEF TypeOK, Counted
<1> QED BY <1>3, <1>4 DEF TypeOK

\* The incarnation in a slot never grows by pruning.
LEMMA PrunedInc ==
  ASSUME TypeOK, NEW k \in Nodes, Pruned(k)
  PROVE  slots'[k].inc <= client[k].inc
<1>1. slots[k].inc <= client[k].inc /\ client[k].inc \in Nat
  BY TypeFacts DEF TypeOK, Counted
<1> HIDE DEF NoSlot
<1> QED BY <1>1, NoSlotFields DEF Pruned

\* What breaks with a connection.
LEMMA MonitoredFacts ==
  ASSUME TypeOK, NEW n \in Nodes
  PROVE  \A d \in Monitored({n}) : /\ d \in Nodes \X Nat /\ d[1] \in Nodes
                                   /\ d[2] <= client[d[1]].inc
BY TypeFacts DEF Monitored, TypeOK, Counted

\* Every step keeps the types.
LEMMA TypeNext == TypeOK /\ [Next]_vars => TypeOK'
<1> SUFFICES ASSUME TypeOK, [Next]_vars PROVE TypeOK'
  OBVIOUS
<1> USE MembershipAssumption
<1>0. Typed /\ Counted
  BY DEF TypeOK
<1>a. \A n \in Nodes : /\ client[n].inc \in Nat /\ slots[n].inc \in Nat
                       /\ msg[n].inc \in Nat
  BY <1>0, TypeFacts
<1>b. \A n \in Nodes : NoSlot.inc <= client[n].inc /\ NoMsg.inc <= client[n].inc
  BY <1>a, NoSlotFields, NoMsgFields
<1>1. ASSUME NEW n \in Nodes, RegisterTick(n) PROVE TypeOK'
  <2>1. PICK c \in Clients : Becomes(n, c) /\ (Sends(n, "register") \/ msg' = msg)
    BY <1>0, <1>1, RegisterEffect
  <2>2. NewMessage(n)
    BY <1>0, <2>1, SendsMessage DEF NewMessage
  <2>3. conn' \in [Nodes -> BOOLEAN]
    BY <1>0, <1>1, RegisterEffect DEF Typed
  <2> QED BY <2>1, <2>2, <2>3, ClientTypes
<1>2. ASSUME NEW n \in Nodes, HeartbeatTick(n) PROVE TypeOK'
  <2>1. PICK c \in Clients : Becomes(n, c) /\ (Sends(n, "heartbeat") \/ msg' = msg)
    BY <1>0, <1>2, HeartbeatEffect
  <2>2. NewMessage(n)
    BY <1>0, <2>1, SendsMessage DEF NewMessage
  <2>3. conn' \in [Nodes -> BOOLEAN]
    BY <1>0, <1>2, HeartbeatEffect DEF Typed
  <2> QED BY <2>1, <2>2, <2>3, ClientTypes
<1>3. ASSUME NEW n \in Nodes, Reply(n) PROVE TypeOK'
  <2>1. PICK c \in Clients : Becomes(n, c)
    BY <1>0, <1>3, ReplyEffect
  <2>2. NewMessage(n)
    <3> HIDE DEF NoMsg
    <3> QED BY <1>0, <1>b, <1>3, ReplyEffect, NoMsgFields DEF NewMessage
  <2>3. conn' \in [Nodes -> BOOLEAN]
    BY <1>0, <1>3, ReplyEffect DEF Typed
  <2> QED BY <2>1, <2>2, <2>3, ClientTypes
<1>4. ASSUME NEW n \in Nodes, RequestFails(n) PROVE TypeOK'
  <2>1. PICK c \in Clients : Becomes(n, c)
    BY <1>0, <1>4, FailEffect
  <2>2. NewMessage(n) /\ conn' \in [Nodes -> BOOLEAN]
    BY <1>0, <1>4, FailEffect DEF NewMessage, Typed
  <2> QED BY <2>1, <2>2, ClientTypes
<1>5. ASSUME NEW n \in Nodes, HandleRegister(n) PROVE TypeOK'
  <2>1. /\ NewMessage(n) /\ slots' \in [Nodes -> Slots]
        /\ slots'[n].inc = msg[n].inc /\ \A k \in Nodes \ {n} : Pruned(k)
        /\ lost' = lost \/ lost' = lost \cup {<<n, msg[n].inc>>}
        /\ UNCHANGED <<up, client, conn, net, faults>>
    BY <1>5, HandleRegisterEffect DEF NewMessage, Answers
  <2>2. msg[n].inc <= client[n].inc /\ msg[n].inc \in Nat
    BY <1>0, <1>a DEF Counted
  <2>3. \A k \in Nodes : slots'[k].inc <= client[k].inc
    BY <2>1, <2>2, PrunedInc
  <2> QED BY <2>1, <2>2, <2>3, MasterTypes
<1>6. ASSUME NEW n \in Nodes, HandleHeartbeat(n) PROVE TypeOK'
  <2>1. /\ NewMessage(n) /\ slots' \in [Nodes -> Slots]
        /\ slots'[n].inc = slots[n].inc \/ Pruned(n)
        /\ \A k \in Nodes \ {n} : Pruned(k)
        /\ UNCHANGED <<up, client, conn, net, faults, lost>>
    BY <1>6, HandleHeartbeatEffect DEF NewMessage, Answers
  <2>2. \A k \in Nodes : slots'[k].inc <= client[k].inc
    BY <1>0, <2>1, PrunedInc DEF Counted
  <2> QED BY <2>1, <2>2, MasterTypes
<1>7. ASSUME NEW n \in Nodes, Unregister(n) PROVE TypeOK'
  <2>1. /\ slots' = [slots EXCEPT ![n] = NoSlot] /\ faults' = faults + 1
        /\ faults < MaxFaults
        /\ UNCHANGED <<up, lost, client, conn, net, msg>>
    BY <1>7 DEF Unregister
  <2>2. Typed'
    BY <1>0, <2>1, NoSlotFields DEF Typed
  <2>3. Counted'
    BY <1>0, <1>a, <1>b, <2>1 DEF Typed, Counted
  <2> QED BY <2>2, <2>3 DEF TypeOK
<1>8. ASSUME NEW n \in Nodes, NodeCrash(n) PROVE TypeOK'
  <2>1. PICK c \in Clients :
          /\ c.inc = client[n].inc /\ ~c.up
          /\ client' = [client EXCEPT ![n] = c]
    BY <1>0, <1>8, CrashEffect
  <2>2. /\ faults < MaxFaults /\ faults' = faults + 1
        /\ conn' = [conn EXCEPT ![n] = FALSE] /\ client[n].up
        /\ lost' = lost \cup Monitored({n})
        /\ UNCHANGED <<up, slots, net, msg>>
    BY <1>8 DEF NodeCrash, Fault
  <2>3. Typed'
    BY <1>0, <2>1, <2>2, MonitoredFacts DEF Typed
  <2>4. \A k \in Nodes : client'[k].inc = client[k].inc /\
                         (~client'[k].up => k = n \/ ~client[k].up)
    BY <1>0, <2>1 DEF Typed
  <2>5. \A d \in lost' : d[1] \in Nodes /\ d[2] <= client[d[1]].inc
    BY <1>0, <2>2, MonitoredFacts DEF Typed, Counted
  <2>6. Counted'
    <3>1. \A k \in Nodes : /\ client[k].inc <= faults + 1
                           /\ client[k].up \/ client[k].inc <= faults
      BY <1>0 DEF Counted
    <3>2. faults \in Nat
      BY <1>0 DEF Typed
    <3>3. \A k \in Nodes : /\ client'[k].inc <= faults' + 1
                           /\ ~client'[k].up => client'[k].inc <= faults'
      BY <1>a, <2>2, <2>4, <3>1, <3>2
    <3>4. \A k \in Nodes : /\ slots'[k].inc <= client'[k].inc
                           /\ msg'[k].inc <= client'[k].inc
      BY <1>0, <2>2, <2>4 DEF Counted
    <3>5. \A d \in lost' : d[2] <= client'[d[1]].inc
      BY <2>4, <2>5
    <3> QED BY <3>3, <3>4, <3>5 DEF Counted
  <2> QED BY <2>3, <2>6 DEF TypeOK
<1>9. ASSUME NEW n \in Nodes, NodeRestart(n) PROVE TypeOK'
  <2>1. /\ client' = [client EXCEPT ![n] = NewClient(client[n].inc + 1)]
        /\ ~client[n].up
        /\ UNCHANGED <<up, slots, lost, conn, net, msg, faults>>
    BY <1>9 DEF NodeRestart
  <2>2. /\ NewClient(client[n].inc + 1) \in Clients
        /\ NewClient(client[n].inc + 1).inc = client[n].inc + 1
        /\ NewClient(client[n].inc + 1).up
    BY <1>a, RecordTypes DEF NewClient
  <2>3. Typed'
    BY <1>0, <2>1, <2>2 DEF Typed
  <2>4. /\ client'[n].inc = client[n].inc + 1 /\ client'[n].up
        /\ \A k \in Nodes \ {n} : client'[k] = client[k]
    BY <1>0, <2>1, <2>2 DEF Typed
  <2>5. \A d \in lost : d[1] \in Nodes /\ d[2] \in Nat
    BY <1>0 DEF Typed
  <2>6. Counted'
    BY <1>0, <1>a, <2>1, <2>4, <2>5 DEF Typed, Counted
  <2> QED BY <2>3, <2>6 DEF TypeOK
<1>10. ASSUME NEW n \in Nodes, Cut(n) PROVE TypeOK'
  <2>1. /\ faults < MaxFaults /\ faults' = faults + 1
        /\ net' = [net EXCEPT ![n] = FALSE]
        /\ conn' = [conn EXCEPT ![n] = FALSE]
        /\ lost' = lost \/ lost' = lost \cup Monitored({n})
        /\ msg' = [msg EXCEPT ![n] = NoMsg]
        /\ UNCHANGED <<up, slots, client>>
    BY <1>10 DEF Cut, Fault
  <2>2. Typed'
    BY <1>0, <2>1, MonitoredFacts, NoMsgFields DEF Typed
  <2>3. \A d \in lost' : d[2] <= client[d[1]].inc
    BY <1>0, <2>1, MonitoredFacts DEF Counted
  <2>4. Counted'
    BY <1>0, <1>a, <1>b, <2>1, <2>3 DEF Typed, Counted
  <2> QED BY <2>2, <2>4 DEF TypeOK
<1>11. ASSUME NEW n \in Nodes, Heal(n) PROVE TypeOK'
  BY <1>0, <1>11 DEF Heal, TypeOK, Typed, Counted
<1>12. ASSUME NEW n \in Nodes, Drop(n) PROVE TypeOK'
  <2>1. Typed'
    BY <1>0, <1>12, NoMsgFields DEF Drop, Typed
  <2>2. Counted'
    BY <1>0, <1>b, <1>12 DEF Drop, Typed, Counted
  <2> QED BY <2>1, <2>2 DEF TypeOK
<1>13. ASSUME NEW d \in lost, Down(d[1], d[2]) PROVE TypeOK'
  <2>1. /\ d[1] \in Nodes /\ lost' \subseteq lost
        /\ slots' = slots \/ slots' = [slots EXCEPT ![d[1]] = NoSlot]
        /\ UNCHANGED <<up, client, conn, net, msg, faults>>
    BY <1>0, <1>13 DEF Down, Typed
  <2>2. Typed'
    BY <1>0, <2>1, NoSlotFields DEF Typed
  <2>3. Counted'
    BY <1>0, <1>b, <2>1 DEF Typed, Counted
  <2> QED BY <2>2, <2>3 DEF TypeOK
<1>14. ASSUME Maintenance PROVE TypeOK'
  <2>1. /\ slots' \in [Nodes -> Slots] /\ \A k \in Nodes : Pruned(k)
        /\ UNCHANGED <<up, lost, client, conn, net, msg, faults>>
    BY <1>0, <1>14, PruneFacts DEF Maintenance, Pruned, Typed
  <2>2. \A k \in Nodes : slots'[k].inc <= client[k].inc
    BY <2>1, PrunedInc
  <2> QED BY <1>0, <2>1, <2>2 DEF TypeOK, Typed, Counted
<1>15. ASSUME MasterCrash PROVE TypeOK'
  <2>1. Typed'
    <3> HIDE DEF NoSlot, NoMsg
    <3>1. /\ slots' \in [Nodes -> Slots] /\ msg' \in [Nodes -> Messages]
          /\ conn' \in [Nodes -> BOOLEAN] /\ up' \in BOOLEAN /\ lost' = {}
      BY <1>15, NoSlotFields, NoMsgFields DEF MasterCrash
    <3>2. faults' \in 0 .. MaxFaults /\ client' = client /\ net' = net
      BY <1>0, <1>15 DEF MasterCrash, Fault, Typed
    <3> QED BY <1>0, <3>1, <3>2 DEF Typed
  <2>2. Counted'
    BY <1>0, <1>a, <1>b, <1>15 DEF MasterCrash, Fault, Typed, Counted
  <2> QED BY <2>1, <2>2 DEF TypeOK
<1>16. ASSUME MasterRestart PROVE TypeOK'
  BY <1>0, <1>16 DEF MasterRestart, TypeOK, Typed, Counted
<1>17. ASSUME Tick PROVE TypeOK'
  <2>1. /\ client' = [n \in Nodes |-> client'[n]]
        /\ slots' = [n \in Nodes |-> slots'[n]]
        /\ msg' = [n \in Nodes |-> msg'[n]]
        /\ UNCHANGED <<up, lost, conn, net, faults>>
    BY <1>17 DEF Tick
  <2>2. \A n \in Nodes :
          /\ client'[n] \in Clients /\ slots'[n] \in Slots /\ msg'[n] \in Messages
          /\ client'[n].inc = client[n].inc /\ client'[n].up = client[n].up
          /\ slots'[n].inc = slots[n].inc /\ msg'[n].inc = msg[n].inc
    BY <1>0, <1>17, TickEffect
  <2>3. Typed'
    BY <1>0, <2>1, <2>2 DEF Typed
  <2>4. \A d \in lost : d[1] \in Nodes
    BY <1>0 DEF Typed
  <2>5. Counted'
    BY <1>0, <2>1, <2>2, <2>4 DEF Counted
  <2> QED BY <2>3, <2>5 DEF TypeOK
<1>18. CASE UNCHANGED vars
  BY <1>0, <1>18 DEF vars, TypeOK, Typed, Counted
<1> QED
  BY <1>1, <1>2, <1>3, <1>4, <1>5, <1>6, <1>7, <1>8, <1>9, <1>10, <1>11,
     <1>12, <1>13, <1>14, <1>15, <1>16, <1>17, <1>18
  DEF Next, ClientStep, MasterStep

\* Types, leases of at most lease_ttl, and no entry, message or monitor of a
\* process that was not started: upsert, touch and the clients' messages.
THEOREM TypeCorrect == Spec => []TypeOK
BY TypeInit, TypeNext, PTL DEF Spec

-----------------------------------------------------------------------------
(* One loop.                                                               *)

\* A step of one client that keeps its loop.
LEMMA LoopFrame ==
  ASSUME OneLoop, NEW n \in Nodes, NEW c, client \in [Nodes -> Clients],
         client' = [client EXCEPT ![n] = c], c.up => Loop(c)
  PROVE  OneLoop'
BY DEF OneLoop, Loop

\* Every step keeps the one loop of a client.
LEMMA LoopNext == TypeOK /\ OneLoop /\ [Next]_vars => OneLoop'
<1> SUFFICES ASSUME TypeOK, OneLoop, [Next]_vars PROVE OneLoop'
  OBVIOUS
<1>0. Typed /\ client \in [Nodes -> Clients]
  BY DEF TypeOK, Typed
<1>1. ASSUME NEW n \in Nodes, ClientStep(n) PROVE OneLoop'
  <2>1. \E c \in Clients : Becomes(n, c) /\ Loop(c)
    <3>1. CASE RegisterTick(n)
      BY <1>0, <3>1, RegisterEffect DEF Loop
    <3>2. CASE HeartbeatTick(n)
      BY <1>0, <3>2, HeartbeatEffect DEF Loop
    <3>3. CASE Reply(n)
      BY <1>0, <3>3, ReplyEffect DEF Loop
    <3>4. CASE RequestFails(n)
      BY <1>0, <3>4, FailEffect DEF Loop
    <3> QED BY <1>1, <3>1, <3>2, <3>3, <3>4 DEF ClientStep
  <2> QED BY <1>0, <2>1, LoopFrame DEF Becomes
<1>2. ASSUME NEW n \in Nodes, NodeCrash(n) PROVE OneLoop'
  <2>1. PICK c \in Clients : client' = [client EXCEPT ![n] = c] /\ ~c.up
    BY <1>0, <1>2, CrashEffect
  <2> QED BY <1>0, <2>1, LoopFrame
<1>3. ASSUME NEW n \in Nodes, NodeRestart(n) PROVE OneLoop'
  <2> DEFINE c == NewClient(client[n].inc + 1)
  <2>1. client' = [client EXCEPT ![n] = c] /\ Loop(c)
    BY <1>3 DEF NodeRestart, NewClient, Loop
  <2> HIDE DEF c
  <2> QED BY <1>0, <2>1, LoopFrame
<1>4. ASSUME Tick PROVE OneLoop'
  <2>1. \A n \in Nodes : /\ client'[n].up = client[n].up
                         /\ client'[n].tick = client[n].tick
                         /\ client'[n].wait = client[n].wait
    BY <1>0, <1>4, TickEffect
  <2> QED BY <2>1 DEF OneLoop
<1>5. CASE UNCHANGED client
  BY <1>5 DEF OneLoop
<1>6. ASSUME NEW n \in Nodes,
             \/ MasterStep(n) \/ Unregister(n) \/ Cut(n) \/ Heal(n) \/ Drop(n)
      PROVE  UNCHANGED client
  BY <1>6 DEF MasterStep, HandleRegister, HandleHeartbeat, Unregister, Cut,
              Heal, Drop
<1>7. ASSUME NEW d \in lost, Down(d[1], d[2]) PROVE UNCHANGED client
  BY <1>7 DEF Down
<1>8. ASSUME Maintenance \/ MasterCrash \/ MasterRestart \/ UNCHANGED vars
      PROVE  UNCHANGED client
  BY <1>8 DEF Maintenance, MasterCrash, MasterRestart, vars
<1> QED BY <1>1, <1>2, <1>3, <1>4, <1>5, <1>6, <1>7, <1>8 DEF Next

\* The client's loop of timers and requests neither stops nor doubles, for
\* any number of faults: every handler leaves exactly one of the two.
THEOREM LoopHolds == Spec => []OneLoop
<1>1. Init => OneLoop
  BY DEF Init, OneLoop, NewClient
<1> QED BY <1>1, TypeCorrect, LoopNext, PTL DEF Spec

-----------------------------------------------------------------------------
(* Leases.                                                                 *)

\* A lease that ends, or a connection that breaks, leaves nothing to show.
LEMMA LeaseFrame ==
  ASSUME NEW c, NEW m, NEW s, NEW b, LeaseAt(c, m, s, b),
         NEW t, t = s \/ ~t.in, NEW x, x => b
  PROVE  LeaseAt(c, m, t, x)
BY DEF LeaseAt

\* A full lease satisfies every bound, and so does a slot that is empty.
LEMMA NewLease ==
  ASSUME NEW c \in Clients, NEW m \in Messages, NEW s \in Slots, NEW b,
         c.up /\ c.state = "registered" => c.tick = "heartbeat" \/ c.wait = "heartbeat",
         c.up /\ c.tick = "heartbeat" => c.timer <= heartbeat_period,
         c.up /\ b /\ c.wait = "heartbeat" =>
           m.kind \in {"heartbeat", "ok", "rejected"},
         s.in => s.left = TTL /\ m.kind # "rejected"
  PROVE  LeaseAt(c, m, s, b)
<1>1. m.age \in Nat /\ c.timer \in Nat /\ s.left \in Nat
  BY MembershipAssumption DEF Messages, Clients, Slots
<1>2. heartbeat_period \in Nat /\ TTL \in Nat /\ MaxDelay \in Nat
  BY PeriodType, MembershipAssumption
<1> QED BY <1>1, <1>2 DEF LeaseAt

\* Every step keeps the lease invariant.
LEMMA LeaseNext == TypeOK /\ LeaseInv /\ [Next]_vars => LeaseInv'
<1> SUFFICES ASSUME TypeOK, LeaseInv, [Next]_vars, NEW k \in Nodes
             PROVE  LeaseAt(client[k], msg[k], slots[k], conn[k])'
  BY DEF LeaseInv
<1> DEFINE c == client[k]  m == msg[k]  s == slots[k]
<1>0. /\ Typed /\ LeaseAt(c, m, s, conn[k])
      /\ client \in [Nodes -> Clients] /\ slots \in [Nodes -> Slots]
      /\ msg \in [Nodes -> Messages]
      /\ conn \in [Nodes -> BOOLEAN]
  BY DEF TypeOK, Typed, LeaseInv
<1>a. /\ c.timer \in Nat /\ s.left \in Nat /\ m.age \in Nat /\ m.age <= MaxDelay
      /\ c \in Clients /\ m \in Messages /\ s \in Slots
  BY <1>0, TypeFacts, MembershipAssumption
<1>b. heartbeat_period \in Nat /\ TTL \in Nat /\ MaxDelay \in Nat
  BY PeriodType, MembershipAssumption
<1>c. ASSUME client'[k] = client[k], msg'[k] = msg[k],
             slots'[k] = slots[k] \/ ~slots'[k].in, conn'[k] => conn[k]
      PROVE  LeaseAt(client'[k], msg'[k], slots'[k], conn'[k])
  BY <1>0, <1>c, LeaseFrame
<1>d. \A n \in Nodes : Pruned(n) => slots'[n] = slots[n] \/ ~slots'[n].in
  <2> HIDE DEF NoSlot
  <2> QED BY NoSlotFields DEF Pruned
<1>1. ASSUME NEW n \in Nodes, RegisterTick(n)
      PROVE  LeaseAt(client'[k], msg'[k], slots'[k], conn'[k])
  <2>1. PICK e \in Clients :
           /\ Becomes(n, e) /\ e.state # "registered"
           /\ \/ /\ e.tick = "none" /\ e.wait = "register" /\ Sends(n, "register")
                 /\ conn' = [conn EXCEPT ![n] = TRUE]
              \/ /\ e.tick = "retry" /\ e.wait = "none" /\ msg' = msg
                 /\ conn' = [conn EXCEPT ![n] = FALSE]
    BY <1>0, <1>1, RegisterEffect
  <2>2. client' = [client EXCEPT ![n] = e] /\ slots' = slots
    BY <2>1 DEF Becomes
  <2>3. CASE k = n
    <3>1. client'[k] = e /\ slots'[k] = s
      BY <1>0, <2>2, <2>3
    <3>2. msg'[k].kind = "register" \/ msg'[k] = m
      BY <1>0, <2>1, <2>3 DEF Sends
    <3> QED BY <1>0, <2>1, <3>1, <3>2 DEF LeaseAt
  <2>4. CASE k # n
    <3>1. client'[k] = client[k] /\ msg'[k] = msg[k] /\ conn'[k] = conn[k]
      BY <1>0, <2>1, <2>2, <2>4 DEF Sends
    <3> QED BY <2>2, <3>1, <1>c
  <2> QED BY <2>3, <2>4
<1>2. ASSUME NEW n \in Nodes, HeartbeatTick(n)
      PROVE  LeaseAt(client'[k], msg'[k], slots'[k], conn'[k])
  <2>1. client[n].tick = "heartbeat" /\ client[n].timer = 0 /\ conn' = conn
    BY <1>0, <1>2, HeartbeatEffect
  <2>2. PICK e \in Clients :
          /\ Becomes(n, e)
          /\ \/ /\ e.state = "reconnecting" /\ e.tick = "retry"
                /\ e.wait = "none" /\ msg' = msg
             \/ /\ e.tick = "none" /\ e.wait = "heartbeat"
                /\ \/ conn[n] /\ Sends(n, "heartbeat")
                   \/ ~conn[n] /\ msg' = msg
    BY <1>0, <1>2, HeartbeatEffect
  <2>3. client' = [client EXCEPT ![n] = e] /\ slots' = slots /\ e.up = client[n].up
    BY <2>2 DEF Becomes
  <2>4. CASE k = n
    <3>1. client'[k] = e /\ slots'[k] = s /\ conn'[k] = conn[k]
      BY <1>0, <2>1, <2>3, <2>4
    <3>2. CASE e.state = "reconnecting" /\ e.tick = "retry"
               /\ e.wait = "none" /\ msg' = msg
      BY <1>0, <3>1, <3>2 DEF LeaseAt
    <3>3. CASE e.tick = "none" /\ e.wait = "heartbeat" /\ ~conn[n] /\ msg' = msg
      BY <1>0, <2>4, <3>1, <3>3 DEF LeaseAt
    <3>4. CASE e.tick = "none" /\ e.wait = "heartbeat" /\ Sends(n, "heartbeat")
      <4>1. msg'[k].kind = "heartbeat" /\ msg'[k].age = 0
        BY <1>0, <2>4, <3>4 DEF Sends
      <4>2. e.up /\ s.in => s.left >= TTL - MaxDelay - heartbeat_period
        BY <1>0, <1>a, <1>b, <2>1, <2>3, <2>4 DEF LeaseAt
      <4> QED BY <1>a, <1>b, <3>1, <3>4, <4>1, <4>2 DEF LeaseAt
    <3> QED BY <2>2, <3>2, <3>3, <3>4
  <2>5. CASE k # n
    <3>1. client'[k] = client[k] /\ msg'[k] = msg[k]
      BY <1>0, <2>2, <2>3, <2>5 DEF Sends
    <3> QED BY <2>1, <2>3, <3>1, <1>c
  <2> QED BY <2>4, <2>5
<1>3. ASSUME NEW n \in Nodes, Reply(n)
      PROVE  LeaseAt(client'[k], msg'[k], slots'[k], conn'[k])
  <2>1. /\ conn' = conn /\ msg' = [msg EXCEPT ![n] = NoMsg]
        /\ msg[n].kind \in {"ok", "rejected"}
    BY <1>0, <1>3, ReplyEffect
  <2>2. PICK e \in Clients :
          /\ Becomes(n, e) /\ e.wait = "none"
          /\ \/ e.tick = "heartbeat" /\ e.timer = heartbeat_period
             \/ e.tick = "retry" /\ e.state = "reconnecting"
    BY <1>0, <1>3, ReplyEffect
  <2>3. client' = [client EXCEPT ![n] = e] /\ slots' = slots
    BY <2>2 DEF Becomes
  <2>4. CASE k = n
    <3>1. client'[k] = e /\ slots'[k] = s /\ msg'[k].kind = "none"
      BY <1>0, <2>1, <2>3, <2>4, NoMsgFields
    <3>2. s.in => s.left >= TTL - MaxDelay
      BY <1>0, <1>a, <1>b, <2>1, <2>4 DEF LeaseAt
    <3> QED BY <1>a, <1>b, <2>2, <3>1, <3>2 DEF LeaseAt
  <2>5. CASE k # n
    <3>1. client'[k] = client[k] /\ msg'[k] = msg[k]
      BY <1>0, <2>1, <2>3, <2>5
    <3> QED BY <2>1, <2>3, <3>1, <1>c
  <2> QED BY <2>4, <2>5
<1>4. ASSUME NEW n \in Nodes, RequestFails(n)
      PROVE  LeaseAt(client'[k], msg'[k], slots'[k], conn'[k])
  <2>1. conn' = conn /\ msg' = msg
    BY <1>0, <1>4, FailEffect
  <2>2. PICK e \in Clients :
          /\ Becomes(n, e) /\ e.wait = "none"
          /\ e.tick = "retry" /\ e.state = "reconnecting"
    BY <1>0, <1>4, FailEffect
  <2>3. client' = [client EXCEPT ![n] = e] /\ slots' = slots
    BY <2>2 DEF Becomes
  <2>4. CASE k = n
    <3>1. client'[k] = e
      BY <1>0, <2>3, <2>4
    <3> QED BY <1>0, <2>1, <2>2, <2>3, <3>1 DEF LeaseAt
  <2>5. CASE k # n
    BY <1>0, <2>1, <2>3, <2>5, <1>c
  <2> QED BY <2>4, <2>5
<1>5. ASSUME NEW n \in Nodes, HandleRegister(n)
      PROVE  LeaseAt(client'[k], msg'[k], slots'[k], conn'[k])
  <2>1. /\ client' = client /\ conn' = conn /\ Answers(n, "ok")
        /\ slots' \in [Nodes -> Slots]
        /\ slots'[n].in /\ slots'[n].left = TTL
        /\ \A j \in Nodes \ {n} : Pruned(j)
    BY <1>5, HandleRegisterEffect
  <2>2. CASE k = n
    <3>1. /\ msg'[k] \in Messages
          /\ msg'[k].kind = "ok" \/ (~conn[k] /\ msg'[k].kind = "none")
      BY <1>0, <2>1, <2>2 DEF Answers
    <3>2. /\ c.up /\ c.state = "registered" =>
               c.tick = "heartbeat" \/ c.wait = "heartbeat"
          /\ c.up /\ c.tick = "heartbeat" => c.timer <= heartbeat_period
      BY <1>0 DEF LeaseAt
    <3> QED BY <1>a, <2>1, <2>2, <3>1, <3>2, NewLease
  <2>3. CASE k # n
    <3>1. msg'[k] = msg[k]
      BY <1>0, <2>1, <2>3 DEF Answers
    <3> QED BY <1>c, <1>d, <2>1, <2>3, <3>1
  <2> QED BY <2>2, <2>3
<1>6. ASSUME NEW n \in Nodes, HandleHeartbeat(n)
      PROVE  LeaseAt(client'[k], msg'[k], slots'[k], conn'[k])
  <2>1. /\ client' = client /\ conn' = conn
        /\ slots' \in [Nodes -> Slots]
        /\ \A j \in Nodes \ {n} : Pruned(j)
        /\ \/ slots'[n].in /\ slots'[n].left = TTL /\ Answers(n, "ok")
           \/ ~slots'[n].in /\ Answers(n, "rejected")
    BY <1>6, HandleHeartbeatEffect
  <2>2. CASE k = n
    <3>1. /\ msg'[k] \in Messages
          /\ \/ msg'[k].kind \in {"ok", "rejected"}
             \/ ~conn[k] /\ msg'[k].kind = "none"
          /\ slots'[k].in => msg'[k].kind # "rejected"
      BY <1>0, <2>1, <2>2 DEF Answers
    <3>2. /\ c.up /\ c.state = "registered" =>
               c.tick = "heartbeat" \/ c.wait = "heartbeat"
          /\ c.up /\ c.tick = "heartbeat" => c.timer <= heartbeat_period
      BY <1>0 DEF LeaseAt
    <3> QED BY <1>a, <2>1, <2>2, <3>1, <3>2, NewLease
  <2>3. CASE k # n
    <3>1. msg'[k] = msg[k]
      BY <1>0, <2>1, <2>3 DEF Answers
    <3> QED BY <1>c, <1>d, <2>1, <2>3, <3>1
  <2> QED BY <2>2, <2>3
<1>7. ASSUME NEW n \in Nodes, Unregister(n)
      PROVE  LeaseAt(client'[k], msg'[k], slots'[k], conn'[k])
  <2>1. slots'[k] = slots[k] \/ ~slots'[k].in
    BY <1>0, <1>7, NoSlotFields DEF Unregister
  <2> QED BY <1>7, <2>1, <1>c DEF Unregister
<1>8. ASSUME NEW n \in Nodes, NodeCrash(n)
      PROVE  LeaseAt(client'[k], msg'[k], slots'[k], conn'[k])
  <2>1. PICK e \in Clients : client' = [client EXCEPT ![n] = e] /\ ~e.up
    BY <1>0, <1>8, CrashEffect
  <2>2. slots' = slots /\ msg' = msg /\ conn' = [conn EXCEPT ![n] = FALSE]
    BY <1>8 DEF NodeCrash
  <2>3. CASE k = n
    <3>1. client'[k] = e
      BY <1>0, <2>1, <2>3
    <3> QED BY <1>0, <2>1, <2>2, <3>1 DEF LeaseAt
  <2>4. CASE k # n
    BY <1>0, <2>1, <2>2, <2>4, <1>c
  <2> QED BY <2>3, <2>4
<1>9. ASSUME NEW n \in Nodes, NodeRestart(n)
      PROVE  LeaseAt(client'[k], msg'[k], slots'[k], conn'[k])
  <2> DEFINE e == NewClient(client[n].inc + 1)
  <2>1. client' = [client EXCEPT ![n] = e]
    BY <1>9 DEF NodeRestart
  <2>2. slots' = slots /\ msg' = msg /\ conn' = conn
    BY <1>9 DEF NodeRestart
  <2>3. e.state = "connecting" /\ e.tick = "init" /\ e.wait = "none"
    BY DEF NewClient
  <2> HIDE DEF e
  <2>4. CASE k = n
    <3>1. client'[k] = e
      BY <1>0, <2>1, <2>4
    <3> QED BY <1>0, <2>2, <2>3, <3>1 DEF LeaseAt
  <2>5. CASE k # n
    BY <1>0, <2>1, <2>2, <2>5, <1>c
  <2> QED BY <2>4, <2>5
<1>10. ASSUME NEW n \in Nodes, Cut(n)
       PROVE  LeaseAt(client'[k], msg'[k], slots'[k], conn'[k])
  <2>1. /\ client' = client /\ slots' = slots
        /\ conn' = [conn EXCEPT ![n] = FALSE]
        /\ msg' = [msg EXCEPT ![n] = NoMsg]
    BY <1>10 DEF Cut
  <2>2. CASE k = n
    <3>1. msg'[k].kind = "none" /\ ~conn'[k]
      BY <1>0, <2>1, <2>2, NoMsgFields
    <3> QED BY <1>0, <2>1, <3>1 DEF LeaseAt
  <2>3. CASE k # n
    BY <1>0, <2>1, <2>3, <1>c
  <2> QED BY <2>2, <2>3
<1>11. ASSUME NEW n \in Nodes, Heal(n)
       PROVE  LeaseAt(client'[k], msg'[k], slots'[k], conn'[k])
  BY <1>11, <1>c DEF Heal
<1>12. ASSUME NEW n \in Nodes, Drop(n)
       PROVE  LeaseAt(client'[k], msg'[k], slots'[k], conn'[k])
  <2>1. /\ client' = client /\ slots' = slots /\ conn' = conn
        /\ msg' = [msg EXCEPT ![n] = NoMsg] /\ ~client[n].up
    BY <1>12 DEF Drop
  <2>2. CASE k = n
    <3>1. msg'[k].kind = "none"
      BY <1>0, <2>1, <2>2, NoMsgFields
    <3> QED BY <1>0, <2>1, <2>2, <3>1 DEF LeaseAt
  <2>3. CASE k # n
    BY <1>0, <2>1, <2>3, <1>c
  <2> QED BY <2>2, <2>3
<1>13. ASSUME NEW d \in lost, Down(d[1], d[2])
       PROVE  LeaseAt(client'[k], msg'[k], slots'[k], conn'[k])
  <2>1. slots'[k] = slots[k] \/ ~slots'[k].in
    BY <1>0, <1>13, NoSlotFields DEF Down
  <2> QED BY <1>13, <2>1, <1>c DEF Down
<1>14. ASSUME Maintenance
       PROVE  LeaseAt(client'[k], msg'[k], slots'[k], conn'[k])
  <2>1. Pruned(k)
    BY <1>0, <1>14, PruneFacts DEF Maintenance, Pruned
  <2> QED BY <1>14, <1>c, <1>d, <2>1 DEF Maintenance
<1>15. ASSUME MasterCrash
       PROVE  LeaseAt(client'[k], msg'[k], slots'[k], conn'[k])
  <2>1. /\ client' = client /\ ~slots'[k].in /\ msg'[k].kind = "none"
        /\ ~conn'[k]
    BY <1>15, NoSlotFields, NoMsgFields DEF MasterCrash
  <2> QED BY <1>0, <2>1 DEF LeaseAt
<1>16. ASSUME MasterRestart
       PROVE  LeaseAt(client'[k], msg'[k], slots'[k], conn'[k])
  BY <1>16, <1>c DEF MasterRestart
<1>17. ASSUME Tick
       PROVE  LeaseAt(client'[k], msg'[k], slots'[k], conn'[k])
  <2>1. /\ client'[k].up = c.up /\ client'[k].state = c.state
        /\ client'[k].tick = c.tick /\ client'[k].wait = c.wait
        /\ client'[k].timer = Less(c.timer)
        /\ slots'[k].in = s.in /\ slots'[k].left = Less(s.left)
        /\ msg'[k].kind = m.kind
        /\ m.kind # "none" => msg'[k].age = m.age + 1
        /\ conn' = conn
    BY <1>0, <1>17, TickEffect DEF Tick
  <2>2. c.up /\ c.tick = "heartbeat" => c.timer > 0
    BY <1>17 DEF Tick
  <2>3. /\ Less(s.left) >= s.left - 1 /\ Less(s.left) \in Nat
        /\ c.up /\ c.tick = "heartbeat" => Less(c.timer) = c.timer - 1
    BY <1>a, <2>2 DEF Less
  <2> HIDE DEF c, s, m
  <2>4. /\ c.up /\ c.state = "registered" =>
             c.tick = "heartbeat" \/ c.wait = "heartbeat"
        /\ m.kind = "rejected" => ~s.in
    BY <1>0 DEF LeaseAt
  <2>5. m.kind = "ok" /\ s.in => Less(s.left) >= TTL - (m.age + 1)
    BY <1>0, <1>a, <1>b, <2>3 DEF LeaseAt
  <2>6. c.up /\ c.tick = "heartbeat" =>
          /\ Less(c.timer) <= heartbeat_period
          /\ s.in => Less(s.left) >=
               TTL - MaxDelay - (heartbeat_period - Less(c.timer))
    BY <1>0, <1>a, <1>b, <2>3 DEF LeaseAt
  <2>7. c.up /\ conn[k] /\ c.wait = "heartbeat" =>
          /\ m.kind \in {"heartbeat", "ok", "rejected"}
          /\ m.kind = "heartbeat" /\ s.in =>
               Less(s.left) >= TTL - MaxDelay - heartbeat_period - (m.age + 1)
    BY <1>0, <1>a, <1>b, <2>3 DEF LeaseAt
  <2> QED BY <2>1, <2>4, <2>5, <2>6, <2>7 DEF LeaseAt
<1>18. ASSUME UNCHANGED vars
       PROVE  LeaseAt(client'[k], msg'[k], slots'[k], conn'[k])
  BY <1>18, <1>c DEF vars
<1>19. LeaseAt(client'[k], msg'[k], slots'[k], conn'[k])
  BY <1>1, <1>2, <1>3, <1>4, <1>5, <1>6, <1>7, <1>8, <1>9, <1>10, <1>11,
     <1>12, <1>13, <1>14, <1>15, <1>16, <1>17, <1>18
  DEF Next, ClientStep, MasterStep
<1> QED BY <1>19 DEF LeaseAt

\* The inductive invariant of the leases.
THEOREM LeaseInvariant == Spec => []LeaseInv
<1>1. Init => LeaseInv
  <2> SUFFICES ASSUME Init, NEW n \in Nodes
               PROVE  LeaseAt(client[n], msg[n], slots[n], conn[n])
    BY DEF LeaseInv
  <2>1. /\ client[n].state = "connecting" /\ client[n].tick = "init"
        /\ client[n].wait = "none"
        /\ msg[n].kind = "none" /\ ~slots[n].in
    BY NoSlotFields, NoMsgFields DEF Init, NewClient
  <2> QED BY <2>1 DEF LeaseAt
<1> QED BY <1>1, TypeCorrect, LeaseNext, PTL DEF Spec

\* A lease of more than a period and two delays never runs out on a node that
\* is registered and connected (node_client's heartbeats at a third of
\* lease_ttl, prune_expired), whatever the other nodes do.
THEOREM LeasesHold ==
  ASSUME TTL \div 3 + 2 * MaxDelay < TTL
  PROVE  Spec => []LeaseHolds
<1>1. ASSUME TypeOK, LeaseInv PROVE LeaseHolds
  <2> SUFFICES ASSUME NEW n \in Nodes, Healthy(n), slots[n].in, TTL > 0
               PROVE  slots[n].left > 0
    BY DEF LeaseHolds
  <2>1. /\ LeaseAt(client[n], msg[n], slots[n], conn[n])
        /\ client[n].up /\ conn[n] /\ client[n].state = "registered"
    BY <1>1 DEF LeaseInv, Healthy
  <2>2. /\ client[n].timer \in Nat /\ slots[n].left \in Nat
        /\ msg[n].age \in Nat /\ msg[n].age <= MaxDelay
    BY <1>1, TypeFacts, MembershipAssumption DEF TypeOK
  <2>3. /\ heartbeat_period = TTL \div 3 /\ heartbeat_period \in Nat
        /\ TTL \in Nat /\ MaxDelay \in Nat
    BY PeriodType, MembershipAssumption DEF heartbeat_period
  <2>4. heartbeat_period + 2 * MaxDelay < TTL
    BY <2>3
  <2>5. CASE client[n].tick = "heartbeat"
    BY <2>1, <2>2, <2>3, <2>4, <2>5 DEF LeaseAt
  <2>6. CASE client[n].wait = "heartbeat"
    BY <2>1, <2>2, <2>3, <2>4, <2>6 DEF LeaseAt
  <2> QED BY <2>1, <2>5, <2>6 DEF LeaseAt
<1> QED BY <1>1, TypeCorrect, LeaseInvariant, PTL

-----------------------------------------------------------------------------
\* A node leaves the table by the down_msg of the process that is registered,
\* by its lease, an operator or the end of the master, and for no other
\* reason (erase_by_monitor, prune_expired).
THEOREM RemovalsHaveACause == Spec => RemovedForCause
<1>1. ASSUME TypeOK, [Next]_vars, NEW n \in Nodes, slots[n].in, ~slots'[n].in
      PROVE  \/ <<n, slots[n].inc>> \in lost
             \/ slots[n].left = 0
             \/ faults' = faults + 1
  <2>0. Typed /\ slots \in [Nodes -> Slots]
    BY <1>1 DEF TypeOK, Typed
  <2>1. ASSUME NEW k \in Nodes, ClientStep(k) PROVE slots' = slots
    BY <2>1 DEF ClientStep, RegisterTick, HeartbeatTick, Reply, RequestFails
  <2>2. ASSUME NEW k \in Nodes, HandleRegister(k) PROVE slots[n].left = 0
    BY <1>1, <2>2, HandleRegisterEffect DEF Pruned
  <2>3. ASSUME NEW k \in Nodes, HandleHeartbeat(k) PROVE slots[n].left = 0
    BY <1>1, <2>3, HandleHeartbeatEffect DEF Pruned
  <2>4. ASSUME NEW k \in Nodes, Unregister(k) \/ NodeCrash(k) \/ Cut(k)
        PROVE  faults' = faults + 1
    BY <2>4 DEF Unregister, NodeCrash, Cut, Fault
  <2>5. ASSUME NEW k \in Nodes, NodeRestart(k) \/ Heal(k) \/ Drop(k)
        PROVE  slots' = slots
    BY <2>5 DEF NodeRestart, Heal, Drop
  <2>6. ASSUME NEW d \in lost, Down(d[1], d[2])
        PROVE  <<n, slots[n].inc>> \in lost
    <3>1. d[1] = n /\ d[2] = slots[n].inc
      BY <1>1, <2>0, <2>6 DEF Down, ErasedBy
    <3> QED BY <2>6, <3>1 DEF Down
  <2>7. ASSUME Maintenance PROVE slots[n].left = 0
    BY <1>1, <2>0, <2>7, PruneFacts DEF Maintenance
  <2>8. ASSUME MasterCrash PROVE faults' = faults + 1
    BY <2>8 DEF MasterCrash, Fault
  <2>9. ASSUME Tick PROVE slots'[n].in = slots[n].in
    BY <2>0, <2>9, TickEffect
  <2>10. ASSUME MasterRestart \/ UNCHANGED vars PROVE slots' = slots
    BY <2>10 DEF MasterRestart, vars
  <2> QED
    BY <1>1, <2>1, <2>2, <2>3, <2>4, <2>5, <2>6, <2>7, <2>8, <2>9, <2>10
    DEF Next, MasterStep
<1>2. TypeOK /\ [Next]_vars =>
        [\A n \in Nodes :
           slots[n].in /\ ~slots'[n].in =>
             \/ <<n, slots[n].inc>> \in lost
             \/ slots[n].left = 0
             \/ faults' = faults + 1]_vars
  BY <1>1
<1> QED BY <1>2, TypeCorrect, PTL DEF Spec, RemovedForCause
=============================================================================
