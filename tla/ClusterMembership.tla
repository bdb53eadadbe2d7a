------------------------- MODULE ClusterMembership -------------------------
(***************************************************************************)
(* The cluster's membership: the master's table of nodes (node_membership) *)
(* with its two ways of noticing that a node is gone, a monitor on an      *)
(* actor of the node and a lease, and the client of each node, which       *)
(* registers, renews the lease by heartbeats and registers again whenever  *)
(* the master is lost or has forgotten it.                                 *)
(*                                                                         *)
(* One unit of time is a second.  Timers fire on time, and a request and   *)
(* its reply take less than MaxDelay units each while the connection       *)
(* holds.  Nodes and the master crash and restart and connections break;   *)
(* a broken connection loses what it carries, and each side learns of it   *)
(* in its own time: the client when a request fails, the master by a       *)
(* down_msg, which may come late or never.                                 *)
(***************************************************************************)
EXTENDS Integers, FiniteSets

CONSTANTS
  Nodes,      \* region and worker nodes
  TTL,        \* lease_ttl in seconds, 0 for no lease
  MaxDelay,   \* bound on the way of a message
  MaxFaults   \* bound: crashes, cuts and unregistrations

ASSUME MembershipAssumption ==
  /\ TTL \in Nat /\ MaxDelay \in Nat \ {0} /\ MaxFaults \in Nat

RetryDelay == 1
RegisterTimeout == 5
HeartbeatTimeout == 3

VARIABLES
  up,       \* the master runs
  slots,    \* slots_: present, incarnation of the monitor, rest of the lease
  lost,     \* monitored <<node, incarnation>> whose down_msg may come
  client,   \* node_client of each node
  conn,     \* the node is connected to the master
  net,      \* the master can be reached from the node
  msg,      \* per node: the request or reply that travels
  faults    \* faults so far

vars == <<up, slots, lost, client, conn, net, msg, faults>>

NoSlot == [in |-> FALSE, inc |-> 0, left |-> 0]
NoMsg == [kind |-> "none", inc |-> 0, age |-> 0]

\* A new client has its init_atom in the mailbox.
NewClient(i) == [up |-> TRUE, inc |-> i, state |-> "connecting",
                 tick |-> "init", timer |-> 0,
                 wait |-> "none", waited |-> 0, master |-> FALSE]

Init ==
  /\ up = TRUE
  /\ slots = [n \in Nodes |-> NoSlot]
  /\ lost = {}
  /\ client = [n \in Nodes |-> NewClient(1)]
  /\ conn = [n \in Nodes |-> FALSE]
  /\ net = [n \in Nodes |-> TRUE]
  /\ msg = [n \in Nodes |-> NoMsg]
  /\ faults = 0

-----------------------------------------------------------------------------
(* The node client.  It has one timer or one request at a time.            *)

\* Mutant: a lease is renewed once per lease.
PeriodFull == IF TTL > 0 THEN TTL ELSE 3

heartbeat_period == IF TTL > 0 THEN TTL \div 3 ELSE 3

Scheduled(c, tick, delay) ==
  [c EXCEPT !.tick = tick, !.timer = delay, !.wait = "none", !.waited = 0]
Requested(c, kind) ==
  [c EXCEPT !.tick = "none", !.wait = kind, !.waited = 0]

\* schedule_retry, after every failure.
Reconnecting(c) ==
  [Scheduled(c, "retry", RetryDelay) EXCEPT !.state = "reconnecting"]

Fires(n, tick) ==
  client[n].up /\ client[n].tick = tick /\ client[n].timer = 0

\* do_register: connect and look the master up, then the request.
do_register(n) ==
  \/ /\ net[n] /\ up
     /\ client' = [client EXCEPT ![n] =
                     [Requested(@, "register") EXCEPT !.master = TRUE]]
     /\ conn' = [conn EXCEPT ![n] = TRUE]
     /\ msg' = [msg EXCEPT ![n] = [kind |-> "register", age |-> 0,
                                   inc |-> client[n].inc]]
  \/ /\ ~net[n] \/ ~up
     /\ client' = [client EXCEPT ![n] =
                     [Reconnecting(@) EXCEPT !.master = FALSE]]
     /\ conn' = [conn EXCEPT ![n] = FALSE]
     /\ UNCHANGED msg

\* init_atom and retry_tick_atom.
RegisterTick(n) ==
  /\ \/ Fires(n, "init") /\ client[n].state = "connecting"
     \/ Fires(n, "retry") /\ client[n].state \in {"connecting", "reconnecting"}
  /\ do_register(n)
  /\ UNCHANGED <<up, slots, lost, net, faults>>

\* heartbeat_tick_atom; what is sent over a broken connection is lost.
HeartbeatTick(n) ==
  /\ Fires(n, "heartbeat")
  /\ IF client[n].state # "registered" \/ ~client[n].master
       THEN /\ client' = [client EXCEPT ![n] = Reconnecting(@)]
            /\ UNCHANGED msg
       ELSE /\ client' = [client EXCEPT ![n] = Requested(@, "heartbeat")]
            /\ msg' = IF conn[n]
                        THEN [msg EXCEPT ![n] = [kind |-> "heartbeat",
                                age |-> 0, inc |-> client[n].inc]]
                        ELSE msg
  /\ UNCHANGED <<up, slots, lost, conn, net, faults>>

\* Mutant: a heartbeat that is rejected counts as a heartbeat.
ReplyAlwaysGood(n) ==
  LET c == client[n] IN
  /\ c.up /\ c.wait # "none"
  /\ msg[n].kind \in {"ok", "rejected"} /\ msg[n].inc = c.inc
  /\ client' = [client EXCEPT ![n] =
       [Scheduled(c, "heartbeat", heartbeat_period)
          EXCEPT !.state = "registered"]]
  /\ msg' = [msg EXCEPT ![n] = NoMsg]
  /\ UNCHANGED <<up, slots, lost, conn, net, faults>>

\* The reply to the request.
Reply(n) ==
  LET c == client[n] IN
  /\ c.up /\ c.wait # "none"
  /\ msg[n].kind \in {"ok", "rejected"} /\ msg[n].inc = c.inc
  /\ client' = [client EXCEPT ![n] =
       IF c.wait = "register"
         THEN [Scheduled(c, "heartbeat", heartbeat_period)
                 EXCEPT !.state = "registered"]
       ELSE IF msg[n].kind = "ok"
         THEN Scheduled(c, "heartbeat", heartbeat_period)
       ELSE Reconnecting(c)]
  /\ msg' = [msg EXCEPT ![n] = NoMsg]
  /\ UNCHANGED <<up, slots, lost, conn, net, faults>>

\* The request fails: its connection is gone, or its time is up.
Timeout(c) == IF c.wait = "register" THEN RegisterTimeout ELSE HeartbeatTimeout
RequestFails(n) ==
  LET c == client[n] IN
  /\ c.up /\ c.wait # "none"
  /\ ~conn[n] \/ c.waited >= Timeout(c)
  /\ client' = [client EXCEPT ![n] =
       [Reconnecting(c) EXCEPT
          !.master = IF c.wait = "heartbeat" THEN FALSE ELSE @]]
  /\ UNCHANGED <<up, slots, lost, conn, net, msg, faults>>

-----------------------------------------------------------------------------
(* The master.                                                             *)

\* prune_expired: the nodes whose lease has run out.
prune_expired(ss) ==
  [n \in Nodes |-> IF TTL > 0 /\ ss[n].in /\ ss[n].left = 0 THEN NoSlot
                   ELSE ss[n]]

\* upsert: a monitor on the process; the down_msg of one that is gone, or
\* whose connection is, comes sooner or later, if at all.
upsert(n, i) ==
  /\ slots' = [prune_expired(slots) EXCEPT ![n] =
                 [in |-> TRUE, inc |-> i, left |-> TTL]]
  /\ lost' = IF client[n].up /\ client[n].inc = i /\ conn[n] THEN lost
             ELSE lost \cup {<<n, i>>}

\* node_register_atom.
HandleRegister(n) ==
  /\ up /\ msg[n].kind = "register"
  /\ upsert(n, msg[n].inc)
  /\ msg' = [msg EXCEPT ![n] =
               IF conn[n] THEN [@ EXCEPT !.kind = "ok", !.age = 0] ELSE NoMsg]
  /\ UNCHANGED <<up, client, conn, net, faults>>

touch(s) == [s EXCEPT !.left = TTL]

\* node_heartbeat_atom.
HandleHeartbeat(n) ==
  LET kept == prune_expired(slots) IN
  /\ up /\ msg[n].kind = "heartbeat"
  /\ slots' = IF kept[n].in THEN [kept EXCEPT ![n] = touch(@)] ELSE kept
  /\ msg' = [msg EXCEPT ![n] =
       IF conn[n]
         THEN [@ EXCEPT !.kind = IF kept[n].in THEN "ok" ELSE "rejected",
                        !.age = 0]
         ELSE NoMsg]
  /\ UNCHANGED <<up, lost, client, conn, net, faults>>

\* node_unregister_atom, from an operator.
Unregister(n) ==
  /\ up /\ slots[n].in /\ faults < MaxFaults
  /\ slots' = [slots EXCEPT ![n] = NoSlot]
  /\ faults' = faults + 1
  /\ UNCHANGED <<up, lost, client, conn, net, msg>>

\* Mutant: the slot is found by the node's name.
ErasedByName(n, i) == slots[n].in

\* erase_by_monitor: the slot whose monitor it was.
ErasedBy(n, i) == slots[n].in /\ slots[n].inc = i

\* down_msg.
Down(n, i) ==
  /\ up /\ <<n, i>> \in lost
  /\ lost' = lost \ {<<n, i>>}
  /\ slots' = IF ErasedBy(n, i) THEN [slots EXCEPT ![n] = NoSlot] ELSE slots
  /\ UNCHANGED <<up, client, conn, net, msg, faults>>

\* maintenance_tick_atom, every second, and the queries (topology, children,
\* resolve): each prunes first.
Maintenance ==
  /\ up
  /\ slots' = prune_expired(slots)
  /\ UNCHANGED <<up, lost, client, conn, net, msg, faults>>

-----------------------------------------------------------------------------
(* Faults and time.                                                        *)

Fault == faults < MaxFaults /\ faults' = faults + 1

\* The monitors of the current incarnations among ns that break.
Monitored(ns) == {<<n, slots[n].inc>> : n \in {m \in ns : slots[m].in}}

\* The process of the node ends; a request that is on its way may arrive.
NodeCrash(n) ==
  /\ client[n].up /\ Fault
  /\ client' = [client EXCEPT ![n].up = FALSE, ![n].tick = "none",
                              ![n].wait = "none", ![n].waited = 0]
  /\ conn' = [conn EXCEPT ![n] = FALSE]
  /\ lost' = lost \cup Monitored({n})
  /\ UNCHANGED <<up, slots, net, msg>>

\* A new process of the node, once nothing of the old one is on its way.
NodeRestart(n) ==
  /\ ~client[n].up /\ msg[n] = NoMsg
  /\ client' = [client EXCEPT ![n] = NewClient(@.inc + 1)]
  /\ UNCHANGED <<up, slots, lost, conn, net, msg, faults>>

\* The connection breaks, and the master cannot be reached for a while.
Cut(n) ==
  /\ net[n] /\ Fault
  /\ net' = [net EXCEPT ![n] = FALSE]
  /\ conn' = [conn EXCEPT ![n] = FALSE]
  /\ lost' = IF conn[n] THEN lost \cup Monitored({n}) ELSE lost
  /\ msg' = [msg EXCEPT ![n] = NoMsg]
  /\ UNCHANGED <<up, slots, client>>

Heal(n) ==
  /\ ~net[n]
  /\ net' = [net EXCEPT ![n] = TRUE]
  /\ UNCHANGED <<up, slots, lost, client, conn, msg, faults>>

MasterCrash ==
  /\ up /\ Fault
  /\ up' = FALSE
  /\ slots' = [n \in Nodes |-> NoSlot]
  /\ lost' = {}
  /\ conn' = [n \in Nodes |-> FALSE]
  /\ msg' = [n \in Nodes |-> NoMsg]
  /\ UNCHANGED <<client, net>>

MasterRestart ==
  /\ ~up
  /\ up' = TRUE
  /\ UNCHANGED <<slots, lost, client, conn, net, msg, faults>>

\* A request of a dead process is lost with it.
Drop(n) ==
  /\ ~client[n].up /\ msg[n] # NoMsg
  /\ msg' = [msg EXCEPT ![n] = NoMsg]
  /\ UNCHANGED <<up, slots, lost, client, conn, net, faults>>

\* Time passes when nothing is due.
Less(x) == IF x > 0 THEN x - 1 ELSE 0
Tick ==
  /\ \A n \in Nodes :
       /\ client[n].up /\ client[n].tick # "none" => client[n].timer > 0
       /\ client[n].wait # "none" => client[n].waited < Timeout(client[n])
       /\ msg[n] # NoMsg => msg[n].age < MaxDelay
       /\ up /\ slots[n].in /\ TTL > 0 => slots[n].left > 0
  /\ client' = [n \in Nodes |->
       [client[n] EXCEPT !.timer = Less(@),
                         !.waited = IF client[n].wait = "none" THEN 0
                                    ELSE @ + 1]]
  /\ slots' = [n \in Nodes |-> [slots[n] EXCEPT !.left = Less(@)]]
  /\ msg' = [n \in Nodes |->
       IF msg[n] = NoMsg THEN NoMsg ELSE [msg[n] EXCEPT !.age = @ + 1]]
  /\ UNCHANGED <<up, lost, conn, net, faults>>

-----------------------------------------------------------------------------
ClientStep(n) ==
  RegisterTick(n) \/ HeartbeatTick(n) \/ Reply(n) \/ RequestFails(n)
MasterStep(n) == HandleRegister(n) \/ HandleHeartbeat(n)

Next ==
  \/ \E n \in Nodes :
       \/ ClientStep(n) \/ MasterStep(n) \/ Unregister(n)
       \/ NodeCrash(n) \/ NodeRestart(n) \/ Cut(n) \/ Heal(n) \/ Drop(n)
  \/ \E d \in lost : Down(d[1], d[2])
  \/ Maintenance \/ MasterCrash \/ MasterRestart \/ Tick

\* Actors run, time passes, the network and the master come back.  A
\* down_msg need not come, a node need not restart.
Fairness ==
  /\ \A n \in Nodes : /\ WF_vars(ClientStep(n)) /\ WF_vars(MasterStep(n))
                      /\ WF_vars(Heal(n)) /\ WF_vars(Drop(n))
  /\ WF_vars(Maintenance) /\ WF_vars(MasterRestart) /\ WF_vars(Tick)

Spec == Init /\ [][Next]_vars /\ Fairness

-----------------------------------------------------------------------------
(* Properties.                                                             *)

Slots == [in : BOOLEAN, inc : Nat, left : 0 .. TTL]
Clients ==
  [up : BOOLEAN, inc : Nat, state : {"connecting", "registered", "reconnecting"},
   tick : {"none", "init", "heartbeat", "retry"}, timer : Nat,
   wait : {"none", "register", "heartbeat"}, waited : Nat, master : BOOLEAN]
Messages ==
  [kind : {"none", "register", "heartbeat", "ok", "rejected"}, inc : Nat,
   age : 0 .. MaxDelay]

Typed ==
  /\ up \in BOOLEAN /\ faults \in 0 .. MaxFaults
  /\ slots \in [Nodes -> Slots]
  /\ client \in [Nodes -> Clients]
  /\ conn \in [Nodes -> BOOLEAN] /\ net \in [Nodes -> BOOLEAN]
  /\ msg \in [Nodes -> Messages]
  /\ lost \subseteq Nodes \X Nat

Counted ==
  /\ \A n \in Nodes :
       /\ client[n].inc <= faults + 1
       /\ ~client[n].up => client[n].inc <= faults
       /\ slots[n].inc <= client[n].inc /\ msg[n].inc <= client[n].inc
  /\ \A d \in lost : d[2] <= client[d[1]].inc

\* Types; a lease is never longer than lease_ttl, and the table, the messages
\* and the monitors know no process of a node that has not been started.
TypeOK == Typed /\ Counted

\* A client always goes on, by one timer or one request and never both: it
\* neither falls asleep nor starts a second loop of heartbeats.
OneLoop ==
  \A n \in Nodes :
    client[n].up => (client[n].tick # "none") # (client[n].wait # "none")

\* A node that runs and is connected.
Healthy(n) ==
  /\ up /\ client[n].up /\ conn[n]
  /\ client[n].state = "registered" /\ slots[n].inc = client[n].inc

\* The lease of a node that is connected does not run out: heartbeats at a
\* third of the lease leave room for their way and for the reply.
LeaseHolds ==
  \A n \in Nodes :
    Healthy(n) /\ slots[n].in /\ TTL > 0 => slots[n].left > 0

LeaseAt(c, m, s, connected) ==
  /\ c.up /\ c.state = "registered" =>
       c.tick = "heartbeat" \/ c.wait = "heartbeat"
  /\ m.kind = "rejected" => ~s.in
  /\ m.kind = "ok" /\ s.in => s.left >= TTL - m.age
  /\ c.up /\ c.tick = "heartbeat" =>
       /\ c.timer <= heartbeat_period
       /\ s.in => s.left >= TTL - MaxDelay - (heartbeat_period - c.timer)
  /\ c.up /\ connected /\ c.wait = "heartbeat" =>
       /\ m.kind \in {"heartbeat", "ok", "rejected"}
       /\ m.kind = "heartbeat" /\ s.in =>
            s.left >= TTL - MaxDelay - heartbeat_period - m.age

\* Why the lease holds: where a client is in its loop of heartbeats tells how
\* much of the lease is left.  It is full, less the age of the reply, when the
\* master has just answered, a period and a delay shorter when the next
\* heartbeat is sent, and a rejected node is not in the table.
LeaseInv == \A n \in Nodes : LeaseAt(client[n], msg[n], slots[n], conn[n])

\* A node leaves the table for a reason of its own process: the down_msg of
\* the process that is registered, its lease, an operator, or the end of the
\* master; never by the late down_msg of an earlier process of that name.
RemovedForCause ==
  [][\A n \in Nodes :
       slots[n].in /\ ~slots'[n].in =>
         \/ <<n, slots[n].inc>> \in lost
         \/ slots[n].left = 0
         \/ faults' = faults + 1]_vars

\* A node that is gone for good leaves the table, also when no down_msg comes.
Purged ==
  \A n \in Nodes :
    (<>[](~client[n].up)) => <>[](~slots[n].in)

\* A node that runs is in the table again and stays there, whatever happened
\* before, and as the process that runs.
Rejoins ==
  \A n \in Nodes :
    (<>[](client[n].up)) =>
      <>[](slots[n].in /\ slots[n].inc = client[n].inc)

\* When the faults have ended the table comes to hold the processes that run,
\* and only those (register, heartbeat, down_msg and prune_expired together).
Converges == Purged /\ Rejoins
=============================================================================
