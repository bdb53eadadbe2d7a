-------------------------- MODULE SqlServiceProofs --------------------------
(***************************************************************************)
(* Theorems about the transaction slots of a SQL plugin, for any number of *)
(* connections, clients and requests, both kinds of worker, and            *)
(* connections that break and workers that stop at any point.              *)
(***************************************************************************)
EXTENDS SqlService, WellFoundedInduction, TLAPS

\* A set of naturals that is not empty has a first element.
LEMMA FirstExists ==
  ASSUME NEW T \in SUBSET Nat, T # {}
  PROVE  \E i \in T : \A j \in T : i <= j
<1>1. PICK i \in T : \A j \in T : <<j, i>> \notin OpToRel(<, Nat)
  BY NatLessThanWellFounded, WFMin, Zenon
<1>2. \A j \in T : ~ (j < i)
  BY <1>1, ZenonT(40) DEF OpToRel
<1>. QED
  BY <1>2

\* The positions of the round robin are slots.
LEMMA WithinPool ==
  ASSUME SlotInv, NEW i \in Slots
  PROVE  ((cursor + i - 1) % NSlots) + 1 \in Slots
<1>1. NSlots \in Nat \ {0} /\ cursor + i - 1 \in Int
  BY BoundsAssumption DEF SlotInv, Slots
<1>2. (cursor + i - 1) % NSlots \in 0 .. NSlots - 1
  BY <1>1
<1>. QED
  BY <1>1, <1>2 DEF Slots

\* What route_round_robin finds is an idle slot that has not stopped.
LEMMA RoutesToIdle ==
  ASSUME SlotInv, round_robin # 0
  PROVE  /\ round_robin \in Slots /\ IsIdle(round_robin)
         /\ ~ Stopped(queue[round_robin])
<1>. DEFINE at(i) == ((cursor + i - 1) % NSlots) + 1
            fits == {i \in Slots : ~Stopped(queue[at(i)]) /\ IsIdle(at(i))}
            first == CHOOSE i \in fits : \A j \in fits : i <= j
<1>1. round_robin = IF fits = {} THEN 0 ELSE at(first)
  BY Zenon DEF round_robin
<1>2. fits # {} /\ fits \in SUBSET Nat
  BY <1>1, BoundsAssumption DEF Slots
<1>3. \E i \in fits : \A j \in fits : i <= j
  <2>. HIDE DEF fits
  <2>. QED
    BY <1>2, FirstExists, Zenon
<1>4. first \in fits
  BY <1>3, Zenon
<1>. QED
  BY <1>1, <1>2, <1>4, WithinPool, Zenon

\* The next position is in the pool again.
LEMMA CursorKeeps ==
  ASSUME SlotInv, NextCursor
  PROVE  cursor' \in 0 .. NSlots - 1
<1>1. NSlots \in Nat \ {0} /\ cursor + 1 \in Int
  BY BoundsAssumption DEF SlotInv
<1>. QED
  BY <1>1 DEF NextCursor

\* The three variables of the invariant.
LEMMA Frame == SlotInv /\ UNCHANGED <<cursor, entries, txstate>> => SlotInv'
  BY DEF SlotInv, SlotOwned

\* Moving the round robin on disturbs nothing.
LEMMA CursorOnly ==
  ASSUME SlotInv, cursor' \in 0 .. NSlots - 1, UNCHANGED <<entries, txstate>>
  PROVE  SlotInv'
  BY Zenon DEF SlotInv, SlotOwned

\* release_transaction takes a transaction out of the registry and puts its
\* slot back, or does nothing.
LEMMA ReleaseKeeps ==
  ASSUME SlotInv, NEW ts, Release(ts), UNCHANGED cursor
  PROVE  SlotInv'
<1>. DEFINE es == {e \in entries : e.token \in ts}
<1>1. /\ entries' = entries \ es
      /\ txstate' = [s \in Slots |->
           IF \E e \in es : e.token = [slot |-> s, gen |-> txstate[s].gen]
             THEN [txstate[s] EXCEPT !.state = "Idle"] ELSE txstate[s]]
  BY Zenon DEF Release
<1>2. txstate' \in [Slots -> [state : {"Idle", "Active", "Closing"}, gen : Nat]]
  BY <1>1 DEF SlotInv
<1>3. entries' \subseteq [token : [slot : Slots, gen : Nat], key : Clients]
      /\ \A d, e \in entries' : d.key = e.key => d = e
  BY <1>1, Zenon DEF SlotInv
<1>4. SlotOwned'
  <2>. SUFFICES ASSUME NEW s \in Slots
       PROVE LET mine == {e \in entries' : e.token.slot = s} IN
             IF txstate'[s].state = "Idle" THEN mine = {}
             ELSE \E e \in mine : mine = {e} /\ e.token.gen = txstate'[s].gen
    BY Zenon DEF SlotOwned
  <2>. DEFINE old == {e \in entries : e.token.slot = s}
              mine == {e \in entries' : e.token.slot = s}
  <2>1. mine = old \ es
    BY <1>1, Zenon
  <2>2. IF txstate[s].state = "Idle" THEN old = {}
        ELSE \E e \in old : old = {e} /\ e.token.gen = txstate[s].gen
    BY Zenon DEF SlotInv, SlotOwned
  <2>3. \A e \in old : e.token = [slot |-> s, gen |-> e.token.gen]
    BY Zenon DEF SlotInv
  <2>4. CASE txstate[s].state = "Idle"
    <3>1. old = {}
      BY <2>2, <2>4, Zenon
    <3>2. txstate'[s].state = "Idle"
      BY <1>1, <2>4, Zenon DEF SlotInv
    <3>. QED
      BY <2>1, <3>1, <3>2, Zenon
  <2>5. CASE txstate[s].state # "Idle"
    <3>1. PICK e \in old : old = {e} /\ e.token.gen = txstate[s].gen
      BY <2>2, <2>5, Zenon
    <3>2. e.token = [slot |-> s, gen |-> txstate[s].gen]
      BY <2>3, <3>1, Zenon
    <3>3. CASE e \in es
      <4>1. mine = {}
        BY <2>1, <3>1, <3>3, Zenon
      <4>2. txstate'[s].state = "Idle"
        BY <1>1, <3>2, <3>3, Zenon DEF SlotInv
      <4>. QED
        BY <4>1, <4>2, Zenon
    <3>4. CASE e \notin es
      <4>1. mine = {e}
        BY <2>1, <3>1, <3>4, Zenon
      <4>2. ~ \E d \in es : d.token = [slot |-> s, gen |-> txstate[s].gen]
        <5>. SUFFICES ASSUME NEW d \in es, d.token = [slot |-> s, gen |-> txstate[s].gen]
             PROVE FALSE
          BY Zenon
        <5>1. d \in old
          OBVIOUS
        <5>. QED
          BY <5>1, <3>1, <3>4, Zenon
      <4>3. txstate'[s] = txstate[s]
        BY <1>1, <4>2, Zenon
      <4>. QED
        BY <4>1, <4>3, <3>1, <2>5, Zenon
    <3>. QED
      BY <3>3, <3>4, Zenon
  <2>. QED
    BY <2>4, <2>5, Zenon
<1>. QED
  BY <1>2, <1>3, <1>4, Zenon DEF SlotInv

\* BEGIN takes an idle slot and registers its transaction under a free key.
LEMMA BeginKeeps ==
  ASSUME SlotInv, NEW c \in Clients, begin_transaction(c)
  PROVE  SlotInv'
<1>. DEFINE s == round_robin
            g == txstate[s].gen + 1
            tx == [slot |-> s, gen |-> g]
            new == [token |-> tx, key |-> c]
            known == \E e \in entries : e.key = c
<1>1. CASE known \/ s = 0
  <2>1. UNCHANGED <<entries, txstate>> /\ (UNCHANGED cursor \/ NextCursor)
    BY <1>1, Zenon DEF begin_transaction, Reject
  <2>2. cursor' \in 0 .. NSlots - 1
    BY <2>1, CursorKeeps, Zenon DEF SlotInv
  <2>. QED
    BY <2>1, <2>2, CursorOnly, Zenon
<1>2. CASE ~ (known \/ s = 0)
  <2>1. /\ NextCursor
        /\ txstate' = [txstate EXCEPT ![s] = [state |-> "Active", gen |-> g]]
        /\ entries' = entries \cup {new}
    BY <1>2, Zenon DEF begin_transaction
  <2>2. s \in Slots /\ txstate[s].state = "Idle"
    BY <1>2, RoutesToIdle, Zenon DEF IsIdle
  <2>3. cursor' \in 0 .. NSlots - 1
    BY <2>1, CursorKeeps, Zenon
  <2>4. g \in Nat
    BY <2>2 DEF SlotInv
  <2>5. txstate' \in [Slots -> [state : {"Idle", "Active", "Closing"}, gen : Nat]]
    BY <2>1, <2>2, <2>4, Zenon DEF SlotInv
  <2>6. new \in [token : [slot : Slots, gen : Nat], key : Clients]
    BY <2>2, <2>4, Zenon
  <2>7. /\ entries' \subseteq [token : [slot : Slots, gen : Nat], key : Clients]
        /\ \A d, e \in entries' : d.key = e.key => d = e
    <3>1. \A e \in entries : e.key # c
      BY <1>2, Zenon
    <3>2. new.key = c
      BY Zenon
    <3>3. entries \subseteq [token : [slot : Slots, gen : Nat], key : Clients]
          /\ \A d, e \in entries : d.key = e.key => d = e
      BY Zenon DEF SlotInv
    <3>. HIDE DEF new
    <3>. QED
      BY <2>1, <2>6, <3>1, <3>2, <3>3, Zenon
  <2>8. SlotOwned'
    <3>. SUFFICES ASSUME NEW t \in Slots
         PROVE LET mine == {e \in entries' : e.token.slot = t} IN
               IF txstate'[t].state = "Idle" THEN mine = {}
               ELSE \E e \in mine : mine = {e} /\ e.token.gen = txstate'[t].gen
      BY Zenon DEF SlotOwned
    <3>. DEFINE old == {e \in entries : e.token.slot = t}
                mine == {e \in entries' : e.token.slot = t}
    <3>1. IF txstate[t].state = "Idle" THEN old = {}
          ELSE \E e \in old : old = {e} /\ e.token.gen = txstate[t].gen
      BY Zenon DEF SlotInv, SlotOwned
    <3>2. new.token.slot = s /\ new.token.gen = g
      BY Zenon
    <3>3. CASE t = s
      <4>1. old = {}
        BY <2>2, <3>1, <3>3, Zenon
      <4>2. mine = {new}
        BY <2>1, <3>2, <3>3, <4>1, Zenon
      <4>3. txstate'[t].state = "Active" /\ txstate'[t].gen = g
        BY <2>1, <2>2, <3>3, Zenon DEF SlotInv
      <4>. QED
        BY <4>2, <4>3, <3>2, Zenon
    <3>4. CASE t # s
      <4>1. mine = old
        BY <2>1, <3>2, <3>4, Zenon
      <4>2. txstate'[t] = txstate[t]
        BY <2>1, <3>4, Zenon DEF SlotInv
      <4>. QED
        BY <3>1, <4>1, <4>2, Zenon
    <3>. QED
      BY <3>3, <3>4, Zenon
  <2>. QED
    BY <2>3, <2>5, <2>7, <2>8, Zenon DEF SlotInv
<1>. QED
  BY <1>1, <1>2, Zenon

\* COMMIT and ROLLBACK close a slot that is active, so it stays registered.
LEMMA FinishKeeps ==
  ASSUME SlotInv, NEW c, NEW o, NEW tx, finish_transaction(c, o, tx)
  PROVE  SlotInv'
<1>1. UNCHANGED cursor /\ UNCHANGED entries
  BY Zenon DEF finish_transaction, Reject
<1>2. CASE UNCHANGED txstate
  BY <1>1, <1>2, Frame, Zenon
<1>3. CASE IsActive(tx) /\ txstate' = [txstate EXCEPT ![tx.slot].state = "Closing"]
  <2>1. \A s \in Slots :
          /\ txstate'[s] \in [state : {"Idle", "Active", "Closing"}, gen : Nat]
          /\ txstate'[s].gen = txstate[s].gen
          /\ (txstate'[s].state = "Idle") = (txstate[s].state = "Idle")
    BY <1>3, Zenon DEF SlotInv, IsActive
  <2>2. txstate' \in [Slots -> [state : {"Idle", "Active", "Closing"}, gen : Nat]]
    BY <1>3, <2>1, Zenon DEF SlotInv
  <2>3. SlotOwned'
    BY <1>1, <2>1 DEF SlotInv, SlotOwned
  <2>. QED
    BY <1>1, <2>2, <2>3, Zenon DEF SlotInv
<1>. QED
  BY <1>2, <1>3, Zenon DEF finish_transaction, Reject

\* Every step of the actor and of the workers keeps the invariant.
LEMMA NextSlots == SlotInv /\ [Next]_vars => SlotInv'
<1>. SUFFICES ASSUME SlotInv, [Next]_vars PROVE SlotInv'
  BY Zenon
<1>1. ASSUME NEW c \in Clients, NEW o, dispatch_regular(c, o) PROVE SlotInv'
  BY <1>1, CursorKeeps, CursorOnly, Zenon DEF dispatch_regular, Reject
<1>2. ASSUME NEW c \in Clients, NEW o, dispatch_transaction(c, o) PROVE SlotInv'
  BY <1>2, Frame, Zenon DEF dispatch_transaction, Reject
<1>3. ASSUME NEW c \in Clients, Request(c) PROVE SlotInv'
  BY <1>1, <1>2, <1>3, BeginKeeps, FinishKeeps, Zenon DEF Request, Finish, Cancel
<1>4. CASE Enqueue
  BY <1>4, ReleaseKeeps, Frame, Zenon DEF Enqueue, FailJobs
<1>5. ASSUME NEW s \in Slots, Work(s) PROVE SlotInv'
  <2>1. CASE ProcessRejects(s)
    BY <2>1, Frame, Zenon DEF ProcessRejects, Ran
  <2>2. CASE Process(s)
    BY <2>2, Frame, Zenon DEF Process, Ran
  <2>3. CASE SqliteExecute(s)
    BY <2>3, Frame, Zenon DEF SqliteExecute, Ran
  <2>4. CASE Exit(s)
    BY <2>4, Frame, Zenon DEF Exit
  <2>5. CASE Done(s)
    <3>1. UNCHANGED cursor
      BY <2>5, Zenon DEF Done
    <3>2. CASE CleanUp(s)
      BY <3>1, <3>2, Frame, Zenon DEF CleanUp
    <3>3. CASE FailPending(s)
      BY <3>1, <3>3, ReleaseKeeps, Zenon DEF FailPending, FailJobs
    <3>4. CASE Settle(s)
      BY <3>1, <3>4, ReleaseKeeps, Frame, Zenon DEF Settle
    <3>. QED
      BY <2>5, <3>2, <3>3, <3>4, Zenon DEF Done
  <2>. QED
    BY <1>5, <2>1, <2>2, <2>3, <2>4, <2>5, Zenon DEF Work
<1>6. CASE StopAndJoin
  BY <1>6, Frame, Zenon DEF StopAndJoin
<1>7. CASE UNCHANGED vars
  BY <1>7, Frame, Zenon DEF vars
<1>. QED
  BY <1>3, <1>4, <1>5, <1>6, <1>7, Zenon DEF Next

\* A pool whose slots are all idle.
LEMMA InitSlots == Init => SlotInv
  BY BoundsAssumption DEF Init, SlotInv, SlotOwned

\* Round robin, registry and slots agree in every reachable state.
THEOREM SlotInvariant == Spec => []SlotInv
  BY InitSlots, NextSlots, PTL DEF Spec

\* A slot is out of the pool exactly while the registry knows the one
\* transaction that occupies it (sql_connection_pool.hpp:86): it is put back by
\* whoever ends the transaction, once.
THEOREM SlotsOwned == Spec => []SlotOwned
<1>1. SlotInv => SlotOwned
  BY Zenon DEF SlotInv
<1>. QED
  BY <1>1, SlotInvariant, PTL
-----------------------------------------------------------------------------
(* Every promise is delivered once.                                        *)

\* An order of the positions before n, with n behind them.
LEMMA OrderExtended ==
  ASSUME NEW n \in Nat, NEW I \in SUBSET (1 .. n + 1), n + 1 \in I,
         NEW p \in InOrder(I \ {n + 1}, n)
  PROVE  InOrder(I, n + 1) # {}
<1>1. PICK m \in 0 .. n : p \in [1 .. m -> I \ {n + 1}]
  BY Zenon DEF InOrder
<1>2. /\ \A i \in I \ {n + 1} : \E k \in 1 .. m : p[k] = i
      /\ \A k, l \in 1 .. m : k < l => p[k] < p[l]
  BY <1>1, Zenon DEF InOrder
<1>. DEFINE r == [k \in 1 .. m + 1 |-> IF k = m + 1 THEN n + 1 ELSE p[k]]
<1>3. \A k \in 1 .. m : p[k] \in I /\ p[k] < n + 1
  <2>1. \A i \in I \ {n + 1} : i \in I /\ i < n + 1
    OBVIOUS
  <2>. QED
    BY <1>1, <2>1, Zenon
<1>4. m + 1 \in 0 .. n + 1 /\ r \in [1 .. m + 1 -> I]
  BY <1>3
<1>5. \A i \in I : \E k \in 1 .. m + 1 : r[k] = i
  BY <1>2
<1>6. \A k, l \in 1 .. m + 1 : k < l => r[k] < r[l]
  BY <1>2, <1>3
<1>7. DOMAIN r = 1 .. m + 1
  BY Zenon
<1>. HIDE DEF r
<1>. QED
  BY <1>4, <1>5, <1>6, <1>7 DEF InOrder

\* Every set of positions has an order.
LEMMA OrderExists ==
  ASSUME NEW n \in Nat, NEW I \in SUBSET (1 .. n)
  PROVE  InOrder(I, n) # {}
<1>. DEFINE Bad == {m \in Nat : \E J \in SUBSET (1 .. m) : InOrder(J, m) = {}}
<1>1. Bad = {}
  <2>. SUFFICES ASSUME Bad # {} PROVE FALSE
    BY Zenon
  <2>1. PICK m \in Bad : \A j \in Bad : m <= j
    <3>1. Bad \in SUBSET Nat
      BY Zenon
    <3>. HIDE DEF Bad
    <3>. QED
      BY <3>1, FirstExists, Zenon
  <2>2. PICK J \in SUBSET (1 .. m) : InOrder(J, m) = {}
    BY <2>1, Zenon
  <2>3. CASE m = 0
    <3>1. J = {} /\ << >> \in [1 .. 0 -> J]
      BY <2>2, <2>3
    <3>2. << >> \in InOrder(J, m)
      BY <2>3, <3>1 DEF InOrder
    <3>. QED
      BY <2>2, <3>2, Zenon
  <2>4. CASE m # 0
    <3>. DEFINE n0 == m - 1
    <3>1. n0 \in Nat /\ m = n0 + 1 /\ n0 \notin Bad
      BY <2>1, <2>4
    <3>. HIDE DEF n0
    <3>2. J \ {m} \in SUBSET (1 .. n0)
      BY <2>2, <3>1
    <3>3. InOrder(J \ {m}, n0) # {}
      BY <3>1, <3>2, Zenon
    <3>4. CASE m \in J
      BY <2>2, <3>1, <3>3, <3>4, OrderExtended, Zenon
    <3>5. CASE m \notin J
      <4>1. J \ {m} = J
        BY <3>5, Zenon
      <4>2. InOrder(J, n0) \subseteq InOrder(J, m)
        BY <3>1 DEF InOrder
      <4>. QED
        BY <2>2, <3>3, <4>1, <4>2, Zenon
    <3>. QED
      BY <3>4, <3>5, Zenon
  <2>. QED
    BY <2>3, <2>4, Zenon
<1>. QED
  BY <1>1, Zenon

\* At picks the positions p, of which there are m.
Picks(q, I, m, p) ==
  /\ m \in Nat /\ p \in [1 .. m -> I]
  /\ At(q, I) = [k \in 1 .. m |-> q[p[k]]]
  /\ \A i \in I : \E k \in 1 .. m : p[k] = i
  /\ \A k, l \in 1 .. m : k < l => p[k] < p[l]

\* It picks every position once, from the first to the last.
LEMMA AtOrder ==
  ASSUME NEW S, NEW q \in Seq(S), NEW I \in SUBSET DOMAIN q
  PROVE  \E m, p : Picks(q, I, m, p)
<1>1. Len(q) \in Nat /\ DOMAIN q = 1 .. Len(q)
  OBVIOUS
<1>2. InOrder(I, Len(q)) # {}
  BY <1>1, OrderExists, Zenon
<1>3. PICK p \in InOrder(I, Len(q)) : At(q, I) = [k \in DOMAIN p |-> q[p[k]]]
  <2>1. At(q, I) \in Kept(q, I)
    <3>1. Kept(q, I) # {}
      BY <1>2, Zenon DEF Kept
    <3>. QED
      BY <3>1, Zenon DEF At
  <2>. QED
    BY <2>1, Zenon DEF Kept
<1>4. PICK m \in 0 .. Len(q) : p \in [1 .. m -> I]
  BY Zenon DEF InOrder
<1>5. m \in Nat /\ DOMAIN p = 1 .. m
  BY <1>1, <1>4
<1>6. /\ \A i \in I : \E k \in 1 .. m : p[k] = i
      /\ \A k, l \in 1 .. m : k < l => p[k] < p[l]
  BY <1>5, Zenon DEF InOrder
<1>7. At(q, I) = [k \in 1 .. m |-> q[p[k]]]
  BY <1>3, <1>5, Zenon
<1>8. Picks(q, I, m, p)
  BY <1>4, <1>5, <1>6, <1>7, Zenon DEF Picks
<1>. QED
  BY <1>8, Zenon

\* Nothing is kept of a sequence at no position.
LEMMA AtNone ==
  ASSUME NEW S, NEW q \in Seq(S)
  PROVE  At(q, {}) = << >>
<1>1. PICK m, p : Picks(q, {}, m, p)
  BY AtOrder, Zenon
<1>2. m = 0
  BY <1>1 DEF Picks
<1>. QED
  BY <1>1, <1>2 DEF Picks

\* One element is kept at one position.
LEMMA AtOne ==
  ASSUME NEW S, NEW q \in Seq(S), NEW i \in DOMAIN q
  PROVE  At(q, {i}) = <<q[i]>>
<1>0. i \in Nat /\ {i} \in SUBSET DOMAIN q
  OBVIOUS
<1>1. PICK m, p : Picks(q, {i}, m, p)
  BY <1>0, AtOrder, Zenon
<1>2. m \in Nat /\ \A k \in 1 .. m : p[k] = i
  BY <1>1, Zenon DEF Picks
<1>3. m = 1
  <2>1. m # 0
    BY <1>1 DEF Picks
  <2>2. ~ (m > 1)
    BY <1>0, <1>1, <1>2 DEF Picks
  <2>. QED
    BY <1>2, <2>1, <2>2
<1>. QED
  BY <1>1, <1>2, <1>3 DEF Picks

\* A nonempty set of numbers up to n has a last element.
LEMMA LastExists ==
  ASSUME NEW n \in Nat, NEW T \in SUBSET (1 .. n), T # {}
  PROVE  \E r \in T : \A q \in T : q <= r
<1>. DEFINE D == {n - r : r \in T}
<1>1. D \in SUBSET Nat /\ D # {}
  <2>1. \A r \in T : n - r \in Nat
    OBVIOUS
  <2>. QED
    BY <2>1, Zenon
<1>2. PICK d \in D : \A e \in D : d <= e
  <2>. HIDE DEF D
  <2>. QED
    BY <1>1, FirstExists, Zenon
<1>3. PICK r \in T : d = n - r
  BY Zenon
<1>4. \A q \in T : n - r <= n - q
  BY <1>2, <1>3, Zenon
<1>5. \A q \in T : q <= r
  <2>. TAKE q \in T
  <2>1. n - r <= n - q /\ q \in Nat /\ r \in Nat
    BY <1>4
  <2>. QED
    BY <2>1
<1>. QED
  BY <1>5, Zenon

\* The elements of a sequence.
LEMMA ElementType == ASSUME NEW S, NEW q \in Seq(S), NEW i \in DOMAIN q PROVE q[i] \in S
  OBVIOUS

\* The requests so far.
LEMMA AskedRange ==
  ASSUME JobTypes
  PROVE  /\ Len(asked) \in Nat /\ DOMAIN asked = 1 .. Len(asked)
         /\ 1 .. Len(asked) \subseteq Requests /\ Requests \subseteq Nat \ {0}
         /\ MaxRequests \in Nat
  BY BoundsAssumption DEF JobTypes, Requests

\* A client's last request is one that it has sent.
LEMMA LastAsked ==
  ASSUME JobTypes, NEW c, Last(c) # 0
  PROVE  Last(c) \in DOMAIN asked /\ asked[Last(c)].by = c
<1>. DEFINE mine == {r \in DOMAIN asked : asked[r].by = c}
<1>1. mine # {} /\ Last(c) = CHOOSE r \in mine : \A q \in mine : q <= r
  BY Zenon DEF Last
<1>2. mine \in SUBSET (1 .. Len(asked)) /\ Len(asked) \in Nat
  BY AskedRange, Zenon
<1>3. \E r \in mine : \A q \in mine : q <= r
  <2>. HIDE DEF mine
  <2>. QED
    BY <1>1, <1>2, LastExists, Zenon
<1>4. Last(c) \in mine /\ \A q \in mine : q <= Last(c)
  <2>. HIDE DEF mine
  <2>. QED
    BY <1>1, <1>3, Zenon
<1>. QED
  BY <1>4, Zenon

\* The tokens that clients use are tokens.
LEMMA TokensOfClients ==
  ASSUME JobTypes, NEW c
  PROVE  Held(c) \in Tokens /\ Ended(c) \in Tokens /\ NoTx \in Tokens
<1>1. NoTx \in Tokens
  BY Zenon DEF Tokens
<1>2. Last(c) # 0 => asked[Last(c)].tx \in Tokens
  <2>. HAVE Last(c) # 0
  <2>1. Last(c) \in DOMAIN asked
    BY LastAsked, Zenon
  <2>2. asked \in Seq([by : Clients, op : Operations, tx : Tokens])
    BY Zenon DEF JobTypes
  <2>3. asked[Last(c)] \in [by : Clients, op : Operations, tx : Tokens]
    BY <2>1, <2>2, ElementType, Zenon
  <2>. QED
    BY <2>3, Zenon
<1>. QED
  BY <1>1, <1>2, Zenon DEF Held, Ended

\* The bookkeeping only looks at the places.
LEMMA SameAccount ==
  ASSUME NEW H, NEW K, NEW n, NEW a, Accounted(H, n, a), \A p \in Places : K[p] = H[p]
  PROVE  Accounted(K, n, a)
  BY Zenon DEF Accounted

\* A request that goes from one place to another is still accounted for.
LEMMA MoveAccount ==
  ASSUME JobsInv, NEW from \in Places, NEW to \in Places, from # to, NEW r \in Holds[from],
         Holds'[from] = Holds[from] \ {r}, Holds'[to] = Holds[to] \cup {r},
         \A p \in Places \ {from, to} : Holds'[p] = Holds[p]
  PROVE  Accounted(Holds', Len(asked), answers)
<1>1. \A p \in Places : \A x \in Holds'[p] : x \in Holds[p] \/ (p = to /\ x = r)
  BY Zenon
<1>2. \A x : (\E p \in Places : x \in Holds'[p]) <=> (\E p \in Places : x \in Holds[p])
  BY Zenon
<1>3. \A p \in Places : Holds'[p] \subseteq 1 .. Len(asked)
  BY <1>1 DEF JobsInv, Accounted
<1>4. \A p, q \in Places : \A x \in Holds'[p] \cap Holds'[q] : p = q
  <2>. SUFFICES ASSUME NEW p \in Places, NEW q \in Places, NEW x, x \in Holds'[p], x \in Holds'[q]
       PROVE  p = q
    BY Zenon
  <2>1. CASE x = r
    <3>1. p = to \/ p = from
      BY <2>1, Zenon DEF JobsInv, Accounted
    <3>2. q = to \/ q = from
      BY <2>1, Zenon DEF JobsInv, Accounted
    <3>3. x \notin Holds'[from]
      BY <2>1, Zenon
    <3>. QED
      BY <3>1, <3>2, <3>3, Zenon
  <2>2. CASE x # r
    <3>1. x \in Holds[p] /\ x \in Holds[q]
      BY <1>1, <2>2, Zenon
    <3>. QED
      BY <3>1, Zenon DEF JobsInv, Accounted
  <2>. QED
    BY <2>1, <2>2, Zenon
<1>. QED
  BY <1>2, <1>3, <1>4, Zenon DEF JobsInv, Accounted

\* Requests that leave their place with an answer are accounted for.
LEMMA AnswerAccount ==
  ASSUME JobsInv, NEW at \in Places, Holds'[at] \subseteq Holds[at],
         \A p \in Places \ {at} : Holds'[p] = Holds[p],
         \A r \in Requests : r \notin Holds[at] \ Holds'[at] => answers'[r] = answers[r],
         \A r \in Holds[at] \ Holds'[at] : answers'[r] # << >> /\ Len(answers'[r]) <= 1
  PROVE  Accounted(Holds', Len(asked), answers')
<1>. DEFINE R == Holds[at] \ Holds'[at]
<1>0. /\ Accounted(Holds, Len(asked), answers) /\ Len(asked) \in Nat
      /\ 1 .. Len(asked) \subseteq Requests
  BY AskedRange, Zenon DEF JobsInv
<1>1. \A p \in Places : \A x : x \in Holds'[p] <=> x \in Holds[p] /\ x \notin R
  <2>. SUFFICES ASSUME NEW p \in Places, NEW x PROVE x \in Holds'[p] <=> x \in Holds[p] /\ x \notin R
    BY Zenon
  <2>1. CASE p = at
    BY <2>1, Zenon
  <2>2. CASE p # at
    BY <1>0, <2>2, Zenon DEF Accounted
  <2>. QED
    BY <2>1, <2>2, Zenon
<1>2. R \subseteq 1 .. Len(asked)
  BY <1>0, Zenon DEF Accounted
<1>3. \A r \in 1 .. Len(asked) : answers'[r] = << >> <=> \E p \in Places : r \in Holds'[p]
  <2>. SUFFICES ASSUME NEW r \in 1 .. Len(asked)
       PROVE  answers'[r] = << >> <=> \E p \in Places : r \in Holds'[p]
    BY Zenon
  <2>1. CASE r \in R
    BY <1>1, <2>1, Zenon
  <2>2. CASE r \notin R
    BY <1>0, <1>1, <2>2, Zenon DEF Accounted
  <2>. QED
    BY <2>1, <2>2, Zenon
<1>4. \A r \in Requests : Len(answers'[r]) <= 1 /\ (r > Len(asked) => answers'[r] = << >>)
  <2>. SUFFICES ASSUME NEW r \in Requests
       PROVE  Len(answers'[r]) <= 1 /\ (r > Len(asked) => answers'[r] = << >>)
    BY Zenon
  <2>1. CASE r \in R
    <3>1. ~ (r > Len(asked))
      BY <1>0, <1>2, <2>1
    <3>. QED
      BY <2>1, <3>1, Zenon
  <2>2. CASE r \notin R
    BY <1>0, <2>2, Zenon DEF Accounted
  <2>. QED
    BY <2>1, <2>2, Zenon
<1>5. \A p \in Places : Holds'[p] \subseteq 1 .. Len(asked)
  BY <1>0, <1>1, Zenon DEF Accounted
<1>6. \A p, q \in Places : \A x \in Holds'[p] \cap Holds'[q] : p = q
  BY <1>0, <1>1 DEF Accounted
<1>. QED
  BY <1>0, <1>3, <1>4, <1>5, <1>6, Zenon DEF Accounted

\* A new request is with the actor, which had none.
LEMMA NewAccount ==
  ASSUME NEW H, NEW K, NEW n \in Nat, NEW a, Accounted(H, n, a), n + 1 \in Requests,
         H[0] = {}, K[0] = {n + 1}, \A p \in Places \ {0} : K[p] = H[p]
  PROVE  Accounted(K, n + 1, a)
<1>1. 0 \in Places /\ NSlots \in Nat
  BY BoundsAssumption DEF Places
<1>2. \A p \in Places : \A x : x \in K[p] <=> x \in H[p] \/ (p = 0 /\ x = n + 1)
  <2>. SUFFICES ASSUME NEW p \in Places, NEW x
       PROVE  x \in K[p] <=> x \in H[p] \/ (p = 0 /\ x = n + 1)
    BY Zenon
  <2>1. CASE p = 0
    BY <2>1, Zenon
  <2>2. CASE p # 0
    BY <2>2, Zenon
  <2>. QED
    BY <2>1, <2>2, Zenon
<1>3. \A p \in Places : n + 1 \notin H[p]
  BY DEF Accounted
<1>4. \A x : x \in 1 .. n + 1 <=> x \in 1 .. n \/ x = n + 1
  OBVIOUS
<1>5. a[n + 1] = << >>
  BY DEF Accounted
<1>6. \A p \in Places : K[p] \subseteq 1 .. n + 1
  BY <1>2, <1>4, Zenon DEF Accounted
<1>7. \A p, q \in Places : \A x \in K[p] \cap K[q] : p = q
  BY <1>2, <1>3 DEF Accounted
<1>8. \A r \in 1 .. n + 1 : a[r] = << >> <=> \E p \in Places : r \in K[p]
  <2>. SUFFICES ASSUME NEW r \in 1 .. n + 1
       PROVE  a[r] = << >> <=> \E p \in Places : r \in K[p]
    BY Zenon
  <2>1. CASE r = n + 1
    BY <1>1, <1>2, <1>5, <2>1, Zenon
  <2>2. CASE r # n + 1
    <3>1. r \in 1 .. n
      BY <1>4, <2>2, Zenon
    <3>2. a[r] = << >> <=> \E p \in Places : r \in H[p]
      BY <3>1, Zenon DEF Accounted
    <3>3. \A p \in Places : r \in K[p] <=> r \in H[p]
      BY <1>2, <2>2, Zenon
    <3>. QED
      BY <3>2, <3>3, Zenon
  <2>. QED
    BY <2>1, <2>2, Zenon
<1>9. \A r \in Requests : Len(a[r]) <= 1 /\ (r > n + 1 => a[r] = << >>)
  BY BoundsAssumption DEF Accounted, Requests
<1>. QED
  BY <1>6, <1>7, <1>8, <1>9, Zenon DEF Accounted

\* A new request that is answered at once is nowhere.
LEMMA RejectAccount ==
  ASSUME NEW H, NEW n \in Nat, NEW a, NEW b, Accounted(H, n, a), n + 1 \in Requests,
         b[n + 1] # << >>, Len(b[n + 1]) <= 1,
         \A r \in Requests : r # n + 1 => b[r] = a[r]
  PROVE  Accounted(H, n + 1, b)
<1>1. \A x : x \in 1 .. n + 1 <=> x \in 1 .. n \/ x = n + 1
  OBVIOUS
<1>2. \A p \in Places : n + 1 \notin H[p] /\ H[p] \subseteq 1 .. n
  BY DEF Accounted
<1>3. 1 .. n \subseteq Requests
  BY BoundsAssumption DEF Requests
<1>4. \A r \in 1 .. n : r # n + 1 /\ b[r] = a[r]
  BY <1>3
<1>5. \A r \in 1 .. n + 1 : b[r] = << >> <=> \E p \in Places : r \in H[p]
  BY <1>1, <1>2, <1>4, Zenon DEF Accounted
<1>6. \A r \in Requests : Len(b[r]) <= 1 /\ (r > n + 1 => b[r] = << >>)
  BY BoundsAssumption DEF Accounted, Requests
<1>. QED
  BY <1>1, <1>2, <1>5, <1>6, Zenon DEF Accounted

\* Appending nothing changes nothing.
LEMMA NothingAppended == ASSUME NEW S, NEW q \in Seq(S) PROVE q \o << >> = q
<1>1. /\ q \o << >> \in Seq(S) /\ Len(q \o << >>) = Len(q) /\ Len(q) \in Nat
      /\ \A i \in 1 .. Len(q) : (q \o << >>)[i] = q[i]
  OBVIOUS
<1>. QED
  BY <1>1

\* What a client makes of a result.
Verdicts == {"ok", "failed", "unknown"}

\* Every job delivers the promise of its request, once.
LEMMA DeliverOnce ==
  ASSUME JobTypes, NEW js \in Seq(Jobs), NEW res, Deliver(js, res),
         OnceEach(js)
  PROVE  /\ answers' \in [Requests -> Seq(Verdicts)]
         /\ \A r \in Requests : r \notin Reqs(js) => answers'[r] = answers[r]
         /\ \A r \in Requests : r \in Reqs(js) /\ answers[r] = << >> =>
              answers'[r] # << >> /\ Len(answers'[r]) <= 1
<1>. DEFINE I(r) == {i \in DOMAIN js : js[i].req = r}
            mine(r) == At(js, I(r))
            new(r) == [i \in DOMAIN mine(r) |-> Verdict(mine(r)[i], res)]
<1>1. answers' = [r \in Requests |-> answers[r] \o new(r)]
  BY Zenon DEF Deliver
<1>2. answers \in [Requests -> Seq(Verdicts)]
  BY Zenon DEF JobTypes, Verdicts
<1>3. js \in Seq(Jobs)
  BY Zenon
<1>4. \A j : Verdict(j, res) \in Verdicts
  BY Zenon DEF Verdict, Verdicts
<1>5. ASSUME NEW r \in Requests, r \notin Reqs(js) PROVE new(r) = << >>
  <2>1. I(r) = {}
    BY <1>5, Zenon DEF Reqs
  <2>2. mine(r) = << >>
    BY <1>3, <2>1, AtNone, Zenon
  <2>. HIDE DEF mine
  <2>. QED
    BY <2>2
<1>6. ASSUME NEW r \in Requests, r \in Reqs(js) PROVE \E v \in Verdicts : new(r) = <<v>>
  <2>1. PICK i \in DOMAIN js : js[i].req = r
    BY <1>6, Zenon DEF Reqs
  <2>2. I(r) = {i}
    BY <2>1, Zenon DEF OnceEach
  <2>3. mine(r) = <<js[i]>>
    BY <1>3, <2>2, AtOne, Zenon
  <2>. HIDE DEF mine
  <2>4. DOMAIN mine(r) = {1} /\ mine(r)[1] = js[i]
    BY <2>3
  <2>5. new(r) = [k \in {1} |-> Verdict(js[i], res)]
    BY <2>4, Zenon
  <2>6. new(r) = <<Verdict(js[i], res)>>
    BY <2>5
  <2>. QED
    BY <1>4, <2>6, Zenon
<1>. HIDE DEF new
<1>7. ASSUME NEW r \in Requests
      PROVE  /\ answers'[r] = answers[r] \o new(r)
             /\ new(r) \in Seq(Verdicts) /\ answers[r] \in Seq(Verdicts)
  <2>1. answers'[r] = answers[r] \o new(r) /\ answers[r] \in Seq(Verdicts)
    BY <1>1, <1>2, Zenon
  <2>2. \A v \in Verdicts : <<v>> \in Seq(Verdicts)
    OBVIOUS
  <2>3. << >> \in Seq(Verdicts)
    OBVIOUS
  <2>4. new(r) \in Seq(Verdicts)
    BY <1>5, <1>6, <2>2, <2>3, Zenon
  <2>. QED
    BY <2>1, <2>4, Zenon
<1>8. answers' \in [Requests -> Seq(Verdicts)]
  BY <1>1, <1>7
<1>9. ASSUME NEW r \in Requests, r \notin Reqs(js) PROVE answers'[r] = answers[r]
  BY <1>5, <1>7, <1>9, NothingAppended, Zenon
<1>10. ASSUME NEW r \in Requests, r \in Reqs(js), answers[r] = << >>
       PROVE  answers'[r] # << >> /\ Len(answers'[r]) <= 1
  <2>1. PICK v \in Verdicts : new(r) = <<v>>
    BY <1>6, <1>10, Zenon
  <2>2. answers'[r] = << >> \o <<v>>
    BY <1>7, <1>10, <2>1, Zenon
  <2>. QED
    BY <2>2
<1>. QED
  BY <1>8, <1>9, <1>10, Zenon

\* One job.
LEMMA DeliverOne ==
  ASSUME JobTypes, NEW j \in Jobs, NEW res, Deliver(<<j>>, res)
  PROVE  /\ answers' \in [Requests -> Seq(Verdicts)]
         /\ \A r \in Requests : r # j.req => answers'[r] = answers[r]
         /\ \A r \in Requests : r = j.req /\ answers[r] = << >> =>
              answers'[r] # << >> /\ Len(answers'[r]) <= 1
<1>1. <<j>> \in Seq(Jobs) /\ DOMAIN <<j>> = {1} /\ <<j>>[1] = j
  OBVIOUS
<1>2. Reqs(<<j>>) = {j.req}
  BY <1>1, Zenon DEF Reqs
<1>3. OnceEach(<<j>>)
  BY <1>1, Zenon DEF OnceEach
<1>. QED
  BY <1>1, <1>2, <1>3, DeliverOnce, Zenon

\* Nothing that the invariant is about has changed.
LEMMA JobsFrame ==
  JobsInv /\ UNCHANGED <<actor, queue, worker, asked, answers>> => JobsInv'
<1>. SUFFICES ASSUME JobsInv, UNCHANGED <<actor, queue, worker, asked, answers>>
     PROVE  JobsInv'
  BY Zenon
<1>1. Holds' = Holds
  BY Zenon DEF Holds, AtActor, InHand, Reqs
<1>2. JobTypes'
  BY Zenon DEF JobsInv, JobTypes
<1>3. Accounted(Holds, Len(asked), answers)'
  BY <1>1, Zenon DEF JobsInv, Accounted
<1>4. (\A s \in Slots : OnceEach(queue[s].jobs))'
  BY Zenon DEF JobsInv, OnceEach
<1>5. (\A s \in Slots : worker[s].pc = "exited" => Finished(queue[s]))'
  BY Zenon DEF JobsInv, Finished
<1>. QED
  BY <1>2, <1>3, <1>4, <1>5, Zenon DEF JobsInv

\* The actor can hold a job, the others hold theirs by slot.
LEMMA PlacesOfSlots ==
  ASSUME NEW s \in Slots
  PROVE  /\ 0 \in Places /\ s \in Places /\ -s \in Places
         /\ s > 0 /\ s # 0 /\ -s # 0 /\ -s # s /\ -(-s) = s /\ ~(-s > 0)
         /\ \A t \in Slots : t # -s /\ (-t = -s => t = s)
  BY BoundsAssumption DEF Places, Slots

\* What the places hold.
LEMMA HoldsWhat ==
  /\ Holds[0] = AtActor
  /\ \A s \in Slots : Holds[s] = Reqs(queue[s].jobs) /\ Holds[-s] = InHand(s)
  /\ \A p \in Places : p = 0 \/ p \in Slots \/ -p \in Slots
<1>1. 0 \in Places /\ NSlots \in Nat
  BY BoundsAssumption DEF Places
<1>2. Holds[0] = AtActor
  BY <1>1, Zenon DEF Holds
<1>3. ASSUME NEW s \in Slots
      PROVE  Holds[s] = Reqs(queue[s].jobs) /\ Holds[-s] = InHand(s)
  BY PlacesOfSlots, Zenon DEF Holds
<1>4. \A p \in Places : p = 0 \/ p \in Slots \/ -p \in Slots
  BY <1>1 DEF Places, Slots
<1>. QED
  BY <1>2, <1>3, <1>4, Zenon

\* The same after a step.
LEMMA HoldsNext ==
  /\ Holds'[0] = AtActor'
  /\ \A s \in Slots : Holds'[s] = Reqs(queue'[s].jobs) /\ Holds'[-s] = InHand(s)'
<1>1. Holds' = [p \in Places |-> IF p = 0 THEN AtActor'
                ELSE IF p > 0 THEN Reqs(queue'[p].jobs) ELSE InHand(-p)']
  BY Zenon DEF Holds, Reqs
<1>2. Holds'[0] = AtActor'
  BY <1>1, BoundsAssumption DEF Places
<1>3. ASSUME NEW s \in Slots
      PROVE  Holds'[s] = Reqs(queue'[s].jobs) /\ Holds'[-s] = InHand(s)'
  <2>1. Holds'[s] = Reqs(queue'[s].jobs) /\ Holds'[-s] = InHand(-(-s))'
    BY <1>1, PlacesOfSlots, Zenon
  <2>. QED
    BY <2>1, PlacesOfSlots, Zenon
<1>. QED
  BY <1>2, <1>3, Zenon

\* A place that a step leaves alone.
LEMMA OtherPlaces ==
  ASSUME NEW p \in Places, p = 0 => AtActor' = AtActor,
         \A t \in Slots : t = p => queue'[t].jobs = queue[t].jobs,
         \A t \in Slots : t = -p => worker'[t] = worker[t]
  PROVE  Holds'[p] = Holds[p]
<1>1. CASE p = 0
  BY <1>1, HoldsWhat, HoldsNext, Zenon
<1>2. CASE p \in Slots
  BY <1>2, HoldsWhat, HoldsNext, Zenon
<1>3. CASE -p \in Slots
  <2>. DEFINE t == -p
  <2>1. t \in Slots /\ p = -t
    BY <1>3 DEF Places
  <2>2. worker'[t] = worker[t]
    BY <2>1, Zenon
  <2>. HIDE DEF t
  <2>3. InHand(t)' = InHand(t)
    BY <2>2, Zenon DEF InHand
  <2>. QED
    BY <2>1, <2>3, HoldsWhat, HoldsNext, Zenon
<1>. QED
  BY <1>1, <1>2, <1>3, HoldsWhat, Zenon

\* The parts of the invariant after a step.
LEMMA JobsNext ==
  ASSUME JobTypes', Accounted(Holds', Len(asked'), answers'),
         \A s \in Slots : OnceEach(queue'[s].jobs),
         \A s \in Slots : worker'[s].pc = "exited" =>
           queue'[s].jobs = << >> /\ ~ queue'[s].running
  PROVE  JobsInv'
  BY Zenon DEF JobsInv, Accounted, Finished, OnceEach

\* The next request has a number that is free.
LEMMA AskNext ==
  ASSUME JobsInv, NEW c \in Clients, NEW o \in Operations, NEW tx \in Tokens,
         Ask(c, o, tx)
  PROVE  /\ asked' \in Seq([by : Clients, op : Operations, tx : Tokens])
         /\ Len(asked') = Len(asked) + 1 /\ Len(asked') <= MaxRequests
         /\ Len(asked) \in Nat /\ NextRequest = Len(asked) + 1
         /\ Len(asked) + 1 \in Requests /\ answers[Len(asked) + 1] = << >>
         /\ actor.pc = "ready"
         /\ \A op \in {o, "none"} : \A t \in {tx, NoTx} :
              Job(op, t, NextRequest) \in Jobs /\ Job(op, t, NextRequest).req = Len(asked) + 1
<1>. DEFINE S == [by : Clients, op : Operations, tx : Tokens]
            a == [by |-> c, op |-> o, tx |-> tx]
<1>1. asked \in Seq(S) /\ Len(asked) \in Nat /\ MaxRequests \in Nat
  BY AskedRange, Zenon DEF JobsInv, JobTypes
<1>2. a \in S /\ asked' = Append(asked, a) /\ Len(asked) < MaxRequests /\ actor.pc = "ready"
  BY Zenon DEF Ask
<1>3. asked' \in Seq(S) /\ Len(asked') = Len(asked) + 1
  <2>. HIDE DEF S, a
  <2>. QED
    BY <1>1, <1>2
<1>4. Len(asked) + 1 \in Requests /\ Len(asked) + 1 <= MaxRequests
  BY <1>1, <1>2 DEF Requests
<1>5. answers[Len(asked) + 1] = << >>
  BY <1>1, <1>4 DEF JobsInv, Accounted
<1>6. \A op \in {o, "none"} : \A t \in {tx, NoTx} :
        Job(op, t, NextRequest) \in Jobs /\ Job(op, t, NextRequest).req = Len(asked) + 1
  BY <1>1, TokensOfClients DEF Job, Jobs, NextRequest, JobsInv
<1>. QED
  BY <1>1, <1>2, <1>3, <1>4, <1>5, <1>6, Zenon DEF NextRequest

\* A request without a route is answered in the handler.
LEMMA RejectJobs ==
  ASSUME JobsInv, NEW c \in Clients, NEW o \in Operations, NEW tx \in Tokens, NEW res,
         Ask(c, o, tx), Reject(res)
  PROVE  JobsInv'
<1>. DEFINE j == Job("none", NoTx, NextRequest)
            n == Len(asked)
<1>1. /\ asked' \in Seq([by : Clients, op : Operations, tx : Tokens])
      /\ Len(asked') = n + 1 /\ n + 1 <= MaxRequests /\ n \in Nat
      /\ n + 1 \in Requests /\ answers[n + 1] = << >>
  BY AskNext, Zenon
<1>2. j \in Jobs /\ j.req = n + 1
  BY AskNext, Zenon
<1>3. Deliver(<<j>>, res) /\ UNCHANGED <<actor, queue, worker>>
  BY Zenon DEF Reject
<1>. HIDE DEF j
<1>4. /\ answers' \in [Requests -> Seq(Verdicts)]
      /\ \A r \in Requests : r # n + 1 => answers'[r] = answers[r]
      /\ answers'[n + 1] # << >> /\ Len(answers'[n + 1]) <= 1
  BY <1>1, <1>2, <1>3, DeliverOne, Zenon DEF JobsInv
<1>5. Holds' = Holds
  BY <1>3, Zenon DEF Holds, AtActor, InHand, Reqs
<1>6. Accounted(Holds', Len(asked'), answers')
  BY <1>1, <1>4, <1>5, RejectAccount, Zenon DEF JobsInv
<1>7. JobTypes'
  BY <1>1, <1>3, <1>4, Zenon DEF JobsInv, JobTypes, Verdicts
<1>. QED
  BY <1>3, <1>6, <1>7, JobsNext, Zenon DEF JobsInv, Finished

\* A request with a route is with the actor.
LEMMA RouteJobs ==
  ASSUME JobsInv, NEW c \in Clients, NEW o \in Operations, NEW tx \in Tokens,
         NEW t \in {tx, NoTx}, NEW s \in Slots,
         Ask(c, o, tx), RouteTo(s, Job(o, t, NextRequest))
  PROVE  JobsInv'
<1>. DEFINE j == Job(o, t, NextRequest)
            n == Len(asked)
<1>1. /\ asked' \in Seq([by : Clients, op : Operations, tx : Tokens])
      /\ Len(asked') = n + 1 /\ n + 1 <= MaxRequests /\ n \in Nat
      /\ n + 1 \in Requests /\ actor.pc = "ready"
  BY AskNext, Zenon
<1>2. j \in Jobs /\ j.req = n + 1
  BY AskNext, Zenon
<1>3. actor' = [pc |-> "enqueue", slot |-> s, job |-> j] /\ UNCHANGED <<queue, worker, answers>>
  BY Zenon DEF RouteTo
<1>. HIDE DEF j
<1>4. AtActor = {} /\ AtActor' = {n + 1}
  BY <1>1, <1>2, <1>3, Zenon DEF AtActor
<1>5. Holds[0] = {} /\ Holds'[0] = {n + 1}
  BY <1>4, HoldsWhat, HoldsNext, Zenon
<1>6. \A p \in Places \ {0} : Holds'[p] = Holds[p]
  BY <1>3, Zenon DEF Holds, InHand, Reqs
<1>7. Accounted(Holds', Len(asked'), answers')
  BY <1>1, <1>3, <1>5, <1>6, NewAccount DEF JobsInv
<1>8. actor' \in [pc : {"ready", "enqueue", "stop", "join", "down"}, slot : 0 .. NSlots, job : Jobs]
      /\ actor'.slot \in Slots
  BY <1>2, <1>3, BoundsAssumption DEF Slots
<1>9. JobTypes'
  BY <1>1, <1>3, <1>8, Zenon DEF JobsInv, JobTypes
<1>. QED
  BY <1>3, <1>7, <1>9, JobsNext, Zenon DEF JobsInv, Finished

\* A token that is not NoTx names a slot.
LEMMA TokenSlot == ASSUME NEW tx \in Tokens, tx # NoTx PROVE tx.slot \in Slots
  BY Zenon DEF Tokens

\* The handlers answer the request or hand it to the actor.
LEMMA RequestJobs ==
  ASSUME JobsInv, SlotInv, NEW c \in Clients, Request(c)
  PROVE  JobsInv'
<1>0. NoTx \in Tokens /\ Held(c) \in Tokens /\ Ended(c) \in Tokens
  BY TokensOfClients, Zenon DEF JobsInv
<1>1. ASSUME NEW o \in Statements, dispatch_regular(c, o) PROVE JobsInv'
  <2>1. o \in Operations
    BY Zenon DEF Operations
  <2>2. Ask(c, o, NoTx)
    BY <1>1, Zenon DEF dispatch_regular
  <2>3. CASE round_robin = 0
    BY <1>0, <1>1, <2>1, <2>2, <2>3, RejectJobs, Zenon DEF dispatch_regular
  <2>4. CASE round_robin # 0
    <3>1. round_robin \in Slots /\ RouteTo(round_robin, Job(o, NoTx, NextRequest))
      BY <1>1, <2>4, RoutesToIdle, Zenon DEF dispatch_regular
    <3>. QED
      BY <1>0, <2>1, <2>2, <3>1, RouteJobs, Zenon
  <2>. QED
    BY <2>3, <2>4, Zenon
<1>2. CASE dispatch_transaction(c, "Exec")
  <2>. DEFINE tx == IF Ended(c) # NoTx THEN Ended(c) ELSE Held(c)
  <2>1. tx \in Tokens /\ tx # NoTx /\ Ask(c, "Exec", tx) /\ "Exec" \in Operations
    BY <1>0, <1>2, Zenon DEF dispatch_transaction, Operations, Statements
  <2>2. \/ RouteTo(tx.slot, Job("Exec", tx, NextRequest))
        \/ Reject("transaction_lost")
    BY <1>2, Zenon DEF dispatch_transaction
  <2>. HIDE DEF tx
  <2>3. tx.slot \in Slots
    BY <2>1, TokenSlot, Zenon
  <2>. QED
    BY <2>1, <2>2, <2>3, RouteJobs, RejectJobs, Zenon
<1>3. CASE begin_transaction(c)
  <2>. DEFINE s == round_robin
              tx == [slot |-> s, gen |-> txstate[s].gen + 1]
  <2>1. "Begin" \in Operations
    BY Zenon DEF Operations
  <2>2. CASE (\E e \in entries : e.key = c) \/ s = 0
    <3>1. Ask(c, "Begin", NoTx) /\ Reject("connection_unavailable")
      BY <1>3, <2>2, Zenon DEF begin_transaction
    <3>. QED
      BY <1>0, <2>1, <3>1, RejectJobs, Zenon
  <2>3. CASE ~ ((\E e \in entries : e.key = c) \/ s = 0)
    <3>1. Ask(c, "Begin", tx) /\ RouteTo(s, Job("Begin", tx, NextRequest))
      BY <1>3, <2>3, Zenon DEF begin_transaction
    <3>2. s \in Slots
      BY <2>3, RoutesToIdle, Zenon
    <3>3. tx \in Tokens
      <4>1. txstate[s].gen + 1 \in Nat
        BY <3>2 DEF SlotInv
      <4>. QED
        BY <3>2, <4>1, Zenon DEF Tokens
    <3>. HIDE DEF s, tx
    <3>. QED
      BY <2>1, <3>1, <3>2, <3>3, RouteJobs, Zenon
  <2>. QED
    BY <2>2, <2>3, Zenon
<1>4. ASSUME NEW o \in {"Commit", "Rollback"}, NEW tx \in Tokens, finish_transaction(c, o, tx)
      PROVE  JobsInv'
  <2>1. o \in Operations /\ Ask(c, o, tx)
    BY <1>4, Zenon DEF finish_transaction, Operations
  <2>2. \/ tx # NoTx /\ RouteTo(tx.slot, Job(o, tx, NextRequest))
        \/ Reject("transaction_lost")
    BY <1>4, Zenon DEF finish_transaction
  <2>. QED
    BY <2>1, <2>2, TokenSlot, RouteJobs, RejectJobs, Zenon
<1>5. ASSUME NEW o \in {"Commit", "Rollback"}, Finish(c, o) PROVE JobsInv'
  BY <1>0, <1>4, <1>5, Zenon DEF Finish
<1>6. CASE Cancel(c)
  <2>. DEFINE tx == IF \E e \in entries : e.key = c
                      THEN (CHOOSE e \in entries : e.key = c).token ELSE NoTx
  <2>1. tx \in Tokens
    <3>1. CASE \E e \in entries : e.key = c
      <4>1. (CHOOSE e \in entries : e.key = c) \in entries
        BY <3>1, Zenon
      <4>2. (CHOOSE e \in entries : e.key = c).token \in [slot : Slots, gen : Nat]
        BY <4>1, Zenon DEF SlotInv
      <4>. QED
        BY <3>1, <4>2, Zenon DEF Tokens
    <3>. QED
      BY <1>0, <3>1, Zenon
  <2>2. finish_transaction(c, "Rollback", tx)
    BY <1>6, Zenon DEF Cancel
  <2>. HIDE DEF tx
  <2>. QED
    BY <1>4, <2>1, <2>2, Zenon
<1>. QED
  BY <1>1, <1>2, <1>3, <1>5, <1>6, Zenon DEF Request

\* A job at the end of a queue.
LEMMA AppendReqs ==
  ASSUME NEW q \in Seq(Jobs), NEW j \in Jobs, OnceEach(q), j.req \notin Reqs(q)
  PROVE  /\ Append(q, j) \in Seq(Jobs) /\ OnceEach(Append(q, j))
         /\ Reqs(Append(q, j)) = Reqs(q) \cup {j.req}
<1>1. /\ Append(q, j) \in Seq(Jobs) /\ Len(q) \in Nat /\ DOMAIN q = 1 .. Len(q)
      /\ DOMAIN Append(q, j) = 1 .. Len(q) + 1
      /\ \A i \in 1 .. Len(q) : Append(q, j)[i] = q[i]
      /\ Append(q, j)[Len(q) + 1] = j
  OBVIOUS
<1>2. \A i \in 1 .. Len(q) + 1 : i \in 1 .. Len(q) \/ i = Len(q) + 1
  BY <1>1
<1>3. Len(q) + 1 \in 1 .. Len(q) + 1 /\ 1 .. Len(q) \subseteq 1 .. Len(q) + 1
  BY <1>1
<1>4. \A i \in 1 .. Len(q) : q[i].req # j.req
  BY <1>1, Zenon DEF Reqs
<1>5. OnceEach(Append(q, j))
  BY <1>1, <1>2, <1>4 DEF OnceEach
<1>6. Reqs(Append(q, j)) = Reqs(q) \cup {j.req}
  BY <1>1, <1>2, <1>3, Zenon DEF Reqs
<1>. QED
  BY <1>1, <1>5, <1>6, Zenon

\* The job at the head of a queue, and the others.
LEMMA TailReqs ==
  ASSUME NEW q \in Seq(Jobs), q # << >>, OnceEach(q)
  PROVE  /\ Head(q) \in Jobs /\ Head(q).req \in Reqs(q)
         /\ Tail(q) \in Seq(Jobs) /\ OnceEach(Tail(q))
         /\ Reqs(Tail(q)) = Reqs(q) \ {Head(q).req}
<1>1. /\ Len(q) \in Nat /\ Len(q) > 0 /\ DOMAIN q = 1 .. Len(q)
      /\ Tail(q) \in Seq(Jobs) /\ DOMAIN Tail(q) = 1 .. Len(q) - 1
      /\ \A i \in 1 .. Len(q) - 1 : Tail(q)[i] = q[i + 1]
      /\ Head(q) = q[1] /\ Head(q) \in Jobs
  OBVIOUS
<1>2. \A i \in 1 .. Len(q) - 1 : i + 1 \in 1 .. Len(q) /\ i + 1 # 1
  BY <1>1
<1>3. \A i \in 1 .. Len(q) : i = 1 \/ (i - 1 \in 1 .. Len(q) - 1 /\ (i - 1) + 1 = i)
  BY <1>1
<1>4. OnceEach(Tail(q))
  <2>. SUFFICES ASSUME NEW i \in 1 .. Len(q) - 1, NEW j \in 1 .. Len(q) - 1,
                       q[i + 1].req = q[j + 1].req
       PROVE  i = j
    BY <1>1 DEF OnceEach
  <2>1. i + 1 = j + 1
    BY <1>1, <1>2, Zenon DEF OnceEach
  <2>. QED
    BY <1>1, <2>1
<1>5. 1 \in DOMAIN q
  BY <1>1
<1>6. Reqs(Tail(q)) = Reqs(q) \ {Head(q).req}
  <2>1. ASSUME NEW r \in Reqs(Tail(q)) PROVE r \in Reqs(q) /\ r # Head(q).req
    <3>1. PICK i \in 1 .. Len(q) - 1 : r = q[i + 1].req
      BY <1>1 DEF Reqs
    <3>2. i + 1 \in DOMAIN q /\ i + 1 # 1
      BY <1>1, <1>2, Zenon
    <3>. QED
      BY <1>1, <1>5, <3>1, <3>2, Zenon DEF Reqs, OnceEach
  <2>2. ASSUME NEW r \in Reqs(q), r # Head(q).req PROVE r \in Reqs(Tail(q))
    <3>1. PICK i \in 1 .. Len(q) : r = q[i].req
      BY <1>1, Zenon DEF Reqs
    <3>2. i - 1 \in DOMAIN Tail(q) /\ Tail(q)[i - 1] = q[i]
      BY <1>1, <1>3, <2>2, <3>1, Zenon
    <3>. QED
      BY <3>1, <3>2, Zenon DEF Reqs
  <2>. QED
    BY <2>1, <2>2, Zenon
<1>7. Head(q).req \in Reqs(q)
  BY <1>1, <1>5, Zenon DEF Reqs
<1>. QED
  BY <1>1, <1>4, <1>6, <1>7, Zenon

\* The types of queues and workers.
Queues == [stop : BOOLEAN, running : BOOLEAN, jobs : Seq(Jobs)]
Workers == [pc : {"wait", "done", "settle", "exited"}, job : Jobs, result : Results,
            connected : BOOLEAN, active : Tokens]

\* What a slot has, and that who holds a request has not answered it.
LEMMA SlotFacts ==
  ASSUME JobsInv
  PROVE  /\ queue \in [Slots -> Queues] /\ worker \in [Slots -> Workers]
         /\ \A s \in Slots : /\ queue[s] \in Queues /\ queue[s].jobs \in Seq(Jobs)
                             /\ OnceEach(queue[s].jobs)
                             /\ worker[s] \in Workers /\ worker[s].job \in Jobs
         /\ \A p \in Places : \A r \in Holds[p] : r \in Requests /\ answers[r] = << >>
         /\ \A p, q \in Places : p # q => Holds[p] \cap Holds[q] = {}
         /\ \A s \in Slots : worker[s].pc = "exited" => queue[s].jobs = << >> /\ ~ queue[s].running
         /\ NoJob \in Jobs
<1>1. queue \in [Slots -> Queues] /\ worker \in [Slots -> Workers]
  BY Zenon DEF JobsInv, JobTypes, Queues, Workers
<1>2. \A s \in Slots : /\ queue[s] \in Queues /\ queue[s].jobs \in Seq(Jobs)
                       /\ worker[s] \in Workers /\ worker[s].job \in Jobs
  BY <1>1, Zenon DEF Queues, Workers
<1>3. \A s \in Slots : OnceEach(queue[s].jobs)
  BY Zenon DEF JobsInv
<1>4. \A p \in Places : \A r \in Holds[p] : r \in Requests /\ answers[r] = << >>
  BY AskedRange, Zenon DEF JobsInv, Accounted
<1>5. \A p, q \in Places : p # q => Holds[p] \cap Holds[q] = {}
  BY Zenon DEF JobsInv, Accounted
<1>6. NoJob \in Jobs
  BY Zenon DEF NoJob, Jobs, Tokens
<1>7. \A s \in Slots : worker[s].pc = "exited" => queue[s].jobs = << >> /\ ~ queue[s].running
  BY Zenon DEF JobsInv, Finished
<1>. QED
  BY <1>1, <1>2, <1>3, <1>4, <1>5, <1>6, <1>7, Zenon

\* The jobs of the queue of slot s are replaced.
LEMMA QueueReplaced ==
  ASSUME queue \in [Slots -> Queues], NEW s \in Slots, NEW js \in Seq(Jobs),
         queue' = [queue EXCEPT ![s] = [@ EXCEPT !.jobs = js]]
  PROVE  /\ queue' \in [Slots -> Queues]
         /\ queue'[s].jobs = js /\ queue'[s].running = queue[s].running
         /\ \A t \in Slots \ {s} : queue'[t] = queue[t]
<1>1. queue[s] \in Queues
  BY Zenon
<1>2. [queue[s] EXCEPT !.jobs = js] \in Queues
  BY <1>1, Zenon DEF Queues
<1>3. queue'[s] = [queue[s] EXCEPT !.jobs = js]
  BY Zenon
<1>4. queue'[s].jobs = js /\ queue'[s].running = queue[s].running
  BY <1>1, <1>3, Zenon DEF Queues
<1>. QED
  BY <1>2, <1>4, Zenon

\* The jobs of a queue are all failed.
LEMMA QueueFailed ==
  ASSUME queue \in [Slots -> Queues], NEW s \in Slots,
         queue' = [queue EXCEPT ![s] = FailedAll(@)]
  PROVE  /\ queue' \in [Slots -> Queues]
         /\ queue'[s].jobs = << >> /\ ~ queue'[s].running
         /\ \A t \in Slots \ {s} : queue'[t] = queue[t]
<1>1. [stop |-> TRUE, running |-> FALSE, jobs |-> << >>] \in Queues
  BY DEF Queues
<1>. QED
  BY <1>1, Zenon DEF FailedAll

\* A job is appended to the queue or answered with an error.
LEMMA EnqueueJobs ==
  ASSUME JobsInv, Enqueue
  PROVE  JobsInv'
<1>. DEFINE s == actor.slot
            j == actor.job
<1>1. /\ actor.pc = "enqueue" /\ actor' = Idle /\ UNCHANGED <<worker, asked>>
  BY Zenon DEF Enqueue
<1>2. s \in Slots /\ j \in Jobs
  BY <1>1, Zenon DEF JobsInv, JobTypes
<1>3. Holds[0] = {j.req} /\ Holds'[0] = {}
  BY <1>1, HoldsWhat, HoldsNext, Zenon DEF AtActor, Idle
<1>4. Idle \in [pc : {"ready", "enqueue", "stop", "join", "down"}, slot : 0 .. NSlots, job : Jobs]
  BY SlotFacts, BoundsAssumption DEF Idle
<1>5. 0 \in Places /\ s \in Places /\ s # 0
  BY <1>2, PlacesOfSlots, Zenon
<1>6. CASE Stopped(queue[s])
  <2>1. Deliver(<<j>>, "connection_unavailable") /\ UNCHANGED queue
    BY <1>6, Zenon DEF Enqueue, FailJobs
  <2>. HIDE DEF j, s
  <2>2. /\ answers' \in [Requests -> Seq(Verdicts)]
        /\ \A r \in Requests : r # j.req => answers'[r] = answers[r]
        /\ \A r \in Requests : r = j.req => answers'[r] # << >> /\ Len(answers'[r]) <= 1
    BY <1>2, <1>3, <1>5, <2>1, DeliverOne, SlotFacts, Zenon DEF JobsInv
  <2>3. \A p \in Places \ {0} : Holds'[p] = Holds[p]
    BY <1>1, <2>1, Zenon DEF Holds, InHand, Reqs
  <2>4. Accounted(Holds', Len(asked'), answers')
    <3>1. Holds[0] \ Holds'[0] = {j.req} /\ Holds'[0] \subseteq Holds[0]
      BY <1>3, Zenon
    <3>2. /\ \A r \in Requests : r \notin Holds[0] \ Holds'[0] => answers'[r] = answers[r]
          /\ \A r \in Holds[0] \ Holds'[0] : answers'[r] # << >> /\ Len(answers'[r]) <= 1
      BY <1>3, <1>5, <2>2, SlotFacts, Zenon
    <3>3. Accounted(Holds', Len(asked), answers')
      BY <1>5, <2>3, <3>1, <3>2, AnswerAccount, Zenon
    <3>. QED
      BY <1>1, <3>3, Zenon
  <2>5. JobTypes'
    BY <1>1, <1>4, <2>1, <2>2, Zenon DEF JobsInv, JobTypes, Verdicts, Idle
  <2>. QED
    BY <1>1, <2>1, <2>4, <2>5, JobsNext, Zenon DEF JobsInv, Finished
<1>7. CASE ~ Stopped(queue[s])
  <2>1. UNCHANGED answers /\ queue' = [queue EXCEPT ![s] = [@ EXCEPT !.jobs = Append(queue[s].jobs, j)]]
    BY <1>7, Zenon DEF Enqueue, Push
  <2>. HIDE DEF j, s
  <2>2. queue[s].jobs \in Seq(Jobs) /\ OnceEach(queue[s].jobs) /\ j.req \notin Reqs(queue[s].jobs)
    BY <1>2, <1>3, <1>5, SlotFacts, HoldsWhat
  <2>3. /\ Append(queue[s].jobs, j) \in Seq(Jobs) /\ OnceEach(Append(queue[s].jobs, j))
        /\ Reqs(Append(queue[s].jobs, j)) = Reqs(queue[s].jobs) \cup {j.req}
    BY <1>2, <2>2, AppendReqs, Zenon
  <2>4. /\ queue' \in [Slots -> Queues]
        /\ queue'[s].jobs = Append(queue[s].jobs, j) /\ queue'[s].running = queue[s].running
        /\ \A t \in Slots \ {s} : queue'[t] = queue[t]
    BY <1>2, <2>1, <2>3, QueueReplaced, SlotFacts, Zenon
  <2>5. Holds'[s] = Holds[s] \cup {j.req}
    BY <1>2, <2>3, <2>4, HoldsWhat, HoldsNext, Zenon
  <2>6. \A p \in Places \ {0, s} : Holds'[p] = Holds[p]
    BY <1>1, <2>4, OtherPlaces, Zenon
  <2>7. Accounted(Holds', Len(asked'), answers')
    <3>1. Accounted(Holds', Len(asked), answers)
      BY <1>3, <1>5, <2>5, <2>6, MoveAccount, ZenonT(30)
    <3>. QED
      BY <1>1, <2>1, <3>1, Zenon
  <2>8. JobTypes'
    BY <1>1, <1>4, <2>1, <2>4, Zenon DEF JobsInv, JobTypes, Queues, Idle
  <2>9. worker[s].pc # "exited"
    BY <1>2, <1>7, Zenon DEF JobsInv, Finished, Stopped, s
  <2>10. \A t \in Slots : OnceEach(queue'[t].jobs)
    BY <2>3, <2>4, SlotFacts, Zenon
  <2>11. \A t \in Slots : worker'[t].pc = "exited" => queue'[t].jobs = << >> /\ ~ queue'[t].running
    BY <1>1, <2>4, <2>9, Zenon DEF JobsInv, Finished
  <2>. QED
    BY <2>7, <2>8, <2>10, <2>11, JobsNext, Zenon
<1>. QED
  BY <1>6, <1>7, Zenon

\* A worker that has run a job has taken it from its queue.
LEMMA RanJobs ==
  ASSUME JobsInv, NEW s \in Slots, CanRun(s), NEW res \in Results,
         NEW conn \in BOOLEAN, NEW tx \in Tokens, Ran(s, res, conn, tx)
  PROVE  JobsInv'
<1>. DEFINE q == queue[s].jobs
            w == [pc |-> "done", job |-> Taken(s), result |-> res,
                  connected |-> conn, active |-> tx]
<1>1. /\ worker' = [worker EXCEPT ![s] = w]
      /\ queue' = [queue EXCEPT ![s] = [@ EXCEPT !.jobs = Tail(queue[s].jobs)]]
      /\ UNCHANGED <<actor, asked, answers>>
  BY Zenon DEF Ran, Popped
<1>2. q \in Seq(Jobs) /\ OnceEach(q) /\ q # << >> /\ worker[s].pc = "wait"
  BY SlotFacts, Zenon DEF CanRun, CanPop
<1>3. /\ Taken(s) \in Jobs /\ Taken(s).req \in Reqs(q)
      /\ Tail(q) \in Seq(Jobs) /\ OnceEach(Tail(q))
      /\ Reqs(Tail(q)) = Reqs(q) \ {Taken(s).req}
  BY <1>2, TailReqs, Zenon DEF Taken
<1>4. /\ queue' \in [Slots -> Queues]
      /\ queue'[s].jobs = Tail(q) /\ queue'[s].running = queue[s].running
      /\ \A t \in Slots \ {s} : queue'[t] = queue[t]
  BY <1>1, <1>3, QueueReplaced, SlotFacts, Zenon
<1>5. w \in Workers
  BY <1>3, Zenon DEF Workers
<1>6. /\ worker' \in [Slots -> Workers] /\ worker'[s] = w
      /\ \A t \in Slots \ {s} : worker'[t] = worker[t]
  BY <1>1, <1>5, SlotFacts, Zenon
<1>7. InHand(s) = {} /\ InHand(s)' = {Taken(s).req}
  BY <1>2, <1>6 DEF InHand
<1>. HIDE DEF q, w
<1>8. /\ Holds[s] = Reqs(q) /\ Holds'[s] = Holds[s] \ {Taken(s).req}
      /\ Holds'[-s] = Holds[-s] \cup {Taken(s).req}
  BY <1>3, <1>4, <1>7, HoldsWhat, HoldsNext DEF q
<1>9. \A p \in Places \ {s, -s} : Holds'[p] = Holds[p]
  <2>1. AtActor' = AtActor
    BY <1>1, Zenon DEF AtActor
  <2>2. \A p \in Places : p # -s => -p # s
    BY DEF Places, Slots
  <2>. QED
    BY <1>4, <1>6, <2>1, <2>2, OtherPlaces, Zenon
<1>10. Accounted(Holds', Len(asked'), answers')
  <2>1. s \in Places /\ -s \in Places /\ s # -s /\ Taken(s).req \in Holds[s]
    BY <1>3, <1>8, PlacesOfSlots, Zenon
  <2>2. Accounted(Holds', Len(asked), answers)
    BY <1>8, <1>9, <2>1, MoveAccount, Zenon
  <2>. QED
    BY <1>1, <2>2, Zenon
<1>11. JobTypes'
  BY <1>1, <1>4, <1>6, Zenon DEF JobsInv, JobTypes, Queues, Workers
<1>12. \A t \in Slots : OnceEach(queue'[t].jobs)
  BY <1>3, <1>4, SlotFacts, Zenon
<1>13. \A t \in Slots : worker'[t].pc = "exited" => queue'[t].jobs = << >> /\ ~ queue'[t].running
  BY <1>4, <1>6, SMTT(30) DEF JobsInv, Finished, w
<1>. QED
  BY <1>10, <1>11, <1>12, <1>13, JobsNext, Zenon

\* The types of what the workers report.
LEMMA WorkJobs ==
  ASSUME JobsInv, NEW s \in Slots, ProcessRejects(s) \/ Process(s) \/ SqliteExecute(s)
  PROVE  JobsInv'
<1>1. /\ worker[s].connected \in BOOLEAN /\ worker[s].active \in Tokens /\ NoTx \in Tokens
      /\ CanRun(s)
  BY SlotFacts, Zenon DEF Workers, Tokens, ProcessRejects, Process, SqliteExecute
<1>2. Taken(s).tx \in Tokens
  <2>1. queue[s].jobs \in Seq(Jobs) /\ queue[s].jobs # << >>
    BY <1>1, SlotFacts, Zenon DEF CanRun, CanPop
  <2>2. Head(queue[s].jobs) \in Jobs
    BY <2>1
  <2>. QED
    BY <2>2, Zenon DEF Taken, Jobs
<1>3. {"ok", "none", "sql_error", "connection_unavailable", "connection_lost",
       "transaction_lost", "outcome_unknown"} \subseteq Results
  BY Zenon DEF Results, ConnectionErrors
<1>4. CASE ProcessRejects(s)
  <2>1. \E res \in Results : \E conn \in BOOLEAN : Ran(s, res, conn, worker[s].active)
    BY <1>1, <1>3, <1>4, Zenon DEF ProcessRejects
  <2>. QED
    BY <1>1, <2>1, RanJobs, Zenon
<1>5. CASE Process(s)
  <2>1. \E res \in Results : \E conn \in BOOLEAN : \E tx \in Tokens : Ran(s, res, conn, tx)
    <3>. DEFINE j == Taken(s)
                t == CASE j.op = "Begin" -> j.tx
                       [] j.op \in {"Commit", "Rollback"} -> NoTx
                       [] OTHER -> worker[s].active
                u == IF j.op = "Commit" \/ (j.tx = NoTx /\ j.op = "Exec")
                       THEN "outcome_unknown" ELSE "connection_lost"
    <3>1. t \in Tokens /\ u \in Results
      BY <1>1, <1>2, <1>3, Zenon
    <3>2. \/ Ran(s, "ok", TRUE, t)
          \/ Ran(s, "sql_error", FALSE, NoTx)
          \/ Ran(s, "sql_error", TRUE, worker[s].active)
          \/ Ran(s, u, FALSE, NoTx)
      BY <1>5, Zenon DEF Process
    <3>. HIDE DEF t, u
    <3>. QED
      BY <1>1, <1>3, <3>1, <3>2, Zenon
  <2>. QED
    BY <1>1, <2>1, RanJobs, Zenon
<1>6. CASE SqliteExecute(s)
  <2>1. \E res \in Results : Ran(s, res, TRUE, NoTx)
    BY <1>3, <1>6, Zenon DEF SqliteExecute
  <2>. QED
    BY <1>1, <2>1, RanJobs, Zenon
<1>. QED
  BY <1>4, <1>5, <1>6, Zenon

\* The promise of the worker's job is delivered.
LEMMA SettleJobs ==
  ASSUME JobsInv, NEW s \in Slots, worker[s].pc \in {"done", "settle"}, Settle(s),
         UNCHANGED <<actor, asked>>
  PROVE  JobsInv'
<1>. DEFINE j == worker[s].job
<1>1. /\ Deliver(<<j>>, worker[s].result) /\ UNCHANGED queue
      /\ worker' = [worker EXCEPT ![s].pc = "wait", ![s].job = NoJob, ![s].result = "ok"]
  BY Zenon DEF Settle
<1>2. j \in Jobs /\ worker[s] \in Workers /\ worker \in [Slots -> Workers] /\ NoJob \in Jobs
  BY SlotFacts, Zenon
<1>3. /\ worker'[s] = [worker[s] EXCEPT !.pc = "wait", !.job = NoJob, !.result = "ok"]
      /\ DOMAIN worker' = Slots /\ \A t \in Slots \ {s} : worker'[t] = worker[t]
      /\ worker' = [t \in Slots |-> worker'[t]]
  BY <1>1, <1>2, Zenon
<1>4. worker'[s] \in Workers /\ worker'[s].pc = "wait"
  BY <1>2, <1>3, Zenon DEF Workers, Results
<1>5. worker' \in [Slots -> Workers]
  BY <1>2, <1>3, <1>4
<1>6. InHand(s) = {j.req} /\ InHand(s)' = {}
  BY <1>4, Zenon DEF InHand
<1>. HIDE DEF j
<1>7. Holds[-s] = {j.req} /\ Holds'[-s] = {} /\ -s \in Places
  BY <1>6, HoldsWhat, HoldsNext, PlacesOfSlots, Zenon
<1>8. \A p \in Places \ {-s} : Holds'[p] = Holds[p]
  <2>1. AtActor' = AtActor
    BY Zenon DEF AtActor
  <2>2. \A p \in Places : p # -s => -p # s
    BY DEF Places, Slots
  <2>. QED
    BY <1>1, <1>3, <2>1, <2>2, OtherPlaces
<1>9. /\ answers' \in [Requests -> Seq(Verdicts)]
      /\ \A r \in Requests : r # j.req => answers'[r] = answers[r]
      /\ \A r \in Requests : r = j.req => answers'[r] # << >> /\ Len(answers'[r]) <= 1
  BY <1>1, <1>2, <1>7, DeliverOne, SlotFacts, Zenon DEF JobsInv, j
<1>10. Accounted(Holds', Len(asked'), answers')
  <2>2. Holds[-s] \ Holds'[-s] = {j.req} /\ Holds'[-s] \subseteq Holds[-s]
    BY <1>7, Zenon
  <2>3. /\ \A r \in Requests : r \notin Holds[-s] \ Holds'[-s] => answers'[r] = answers[r]
        /\ \A r \in Holds[-s] \ Holds'[-s] : answers'[r] # << >> /\ Len(answers'[r]) <= 1
    BY <1>7, <1>9, SlotFacts, Zenon
  <2>4. Accounted(Holds', Len(asked), answers')
    BY <1>7, <1>8, <2>2, <2>3, AnswerAccount, Zenon
  <2>. QED
    BY <2>4, Zenon
<1>11. JobTypes'
  BY <1>1, <1>5, <1>9, Zenon DEF JobsInv, JobTypes, Workers, Verdicts
<1>12. \A t \in Slots : worker'[t].pc = "exited" => queue'[t].jobs = << >> /\ ~ queue'[t].running
  BY <1>1, <1>3, <1>4 DEF JobsInv, Finished
<1>. QED
  BY <1>1, <1>10, <1>11, <1>12, JobsNext, Zenon DEF JobsInv

\* The rollback that cleans up after a COMMIT takes over its request.
LEMMA CleanUpJobs ==
  ASSUME JobsInv, NEW s \in Slots, worker[s].pc = "done", CleanUp(s), UNCHANGED <<actor, asked>>
  PROVE  JobsInv'
<1>. DEFINE w == worker[s]
            j == [Job("Rollback", w.job.tx, w.job.req) EXCEPT !.original = w.result]
            r == w.job.req
<1>1. w \in Workers /\ w.job \in Jobs /\ worker \in [Slots -> Workers] /\ NoJob \in Jobs
  BY SlotFacts, Zenon
<1>2. j \in Jobs /\ j.req = r
  BY <1>1, Zenon DEF Job, Jobs, Workers, Operations
<1>3. Holds[-s] = {r} /\ -s \in Places /\ s \in Places /\ -s # s
  BY HoldsWhat, PlacesOfSlots, Zenon DEF InHand
<1>4. AtActor' = AtActor /\ \A p \in Places : p # -s => -p # s
  BY DEF AtActor, Places, Slots
<1>5. CASE Stopped(queue[s])
  <2>1. /\ worker' = [worker EXCEPT ![s].job = j, ![s].result = "connection_unavailable"]
        /\ UNCHANGED <<queue, answers>>
    BY <1>5, Zenon DEF CleanUp
  <2>. HIDE DEF j
  <2>2. /\ worker'[s] = [worker[s] EXCEPT !.job = j, !.result = "connection_unavailable"]
        /\ \A t \in Slots \ {s} : worker'[t] = worker[t]
        /\ DOMAIN worker' = Slots /\ worker' = [t \in Slots |-> worker'[t]]
    BY <1>1, <2>1, Zenon
  <2>3. worker'[s] \in Workers /\ worker'[s].pc = "done" /\ worker'[s].job = j
    BY <1>1, <1>2, <2>2, Zenon DEF Workers, Results, ConnectionErrors
  <2>4. worker' \in [Slots -> Workers]
    BY <1>1, <2>2, <2>3, Zenon
  <2>5. Holds'[-s] = Holds[-s]
    BY <1>2, <1>3, <2>3, HoldsNext, Zenon DEF InHand
  <2>6. \A p \in Places : Holds'[p] = Holds[p]
    BY <1>4, <2>1, <2>2, <2>5, OtherPlaces
  <2>7. Accounted(Holds', Len(asked'), answers')
    BY <2>1, <2>6, SameAccount, Zenon DEF JobsInv
  <2>8. JobTypes'
    BY <2>1, <2>4, Zenon DEF JobsInv, JobTypes, Workers
  <2>9. \A t \in Slots : worker'[t].pc = "exited" => queue'[t].jobs = << >> /\ ~ queue'[t].running
    BY <2>1, <2>2, <2>3, Zenon DEF JobsInv, Finished
  <2>. QED
    BY <2>1, <2>7, <2>8, <2>9, JobsNext, Zenon DEF JobsInv
<1>6. CASE ~ Stopped(queue[s])
  <2>. DEFINE q == queue[s].jobs
  <2>1. /\ worker' = [worker EXCEPT ![s].pc = "wait", ![s].job = NoJob, ![s].result = "ok"]
        /\ queue' = [queue EXCEPT ![s] = [@ EXCEPT !.jobs = Append(queue[s].jobs, j)]]
        /\ UNCHANGED answers
    BY <1>6, Zenon DEF CleanUp, Push
  <2>. HIDE DEF j, r
  <2>2. /\ worker'[s] = [worker[s] EXCEPT !.pc = "wait", !.job = NoJob, !.result = "ok"]
        /\ \A t \in Slots \ {s} : worker'[t] = worker[t]
        /\ DOMAIN worker' = Slots /\ worker' = [t \in Slots |-> worker'[t]]
    BY <1>1, <2>1, Zenon
  <2>3. worker'[s] \in Workers /\ worker'[s].pc = "wait"
    BY <1>1, <2>2, Zenon DEF Workers, Results
  <2>4. worker' \in [Slots -> Workers]
    BY <1>1, <2>2, <2>3
  <2>5. q \in Seq(Jobs) /\ OnceEach(q) /\ j.req \notin Reqs(q)
    BY <1>2, <1>3, SlotFacts, HoldsWhat
  <2>6. /\ Append(q, j) \in Seq(Jobs) /\ OnceEach(Append(q, j))
        /\ Reqs(Append(q, j)) = Reqs(q) \cup {r}
    BY <1>2, <2>5, AppendReqs, Zenon
  <2>7. /\ queue' \in [Slots -> Queues]
        /\ queue'[s].jobs = Append(q, j) /\ queue'[s].running = queue[s].running
        /\ \A t \in Slots \ {s} : queue'[t] = queue[t]
    BY <2>1, <2>6, QueueReplaced, SlotFacts, Zenon
  <2>8. Holds'[-s] = Holds[-s] \ {r}
    BY <1>3, <2>3, HoldsNext, Zenon DEF InHand
  <2>9. Holds'[s] = Holds[s] \cup {r}
    BY <2>6, <2>7, HoldsWhat, HoldsNext, Zenon
  <2>10. \A p \in Places \ {-s, s} : Holds'[p] = Holds[p]
    BY <1>4, <2>2, <2>7, OtherPlaces
  <2>11. Accounted(Holds', Len(asked'), answers')
    <3>1. Accounted(Holds', Len(asked), answers)
      BY <1>3, <2>8, <2>9, <2>10, MoveAccount
    <3>. QED
      BY <2>1, <3>1, Zenon
  <2>12. JobTypes'
    BY <2>1, <2>4, <2>7, Zenon DEF JobsInv, JobTypes, Workers, Queues
  <2>13. \A t \in Slots : worker'[t].pc = "exited" => queue'[t].jobs = << >> /\ ~ queue'[t].running
    <3>1. worker'[s].pc # "exited"
      BY <2>3, Zenon
    <3>2. \A t \in Slots \ {s} : worker'[t] = worker[t] /\ queue'[t] = queue[t]
      BY <2>2, <2>7, Zenon
    <3>3. \A t \in Slots : worker[t].pc = "exited" => queue[t].jobs = << >> /\ ~ queue[t].running
      BY SlotFacts, Zenon
    <3>. QED
      BY <3>1, <3>2, <3>3, Zenon
  <2>14. \A t \in Slots : OnceEach(queue'[t].jobs)
    BY <2>6, <2>7, SlotFacts, Zenon
  <2>. QED
    BY <2>11, <2>12, <2>13, <2>14, JobsNext, Zenon
<1>. QED
  BY <1>5, <1>6, Zenon

\* fail_pending answers all requests of the queue.
LEMMA FailPendingJobs ==
  ASSUME JobsInv, NEW s \in Slots, worker[s].pc = "done", FailPending(s),
         UNCHANGED <<actor, asked>>
  PROVE  JobsInv'
<1>. DEFINE q == queue[s].jobs
<1>1. /\ Deliver(q, "connection_unavailable")
      /\ queue' = [queue EXCEPT ![s] = FailedAll(@)]
      /\ worker' = [worker EXCEPT ![s].pc = "settle"]
  BY Zenon DEF FailPending, FailJobs
<1>2. /\ q \in Seq(Jobs) /\ OnceEach(q) /\ worker[s] \in Workers /\ worker \in [Slots -> Workers]
      /\ queue \in [Slots -> Queues]
  BY SlotFacts, Zenon
<1>3. /\ queue' \in [Slots -> Queues]
      /\ queue'[s].jobs = << >> /\ ~ queue'[s].running
      /\ \A t \in Slots \ {s} : queue'[t] = queue[t]
  BY <1>1, <1>2, QueueFailed, Zenon
<1>4. /\ worker'[s] = [worker[s] EXCEPT !.pc = "settle"]
      /\ \A t \in Slots \ {s} : worker'[t] = worker[t]
      /\ DOMAIN worker' = Slots /\ worker' = [t \in Slots |-> worker'[t]]
  BY <1>1, <1>2, Zenon
<1>5. worker'[s] \in Workers /\ worker'[s].pc = "settle" /\ worker'[s].job = worker[s].job
  BY <1>2, <1>4, Zenon DEF Workers
<1>6. worker' \in [Slots -> Workers]
  BY <1>2, <1>4, <1>5
<1>7. Holds[s] = Reqs(q) /\ Holds'[s] = {} /\ s \in Places
  BY <1>3, HoldsWhat, HoldsNext, PlacesOfSlots DEF Reqs
<1>8. Holds'[-s] = Holds[-s]
  BY <1>5, HoldsWhat, HoldsNext, Zenon DEF InHand
<1>9. \A p \in Places \ {s} : Holds'[p] = Holds[p]
  <2>1. AtActor' = AtActor /\ \A p \in Places : p # -s => -p # s
    BY DEF AtActor, Places, Slots
  <2>. QED
    BY <1>3, <1>4, <1>8, <2>1, OtherPlaces
<1>10. /\ answers' \in [Requests -> Seq(Verdicts)]
       /\ \A r \in Requests : r \notin Reqs(q) => answers'[r] = answers[r]
       /\ \A r \in Requests : r \in Reqs(q) => answers'[r] # << >> /\ Len(answers'[r]) <= 1
  <2>. HIDE DEF q
  <2>. QED
    BY <1>1, <1>2, <1>7, DeliverOnce, SlotFacts DEF JobsInv
<1>11. Accounted(Holds', Len(asked'), answers')
  <2>1. /\ \A r \in Requests : r \notin Holds[s] \ Holds'[s] => answers'[r] = answers[r]
        /\ \A r \in Holds[s] \ Holds'[s] : answers'[r] # << >> /\ Len(answers'[r]) <= 1
        /\ Holds'[s] \subseteq Holds[s]
    BY <1>7, <1>10, SlotFacts, Zenon
  <2>2. Accounted(Holds', Len(asked), answers')
    BY <1>7, <1>9, <2>1, AnswerAccount, Zenon
  <2>. QED
    BY <2>2, Zenon
<1>12. JobTypes'
  BY <1>3, <1>6, <1>10, Zenon DEF JobsInv, JobTypes, Workers, Queues, Verdicts
<1>13. \A t \in Slots : worker'[t].pc = "exited" => queue'[t].jobs = << >> /\ ~ queue'[t].running
  BY <1>3, <1>4, <1>5 DEF JobsInv, Finished
<1>14. \A t \in Slots : OnceEach(queue'[t].jobs)
  BY <1>3, SlotFacts DEF OnceEach
<1>. QED
  BY <1>11, <1>12, <1>13, <1>14, JobsNext

\* A worker ends with an empty queue.
LEMMA ExitJobs ==
  ASSUME JobsInv, NEW s \in Slots, Exit(s)
  PROVE  JobsInv'
<1>1. /\ worker[s].pc = "wait" /\ queue[s].jobs = << >>
      /\ worker' = [worker EXCEPT ![s].pc = "exited", ![s].connected = FALSE]
      /\ queue' = [queue EXCEPT ![s] = FailedAll(@)]
      /\ UNCHANGED <<actor, asked, answers>>
  BY Zenon DEF Exit, Finished
<1>2. worker[s] \in Workers /\ worker \in [Slots -> Workers] /\ queue \in [Slots -> Queues]
  BY SlotFacts, Zenon
<1>3. /\ queue' \in [Slots -> Queues]
      /\ queue'[s].jobs = << >> /\ ~ queue'[s].running
      /\ \A t \in Slots \ {s} : queue'[t] = queue[t]
  BY <1>1, <1>2, QueueFailed, Zenon
<1>4. /\ worker'[s] = [worker[s] EXCEPT !.pc = "exited", !.connected = FALSE]
      /\ \A t \in Slots \ {s} : worker'[t] = worker[t]
      /\ DOMAIN worker' = Slots /\ worker' = [t \in Slots |-> worker'[t]]
  BY <1>1, <1>2, Zenon
<1>5. worker'[s] \in Workers /\ worker'[s].pc = "exited"
  BY <1>2, <1>4, Zenon DEF Workers
<1>6. worker' \in [Slots -> Workers]
  BY <1>2, <1>4, <1>5, Zenon
<1>7. Holds'[s] = Holds[s] /\ Holds'[-s] = Holds[-s]
  <2>1. InHand(s) = {} /\ InHand(s)' = {}
    BY <1>1, <1>5, Zenon DEF InHand
  <2>. QED
    <3>1. Reqs(queue[s].jobs) = {} /\ Reqs(queue'[s].jobs) = {}
      BY <1>1, <1>3 DEF Reqs
    <3>. QED
      BY <2>1, <3>1, HoldsWhat, HoldsNext, Zenon
<1>8. \A p \in Places : Holds'[p] = Holds[p]
  <2>1. AtActor' = AtActor /\ \A p \in Places : p # -s => -p # s
    BY <1>1 DEF AtActor, Places, Slots
  <2>. QED
    BY <1>3, <1>4, <1>7, <2>1, OtherPlaces
<1>9. Accounted(Holds', Len(asked'), answers')
  BY <1>1, <1>8, SameAccount, Zenon DEF JobsInv
<1>10. JobTypes'
  BY <1>1, <1>3, <1>6, Zenon DEF JobsInv, JobTypes, Workers, Queues
<1>11. \A t \in Slots : worker'[t].pc = "exited" => queue'[t].jobs = << >> /\ ~ queue'[t].running
  BY <1>3, <1>4, <1>5 DEF JobsInv, Finished
<1>12. \A t \in Slots : OnceEach(queue'[t].jobs)
  BY <1>3, SlotFacts DEF OnceEach
<1>. QED
  BY <1>9, <1>10, <1>11, <1>12, JobsNext, Zenon

\* Stopping the workers leaves their jobs where they are.
LEMMA StopJobs ==
  ASSUME JobsInv, StopAndJoin
  PROVE  JobsInv'
<1>1. UNCHANGED <<worker, asked, answers>>
  BY Zenon DEF StopAndJoin
<1>2. queue \in [Slots -> Queues] /\ NoJob \in Jobs /\ actor.slot \in 0 .. NSlots
      /\ 1 \in Slots /\ 0 \in 0 .. NSlots
      /\ (actor.pc \in {"stop", "join"} => actor.slot \in Slots)
  BY SlotFacts, BoundsAssumption DEF JobsInv, JobTypes, Slots
<1>3. /\ actor' \in [pc : {"ready", "enqueue", "stop", "join", "down"}, slot : 0 .. NSlots, job : Jobs]
      /\ actor'.pc \in {"enqueue", "stop", "join"} => actor'.slot \in Slots
  BY <1>2, BoundsAssumption DEF StopAndJoin, AtSlot, Slots
<1>4. actor.pc # "enqueue" /\ actor'.pc # "enqueue"
  BY DEF StopAndJoin, AtSlot
<1>5. ASSUME NEW q \in Queues
      PROVE  /\ StopRequested(q) \in Queues /\ QueueStopped(q) \in Queues
             /\ StopRequested(q).jobs = q.jobs /\ QueueStopped(q).jobs = q.jobs
             /\ (~ q.running => ~ StopRequested(q).running) /\ ~ QueueStopped(q).running
  BY Zenon DEF Queues, StopRequested, QueueStopped
<1>6. \A t \in Slots : queue[t] \in Queues
  BY <1>2, Zenon
<1>7. /\ queue' = [t \in Slots |-> queue'[t]]
      /\ \A t \in Slots : queue'[t] \in {queue[t], StopRequested(queue[t]), QueueStopped(queue[t])}
  BY <1>2, Zenon DEF StopAndJoin
<1>8. \A t \in Slots : /\ queue'[t] \in Queues /\ queue'[t].jobs = queue[t].jobs
                       /\ (~ queue[t].running => ~ queue'[t].running)
  BY <1>5, <1>6, <1>7, Zenon
<1>9. AtActor' = AtActor
  BY <1>4, Zenon DEF AtActor
<1>10. \A p \in Places : Holds'[p] = Holds[p]
  BY <1>1, <1>8, <1>9, OtherPlaces, Zenon
<1>11. Accounted(Holds', Len(asked'), answers')
  BY <1>1, <1>10, SameAccount, Zenon DEF JobsInv
<1>12. queue' \in [Slots -> Queues]
  BY <1>7, <1>8, Zenon
<1>13. JobTypes'
  BY <1>1, <1>3, <1>12, Zenon DEF JobsInv, JobTypes, Queues
<1>14. \A t \in Slots : worker'[t].pc = "exited" => queue'[t].jobs = << >> /\ ~ queue'[t].running
  BY <1>1, <1>8, Zenon DEF JobsInv, Finished
<1>15. \A t \in Slots : OnceEach(queue'[t].jobs)
  BY <1>8, SlotFacts, Zenon
<1>. QED
  BY <1>11, <1>13, <1>14, <1>15, JobsNext, Zenon

\* Every step keeps the requests accounted for.
LEMMA NextJobs == JobsInv /\ SlotInv /\ [Next]_vars => JobsInv'
<1>. SUFFICES ASSUME JobsInv, SlotInv, [Next]_vars PROVE JobsInv'
  BY Zenon
<1>1. ASSUME NEW s \in Slots, Work(s) PROVE JobsInv'
  <2>1. CASE Done(s)
    <3>1. UNCHANGED <<actor, asked>>
      BY <2>1, Zenon DEF Done
    <3>. QED
      BY <2>1, <3>1, SettleJobs, CleanUpJobs, FailPendingJobs, Zenon DEF Done
  <2>. QED
    BY <1>1, <2>1, WorkJobs, ExitJobs, Zenon DEF Work
<1>2. CASE UNCHANGED vars
  BY <1>2, JobsFrame, Zenon DEF vars
<1>. QED
  BY <1>1, <1>2, RequestJobs, EnqueueJobs, StopJobs, Zenon DEF Next

\* At first there are no requests and no jobs.
LEMMA InitJobs == Init => JobsInv
<1>. SUFFICES ASSUME Init PROVE JobsInv
  BY Zenon
<1>1. NoJob \in Jobs /\ NoTx \in Tokens /\ NewQueue \in Queues /\ "ok" \in Results
  BY DEF NoJob, Jobs, Tokens, NewQueue, Queues, Results
<1>2. asked = << >> /\ Len(asked) = 0 /\ \A r \in Requests : answers[r] = << >>
  BY Zenon DEF Init
<1>3. JobTypes
  <2>1. asked \in Seq([by : Clients, op : Operations, tx : Tokens]) /\ Len(asked) <= MaxRequests
    BY <1>2, BoundsAssumption
  <2>2. answers \in [Requests -> Seq({"ok", "failed", "unknown"})]
    BY DEF Init
  <2>3. queue \in [Slots -> Queues]
    BY <1>1, Zenon DEF Init
  <2>4. worker \in [Slots -> Workers]
    BY <1>1, Zenon DEF Init, Workers
  <2>5. actor \in [pc : {"ready", "enqueue", "stop", "join", "down"}, slot : 0 .. NSlots, job : Jobs]
        /\ actor.pc = "ready"
    BY <1>1, BoundsAssumption DEF Init, Idle
  <2>. QED
    BY <2>1, <2>2, <2>3, <2>4, <2>5, Zenon DEF JobTypes, Queues, Workers
<1>4. \A s \in Slots : queue[s].jobs = << >> /\ worker[s].pc = "wait"
  BY Zenon DEF Init, NewQueue
<1>5. \A p \in Places : Holds[p] = {}
  <2>1. AtActor = {}
    BY Zenon DEF Init, AtActor, Idle
  <2>2. \A s \in Slots : InHand(s) = {} /\ Reqs(queue[s].jobs) = {}
    BY <1>4 DEF InHand, Reqs
  <2>3. ASSUME NEW p \in Places, -p \in Slots PROVE Holds[p] = {}
    <3>1. p = -(-p)
      BY DEF Places
    <3>. QED
      BY <2>2, <2>3, <3>1, HoldsWhat, Zenon
  <2>. QED
    BY <2>1, <2>2, <2>3, HoldsWhat, Zenon
<1>6. Accounted(Holds, Len(asked), answers)
  BY <1>2, <1>5 DEF Accounted
<1>. QED
  BY <1>3, <1>4, <1>6 DEF JobsInv, OnceEach

\* In every reachable state each request that has no answer yet is with the
\* actor, in one queue or with one worker.
THEOREM JobsInvariant == Spec => []JobsInv
<1>1. Init => JobsInv /\ SlotInv
  BY InitJobs, InitSlots, Zenon
<1>2. JobsInv /\ SlotInv /\ [Next]_vars => (JobsInv /\ SlotInv)'
  BY NextJobs, NextSlots, Zenon
<1>. QED
  BY <1>1, <1>2, PTL DEF Spec

\* Every promise is delivered once (sql_service_handlers.hpp): no request
\* gets two answers, and when actor and workers have nothing left to do none
\* is without one.
THEOREM PromisesOnce == Spec => []AnsweredOnce
<1>1. JobsInv => AnsweredOnce
  <2>. SUFFICES ASSUME JobsInv PROVE AnsweredOnce
    BY Zenon
  <2>1. \A r \in Requests : Len(answers[r]) <= 1
    BY Zenon DEF JobsInv, Accounted
  <2>2. NothingForgotten
    <3>. SUFFICES ASSUME actor.pc \in {"ready", "down"},
                         \A s \in Slots : \/ worker[s].pc = "exited"
                                          \/ worker[s].pc = "wait" /\ queue[s].jobs = << >>
         PROVE  \A r \in DOMAIN asked : Answered(r)
      BY Zenon DEF NothingForgotten
    <3>1. \A s \in Slots : queue[s].jobs = << >> /\ worker[s].pc \notin {"done", "settle"}
      BY Zenon DEF JobsInv, Finished
    <3>2. AtActor = {} /\ \A s \in Slots : InHand(s) = {} /\ Reqs(queue[s].jobs) = {}
      BY <3>1 DEF AtActor, InHand, Reqs
    <3>3. ASSUME NEW p \in Places, -p \in Slots PROVE Holds[p] = {}
      <4>1. p = -(-p)
        BY DEF Places
      <4>. QED
        BY <3>2, <3>3, <4>1, HoldsWhat, Zenon
    <3>4. \A p \in Places : Holds[p] = {}
      BY <3>2, <3>3, HoldsWhat, Zenon
    <3>. QED
      BY <3>4, AskedRange, Zenon DEF JobsInv, Accounted, Answered
  <2>. QED
    BY <2>1, <2>2, Zenon DEF AnsweredOnce
<1>. QED
  BY <1>1, JobsInvariant, PTL
=============================================================================
