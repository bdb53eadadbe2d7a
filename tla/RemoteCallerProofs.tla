------------------------- MODULE RemoteCallerProofs -------------------------
(***************************************************************************)
(* Theorems about the remote caller, for any calls, keys, attempts and     *)
(* lists of candidates, and requests that fail, time out or are answered   *)
(* late in any order.                                                      *)
(***************************************************************************)
EXTENDS RemoteCaller, WellFoundedInduction, TLAPS

\* A set of naturals that is not empty has a first element.
LEMMA FirstExists ==
  ASSUME NEW T \in SUBSET Nat, T # {}
  PROVE  \E i \in T : \A j \in T : i <= j
<1>1. PICK i \in T : \A j \in T : <<j, i>> \notin OpToRel(<, Nat)
  BY NatLessThanWellFounded, WFMin, Zenon
<1>2. \A j \in T : ~ (j < i)
  BY <1>1, ZenonT(40) DEF OpToRel
<1>. QED
  BY <1>2

Kinds == {"resolve", "connect", "lookup", "call", "retry"}

\* What a handler may leave: a key state of the right type that waits for one
\* thing, or for nothing when it is idle.
Good(o) ==
  /\ o.ks \in KeyStates /\ o.cs \in SUBSET Conts /\ Chained(o.ks, o.cs)

\* The handler goes on with the call that is in flight ...
Continues(ks, o) ==
  /\ o.call = None /\ o.ks.in_flight = TRUE
  /\ o.ks.call = ks.call /\ o.ks.queue = ks.queue

\* ... or answers it, and starts the first of the queue if there is one.
Finishes(ks, o) ==
  /\ o.call = ks.call /\ o.result \in {"ok", "error"}
  /\ IF ks.queue = << >>
     THEN o.ks.in_flight = FALSE /\ o.ks.queue = << >>
     ELSE /\ o.ks.in_flight = TRUE
          /\ o.ks.call = Head(ks.queue) /\ o.ks.queue = Tail(ks.queue)

-----------------------------------------------------------------------------
(* The operators of a key.                                                 *)

\* A position in a list of n.
LEMMA Wraps ==
  ASSUME NEW a \in Int, NEW n \in Nat \ {0}
  PROVE  a % n \in 0 .. n - 1
  OBVIOUS

\* An element of a sequence.
LEMMA Element ==
  ASSUME NEW S, NEW s \in Seq(S), NEW i \in DOMAIN s
  PROVE  s[i] \in S
  OBVIOUS

\* The continuations that handlers make.
LEMMA ContType ==
  ASSUME NEW kind \in Kinds, NEW i \in Nat
  PROVE  Cont(kind, i) \in Conts /\ Cont(kind, i).kind = kind /\ Cont(kind, i).idx = i
  BY Zenon DEF Cont, Conts, Kinds

\* A handler that leaves one continuation.
LEMMA OneCont ==
  ASSUME NEW ks \in KeyStates, ks.in_flight = TRUE, NEW kind \in Kinds, NEW i \in Nat,
         kind \in {"connect", "lookup", "call"} => i \in DOMAIN ks.routes
  PROVE  Good(Outcome(ks, {Cont(kind, i)})) /\ Continues(ks, Outcome(ks, {Cont(kind, i)}))
<1>. DEFINE o == Outcome(ks, {Cont(kind, i)})
<1>1. o.ks = ks /\ o.cs = {Cont(kind, i)} /\ o.call = None
  BY Zenon DEF Outcome
<1>2. Cont(kind, i) \in Conts /\ Cont(kind, i).kind = kind /\ Cont(kind, i).idx = i
  BY ContType, Zenon
<1>3. Chained(ks, {Cont(kind, i)})
  BY <1>2, Zenon DEF Chained
<1>. QED
  BY <1>1, <1>2, <1>3, Zenon DEF Good, Continues

\* resolve asks the master.
LEMMA ResolveGood ==
  ASSUME NEW ks \in KeyStates, ks.in_flight = TRUE
  PROVE  Good(resolve(ks)) /\ Continues(ks, resolve(ks))
  BY OneCont, Zenon DEF resolve, Kinds

\* try_route uses a candidate of the list, or asks for another list.
LEMMA TryRouteGood ==
  ASSUME NEW ks \in KeyStates, ks.in_flight = TRUE
  PROVE  Good(try_route(ks)) /\ Continues(ks, try_route(ks))
<1>1. CASE Healthy(ks) = {}
  <2>. DEFINE none == [ks EXCEPT !.routes = << >>]
  <2>0. << >> \in Seq([node : Nodes, target : BOOLEAN, healthy : BOOLEAN])
    OBVIOUS
  <2>1. none \in KeyStates /\ none.in_flight = TRUE /\ none.call = ks.call
        /\ none.queue = ks.queue
    BY <2>0, Zenon DEF KeyStates
  <2>2. Good(resolve(none)) /\ Continues(none, resolve(none))
    BY <2>1, ResolveGood, Zenon
  <2>3. try_route(ks) = resolve(none)
    BY <1>1, Zenon DEF try_route
  <2>. QED
    BY <2>1, <2>2, <2>3, Zenon DEF Continues
<1>2. CASE Healthy(ks) # {}
  <2>. DEFINE t == CHOOSE x \in Healthy(ks) : \A y \in Healthy(ks) : x <= y
              idx == ((ks.cursor - 1 + t) % Len(ks.routes)) + 1
              kind == IF ks.routes[idx].target THEN "call" ELSE "connect"
              new == [ks EXCEPT !.cursor = (idx % Len(ks.routes)) + 1]
  <2>1. Healthy(ks) \subseteq 0 .. Len(ks.routes) - 1
    BY Zenon DEF Healthy
  <2>2. Len(ks.routes) \in Nat /\ DOMAIN ks.routes = 1 .. Len(ks.routes)
        /\ ks.cursor \in Nat \ {0}
    BY DEF KeyStates
  <2>3. Healthy(ks) \in SUBSET Nat
    BY <2>1, <2>2
  <2>4. t \in Healthy(ks)
    BY <1>2, <2>3, FirstExists, Zenon
  <2>5. t \in Nat /\ Len(ks.routes) \in Nat \ {0}
    BY <2>1, <2>2, <2>4
  <2>. HIDE DEF t
  <2>6. ks.cursor - 1 + t \in Nat
    BY <2>2, <2>5
  <2>7. idx \in 1 .. Len(ks.routes)
    BY <2>5, <2>6
  <2>. HIDE DEF idx
  <2>8. (idx % Len(ks.routes)) + 1 \in Nat \ {0}
    <3>1. idx \in Int
      BY <2>5, <2>7
    <3>2. idx % Len(ks.routes) \in 0 .. Len(ks.routes) - 1
      BY <2>5, <3>1, Wraps, Zenon
    <3>. QED
      BY <2>5, <3>2
  <2>9. new \in KeyStates /\ new.in_flight = TRUE /\ new.call = ks.call
        /\ new.queue = ks.queue /\ new.routes = ks.routes
    BY <2>8, Zenon DEF KeyStates
  <2>10. kind \in Kinds /\ idx \in Nat /\ idx \in DOMAIN new.routes
    BY <2>2, <2>7, <2>9 DEF Kinds
  <2>11. try_route(ks) = Outcome(new, {Cont(kind, idx)})
    BY <1>2, Zenon DEF try_route, t, idx
  <2>. HIDE DEF new, kind
  <2>12. Good(Outcome(new, {Cont(kind, idx)})) /\ Continues(new, Outcome(new, {Cont(kind, idx)}))
    BY <2>9, <2>10, OneCont, Zenon
  <2>. QED
    BY <2>9, <2>11, <2>12, Zenon DEF Continues
<1>. QED
  BY <1>1, <1>2, Zenon

\* pump.
LEMMA PumpGood ==
  ASSUME NEW ks \in KeyStates, ks.in_flight = TRUE
  PROVE  Good(pump(ks)) /\ Continues(ks, pump(ks))
  BY ResolveGood, TryRouteGood, Zenon DEF pump

\* start takes a call up.
LEMMA StartGood ==
  ASSUME NEW ks \in KeyStates, NEW c \in Calls
  PROVE  /\ Good(start(ks, c))
         /\ start(ks, c).call = None
         /\ start(ks, c).ks.in_flight = TRUE
         /\ start(ks, c).ks.call = c
         /\ start(ks, c).ks.queue = ks.queue
<1>. DEFINE new == [ks EXCEPT !.in_flight = TRUE, !.call = c, !.left = Attempts[c]]
<1>0. Attempts[c] \in Int /\ c \in Calls \cup {None}
  BY CallerAssumption
<1>1. new \in KeyStates /\ new.in_flight = TRUE /\ new.call = c /\ new.queue = ks.queue
  BY <1>0, Zenon DEF KeyStates
<1>2. start(ks, c) = pump(new)
  BY Zenon DEF start
<1>. HIDE DEF new
<1>3. Good(pump(new)) /\ Continues(new, pump(new))
  BY <1>1, PumpGood, Zenon
<1>. QED
  BY <1>1, <1>2, <1>3, Zenon DEF Continues

\* Setting the answer leaves the rest of an outcome alone.  Every outcome is a
\* record with these four fields.
IsOutcome(o) == o = [ks |-> o.ks, cs |-> o.cs, call |-> o.call, result |-> o.result]

\* Outcome makes such a record.
LEMMA Outcomes ==
  ASSUME NEW ks, NEW cs
  PROVE  IsOutcome(Outcome(ks, cs))
  BY Zenon DEF IsOutcome, Outcome

\* So does start.
LEMMA StartOutcome ==
  ASSUME NEW ks, NEW c
  PROVE  IsOutcome(start(ks, c))
<1>1. ASSUME NEW x PROVE IsOutcome(resolve(x))
  BY Outcomes, Zenon DEF resolve
<1>2. ASSUME NEW x PROVE IsOutcome(try_route(x))
  <2>1. CASE Healthy(x) = {}
    BY <1>1, <2>1, Zenon DEF try_route
  <2>2. CASE Healthy(x) # {}
    BY <2>2, Outcomes, Zenon DEF try_route
  <2>. QED
    BY <2>1, <2>2, Zenon
<1>3. ASSUME NEW x PROVE IsOutcome(pump(x))
  BY <1>1, <1>2, Zenon DEF pump
<1>. QED
  BY <1>3, Zenon DEF start

\* finish answers the call and starts the next one.
LEMMA FinishGood ==
  ASSUME NEW ks \in KeyStates, NEW r \in {"ok", "error"}
  PROVE  Good(finish(ks, r)) /\ Finishes(ks, finish(ks, r)) /\ finish(ks, r).result = r
<1>. DEFINE idle == [ks EXCEPT !.in_flight = FALSE, !.call = None]
            rest == [ks EXCEPT !.queue = Tail(@)]
            o == IF ks.queue = << >> THEN Outcome(idle, {})
                 ELSE start(rest, Head(ks.queue))
<1>1. finish(ks, r) = [o EXCEPT !.call = ks.call, !.result = r]
  BY Zenon DEF finish
<1>2. IsOutcome(o)
  BY Outcomes, StartOutcome, Zenon
<1>3. /\ finish(ks, r).ks = o.ks /\ finish(ks, r).cs = o.cs
      /\ finish(ks, r).call = ks.call /\ finish(ks, r).result = r
  <2>. HIDE DEF o
  <2>. QED
    BY <1>1, <1>2, Zenon DEF IsOutcome
<1>4. ks.queue \in Seq(Calls)
  BY Zenon DEF KeyStates
<1>5. CASE ks.queue = << >>
  <2>1. o = Outcome(idle, {})
    BY <1>5, Zenon
  <2>2. idle \in KeyStates /\ idle.in_flight = FALSE /\ idle.queue = << >>
    BY <1>5, Zenon DEF KeyStates
  <2>3. o.ks = idle /\ o.cs = {}
    <3>. HIDE DEF o, idle
    <3>. QED
      BY <2>1, Zenon DEF Outcome
  <2>4. Chained(idle, {})
    BY <2>2, Zenon DEF Chained
  <2>. QED
    BY <1>3, <1>5, <2>2, <2>3, <2>4, Zenon DEF Good, Finishes
<1>6. CASE ks.queue # << >>
  <2>1. o = start(rest, Head(ks.queue))
    BY <1>6, Zenon
  <2>2. Head(ks.queue) \in Calls /\ Tail(ks.queue) \in Seq(Calls)
    BY <1>4, <1>6
  <2>3. rest \in KeyStates /\ rest.queue = Tail(ks.queue)
    BY <2>2, Zenon DEF KeyStates
  <2>. HIDE DEF rest, o
  <2>4. Good(o) /\ o.ks.in_flight = TRUE /\ o.ks.call = Head(ks.queue)
        /\ o.ks.queue = Tail(ks.queue)
    BY <2>1, <2>2, <2>3, StartGood, Zenon
  <2>. QED
    BY <1>3, <1>6, <2>4, Zenon DEF Good, Finishes
<1>. QED
  BY <1>5, <1>6, Zenon

\* retry_or_fail waits for the next attempt or answers with the error.
LEMMA RetryGood ==
  ASSUME NEW ks \in KeyStates, ks.in_flight = TRUE
  PROVE  /\ Good(retry_or_fail(ks))
         /\ \/ Continues(ks, retry_or_fail(ks))
            \/ Finishes(ks, retry_or_fail(ks)) /\ retry_or_fail(ks).result = "error"
<1>. DEFINE less == [ks EXCEPT !.left = @ - 1]
<1>1. less \in KeyStates /\ less.in_flight = TRUE /\ less.call = ks.call
      /\ less.queue = ks.queue
  BY DEF KeyStates
<1>2. retry_or_fail(ks) = IF ks.left > 1 THEN Outcome(less, {Cont("retry", 0)})
                          ELSE finish(less, "error")
  BY Zenon DEF retry_or_fail
<1>. HIDE DEF less
<1>3. Good(Outcome(less, {Cont("retry", 0)})) /\ Continues(less, Outcome(less, {Cont("retry", 0)}))
  BY <1>1, OneCont, Zenon DEF Kinds
<1>4. Good(finish(less, "error")) /\ Finishes(less, finish(less, "error"))
      /\ finish(less, "error").result = "error"
  BY <1>1, FinishGood, Zenon
<1>. QED
  BY <1>1, <1>2, <1>3, <1>4, Zenon DEF Continues, Finishes

-----------------------------------------------------------------------------
(* The line of the calls of a key, as a fact about a key state ks, the     *)
(* calls a that have come and the results res.                             *)

SettledOf(ks, a) == Len(a) - Len(ks.queue) - (IF ks.in_flight THEN 1 ELSE 0)

Line(ks, a, res) ==
  /\ SettledOf(ks, a) \in Nat
  /\ \A i \in DOMAIN a : res[a[i]] # "none" <=> i <= SettledOf(ks, a)
  /\ ks.in_flight => ks.call = a[SettledOf(ks, a) + 1]
  /\ \A j \in DOMAIN ks.queue : ks.queue[j] = a[SettledOf(ks, a) + 1 + j]

Results == [Calls -> {"none", "ok", "error"}]
Distinct(a) == \A i, j \in DOMAIN a : a[i] = a[j] => i = j

\* The line of a key in the current and in the next state.
LEMMA InLineIs ==
  ASSUME NEW k \in Keys
  PROVE  /\ InLine(k) <=> Line(keys[k], arrived[k], result)
         /\ InLine(k)' <=> Line(keys'[k], arrived'[k], result')
  BY Zenon DEF InLine, Settled, Line, SettledOf

\* The line does not depend on the candidates or the attempts left.
LEMMA LineContinues ==
  ASSUME NEW ks, NEW new, NEW a, NEW res, Line(ks, a, res),
         new.in_flight = ks.in_flight, new.call = ks.call, new.queue = ks.queue
  PROVE  Line(new, a, res)
  BY Zenon DEF Line, SettledOf

\* The result of a call of another key.
LEMMA LineOther ==
  ASSUME NEW ks, NEW a \in Seq(Calls), NEW res \in Results, Line(ks, a, res),
         NEW c, NEW r, \A i \in DOMAIN a : a[i] # c
  PROVE  Line(ks, a, [res EXCEPT ![c] = r])
<1>1. \A i \in DOMAIN a : a[i] \in Calls
  OBVIOUS
<1>2. \A i \in DOMAIN a : [res EXCEPT ![c] = r][a[i]] = res[a[i]]
  BY <1>1, Zenon DEF Results
<1>. QED
  BY <1>2, Zenon DEF Line

\* The call in flight is the first that has no answer.
LEMMA LineFinishes ==
  ASSUME NEW ks \in KeyStates, ks.in_flight = TRUE,
         NEW a \in Seq(Calls), Distinct(a), NEW res \in Results, Line(ks, a, res),
         NEW o, Finishes(ks, o)
  PROVE  /\ \E i \in DOMAIN a : a[i] = ks.call
         /\ Line(o.ks, a, [res EXCEPT ![ks.call] = o.result])
<1>. DEFINE new == [res EXCEPT ![ks.call] = o.result]
<1>1. ks.queue \in Seq(Calls) /\ Len(ks.queue) \in Nat /\ Len(a) \in Nat
      /\ DOMAIN a = 1 .. Len(a) /\ DOMAIN ks.queue = 1 .. Len(ks.queue)
  BY DEF KeyStates
<1>a. PICK n \in Nat : n = SettledOf(ks, a)
  BY Zenon DEF Line
<1>b. PICK la \in Nat : la = Len(a)
  BY <1>1, Zenon
<1>c. PICK lq \in Nat : lq = Len(ks.queue)
  BY <1>1, Zenon
<1>2. n = la - lq - 1
  BY <1>a, <1>b, <1>c, Zenon DEF SettledOf
<1>3. n + 1 \in DOMAIN a /\ a[n + 1] = ks.call
  BY <1>1, <1>2, <1>a, <1>b, <1>c DEF Line
<1>4. \A i \in DOMAIN a : res[a[i]] # "none" <=> i <= n
  BY <1>a, Zenon DEF Line
<1>5. \A j \in DOMAIN ks.queue : ks.queue[j] = a[n + 1 + j]
  BY <1>a, Zenon DEF Line
<1>6. ks.call \in Calls /\ \A i \in DOMAIN a : a[i] \in Calls
  BY <1>3
<1>7. \A i \in DOMAIN a : new[a[i]] # "none" <=> i <= n + 1
  <2>. SUFFICES ASSUME NEW i \in DOMAIN a PROVE new[a[i]] # "none" <=> i <= n + 1
    BY Zenon
  <2>1. CASE i = n + 1
    <3>1. new[a[i]] = o.result
      BY <1>3, <1>6, <2>1, Zenon DEF Results
    <3>2. o.result # "none"
      BY Zenon DEF Finishes
    <3>. QED
      BY <1>1, <1>2, <2>1, <3>1, <3>2
  <2>2. CASE i # n + 1
    <3>1. a[i] # ks.call
      BY <1>3, <2>2, Zenon DEF Distinct
    <3>2. new[a[i]] = res[a[i]]
      BY <1>6, <3>1, Zenon DEF Results
    <3>. QED
      BY <1>1, <1>2, <1>4, <2>2, <3>2
  <2>. QED
    BY <2>1, <2>2, Zenon
<1>. HIDE DEF new
<1>8. CASE ks.queue = << >>
  <2>1. o.ks.in_flight = FALSE /\ o.ks.queue = << >>
    BY <1>8, Zenon DEF Finishes
  <2>2. SettledOf(o.ks, a) = n + 1
    <3>1. lq = 0
      BY <1>8, <1>c, Zenon
    <3>2. SettledOf(o.ks, a) = la - 0 - 0
      BY <1>b, <1>c, <1>8, <2>1, <3>1, Zenon DEF SettledOf
    <3>. QED
      BY <1>2, <3>1, <3>2
  <2>3. Line(o.ks, a, new)
    BY <1>2, <1>7, <2>1, <2>2 DEF Line
  <2>. QED
    BY <1>3, <2>3, Zenon DEF new
<1>9. CASE ks.queue # << >>
  <2>1. /\ o.ks.in_flight = TRUE
        /\ o.ks.call = Head(ks.queue) /\ o.ks.queue = Tail(ks.queue)
    BY <1>9, Zenon DEF Finishes
  <2>2. /\ Len(ks.queue) >= 1 /\ Head(ks.queue) = ks.queue[1]
        /\ Len(Tail(ks.queue)) = Len(ks.queue) - 1
        /\ DOMAIN Tail(ks.queue) = 1 .. Len(ks.queue) - 1
        /\ \A j \in DOMAIN Tail(ks.queue) : Tail(ks.queue)[j] = ks.queue[j + 1]
    BY <1>1, <1>9
  <2>3. SettledOf(o.ks, a) = n + 1
    <3>1. SettledOf(o.ks, a) = la - (lq - 1) - 1
      BY <1>b, <1>c, <2>1, <2>2, Zenon DEF SettledOf
    <3>. QED
      BY <1>2, <3>1
  <2>4. o.ks.call = a[n + 1 + 1]
    BY <1>1, <1>5, <2>1, <2>2, SMTT(30)
  <2>5. \A j \in DOMAIN o.ks.queue : o.ks.queue[j] = a[n + 1 + 1 + j]
    <3>. SUFFICES ASSUME NEW j \in DOMAIN Tail(ks.queue)
                  PROVE  Tail(ks.queue)[j] = a[n + 1 + 1 + j]
      BY <2>1, Zenon
    <3>0. j \in 1 .. lq - 1 /\ DOMAIN ks.queue = 1 .. lq
      BY <1>1, <1>c, <2>2, Zenon
    <3>a. j \in Nat
      BY <3>0
    <3>1. j + 1 \in DOMAIN ks.queue /\ n + 1 + (j + 1) = n + 1 + 1 + j
      BY <3>0, <3>a
    <3>. QED
      BY <1>5, <2>2, <3>1, Zenon
  <2>6. Line(o.ks, a, new)
    BY <1>2, <1>7, <2>3, <2>4, <2>5 DEF Line
  <2>. QED
    BY <1>3, <2>6 DEF new
<1>. QED
  BY <1>8, <1>9, Zenon

\* A call that comes to an idle key is next, and to a busy one last.
LEMMA LineGrows ==
  ASSUME NEW ks \in KeyStates, NEW a \in Seq(Calls), NEW res \in Results,
         Line(ks, a, res), NEW c \in Calls, res[c] = "none", NEW new,
         \/ /\ ks.in_flight = FALSE /\ ks.queue = << >>
            /\ new.in_flight = TRUE /\ new.call = c /\ new.queue = << >>
         \/ /\ ks.in_flight = TRUE /\ new.in_flight = TRUE
            /\ new.call = ks.call /\ new.queue = Append(ks.queue, c)
  PROVE  Line(new, Append(a, c), res)
<1>. DEFINE b == Append(a, c)
<1>1. ks.queue \in Seq(Calls) /\ Len(ks.queue) \in Nat /\ Len(a) \in Nat
      /\ DOMAIN a = 1 .. Len(a) /\ DOMAIN ks.queue = 1 .. Len(ks.queue)
  BY DEF KeyStates
<1>2. /\ Len(b) = Len(a) + 1 /\ DOMAIN b = 1 .. Len(a) + 1
      /\ b[Len(a) + 1] = c /\ \A i \in DOMAIN a : b[i] = a[i]
  OBVIOUS
<1>a. PICK n \in Nat : n = SettledOf(ks, a)
  BY Zenon DEF Line
<1>b. PICK la \in Nat : la = Len(a)
  BY <1>1, Zenon
<1>c. PICK lq \in Nat : lq = Len(ks.queue)
  BY <1>1, Zenon
<1>d. n = la - lq - (IF ks.in_flight THEN 1 ELSE 0)
  BY <1>a, <1>b, <1>c, Zenon DEF SettledOf
<1>3. n <= la
  BY <1>d
<1>. HIDE DEF b
<1>4. \A i \in DOMAIN b : res[b[i]] # "none" <=> i <= n
  <2>. SUFFICES ASSUME NEW i \in DOMAIN b PROVE res[b[i]] # "none" <=> i <= n
    BY Zenon
  <2>1. CASE i \in DOMAIN a
    BY <1>a, <1>2, <2>1, Zenon DEF Line
  <2>2. CASE i = la + 1
    BY <1>b, <1>2, <1>3, <2>2
  <2>. QED
    BY <1>1, <1>2, <1>b, <2>1, <2>2
<1>5. CASE ks.in_flight = FALSE /\ ks.queue = << >>
            /\ new.in_flight = TRUE /\ new.call = c /\ new.queue = << >>
  <2>1. lq = 0
    BY <1>c, <1>5, Zenon
  <2>2. n = la
    BY <1>d, <1>5, <2>1
  <2>3. SettledOf(new, b) = (la + 1) - 0 - 1
    BY <1>2, <1>b, <1>c, <1>5, <2>1, Zenon DEF SettledOf
  <2>4. SettledOf(new, b) = n
    BY <2>2, <2>3
  <2>5. new.call = b[n + 1]
    BY <1>2, <1>5, <1>b, <2>2, Zenon
  <2>. QED
    <3>1. \A j \in DOMAIN new.queue : FALSE
      BY <1>5
    <3>2. Line(new, b, res)
      BY <1>4, <1>5, <2>4, <2>5, <3>1, Zenon DEF Line
    <3>. QED
      BY <3>2, Zenon DEF b
<1>6. CASE /\ ks.in_flight = TRUE /\ new.in_flight = TRUE
           /\ new.call = ks.call /\ new.queue = Append(ks.queue, c)
  <2>1. /\ Len(new.queue) = Len(ks.queue) + 1
        /\ DOMAIN new.queue = 1 .. Len(ks.queue) + 1
        /\ new.queue[Len(ks.queue) + 1] = c
        /\ \A j \in DOMAIN ks.queue : new.queue[j] = ks.queue[j]
    BY <1>1, <1>6
  <2>2. n = la - lq - 1
    BY <1>6, <1>d, Zenon
  <2>3. SettledOf(new, b) = n
    <3>1. SettledOf(new, b) = (la + 1) - (lq + 1) - 1
      BY <1>2, <1>6, <1>b, <1>c, <2>1, Zenon DEF SettledOf
    <3>. QED
      BY <2>2, <3>1
  <2>4. ks.call = a[n + 1] /\ \A j \in DOMAIN ks.queue : ks.queue[j] = a[n + 1 + j]
    BY <1>6, <1>a, Zenon DEF Line
  <2>5. n + 1 \in DOMAIN a
    BY <1>1, <1>b, <2>2
  <2>6. new.call = b[n + 1]
    BY <1>2, <1>6, <2>4, <2>5, Zenon
  <2>7. ASSUME NEW j \in DOMAIN new.queue PROVE new.queue[j] = b[n + 1 + j]
    <3>1. CASE j \in DOMAIN ks.queue
      <4>1. n + 1 + j \in DOMAIN a
        BY <1>1, <1>b, <1>c, <2>2, <3>1
      <4>. QED
        BY <1>2, <2>1, <2>4, <3>1, <4>1, Zenon
    <3>2. CASE j = lq + 1
      <4>1. n + 1 + j = la + 1
        BY <2>2, <3>2
      <4>. QED
        BY <1>2, <1>b, <1>c, <2>1, <3>2, <4>1, Zenon
    <3>. QED
      BY <1>1, <1>c, <2>1, <3>1, <3>2
  <2>. QED
    BY <1>4, <1>6, <2>3, <2>6, <2>7, Zenon DEF Line, b
<1>. QED
  BY <1>5, <1>6, Zenon

-----------------------------------------------------------------------------
(* The steps.                                                              *)

\* A key that waits for c is in flight and waits for nothing else.
LEMMA Waiting ==
  ASSUME CallerInv, NEW k \in Keys, NEW c \in conts[k]
  PROVE  /\ keys[k] \in KeyStates /\ keys[k].in_flight = TRUE
         /\ conts[k] = {c} /\ c \in Conts
         /\ c.kind \in {"connect", "lookup", "call"} => c.idx \in DOMAIN keys[k].routes
<1>1. keys[k] \in KeyStates /\ conts[k] \in SUBSET Conts /\ Chained(keys[k], conts[k])
  BY Zenon DEF CallerInv
<1>2. keys[k].in_flight \in BOOLEAN
  BY <1>1, Zenon DEF KeyStates
<1>3. keys[k].in_flight = TRUE
  BY <1>1, <1>2, Zenon DEF Chained
<1>. QED
  BY <1>1, <1>3, Zenon DEF Chained

\* The lookup worker has no request of a key that does not wait for it.
LEMMA NotLookedUp ==
  ASSUME CallerInv, NEW k \in Keys, \A c \in conts[k] : c.kind # "lookup"
  PROVE  \A i \in DOMAIN lookups : lookups[i].key # k
<1>. SUFFICES ASSUME NEW i \in DOMAIN lookups, lookups[i].key = k PROVE FALSE
  BY Zenon
<1>1. conts[k] = {Cont("lookup", lookups[i].idx)}
  BY Zenon DEF CallerInv
<1>. QED
  BY <1>1 DEF Cont

\* What is left of the lookups after a step: none of key k, in the old order.
Remaining(k) ==
  /\ lookups' \in Seq([key : Keys, idx : Nat])
  /\ \A i \in DOMAIN lookups' :
       lookups'[i].key # k /\ \E j \in DOMAIN lookups : lookups'[i] = lookups[j]
  /\ \A i, j \in DOMAIN lookups' : lookups'[i].key = lookups'[j].key => i = j

\* A step that leaves the lookups alone when there is none of the key.
LEMMA NothingToWithdraw ==
  ASSUME CallerInv, NEW k \in Keys, \A c \in conts[k] : c.kind # "lookup",
         lookups' = lookups
  PROVE  Remaining(k)
<1>1. \A i \in DOMAIN lookups : lookups[i].key # k
  BY NotLookedUp, Zenon
<1>2. /\ lookups \in Seq([key : Keys, idx : Nat])
      /\ \A i, j \in DOMAIN lookups : lookups[i].key = lookups[j].key => i = j
  BY Zenon DEF CallerInv
<1>. QED
  BY <1>1, <1>2, Zenon DEF Remaining

\* A handler of a key in flight goes on with its call or answers it, with
\* "ok" only after a reply.
Works(k) ==
  /\ keys[k].in_flight = TRUE /\ arrived' = arrived /\ Remaining(k)
  /\ \E used, o :
       /\ conts[k] \subseteq used /\ Good(o) /\ Handler(k, used, o)
       /\ \/ Continues(keys[k], o)
          \/ Finishes(keys[k], o) /\ (o.result = "ok" => k \in replied)

\* What a handler of a key in flight does to the invariant.
LEMMA HandlerKeeps ==
  ASSUME CallerInv, NEW k \in Keys, keys[k].in_flight = TRUE,
         NEW used, conts[k] \subseteq used,
         NEW o, Good(o), Continues(keys[k], o) \/ Finishes(keys[k], o),
         Handler(k, used, o), arrived' = arrived, Remaining(k)
  PROVE  CallerInv'
<1>1. /\ keys \in [Keys -> KeyStates] /\ conts \in [Keys -> SUBSET Conts]
      /\ arrived \in [Keys -> Seq(Calls)] /\ result \in Results
      /\ \A x \in Keys : Chained(keys[x], conts[x])
      /\ \A i \in DOMAIN lookups :
           conts[lookups[i].key] = {Cont("lookup", lookups[i].idx)}
      /\ \A x \in Keys : \A i, j \in DOMAIN arrived[x] :
           /\ KeyOf[arrived[x][i]] = x
           /\ arrived[x][i] = arrived[x][j] => i = j
  BY Zenon DEF CallerInv, Results
<1>2. /\ o.ks \in KeyStates /\ o.cs \in SUBSET Conts /\ Chained(o.ks, o.cs)
  BY Zenon DEF Good
<1>3. keys' = [keys EXCEPT ![k] = o.ks] /\ conts' = [conts EXCEPT ![k] = o.cs]
  <2>1. (conts[k] \ used) \cup o.cs = o.cs
    BY Zenon
  <2>. QED
    BY <1>1, <2>1, Zenon DEF Handler
<1>4. result' = IF o.call = None THEN result ELSE [result EXCEPT ![o.call] = o.result]
  BY Zenon DEF Handler
<1>5. keys' \in [Keys -> KeyStates] /\ conts' \in [Keys -> SUBSET Conts]
  BY <1>1, <1>2, <1>3, Zenon
<1>6. \A x \in Keys : Chained(keys'[x], conts'[x])
  BY <1>1, <1>2, <1>3, Zenon
<1>7. /\ lookups' \in Seq([key : Keys, idx : Nat])
      /\ \A i \in DOMAIN lookups' :
           conts'[lookups'[i].key] = {Cont("lookup", lookups'[i].idx)}
      /\ \A i, j \in DOMAIN lookups' : lookups'[i].key = lookups'[j].key => i = j
  <2>1. ASSUME NEW i \in DOMAIN lookups'
        PROVE  conts'[lookups'[i].key] = {Cont("lookup", lookups'[i].idx)}
    <3>1. PICK j \in DOMAIN lookups : lookups'[i] = lookups[j]
      BY Zenon DEF Remaining
    <3>2. lookups[j].key \in Keys /\ lookups'[i].key # k
      <4>1. lookups \in Seq([key : Keys, idx : Nat])
        BY Zenon DEF CallerInv
      <4>2. lookups[j] \in [key : Keys, idx : Nat]
        BY <4>1, Element, Zenon
      <4>3. lookups'[i].key # k
        BY Zenon DEF Remaining
      <4>. QED
        BY <4>2, <4>3, Zenon
    <3>3. conts'[lookups'[i].key] = conts[lookups'[i].key]
      BY <1>1, <1>3, <3>1, <3>2, Zenon
    <3>4. conts[lookups[j].key] = {Cont("lookup", lookups[j].idx)}
      BY <1>1, Zenon
    <3>. QED
      BY <3>1, <3>3, <3>4, Zenon
  <2>. QED
    BY <2>1, Zenon DEF Remaining
<1>8. \A x \in Keys : Line(keys[x], arrived[x], result)
  BY InLineIs, Zenon DEF CallerInv
<1>9. result' \in Results /\ \A x \in Keys : Line(keys'[x], arrived[x], result')
  <2>1. CASE Continues(keys[k], o)
    <3>1. result' = result
      BY <1>4, <2>1, Zenon DEF Continues
    <3>2. Line(o.ks, arrived[k], result)
      BY <1>8, <2>1, LineContinues, Zenon DEF Continues
    <3>. QED
      BY <1>1, <1>3, <1>8, <3>1, <3>2, Zenon
  <2>2. CASE Finishes(keys[k], o)
    <3>1. Distinct(arrived[k]) /\ arrived[k] \in Seq(Calls) /\ keys[k] \in KeyStates
      BY <1>1 DEF Distinct
    <3>2. /\ \E i \in DOMAIN arrived[k] : arrived[k][i] = keys[k].call
          /\ Line(o.ks, arrived[k], [result EXCEPT ![keys[k].call] = o.result])
      BY <1>1, <1>8, <2>2, <3>1, LineFinishes, Zenon
    <3>3. keys[k].call \in Calls /\ KeyOf[keys[k].call] = k
      BY <1>1, <3>1, <3>2
    <3>4. result' = [result EXCEPT ![keys[k].call] = o.result]
      BY <1>4, <2>2, <3>3, CallerAssumption, Zenon DEF Finishes
    <3>5. ASSUME NEW x \in Keys, x # k
          PROVE  Line(keys[x], arrived[x], result')
      <4>1. \A i \in DOMAIN arrived[x] : arrived[x][i] # keys[k].call
        BY <1>1, <3>3, <3>5
      <4>2. arrived[x] \in Seq(Calls) /\ Line(keys[x], arrived[x], result)
        BY <1>1, <1>8, Zenon
      <4>. QED
        BY <1>1, <3>4, <4>1, <4>2, LineOther, Zenon
    <3>6. result' \in Results
      BY <1>1, <2>2, <3>3, <3>4, Zenon DEF Results, Finishes
    <3>. QED
      BY <1>1, <1>3, <3>2, <3>4, <3>5, <3>6, Zenon
  <2>. QED
    BY <2>1, <2>2, Zenon
<1>10. \A x \in Keys : InLine(x)'
  BY <1>9, InLineIs, Zenon
<1>. QED
  BY ONLY arrived' = arrived, <1>1, <1>5, <1>6, <1>7, <1>9, <1>10 DEF CallerInv, Results

\* So does every handler.
LEMMA WorksKeeps ==
  ASSUME CallerInv, NEW k \in Keys, Works(k)
  PROVE  CallerInv'
<1>1. PICK used, o :
        /\ conts[k] \subseteq used /\ Good(o) /\ Handler(k, used, o)
        /\ \/ Continues(keys[k], o)
           \/ Finishes(keys[k], o) /\ (o.result = "ok" => k \in replied)
  BY Zenon DEF Works
<1>. QED
  BY <1>1, HandlerKeeps, Zenon DEF Works

\* The candidates of a key do not matter for its line.
LEMMA SameLine ==
  ASSUME NEW ks, NEW new, new.call = ks.call, new.queue = ks.queue, NEW o,
         Continues(new, o)
  PROVE  Continues(ks, o)
  BY Zenon DEF Continues

\* The master's candidates are handled so.
LEMMA ResolvedWorks ==
  ASSUME CallerInv, NEW k \in Keys, Resolved(k)
  PROVE  Works(k)
<1>. DEFINE c == Cont("resolve", 0)
<1>1. keys[k] \in KeyStates /\ keys[k].in_flight = TRUE /\ conts[k] = {c}
  BY Waiting, Zenon DEF Resolved
<1>2. Remaining(k)
  <2>1. \A x \in conts[k] : x.kind # "lookup"
    BY <1>1 DEF Cont
  <2>. QED
    BY <2>1, NothingToWithdraw, Zenon DEF Resolved
<1>3. PICK r \in Routes[k] :
        Handler(k, {c}, try_route([keys[k] EXCEPT !.routes = [i \in DOMAIN r |-> Route(r[i])]]))
  BY Zenon DEF Resolved
<1>. DEFINE new == [keys[k] EXCEPT !.routes = [i \in DOMAIN r |-> Route(r[i])]]
<1>4. r \in Seq(Nodes)
  BY CallerAssumption, Zenon
<1>5. [i \in DOMAIN r |-> Route(r[i])]
        \in Seq([node : Nodes, target : BOOLEAN, healthy : BOOLEAN])
  <2>. DEFINE S == [node : Nodes, target : BOOLEAN, healthy : BOOLEAN]
              f == [i \in DOMAIN r |-> Route(r[i])]
  <2>1. Len(r) \in Nat /\ DOMAIN r = 1 .. Len(r) /\ \A i \in DOMAIN r : r[i] \in Nodes
    BY <1>4
  <2>2. f \in [1 .. Len(r) -> S]
    BY <2>1, Zenon DEF Route
  <2>. HIDE DEF S, f
  <2>3. f \in Seq(S)
    BY <2>1, <2>2
  <2>. QED
    BY <2>3, Zenon DEF S, f
<1>6. new \in KeyStates /\ new.in_flight = TRUE /\ new.call = keys[k].call
      /\ new.queue = keys[k].queue
  BY <1>1, <1>5, Zenon DEF KeyStates
<1>. HIDE DEF new
<1>7. Good(try_route(new)) /\ Continues(new, try_route(new))
  BY <1>6, TryRouteGood, Zenon
<1>8. Continues(keys[k], try_route(new))
  BY <1>6, <1>7, SameLine, Zenon
<1>9. Handler(k, {c}, try_route(new))
  BY <1>3, Zenon DEF new
<1>. QED
  BY <1>1, <1>2, <1>7, <1>8, <1>9, Zenon DEF Resolved, Works

\* So is a resolution that fails.
LEMMA ResolveFailsWorks ==
  ASSUME CallerInv, NEW k \in Keys, ResolveFails(k)
  PROVE  Works(k)
<1>. DEFINE c == Cont("resolve", 0)
<1>1. keys[k] \in KeyStates /\ keys[k].in_flight = TRUE /\ conts[k] = {c}
  BY Waiting, Zenon DEF ResolveFails
<1>2. Remaining(k)
  <2>1. \A x \in conts[k] : x.kind # "lookup"
    BY <1>1 DEF Cont
  <2>. QED
    BY <2>1, NothingToWithdraw, Zenon DEF ResolveFails
<1>3. Handler(k, {c}, retry_or_fail(keys[k])) /\ arrived' = arrived
  BY Zenon DEF ResolveFails
<1>4. /\ Good(retry_or_fail(keys[k]))
      /\ \/ Continues(keys[k], retry_or_fail(keys[k]))
         \/ /\ Finishes(keys[k], retry_or_fail(keys[k]))
            /\ retry_or_fail(keys[k]).result = "error"
  BY <1>1, RetryGood, Zenon
<1>5. retry_or_fail(keys[k]).result = "error" => retry_or_fail(keys[k]).result # "ok"
  BY Zenon
<1>. HIDE DEF c
<1>. QED
  BY <1>1, <1>2, <1>3, <1>4, <1>5, Zenon DEF Works

\* So is the timer of the next attempt.
LEMMA RetryTickWorks ==
  ASSUME CallerInv, NEW k \in Keys, RetryTick(k)
  PROVE  Works(k)
<1>. DEFINE c == Cont("retry", 0)
<1>1. keys[k] \in KeyStates /\ keys[k].in_flight = TRUE /\ conts[k] = {c}
  BY Waiting, Zenon DEF RetryTick
<1>2. Remaining(k)
  <2>1. \A x \in conts[k] : x.kind # "lookup"
    BY <1>1 DEF Cont
  <2>. QED
    BY <2>1, NothingToWithdraw, Zenon DEF RetryTick
<1>3. Handler(k, {c}, pump(keys[k])) /\ arrived' = arrived
  BY Zenon DEF RetryTick
<1>4. Good(pump(keys[k])) /\ Continues(keys[k], pump(keys[k]))
  BY <1>1, PumpGood, Zenon
<1>. HIDE DEF c
<1>. QED
  BY <1>1, <1>2, <1>3, <1>4, Zenon DEF Works

\* So is the reply of the service.
LEMMA AnsweredWorks ==
  ASSUME CallerInv, NEW k \in Keys, Answered(k)
  PROVE  Works(k)
<1>1. PICK c \in conts[k] :
        /\ c.kind = "call" /\ k \in replied /\ Handler(k, {c}, finish(keys[k], "ok"))
        /\ arrived' = arrived /\ lookups' = lookups
  BY Zenon DEF Answered
<1>2. keys[k] \in KeyStates /\ keys[k].in_flight = TRUE /\ conts[k] = {c}
  BY Waiting, Zenon
<1>3. Remaining(k)
  BY <1>1, <1>2, NothingToWithdraw, Zenon
<1>4. Good(finish(keys[k], "ok")) /\ Finishes(keys[k], finish(keys[k], "ok"))
  BY <1>2, FinishGood, Zenon
<1>. QED
  BY <1>1, <1>2, <1>3, <1>4, Zenon DEF Works

\* A lookup that is not waited for any more is gone; the others stay in order.
LEMMA Withdraws ==
  ASSUME CallerInv, NEW k \in Keys, lookups' = Withdrawn(k)
  PROVE  Remaining(k)
<1>. DEFINE S == [key : Keys, idx : Nat]
            I == {i \in DOMAIN lookups : lookups[i].key = k}
            at == CHOOSE i \in I : TRUE
<1>1. lookups \in Seq(S)
      /\ \A i, j \in DOMAIN lookups : lookups[i].key = lookups[j].key => i = j
  BY Zenon DEF CallerInv
<1>2. CASE I = {}
  <2>1. lookups' = lookups
    BY <1>2, Zenon DEF Withdrawn
  <2>. QED
    BY <1>1, <1>2, <2>1, Zenon DEF Remaining
<1>3. CASE I # {}
  <2>1. lookups' = SubSeq(lookups, 1, at - 1) \o SubSeq(lookups, at + 1, Len(lookups))
    BY <1>3, Zenon DEF Withdrawn
  <2>2. at \in DOMAIN lookups /\ lookups[at].key = k
    BY <1>3, Zenon
  <2>. HIDE DEF at, I, S
  <2>3. PICK a \in Nat : a = at
    BY <1>1, <2>2
  <2>4. PICK n \in Nat : n = Len(lookups)
    BY <1>1
  <2>5. a \in 1 .. n /\ DOMAIN lookups = 1 .. n
    BY <1>1, <2>2, <2>3, <2>4
  <2>6. /\ SubSeq(lookups, 1, a - 1) \in Seq(S) /\ Len(SubSeq(lookups, 1, a - 1)) = a - 1
        /\ \A i \in 1 .. a - 1 : SubSeq(lookups, 1, a - 1)[i] = lookups[i]
    BY <1>1, <2>4, <2>5
  <2>7. /\ SubSeq(lookups, a + 1, n) \in Seq(S) /\ Len(SubSeq(lookups, a + 1, n)) = n - a
        /\ \A i \in 1 .. n - a : SubSeq(lookups, a + 1, n)[i] = lookups[i + a]
    BY <1>1, <2>4, <2>5
  <2>8. lookups' = SubSeq(lookups, 1, a - 1) \o SubSeq(lookups, a + 1, n)
    BY <2>1, <2>3, <2>4, Zenon
  <2>9. lookups' \in Seq(S) /\ DOMAIN lookups' = 1 .. n - 1
    BY <2>5, <2>6, <2>7, <2>8
  <2>10. ASSUME NEW i \in 1 .. n - 1
         PROVE  lookups'[i] = lookups[IF i < a THEN i ELSE i + 1]
    <3>1. CASE i < a
      BY <2>5, <2>6, <2>7, <2>8, <3>1
    <3>2. CASE ~ (i < a)
      <4>1. i - (a - 1) \in 1 .. n - a /\ i - (a - 1) + a = i + 1
        BY <2>5, <3>2
      <4>2. lookups'[i] = SubSeq(lookups, a + 1, n)[i - (a - 1)]
        <5>1. i \in 1 .. (a - 1) + (n - a) /\ ~ (i <= a - 1)
          BY <2>5, <3>2
        <5>. DEFINE s == SubSeq(lookups, 1, a - 1)
                    t == SubSeq(lookups, a + 1, n)
        <5>2. s \in Seq(S) /\ t \in Seq(S) /\ Len(s) = a - 1 /\ Len(t) = n - a
          BY <2>6, <2>7, Zenon
        <5>3. lookups' = s \o t
          BY <2>8, Zenon
        <5>. HIDE DEF s, t
        <5>4. (s \o t)[i] = IF i <= Len(s) THEN s[i] ELSE t[i - Len(s)]
          BY <5>1, <5>2
        <5>5. lookups'[i] = t[i - (a - 1)]
          BY <5>1, <5>2, <5>3, <5>4, Zenon
        <5>. QED
          BY <5>5, Zenon DEF t
      <4>. QED
        BY <2>7, <3>2, <4>1, <4>2, Zenon
    <3>. QED
      BY <3>1, <3>2, Zenon
  <2>11. ASSUME NEW i \in DOMAIN lookups'
         PROVE  lookups'[i].key # k /\ \E j \in DOMAIN lookups : lookups'[i] = lookups[j]
    <3>. DEFINE j == IF i < a THEN i ELSE i + 1
    <3>1. i \in 1 .. n - 1
      BY <2>9, Zenon
    <3>2. j \in 1 .. n /\ j # a
      BY <2>5, <3>1
    <3>3. lookups'[i] = lookups[j]
      BY <2>10, <3>1, Zenon
    <3>. HIDE DEF j
    <3>. QED
      BY <1>1, <2>2, <2>3, <2>5, <3>2, <3>3, Zenon
  <2>12. ASSUME NEW i \in DOMAIN lookups', NEW j \in DOMAIN lookups',
                lookups'[i].key = lookups'[j].key
         PROVE  i = j
    <3>. DEFINE x == IF i < a THEN i ELSE i + 1
                y == IF j < a THEN j ELSE j + 1
    <3>1. i \in 1 .. n - 1 /\ j \in 1 .. n - 1
      BY <2>9, Zenon
    <3>2. x \in 1 .. n /\ y \in 1 .. n /\ (x = y => i = j)
      BY <2>5, <3>1
    <3>3. lookups'[i] = lookups[x] /\ lookups'[j] = lookups[y]
      BY <2>10, <3>1, Zenon
    <3>. HIDE DEF x, y
    <3>. QED
      BY <1>1, <2>5, <2>12, <3>2, <3>3, Zenon
  <2>. QED
    BY <2>9, <2>11, <2>12, Zenon DEF Remaining, S
<1>. QED
  BY <1>2, <1>3, Zenon

\* A candidate of a key state is marked.
Candidates == [node : Nodes, target : BOOLEAN, healthy : BOOLEAN]

\* Marking a candidate changes nothing else.
LEMMA Marked ==
  ASSUME NEW ks \in KeyStates, NEW i \in DOMAIN ks.routes, NEW e \in Candidates
  PROVE  LET new == [ks EXCEPT !.routes = [ks.routes EXCEPT ![i] = e]]
         IN  /\ new \in KeyStates /\ new.in_flight = ks.in_flight
             /\ new.call = ks.call /\ new.queue = ks.queue
             /\ DOMAIN new.routes = DOMAIN ks.routes
<1>1. ks.routes \in Seq(Candidates)
  BY Zenon DEF KeyStates, Candidates
<1>2. i \in 1 .. Len(ks.routes)
  BY <1>1
<1>. DEFINE f == [ks.routes EXCEPT ![i] = e]
<1>3. f \in Seq(Candidates) /\ DOMAIN f = DOMAIN ks.routes
  BY <1>1, <1>2
<1>. HIDE DEF f
<1>. DEFINE new == [ks EXCEPT !.routes = f]
<1>4. new \in KeyStates
  BY <1>3, Zenon DEF KeyStates, Candidates
<1>5. /\ new.in_flight = ks.in_flight /\ new.call = ks.call
      /\ new.queue = ks.queue /\ new.routes = f
  BY Zenon DEF KeyStates
<1>. QED
  BY <1>3, <1>4, <1>5, Zenon DEF f

\* A failed step on a candidate is handled so.
LEMMA StepFailsWorks ==
  ASSUME CallerInv, NEW k \in Keys, StepFails(k)
  PROVE  Works(k)
<1>1. PICK c \in conts[k] :
        /\ c.kind \in {"connect", "lookup", "call"}
        /\ Handler(k, {c}, try_route(Unhealthy(k, c)))
        /\ lookups' = Withdrawn(k) /\ arrived' = arrived
  BY Zenon DEF StepFails
<1>. DEFINE new == Unhealthy(k, c)
<1>2. keys[k] \in KeyStates /\ keys[k].in_flight = TRUE /\ conts[k] = {c}
      /\ c.idx \in DOMAIN keys[k].routes
  BY <1>1, Waiting, Zenon
<1>3. new \in KeyStates /\ new.in_flight = TRUE /\ new.call = keys[k].call
      /\ new.queue = keys[k].queue
  <2>. DEFINE e == [keys[k].routes[c.idx] EXCEPT !.healthy = FALSE]
  <2>1. keys[k].routes \in Seq(Candidates)
    BY <1>2, Zenon DEF KeyStates, Candidates
  <2>2. keys[k].routes[c.idx] \in Candidates
    BY <1>2, <2>1, Element, Zenon
  <2>3. e \in Candidates
    BY <2>2, Zenon DEF Candidates
  <2>4. new = [keys[k] EXCEPT !.routes = [keys[k].routes EXCEPT ![c.idx] = e]]
    BY Zenon DEF Unhealthy
  <2>. HIDE DEF e, new
  <2>. QED
    BY <1>2, <2>3, <2>4, Marked
<1>. HIDE DEF new
<1>4. Good(try_route(new)) /\ Continues(new, try_route(new))
  BY <1>3, TryRouteGood, Zenon
<1>5. Continues(keys[k], try_route(new))
  BY <1>3, <1>4, SameLine, Zenon
<1>6. Handler(k, {c}, try_route(new))
  BY <1>1, Zenon DEF new
<1>7. Remaining(k)
  BY <1>1, Withdraws, Zenon
<1>. QED
  BY <1>1, <1>2, <1>4, <1>5, <1>6, <1>7, Zenon DEF Works

\* So is the answer of the lookup worker.
LEMMA LookedUpWorks ==
  ASSUME CallerInv, LookedUp
  PROVE  \E k \in Keys : Works(k)
<1>. DEFINE S == [key : Keys, idx : Nat]
            k == Head(lookups).key
            idx == Head(lookups).idx
            c == Cont("lookup", idx)
            new == [keys[k] EXCEPT !.routes[idx].target = TRUE]
            o == Outcome(new, {Cont("call", idx)})
<1>1. lookups \in Seq(S) /\ lookups # << >>
      /\ \A i, j \in DOMAIN lookups : lookups[i].key = lookups[j].key => i = j
  BY Zenon DEF CallerInv, LookedUp
<1>2. Handler(k, {c}, o) /\ lookups' = Tail(lookups) /\ arrived' = arrived
  BY Zenon DEF LookedUp
<1>3. 1 \in DOMAIN lookups /\ lookups[1] = Head(lookups) /\ Head(lookups) \in S
  <2>. HIDE DEF S
  <2>1. Len(lookups) \in Nat \ {0} /\ DOMAIN lookups = 1 .. Len(lookups)
    BY <1>1
  <2>2. 1 \in DOMAIN lookups
    BY <2>1
  <2>. QED
    BY <1>1, <2>2, Element
<1>4. k \in Keys /\ idx \in Nat /\ c \in conts[k]
  BY <1>3 DEF CallerInv
<1>5. Remaining(k)
  <2>1. /\ Tail(lookups) \in Seq(S)
        /\ \A i \in DOMAIN Tail(lookups) :
             i + 1 \in DOMAIN lookups /\ Tail(lookups)[i] = lookups[i + 1] /\ i + 1 # 1
    BY <1>1
  <2>2. ASSUME NEW i \in DOMAIN Tail(lookups), NEW j \in DOMAIN Tail(lookups),
               Tail(lookups)[i].key = Tail(lookups)[j].key
        PROVE  i = j
    <3>1. i \in Int /\ j \in Int
      BY <1>1
    <3>2. i + 1 = j + 1
      BY <1>1, <2>1, <2>2
    <3>. QED
      BY <3>1, <3>2
  <2>3. \A i \in DOMAIN Tail(lookups) : Tail(lookups)[i].key # k
    BY <1>1, <1>3, <2>1, Zenon
  <2>. HIDE DEF k, S
  <2>. QED
    BY <1>2, <2>1, <2>2, <2>3, Zenon DEF Remaining, S
<1>. HIDE DEF k, idx
<1>6. c.kind = "lookup" /\ c.idx = idx
  BY Zenon DEF Cont
<1>7. keys[k] \in KeyStates /\ keys[k].in_flight = TRUE /\ conts[k] = {c}
      /\ idx \in DOMAIN keys[k].routes
  BY <1>4, <1>6, Waiting, Zenon
<1>8. new \in KeyStates /\ new.in_flight = TRUE /\ new.call = keys[k].call
      /\ new.queue = keys[k].queue /\ idx \in DOMAIN new.routes
  <2>. DEFINE e == [keys[k].routes[idx] EXCEPT !.target = TRUE]
  <2>1. keys[k].routes \in Seq(Candidates)
    BY <1>7, Zenon DEF KeyStates, Candidates
  <2>2. keys[k].routes[idx] \in Candidates
    BY <1>7, <2>1, Element, Zenon
  <2>3. e \in Candidates
    BY <2>2, Zenon DEF Candidates
  <2>4. new = [keys[k] EXCEPT !.routes = [keys[k].routes EXCEPT ![idx] = e]]
    BY Zenon
  <2>. HIDE DEF e, new
  <2>. QED
    BY <1>7, <2>3, <2>4, Marked
<1>. HIDE DEF new
<1>9. Good(o) /\ Continues(new, o)
  BY <1>4, <1>8, OneCont, Zenon DEF Kinds
<1>10. Continues(keys[k], o)
  BY <1>8, <1>9, SameLine
<1>. HIDE DEF o, c
<1>. QED
  BY <1>2, <1>4, <1>5, <1>7, <1>9, <1>10, ZenonT(40) DEF Works

\* A new connection keeps the invariant; it hands the lookup to the worker.
LEMMA ConnectedKeeps ==
  ASSUME CallerInv, NEW k \in Keys, Connected(k)
  PROVE  CallerInv'
<1>. DEFINE S == [key : Keys, idx : Nat]
<1>1. PICK c \in conts[k] :
        /\ c.kind = "connect"
        /\ conts' = [conts EXCEPT ![k] = (@ \ {c}) \cup {Cont("lookup", c.idx)}]
        /\ lookups' = Append(lookups, [key |-> k, idx |-> c.idx])
        /\ keys' = keys /\ arrived' = arrived /\ result' = result
  BY Zenon DEF Connected
<1>. DEFINE new == {Cont("lookup", c.idx)}
            e == [key |-> k, idx |-> c.idx]
<1>2. keys[k] \in KeyStates /\ keys[k].in_flight = TRUE /\ conts[k] = {c}
      /\ c.idx \in Nat /\ c.idx \in DOMAIN keys[k].routes
  BY <1>1, Waiting, Zenon DEF Conts
<1>3. /\ conts \in [Keys -> SUBSET Conts] /\ lookups \in Seq(S)
      /\ \A i \in DOMAIN lookups :
           conts[lookups[i].key] = {Cont("lookup", lookups[i].idx)}
      /\ \A i, j \in DOMAIN lookups : lookups[i].key = lookups[j].key => i = j
      /\ \A x \in Keys : Chained(keys[x], conts[x])
  BY Zenon DEF CallerInv
<1>4. conts' = [conts EXCEPT ![k] = new]
  BY <1>1, <1>2, <1>3, Zenon
<1>5. /\ Cont("lookup", c.idx) \in Conts /\ Cont("lookup", c.idx).kind = "lookup"
      /\ Cont("lookup", c.idx).idx = c.idx
  BY <1>2, ContType, Zenon DEF Kinds
<1>6. conts' \in [Keys -> SUBSET Conts]
  BY <1>3, <1>4, <1>5, Zenon
<1>7. Chained(keys[k], new)
  BY <1>2, <1>5, Zenon DEF Chained
<1>8. \A x \in Keys : Chained(keys'[x], conts'[x])
  <2>. HIDE DEF new
  <2>. SUFFICES ASSUME NEW x \in Keys PROVE Chained(keys[x], conts'[x])
    BY <1>1, Zenon
  <2>1. CASE x = k
    BY <1>3, <1>4, <1>7, <2>1, Zenon
  <2>2. CASE x # k
    <3>1. conts'[x] = conts[x]
      <4>1. conts \in [Keys -> SUBSET Conts]
        BY <1>3, Zenon
      <4>. QED
        BY <1>4, <2>2, <4>1, Zenon
    <3>2. Chained(keys[x], conts[x])
      BY Zenon DEF CallerInv
    <3>. QED
      BY <3>1, <3>2, Zenon
  <2>. QED
    BY <2>1, <2>2, Zenon
<1>9. \A i \in DOMAIN lookups : lookups[i].key # k /\ lookups[i].key \in Keys
  <2>1. \A i \in DOMAIN lookups : lookups[i].key # k
    BY <1>1, <1>2, NotLookedUp, Zenon
  <2>2. \A i \in DOMAIN lookups : lookups[i] \in S
    <3>. HIDE DEF S
    <3>. QED
      BY <1>3, Element, Zenon
  <2>. QED
    BY <2>1, <2>2, Zenon
<1>10. e \in S
  BY <1>2, Zenon
<1>11. /\ lookups' \in Seq(S) /\ DOMAIN lookups' = 1 .. Len(lookups) + 1
       /\ lookups'[Len(lookups) + 1] = e
       /\ \A i \in DOMAIN lookups : lookups'[i] = lookups[i]
       /\ DOMAIN lookups = 1 .. Len(lookups) /\ Len(lookups) \in Nat
  <2>. HIDE DEF S, e
  <2>1. lookups' = Append(lookups, e)
    BY <1>1, Zenon DEF e
  <2>. QED
    BY <1>3, <1>10, <2>1
<1>12. \A i \in DOMAIN lookups' : i \in DOMAIN lookups \/ i = Len(lookups) + 1
  BY <1>11
<1>13. e.key = k /\ e.idx = c.idx
  BY Zenon
<1>. HIDE DEF e, S
<1>14. ASSUME NEW i \in DOMAIN lookups'
       PROVE  conts'[lookups'[i].key] = {Cont("lookup", lookups'[i].idx)}
  <2>1. CASE i \in DOMAIN lookups
    <3>1. conts'[lookups[i].key] = conts[lookups[i].key]
      <4>. HIDE DEF new
      <4>. QED
        BY <1>3, <1>4, <1>9, <2>1, Zenon
    <3>2. conts[lookups[i].key] = {Cont("lookup", lookups[i].idx)}
      BY <1>3, <2>1, Zenon
    <3>. QED
      BY <1>11, <2>1, <3>1, <3>2, Zenon
  <2>2. CASE i = Len(lookups) + 1
    BY <1>3, <1>4, <1>11, <1>13, <2>2, Zenon
  <2>. QED
    BY <1>12, <2>1, <2>2, Zenon
<1>15. ASSUME NEW i \in DOMAIN lookups', NEW j \in DOMAIN lookups',
              lookups'[i].key = lookups'[j].key
       PROVE  i = j
  BY <1>3, <1>9, <1>11, <1>12, <1>13, <1>15, Zenon
<1>16. \A x \in Keys : InLine(x)'
  BY <1>1, InLineIs, Zenon DEF CallerInv
<1>. QED
  <2>0. keys' = keys /\ arrived' = arrived /\ result' = result
    BY <1>1, Zenon
  <2>1. /\ keys' \in [Keys -> KeyStates] /\ arrived' \in [Keys -> Seq(Calls)]
        /\ result' \in [Calls -> {"none", "ok", "error"}]
        /\ \A x \in Keys : \A i, j \in DOMAIN arrived'[x] :
             /\ KeyOf[arrived'[x][i]] = x
             /\ arrived'[x][i] = arrived'[x][j] => i = j
    BY <2>0 DEF CallerInv
  <2>2. lookups' \in Seq([key : Keys, idx : Nat])
    BY <1>11, Zenon DEF S
  <2>. QED
    BY <1>6, <1>8, <1>14, <1>15, <1>16, <2>1, <2>2, Zenon DEF CallerInv

\* So does a call that comes, to an idle key or a busy one.
LEMMA EnqueueKeeps ==
  ASSUME CallerInv, NEW c \in Calls, enqueue(c)
  PROVE  CallerInv'
<1>. DEFINE k == KeyOf[c]
            S == [key : Keys, idx : Nat]
<1>1. k \in Keys
  BY Zenon DEF Keys
<1>2. /\ keys \in [Keys -> KeyStates] /\ conts \in [Keys -> SUBSET Conts]
      /\ arrived \in [Keys -> Seq(Calls)] /\ result \in Results
      /\ \A x \in Keys : Chained(keys[x], conts[x])
      /\ \A x \in Keys : \A i, j \in DOMAIN arrived[x] :
           /\ KeyOf[arrived[x][i]] = x
           /\ arrived[x][i] = arrived[x][j] => i = j
  BY Zenon DEF CallerInv, Results
<1>3. /\ result[c] = "none" /\ \A i \in DOMAIN arrived[k] : arrived[k][i] # c
      /\ arrived' = [arrived EXCEPT ![k] = Append(@, c)] /\ lookups' = lookups
  BY Zenon DEF enqueue
<1>4. \A x \in Keys : Line(keys[x], arrived[x], result)
  BY InLineIs, Zenon DEF CallerInv
<1>5. keys[k] \in KeyStates /\ arrived[k] \in Seq(Calls) /\ keys[k].in_flight \in BOOLEAN
  BY <1>1, <1>2, Zenon DEF KeyStates
<1>6. arrived' \in [Keys -> Seq(Calls)] /\ arrived'[k] = Append(arrived[k], c)
      /\ \A x \in Keys : x # k => arrived'[x] = arrived[x]
  BY <1>1, <1>2, <1>3, <1>5
<1>7. ASSUME NEW x \in Keys, NEW i \in DOMAIN arrived'[x], NEW j \in DOMAIN arrived'[x]
      PROVE  /\ KeyOf[arrived'[x][i]] = x
             /\ arrived'[x][i] = arrived'[x][j] => i = j
  <2>1. CASE x # k
    BY <1>2, <1>6, <2>1
  <2>2. CASE x = k
    <3>. DEFINE a == arrived[k]
                b == Append(a, c)
    <3>1. /\ DOMAIN a = 1 .. Len(a) /\ DOMAIN b = 1 .. Len(a) + 1 /\ Len(a) \in Nat
          /\ b[Len(a) + 1] = c /\ \A n \in DOMAIN a : b[n] = a[n]
      BY <1>5
    <3>2. \A n \in DOMAIN b : n \in DOMAIN a \/ n = Len(a) + 1
      BY <3>1
    <3>3. \A n \in DOMAIN a : a[n] # c /\ KeyOf[a[n]] = k
      BY <1>1, <1>2, <1>3, Zenon
    <3>4. \A n, m \in DOMAIN a : a[n] = a[m] => n = m
      BY <1>1, <1>2
    <3>5. arrived'[x] = b
      BY <1>6, <2>2, Zenon
    <3>. HIDE DEF a, b
    <3>. QED
      BY <2>2, <3>1, <3>2, <3>3, <3>4, <3>5
  <2>. QED
    BY <2>1, <2>2, Zenon
<1>8. CASE keys[k].in_flight = TRUE
  <2>. DEFINE q == Append(keys[k].queue, c)
              new == [keys[k] EXCEPT !.queue = q]
  <2>1. /\ keys' = [keys EXCEPT ![k] = new]
        /\ conts' = conts /\ result' = result
    BY <1>1, <1>2, <1>8, Zenon DEF enqueue
  <2>2. q \in Seq(Calls)
    BY <1>5 DEF KeyStates
  <2>. HIDE DEF q
  <2>3. new \in KeyStates /\ new.in_flight = TRUE /\ new.call = keys[k].call
        /\ new.queue = q /\ new.routes = keys[k].routes
    BY <1>5, <1>8, <2>2, Zenon DEF KeyStates
  <2>. HIDE DEF new
  <2>4. Line(new, Append(arrived[k], c), result)
    BY <1>1, <1>2, <1>3, <1>4, <1>5, <1>8, <2>3, LineGrows, Zenon DEF q
  <2>5. Chained(new, conts[k])
    <3>1. Chained(keys[k], conts[k])
      BY <1>1, <1>2, Zenon
    <3>. QED
      BY <1>8, <2>3, <3>1, Zenon DEF Chained
  <2>6. keys' \in [Keys -> KeyStates] /\ \A x \in Keys : Chained(keys'[x], conts'[x])
    BY <1>1, <1>2, <2>1, <2>3, <2>5, Zenon
  <2>7. \A x \in Keys : Line(keys'[x], arrived'[x], result')
    <3>. SUFFICES ASSUME NEW x \in Keys PROVE Line(keys'[x], arrived'[x], result)
      BY <2>1, Zenon
    <3>1. CASE x = k
      BY <1>1, <1>2, <1>6, <2>1, <2>4, <3>1, Zenon
    <3>2. CASE x # k
      <4>1. keys'[x] = keys[x] /\ arrived'[x] = arrived[x]
        BY <1>2, <1>6, <2>1, <3>2, Zenon
      <4>. QED
        BY <1>4, <4>1, Zenon
    <3>. QED
      BY <3>1, <3>2, Zenon
  <2>8. \A x \in Keys : InLine(x)'
    BY <2>7, InLineIs, Zenon
  <2>9. /\ lookups \in Seq(S)
        /\ \A i \in DOMAIN lookups :
             conts[lookups[i].key] = {Cont("lookup", lookups[i].idx)}
        /\ \A i, j \in DOMAIN lookups : lookups[i].key = lookups[j].key => i = j
    BY Zenon DEF CallerInv
  <2>. QED
    BY <1>2, <1>3, <1>6, <1>7, <2>1, <2>6, <2>8, <2>9, Zenon DEF CallerInv, Results
<1>9. CASE keys[k].in_flight = FALSE
  <2>. DEFINE o == start(keys[k], c)
  <2>1. Handler(k, {}, o)
    BY <1>9, Zenon DEF enqueue
  <2>2. Good(o) /\ o.call = None /\ o.ks.in_flight = TRUE /\ o.ks.call = c
        /\ o.ks.queue = keys[k].queue
    BY <1>5, StartGood, Zenon
  <2>. HIDE DEF o
  <2>3. conts[k] = {} /\ keys[k].queue = << >>
    BY <1>1, <1>2, <1>9, Zenon DEF Chained
  <2>4. /\ keys' = [keys EXCEPT ![k] = o.ks] /\ conts' = [conts EXCEPT ![k] = o.cs]
        /\ result' = result
    <3>1. (conts[k] \ {}) \cup o.cs = o.cs
      BY <2>3, Zenon
    <3>. QED
      BY <1>1, <1>2, <2>1, <2>2, <3>1, Zenon DEF Handler
  <2>5. o.ks \in KeyStates /\ o.cs \in SUBSET Conts /\ Chained(o.ks, o.cs)
    BY <2>2, Zenon DEF Good
  <2>6. /\ keys' \in [Keys -> KeyStates] /\ conts' \in [Keys -> SUBSET Conts]
        /\ \A x \in Keys : Chained(keys'[x], conts'[x])
    BY <1>1, <1>2, <2>4, <2>5, Zenon
  <2>7. Line(o.ks, Append(arrived[k], c), result)
    BY <1>1, <1>2, <1>3, <1>4, <1>5, <1>9, <2>2, <2>3, LineGrows, ZenonT(40)
  <2>8. \A x \in Keys : Line(keys'[x], arrived'[x], result')
    BY <1>1, <1>2, <1>4, <1>6, <2>4, <2>7, Zenon
  <2>9. \A x \in Keys : InLine(x)'
    BY <2>8, InLineIs
  <2>10. Remaining(k)
    BY <1>1, <1>3, <2>3, NothingToWithdraw, Zenon
  <2>11. ASSUME NEW i \in DOMAIN lookups'
         PROVE  conts'[lookups'[i].key] = {Cont("lookup", lookups'[i].idx)}
    <3>1. lookups \in Seq(S) /\ conts[lookups[i].key] = {Cont("lookup", lookups[i].idx)}
      BY <1>3, Zenon DEF CallerInv
    <3>2. lookups[i] \in S
      <4>. HIDE DEF S
      <4>. QED
        BY <1>3, <3>1, Element, Zenon
    <3>3. lookups[i].key \in Keys /\ lookups[i].key # k
      BY <1>3, <2>10, <3>2, Zenon DEF Remaining
    <3>. QED
      BY <1>2, <1>3, <2>4, <3>1, <3>3, Zenon
  <2>. QED
    BY <1>2, <1>6, <1>7, <2>4, <2>6, <2>9, <2>10, <2>11, Zenon DEF CallerInv, Results, Remaining
<1>. QED
  BY <1>5, <1>8, <1>9, Zenon

-----------------------------------------------------------------------------
(* The mailboxes of the services.                                          *)

StartedOf(ks, a) == Len(a) - Len(ks.queue)

\* The calls that were started come first, and the one in flight is the last
\* of them.
LEMMA LineStarted ==
  ASSUME NEW ks \in KeyStates, NEW a \in Seq(Calls), NEW res, Line(ks, a, res)
  PROVE  /\ StartedOf(ks, a) \in Nat /\ StartedOf(ks, a) <= Len(a)
         /\ 1 .. StartedOf(ks, a) \subseteq DOMAIN a
         /\ ks.in_flight => /\ StartedOf(ks, a) \in DOMAIN a
                            /\ ks.call = a[StartedOf(ks, a)]
         /\ \A i \in DOMAIN a : res[a[i]] # "none" => i \in 1 .. StartedOf(ks, a)
<1>1. Len(ks.queue) \in Nat /\ Len(a) \in Nat /\ DOMAIN a = 1 .. Len(a)
      /\ ks.in_flight \in BOOLEAN
  BY DEF KeyStates
<1>2. PICK la \in Nat : la = Len(a)
  BY <1>1, Zenon
<1>3. PICK lq \in Nat : lq = Len(ks.queue)
  BY <1>1, Zenon
<1>4. PICK n \in Nat : n = SettledOf(ks, a)
  BY Zenon DEF Line
<1>5. n = la - lq - (IF ks.in_flight THEN 1 ELSE 0)
  BY <1>2, <1>3, <1>4, Zenon DEF SettledOf
<1>6. StartedOf(ks, a) = la - lq
  BY <1>2, <1>3, Zenon DEF StartedOf
<1>7. \A i \in DOMAIN a : res[a[i]] # "none" <=> i <= n
  BY <1>4, Zenon DEF Line
<1>8. ks.in_flight => ks.call = a[n + 1]
  BY <1>4, Zenon DEF Line
<1>9. la - lq \in Nat /\ n <= la - lq /\ (ks.in_flight => n + 1 = la - lq)
  BY <1>1, <1>5
<1>10. PICK s \in Nat : s = StartedOf(ks, a)
  BY <1>6, <1>9, Zenon
<1>11. s <= la /\ n <= s /\ (ks.in_flight => n + 1 = s) /\ DOMAIN a = 1 .. la
  <2>1. s = la - lq
    BY <1>6, <1>10, Zenon
  <2>2. DOMAIN a = 1 .. la
    BY <1>1, <1>2, Zenon
  <2>. QED
    BY <1>9, <2>1, <2>2
<1>12. 1 .. s \subseteq DOMAIN a /\ (ks.in_flight => s \in DOMAIN a /\ ks.call = a[s])
  BY <1>8, <1>11
<1>13. \A i \in DOMAIN a : res[a[i]] # "none" => i \in 1 .. s
  BY <1>7, <1>11
<1>. QED
  BY <1>2, <1>10, <1>11, <1>12, <1>13, Zenon

\* What a key has started, before and after a step.
LEMMA StartedIs ==
  ASSUME NEW k \in Keys
  PROVE  /\ Started(k) = StartedOf(keys[k], arrived[k])
         /\ Started(k)' = StartedOf(keys'[k], arrived'[k])
  BY Zenon DEF Started, StartedOf

\* A step on key k: the calls that came stay where they are, none is taken
\* back, and none is reported as successful without a reply.
Advances(k) ==
  /\ \A x \in Keys : x # k => keys'[x] = keys[x] /\ arrived'[x] = arrived[x]
  /\ \A i \in DOMAIN arrived[k] : i \in DOMAIN arrived'[k] /\ arrived'[k][i] = arrived[k][i]
  /\ Started(k) <= Started(k)'
  /\ \A x \in Keys : \A i \in DOMAIN arrived'[x] :
       result'[arrived'[x][i]] = "ok" =>
         /\ i \in DOMAIN arrived[x]
         /\ \/ result[arrived[x][i]] = "ok"
            \/ x = k /\ k \in replied /\ i = Started(k)

\* Key k is as busy as before, with the same call.
Stays(k) == Started(k)' = Started(k) /\ keys'[k].in_flight = keys[k].in_flight

\* What a step on key k may do to a mailbox: if it does more than leave the key
\* as it is, nobody waits any more for what the mailbox holds of k, and the call
\* in flight may be added.
Delivers(k, n) ==
  /\ inbox'[n] \in Seq(Envelopes)
  /\ \A i \in DOMAIN inbox'[n] :
       \/ /\ i \in DOMAIN inbox[n]
          /\ inbox'[n][i].key = inbox[n][i].key /\ inbox'[n][i].call = inbox[n][i].call
          /\ inbox'[n][i].live =>
               inbox[n][i].live /\ (inbox[n][i].key # k \/ Stays(k))
       \/ /\ i = Len(inbox'[n])
          /\ inbox'[n][i].key = k /\ keys'[k].in_flight
          /\ inbox'[n][i].call = keys'[k].call

\* Nobody waits any more for what a mailbox holds of k.
Deaf(q, k) ==
  [i \in DOMAIN q |-> IF q[i].key = k THEN [q[i] EXCEPT !.live = FALSE] ELSE q[i]]

\* The mailbox is otherwise as it was.
LEMMA Deafens ==
  ASSUME NEW k, NEW q \in Seq(Envelopes)
  PROVE  /\ Deaf(q, k) \in Seq(Envelopes)
         /\ Len(Deaf(q, k)) = Len(q) /\ DOMAIN Deaf(q, k) = DOMAIN q
         /\ \A i \in DOMAIN q :
              /\ Deaf(q, k)[i].key = q[i].key /\ Deaf(q, k)[i].call = q[i].call
              /\ Deaf(q, k)[i].live => q[i].live /\ q[i].key # k
<1>. DEFINE d == Deaf(q, k)
<1>1. Len(q) \in Nat /\ DOMAIN q = 1 .. Len(q)
  OBVIOUS
<1>2. ASSUME NEW i \in DOMAIN q
      PROVE  /\ d[i] \in Envelopes /\ d[i].key = q[i].key /\ d[i].call = q[i].call
             /\ d[i].live => q[i].live /\ q[i].key # k
  <2>1. q[i] \in Envelopes
    BY Element, Zenon
  <2>2. CASE q[i].key = k
    <3>1. d[i] = [q[i] EXCEPT !.live = FALSE]
      BY <2>2, Zenon DEF Deaf
    <3>. QED
      BY <2>1, <3>1, Zenon DEF Envelopes
  <2>3. CASE q[i].key # k
    <3>1. d[i] = q[i]
      BY <2>3, Zenon DEF Deaf
    <3>. QED
      BY <2>1, <2>3, <3>1, Zenon
  <2>. QED
    BY <2>2, <2>3, Zenon
<1>3. DOMAIN d = 1 .. Len(q) /\ d = [i \in 1 .. Len(q) |-> d[i]]
  BY <1>1, Zenon DEF Deaf
<1>. HIDE DEF d
<1>4. d \in [1 .. Len(q) -> Envelopes]
  BY <1>1, <1>2, <1>3, Zenon
<1>5. d \in Seq(Envelopes) /\ Len(d) = Len(q)
  BY <1>1, <1>4
<1>. QED
  BY <1>1, <1>2, <1>3, <1>5, Zenon DEF d

\* So does a handler to every mailbox.
LEMMA HandlerDelivers ==
  ASSUME CallerInv, CallerInv', RemoteInv, NEW k \in Keys, NEW used, NEW o, Good(o),
         Handler(k, used, o), NEW n \in Nodes
  PROVE  inbox' \in [Nodes -> Seq(Envelopes)] /\ Delivers(k, n)
<1>. DEFINE deaf == [m \in Nodes |-> [i \in DOMAIN inbox[m] |->
                       IF inbox[m][i].key = k THEN [inbox[m][i] EXCEPT !.live = FALSE]
                       ELSE inbox[m][i]]]
<1>1. inbox \in [Nodes -> Seq(Envelopes)]
  BY Zenon DEF RemoteInv
<1>2. ASSUME NEW m \in Nodes
      PROVE  /\ deaf[m] \in Seq(Envelopes)
             /\ Len(deaf[m]) = Len(inbox[m]) /\ DOMAIN deaf[m] = DOMAIN inbox[m]
             /\ \A i \in DOMAIN inbox[m] :
                  /\ deaf[m][i].key = inbox[m][i].key /\ deaf[m][i].call = inbox[m][i].call
                  /\ deaf[m][i].live => inbox[m][i].live /\ inbox[m][i].key # k
  <2>1. inbox[m] \in Seq(Envelopes)
    BY <1>1, Zenon
  <2>2. deaf[m] = Deaf(inbox[m], k)
    BY Zenon DEF Deaf
  <2>. HIDE DEF deaf
  <2>3. /\ deaf[m] \in Seq(Envelopes)
        /\ Len(deaf[m]) = Len(inbox[m]) /\ DOMAIN deaf[m] = DOMAIN inbox[m]
    BY <2>1, <2>2, Deafens
  <2>4. ASSUME NEW i \in DOMAIN inbox[m]
        PROVE  /\ deaf[m][i].key = inbox[m][i].key /\ deaf[m][i].call = inbox[m][i].call
               /\ deaf[m][i].live => inbox[m][i].live /\ inbox[m][i].key # k
    BY <2>1, <2>2, Deafens
  <2>. QED
    BY <2>3, <2>4, Zenon
<1>3. deaf \in [Nodes -> Seq(Envelopes)]
  <2>1. \A m \in Nodes : deaf[m] \in Seq(Envelopes)
    BY <1>2, Zenon
  <2>. QED
    BY <2>1, Zenon
<1>4. keys' = [keys EXCEPT ![k] = o.ks] /\ keys \in [Keys -> KeyStates]
  BY Zenon DEF Handler, CallerInv
<1>5. keys'[k] = o.ks /\ o.ks \in KeyStates
  BY <1>4, Zenon DEF Good
<1>6. \/ inbox' = deaf
      \/ \E c \in o.cs : inbox' = [deaf EXCEPT ![o.ks.routes[c.idx].node] =
           Append(@, [key |-> k, call |-> o.ks.call, live |-> TRUE])]
  BY Zenon DEF Handler
<1>. HIDE DEF deaf
<1>7. CASE inbox' = deaf
  BY <1>2, <1>3, <1>7, Zenon DEF Delivers
<1>8. CASE inbox' # deaf
  <2>1. PICK c \in o.cs : inbox' = [deaf EXCEPT ![o.ks.routes[c.idx].node] =
           Append(@, [key |-> k, call |-> o.ks.call, live |-> TRUE])]
    BY <1>6, <1>8, Zenon
  <2>. DEFINE to == o.ks.routes[c.idx].node
              e == [key |-> k, call |-> o.ks.call, live |-> TRUE]
  <2>2. o.ks.in_flight
    BY <1>5, Zenon DEF Good, Chained, KeyStates
  <2>3. o.ks.call \in Calls
    <3>1. arrived'[k] \in Seq(Calls) /\ Line(keys'[k], arrived'[k], result')
      BY InLineIs, Zenon DEF CallerInv
    <3>2. /\ StartedOf(o.ks, arrived'[k]) \in DOMAIN arrived'[k]
          /\ o.ks.call = arrived'[k][StartedOf(o.ks, arrived'[k])]
      BY <1>5, <2>2, <3>1, LineStarted, Zenon
    <3>. QED
      BY <3>1, <3>2, Element, Zenon
  <2>4. e \in Envelopes /\ e.key = k /\ e.call = o.ks.call
    BY <2>3, Zenon DEF Envelopes
  <2>. HIDE DEF e, to
  <2>5. inbox' = [deaf EXCEPT ![to] = Append(deaf[to], e)]
    BY <2>1, Zenon DEF e, to
  <2>6. CASE n # to
    <3>1. inbox'[n] = deaf[n]
      BY <1>3, <2>5, <2>6, Zenon
    <3>2. inbox' \in [Nodes -> Seq(Envelopes)]
      <4>1. CASE to \in Nodes
        <5>1. deaf[to] \in Seq(Envelopes)
          BY <1>3, <4>1, Zenon
        <5>2. Append(deaf[to], e) \in Seq(Envelopes)
          BY <2>4, <5>1
        <5>. QED
          BY <1>3, <2>5, <5>2, Zenon
      <4>2. CASE to \notin Nodes
        BY <1>3, <2>5, <4>2, Zenon
      <4>. QED
        BY <4>1, <4>2, Zenon
    <3>. QED
      BY <1>2, <3>1, <3>2 DEF Delivers
  <2>7. CASE n = to
    <3>1. inbox'[n] = Append(deaf[n], e)
      BY <1>3, <2>5, <2>7, Zenon
    <3>2. deaf[n] \in Seq(Envelopes)
      BY <1>2, Zenon
    <3>3. /\ Append(deaf[n], e) \in Seq(Envelopes)
          /\ Len(Append(deaf[n], e)) = Len(deaf[n]) + 1
          /\ DOMAIN Append(deaf[n], e) = 1 .. Len(deaf[n]) + 1
          /\ Append(deaf[n], e)[Len(deaf[n]) + 1] = e
          /\ \A i \in DOMAIN deaf[n] : Append(deaf[n], e)[i] = deaf[n][i]
          /\ DOMAIN deaf[n] = 1 .. Len(deaf[n]) /\ Len(deaf[n]) \in Nat
      BY <2>4, <3>2
    <3>4. inbox' \in [Nodes -> Seq(Envelopes)]
      BY <1>3, <2>5, <2>7, <3>3, Zenon
    <3>5. \A i \in DOMAIN inbox'[n] : i \in DOMAIN inbox[n] \/ i = Len(inbox'[n])
      BY <1>2, <3>1, <3>3
    <3>6. \A i \in DOMAIN inbox[n] : inbox'[n][i] = deaf[n][i]
      BY <1>2, <3>1, <3>3, Zenon
    <3>7. inbox'[n][Len(inbox'[n])] = e
      BY <3>1, <3>3, Zenon
    <3>. QED
      <4>1. inbox'[n] \in Seq(Envelopes)
        BY <3>1, <3>3, Zenon
      <4>2. ASSUME NEW i \in DOMAIN inbox[n]
            PROVE  /\ inbox'[n][i].key = inbox[n][i].key
                   /\ inbox'[n][i].call = inbox[n][i].call
                   /\ inbox'[n][i].live => inbox[n][i].live /\ inbox[n][i].key # k
        BY <1>2, <3>6
      <4>3. /\ inbox'[n][Len(inbox'[n])].key = k /\ keys'[k].in_flight
            /\ inbox'[n][Len(inbox'[n])].call = keys'[k].call
        BY <1>5, <2>2, <2>4, <3>7, Zenon
      <4>. QED
        BY <3>4, <3>5, <4>1, <4>2, <4>3, Zenon DEF Delivers
  <2>. QED
    BY <2>6, <2>7, Zenon
<1>. QED
  BY <1>7, <1>8, Zenon
\* What such a step does to the invariant.
LEMMA AdvanceKeeps ==
  ASSUME CallerInv, CallerInv', RemoteInv, NEW k \in Keys, Advances(k),
         inbox' \in [Nodes -> Seq(Envelopes)], \A n \in Nodes : Delivers(k, n),
         replied' \in SUBSET replied, k \in replied' => Stays(k), ran' = ran
  PROVE  RemoteInv'
<1>1. ASSUME NEW x \in Keys
      PROVE  /\ Started(x) \in Nat /\ Started(x)' \in Nat
             /\ 1 .. Started(x) \subseteq DOMAIN arrived[x]
             /\ 1 .. Started(x)' \subseteq DOMAIN arrived'[x]
             /\ keys'[x].in_flight => /\ Started(x)' \in DOMAIN arrived'[x]
                                      /\ keys'[x].call = arrived'[x][Started(x)']
             /\ DOMAIN arrived'[x] \subseteq Nat \ {0}
  <2>1. /\ keys[x] \in KeyStates /\ arrived[x] \in Seq(Calls)
        /\ Line(keys[x], arrived[x], result)
    BY InLineIs, Zenon DEF CallerInv
  <2>2. /\ keys'[x] \in KeyStates /\ arrived'[x] \in Seq(Calls)
        /\ Line(keys'[x], arrived'[x], result')
    BY InLineIs, Zenon DEF CallerInv
  <2>3. DOMAIN arrived'[x] \subseteq Nat \ {0}
    BY <2>2, SMTT(30)
  <2>. QED
    BY <2>1, <2>2, <2>3, LineStarted, StartedIs
<1>2. ASSUME NEW x \in Keys
      PROVE  /\ Started(x) <= Started(x)'
             /\ \A i \in DOMAIN arrived[x] :
                  i \in DOMAIN arrived'[x] /\ arrived'[x][i] = arrived[x][i]
             /\ x # k => Stays(x)
  <2>1. CASE x = k
    BY <2>1, Zenon DEF Advances
  <2>2. CASE x # k
    <3>1. keys'[x] = keys[x] /\ arrived'[x] = arrived[x]
      BY <2>2, Zenon DEF Advances
    <3>2. Started(x)' = Started(x)
      BY <3>1, StartedIs, Zenon
    <3>. QED
      BY <1>1, <3>1, <3>2 DEF Stays
  <2>. QED
    BY <2>1, <2>2, Zenon
<1>3. \A x \in Keys : \A i, j \in DOMAIN arrived'[x] :
        arrived'[x][i] = arrived'[x][j] => i = j
  BY ONLY CallerInv' DEF CallerInv
<1>4. /\ inbox \in [Nodes -> Seq(Envelopes)] /\ replied \in SUBSET Keys
      /\ ran \in [Nodes -> [Keys -> Nat]]
      /\ \A n \in Nodes : \A x \in Keys : ran[n][x] <= Started(x)
      /\ \A x \in replied :
           keys[x].in_flight /\ \E n \in Nodes : ran[n][x] = Started(x)
  BY Zenon DEF RemoteInv
<1>5. ASSUME NEW n \in Nodes, NEW x \in Keys
      PROVE  ran'[n][x] \in Nat /\ ran'[n][x] <= Started(x)'
  <2>1. ran'[n][x] \in Nat /\ ran'[n][x] <= Started(x)
    BY <1>4, Zenon
  <2>. QED
    BY ONLY <1>1, <1>2, <2>1, x \in Keys
<1>6. ASSUME NEW x \in replied'
      PROVE  keys'[x].in_flight /\ \E n \in Nodes : ran'[n][x] = Started(x)'
  <2>1. x \in replied /\ x \in Keys /\ Stays(x)
    BY <1>2, <1>4, Zenon
  <2>. QED
    BY <1>4, <2>1, Zenon DEF Stays
<1>7. ASSUME NEW n \in Nodes, NEW i \in DOMAIN inbox'[n]
      PROVE  inbox'[n][i] \in Envelopes
  BY Element, Zenon
<1>8. ASSUME NEW n \in Nodes, NEW i \in DOMAIN inbox'[n]
      PROVE  /\ i \in DOMAIN inbox[n]
             /\ inbox'[n][i].key = inbox[n][i].key /\ inbox'[n][i].call = inbox[n][i].call
             /\ inbox'[n][i].live =>
                  inbox[n][i].live /\ (inbox[n][i].key # k \/ Stays(k))
             /\ inbox[n][i].key \in Keys /\ Sent(n, inbox[n][i])
        \/ /\ i = Len(inbox'[n])
           /\ inbox'[n][i].key = k /\ keys'[k].in_flight
           /\ inbox'[n][i].call = arrived'[k][Started(k)']
  <2>1. CASE /\ i \in DOMAIN inbox[n]
             /\ inbox'[n][i].key = inbox[n][i].key /\ inbox'[n][i].call = inbox[n][i].call
             /\ inbox'[n][i].live =>
                  inbox[n][i].live /\ (inbox[n][i].key # k \/ Stays(k))
    <3>1. Sent(n, inbox[n][i])
      BY <2>1, Zenon DEF RemoteInv
    <3>2. inbox'[n][i].key \in Keys
      BY <1>7, Zenon DEF Envelopes
    <3>. QED
      BY <2>1, <3>1, <3>2, Zenon
  <2>2. CASE i = Len(inbox'[n])
           /\ inbox'[n][i].key = k /\ keys'[k].in_flight
           /\ inbox'[n][i].call = keys'[k].call
    BY <1>1, <2>2, Zenon
  <2>. QED
    BY <2>1, <2>2, Zenon DEF Delivers
<1>9. ASSUME NEW n \in Nodes, NEW i \in DOMAIN inbox'[n]
      PROVE  Sent(n, inbox[n][i])'
  <2>. DEFINE e == inbox'[n][i]
  <2>a. PICK x \in Keys : x = e.key
    BY <1>7, Zenon DEF Envelopes
  <2>1. CASE /\ i \in DOMAIN inbox[n]
             /\ e.key = inbox[n][i].key /\ e.call = inbox[n][i].call
             /\ e.live => inbox[n][i].live /\ (inbox[n][i].key # k \/ Stays(k))
             /\ inbox[n][i].key \in Keys /\ Sent(n, inbox[n][i])
    <3>1. PICK p \in 1 .. Started(x) :
            /\ arrived[x][p] = e.call /\ ran[n][x] <= p
            /\ inbox[n][i].live => keys[x].in_flight /\ p = Started(x)
      BY <2>a, <2>1, Zenon DEF Sent
    <3>2. p \in 1 .. Started(x)'
      <4>1. Started(x) \in Nat /\ Started(x)' \in Nat /\ Started(x) <= Started(x)'
        BY <1>1, <1>2, Zenon
      <4>. QED
        BY <4>1
    <3>3. arrived'[x][p] = e.call
      BY <1>1, <1>2, <3>1, Zenon
    <3>4. e.live => keys'[x].in_flight /\ p = Started(x)'
      <4>1. e.live => inbox[n][i].live /\ Stays(x)
        BY <1>2, <2>a, <2>1, Zenon
      <4>. QED
        BY <3>1, <4>1, Zenon DEF Stays
    <3>. HIDE DEF e
    <3>5. \E q \in 1 .. Started(x)' :
            /\ arrived'[x][q] = e.call /\ ran'[n][x] <= q
            /\ e.live => keys'[x].in_flight /\ q = Started(x)'
      BY <3>1, <3>2, <3>3, <3>4, Zenon
    <3>. QED
      BY <2>a, <3>5, Zenon DEF Sent, e
  <2>2. CASE /\ i = Len(inbox'[n])
             /\ e.key = k /\ keys'[k].in_flight
             /\ e.call = arrived'[k][Started(k)']
    <3>1. Started(k)' \in 1 .. Started(k)'
      BY <1>1, <2>2
    <3>2. ran'[n][k] <= Started(k)'
      BY <1>5, Zenon
    <3>. HIDE DEF e
    <3>3. \E q \in 1 .. Started(k)' :
            /\ arrived'[k][q] = e.call /\ ran'[n][k] <= q
            /\ e.live => keys'[k].in_flight /\ q = Started(k)'
      BY <2>2, <3>1, <3>2, Zenon
    <3>. QED
      BY <2>2, <3>3, Zenon DEF Sent, e
  <2>. QED
    BY <1>8, <2>1, <2>2, Zenon
<1>10. ASSUME NEW n \in Nodes, NEW i \in DOMAIN inbox'[n], NEW j \in DOMAIN inbox'[n],
              i < j, inbox'[n][i].key = inbox'[n][j].key,
              NEW p \in DOMAIN arrived'[inbox'[n][i].key],
              NEW q \in DOMAIN arrived'[inbox'[n][i].key],
              arrived'[inbox'[n][i].key][p] = inbox'[n][i].call,
              arrived'[inbox'[n][i].key][q] = inbox'[n][j].call
       PROVE  p <= q
  <2>0. PICK x \in Keys : x = inbox'[n][i].key
    BY <1>7, Zenon DEF Envelopes
  <2>1. i # Len(inbox'[n])
    BY <1>10
  <2>2. i \in DOMAIN inbox[n] /\ inbox[n][i].key = x
        /\ inbox[n][i].call = inbox'[n][i].call /\ Sent(n, inbox[n][i])
    BY <1>8, <2>0, <2>1, Zenon
  <2>3. PICK a \in 1 .. Started(x) : arrived[x][a] = inbox[n][i].call
    BY <2>2, Zenon DEF Sent
  <2>4. a \in DOMAIN arrived[x] /\ p = a
    <3>1. a \in DOMAIN arrived[x] /\ a \in DOMAIN arrived'[x] /\ arrived'[x][a] = arrived[x][a]
      BY <1>1, <1>2, <2>0, Zenon
    <3>. QED
      BY ONLY <1>3, <1>10, <2>0, <2>2, <2>3, <3>1
  <2>5. CASE /\ j \in DOMAIN inbox[n] /\ inbox[n][j].key = x
             /\ inbox[n][j].call = inbox'[n][j].call /\ Sent(n, inbox[n][j])
    <3>1. PICK b \in 1 .. Started(x) : arrived[x][b] = inbox[n][j].call
      BY <2>5, Zenon DEF Sent
    <3>2. b \in DOMAIN arrived[x] /\ q = b
      <4>1. b \in DOMAIN arrived[x] /\ b \in DOMAIN arrived'[x] /\ arrived'[x][b] = arrived[x][b]
        BY <1>1, <1>2, <2>0, Zenon
      <4>. QED
        BY <1>3, <1>10, <2>0, <2>5, <3>1, <4>1
    <3>. QED
      <4>1. \A u, v \in DOMAIN arrived[x] :
              arrived[x][u] = inbox[n][i].call /\ arrived[x][v] = inbox[n][j].call => u <= v
        <5>1. i \in DOMAIN inbox[n] /\ j \in DOMAIN inbox[n] /\ i < j
              /\ inbox[n][i].key = x /\ inbox[n][j].key = x
          BY <1>10, <2>2, <2>5, Zenon
        <5>2. \A u, v \in DOMAIN arrived[inbox[n][i].key] :
                /\ arrived[inbox[n][i].key][u] = inbox[n][i].call
                /\ arrived[inbox[n][i].key][v] = inbox[n][j].call
                => u <= v
          BY <5>1, Zenon DEF RemoteInv
        <5>. QED
          BY <5>1, <5>2, Zenon
      <4>. QED
        BY <2>3, <2>4, <3>1, <3>2, <4>1, Zenon
  <2>6. CASE x = k /\ keys'[k].in_flight /\ inbox'[n][j].call = arrived'[k][Started(k)']
    <3>1. q = Started(k)'
      BY ONLY <1>1, <1>3, <1>10, <2>0, <2>6, SMTT(30)
    <3>2. a <= Started(k)' /\ a \in Nat
      BY <1>1, <1>2, <2>0, <2>3, <2>6
    <3>. QED
      BY <2>4, <3>1, <3>2, Zenon
  <2>. QED
    BY <1>8, <1>10, <2>0, <2>5, <2>6, Zenon
<1>11. OkPerformed'
  <2>. SUFFICES ASSUME NEW x \in Keys, NEW i \in DOMAIN arrived'[x],
                       result'[arrived'[x][i]] = "ok"
                PROVE  \E n \in Nodes : ran'[n][x] >= i
    BY Zenon DEF OkPerformed
  <2>1. /\ i \in DOMAIN arrived[x]
        /\ result[arrived[x][i]] = "ok" \/ (x = k /\ k \in replied /\ i = Started(k))
    BY Zenon DEF Advances
  <2>2. CASE result[arrived[x][i]] = "ok"
    BY <2>1, <2>2, Zenon DEF RemoteInv, OkPerformed
  <2>3. CASE x = k /\ k \in replied /\ i = Started(k)
    BY <1>1, <1>4, <2>3
  <2>. QED
    BY <2>1, <2>2, <2>3, Zenon
<1>. QED
  <2>1. /\ replied' \in SUBSET Keys /\ ran' \in [Nodes -> [Keys -> Nat]]
    BY <1>4, Zenon
  <2>. QED
    BY <1>5, <1>6, <1>9, <1>10, <1>11, <2>1 DEF RemoteInv

\* The handler of a key in flight takes no call back.
LEMMA WorksAdvances ==
  ASSUME CallerInv, NEW k \in Keys, keys[k].in_flight = TRUE, arrived' = arrived,
         NEW used, NEW o, Good(o), Handler(k, used, o),
         \/ Continues(keys[k], o)
         \/ Finishes(keys[k], o) /\ (o.result = "ok" => k \in replied)
  PROVE  Advances(k)
<1>1. /\ keys \in [Keys -> KeyStates] /\ arrived \in [Keys -> Seq(Calls)]
      /\ result \in Results
      /\ \A x \in Keys : \A i, j \in DOMAIN arrived[x] :
           /\ KeyOf[arrived[x][i]] = x
           /\ arrived[x][i] = arrived[x][j] => i = j
  BY Zenon DEF CallerInv, Results
<1>2. keys' = [keys EXCEPT ![k] = o.ks]
  BY Zenon DEF Handler
<1>3. \A x \in Keys : x # k => keys'[x] = keys[x] /\ arrived'[x] = arrived[x]
  BY <1>1, <1>2, Zenon
<1>4. keys'[k] = o.ks /\ keys[k] \in KeyStates /\ arrived[k] \in Seq(Calls)
  BY <1>1, <1>2, Zenon
<1>5. /\ Started(k) = StartedOf(keys[k], arrived[k])
      /\ Started(k)' = StartedOf(o.ks, arrived[k])
  BY <1>4, StartedIs, Zenon
<1>6. keys[k].queue \in Seq(Calls) /\ Len(keys[k].queue) \in Nat /\ Len(arrived[k]) \in Nat
  BY <1>4 DEF KeyStates
<1>7. Started(k) <= Started(k)'
  <2>1. CASE o.ks.queue = keys[k].queue
    BY <1>5, <1>6, <2>1 DEF StartedOf
  <2>2. CASE keys[k].queue # << >> /\ o.ks.queue = Tail(keys[k].queue)
    <3>1. Len(o.ks.queue) = Len(keys[k].queue) - 1
      BY <1>6, <2>2
    <3>. QED
      BY <1>5, <1>6, <3>1 DEF StartedOf
  <2>. QED
    BY <2>1, <2>2, Zenon DEF Continues, Finishes
<1>8. result' = IF o.call = None THEN result ELSE [result EXCEPT ![o.call] = o.result]
  BY Zenon DEF Handler
<1>9. /\ Started(k) \in DOMAIN arrived[k] /\ keys[k].call = arrived[k][Started(k)]
  <2>1. Line(keys[k], arrived[k], result)
    BY InLineIs, Zenon DEF CallerInv
  <2>. QED
    BY <1>4, <1>5, <2>1, LineStarted, Zenon
<1>10. keys[k].call \in Calls
  BY <1>4, <1>9, Element, Zenon
<1>11. ASSUME NEW x \in Keys, NEW i \in DOMAIN arrived[x], result'[arrived[x][i]] = "ok"
       PROVE  \/ result[arrived[x][i]] = "ok"
              \/ x = k /\ k \in replied /\ i = Started(k)
  <2>1. CASE Continues(keys[k], o)
    BY <1>8, <1>11, <2>1, Zenon DEF Continues
  <2>2. CASE Finishes(keys[k], o) /\ (o.result = "ok" => k \in replied)
    <3>1. result' = [result EXCEPT ![keys[k].call] = o.result]
      BY <1>8, <1>10, <2>2, CallerAssumption, Zenon DEF Finishes
    <3>2. arrived[x][i] \in Calls
      BY <1>1, Element, Zenon
    <3>3. CASE arrived[x][i] # keys[k].call
      <4>1. result'[arrived[x][i]] = result[arrived[x][i]]
        BY <1>1, <3>1, <3>2, <3>3, Zenon DEF Results
      <4>. QED
        BY <1>11, <4>1, Zenon
    <3>4. CASE arrived[x][i] = keys[k].call
      <4>1. result'[arrived[x][i]] = o.result
        BY <1>1, <3>1, <3>2, <3>4, Zenon DEF Results
      <4>2. x = k /\ i = Started(k)
        BY <1>1, <1>9, <3>4
      <4>. QED
        BY <1>11, <2>2, <4>1, <4>2, Zenon
    <3>. QED
      BY <3>3, <3>4, Zenon
  <2>. QED
    BY <2>1, <2>2, Zenon
<1>. QED
  BY <1>3, <1>7, <1>11, Zenon DEF Advances

\* What a handler that only advances its key does to the mailboxes.
LEMMA HandlerRemote ==
  ASSUME CallerInv, CallerInv', RemoteInv, NEW k \in Keys, NEW used, NEW o, Good(o),
         Handler(k, used, o), Advances(k)
  PROVE  RemoteInv'
<1>1. replied' = replied \ {k} /\ ran' = ran
  BY Zenon DEF Handler
<1>2. inbox' \in [Nodes -> Seq(Envelopes)]
  <2>1. CASE Nodes = {}
    <3>1. inbox \in [Nodes -> Seq(Envelopes)]
      BY Zenon DEF RemoteInv
    <3>2. \/ inbox' = [n \in Nodes |-> [i \in DOMAIN inbox[n] |->
                         IF inbox[n][i].key = k THEN [inbox[n][i] EXCEPT !.live = FALSE]
                         ELSE inbox[n][i]]]
          \/ \E m, e : inbox' = [[n \in Nodes |-> [i \in DOMAIN inbox[n] |->
                         IF inbox[n][i].key = k THEN [inbox[n][i] EXCEPT !.live = FALSE]
                         ELSE inbox[n][i]]] EXCEPT ![m] = e]
      BY Zenon DEF Handler
    <3>. QED
      BY <2>1, <3>2, Zenon
  <2>2. CASE Nodes # {}
    BY <2>2, HandlerDelivers, Zenon
  <2>. QED
    BY <2>1, <2>2, Zenon
<1>3. \A n \in Nodes : Delivers(k, n)
  BY HandlerDelivers, Zenon
<1>4. replied' \in SUBSET replied /\ k \notin replied'
  BY <1>1, Zenon
<1>. QED
  BY <1>1, <1>2, <1>3, <1>4, AdvanceKeeps, Zenon

\* A handler of a key in flight keeps the mailboxes in order.
LEMMA WorksRemote ==
  ASSUME CallerInv, CallerInv', RemoteInv, NEW k \in Keys, Works(k)
  PROVE  RemoteInv'
<1>1. PICK used, o :
        /\ conts[k] \subseteq used /\ Good(o) /\ Handler(k, used, o)
        /\ \/ Continues(keys[k], o)
           \/ Finishes(keys[k], o) /\ (o.result = "ok" => k \in replied)
  BY Zenon DEF Works
<1>2. Advances(k)
  BY <1>1, WorksAdvances, Zenon DEF Works
<1>. QED
  BY <1>1, <1>2, HandlerRemote, Zenon

\* A step that sends nothing and leaves the key as busy as it was.
LEMMA QuietRemote ==
  ASSUME CallerInv, CallerInv', RemoteInv, NEW k \in Keys, Advances(k), Stays(k),
         inbox' = inbox, replied' = replied, ran' = ran
  PROVE  RemoteInv'
<1>1. inbox' \in [Nodes -> Seq(Envelopes)]
  BY Zenon DEF RemoteInv
<1>2. ASSUME NEW n \in Nodes PROVE Delivers(k, n)
  BY <1>1, Zenon DEF Delivers
<1>. QED
  BY <1>1, <1>2, AdvanceKeeps, Zenon

\* So is a new connection.
LEMMA ConnectedRemote ==
  ASSUME CallerInv, CallerInv', RemoteInv, NEW k \in Keys, Connected(k)
  PROVE  RemoteInv'
<1>1. /\ keys' = keys /\ arrived' = arrived /\ result' = result
      /\ inbox' = inbox /\ replied' = replied /\ ran' = ran
  BY Zenon DEF Connected, remoteVars
<1>2. Started(k)' = Started(k)
  BY <1>1, StartedIs, Zenon
<1>3. Started(k) \in Nat
  <2>1. keys[k] \in KeyStates /\ arrived[k] \in Seq(Calls) /\ Line(keys[k], arrived[k], result)
    BY InLineIs, Zenon DEF CallerInv
  <2>. QED
    BY <2>1, LineStarted, StartedIs, Zenon
<1>4. Advances(k) /\ Stays(k)
  BY ONLY <1>1, <1>2, <1>3 DEF Advances, Stays
<1>. QED
  BY <1>1, <1>4, QuietRemote, Zenon

\* A call that comes is sent after those that came before.
LEMMA EnqueueRemote ==
  ASSUME CallerInv, CallerInv', RemoteInv, NEW c \in Calls, enqueue(c)
  PROVE  RemoteInv'
<1>0. PICK k \in Keys : k = KeyOf[c]
  BY Zenon DEF Keys
<1>1. /\ keys \in [Keys -> KeyStates] /\ arrived \in [Keys -> Seq(Calls)]
      /\ \A x \in Keys : Chained(keys[x], conts[x])
  BY Zenon DEF CallerInv
<1>2. /\ result[c] = "none"
      /\ arrived' = [arrived EXCEPT ![k] = Append(@, c)]
  BY <1>0, Zenon DEF enqueue
<1>3. keys[k] \in KeyStates /\ arrived[k] \in Seq(Calls) /\ keys[k].in_flight \in BOOLEAN
      /\ keys[k].queue \in Seq(Calls)
  BY <1>1, Zenon DEF KeyStates
<1>4. arrived'[k] = Append(arrived[k], c) /\ \A x \in Keys : x # k => arrived'[x] = arrived[x]
  BY <1>1, <1>2, Zenon
<1>5. /\ Len(arrived[k]) \in Nat /\ Len(keys[k].queue) \in Nat
      /\ Len(Append(arrived[k], c)) = Len(arrived[k]) + 1
      /\ DOMAIN Append(arrived[k], c) = 1 .. Len(arrived[k]) + 1
      /\ DOMAIN arrived[k] = 1 .. Len(arrived[k])
      /\ Append(arrived[k], c)[Len(arrived[k]) + 1] = c
      /\ \A i \in DOMAIN arrived[k] : Append(arrived[k], c)[i] = arrived[k][i]
  BY <1>3
<1>6. \A i \in DOMAIN arrived[k] : i \in DOMAIN arrived'[k] /\ arrived'[k][i] = arrived[k][i]
  BY <1>4, <1>5
<1>7. ASSUME result' = result, NEW x \in Keys, NEW i \in DOMAIN arrived'[x],
             result'[arrived'[x][i]] = "ok"
      PROVE  i \in DOMAIN arrived[x] /\ result[arrived[x][i]] = "ok"
  <2>1. CASE x # k
    BY <1>4, <1>7, <2>1, Zenon
  <2>2. CASE x = k
    <3>1. i # Len(arrived[k]) + 1
      BY <1>2, <1>4, <1>5, <1>7, <2>2, Zenon
    <3>2. i \in DOMAIN arrived[k]
      BY <1>4, <1>5, <2>2, <3>1
    <3>. QED
      BY <1>6, <1>7, <2>2, <3>2, Zenon
  <2>. QED
    BY <2>1, <2>2, Zenon
<1>8. CASE keys[k].in_flight = TRUE
  <2>. DEFINE q == Append(keys[k].queue, c)
  <2>1. /\ keys' = [keys EXCEPT ![k].queue = q] /\ result' = result
        /\ inbox' = inbox /\ replied' = replied /\ ran' = ran
    BY <1>0, <1>8, Zenon DEF enqueue, remoteVars
  <2>2. Len(q) = Len(keys[k].queue) + 1
    BY <1>3
  <2>. HIDE DEF q
  <2>3. keys'[k].queue = q /\ keys'[k].in_flight = keys[k].in_flight
        /\ \A x \in Keys : x # k => keys'[x] = keys[x]
    BY <1>1, <1>3, <2>1, Zenon DEF KeyStates
  <2>4. Started(k)' = (Len(arrived[k]) + 1) - (Len(keys[k].queue) + 1)
    BY <1>4, <1>5, <2>2, <2>3, StartedIs, Zenon DEF StartedOf
  <2>5. Started(k) = Len(arrived[k]) - Len(keys[k].queue)
    BY StartedIs, Zenon DEF StartedOf
  <2>6. Started(k)' = Started(k) /\ Started(k) <= Started(k)'
    BY <1>5, <2>4, <2>5
  <2>7. Stays(k)
    BY <2>3, <2>6, Zenon DEF Stays
  <2>8. Advances(k)
    BY <1>4, <1>6, <1>7, <2>1, <2>3, <2>6 DEF Advances
  <2>. QED
    BY <2>1, <2>7, <2>8, QuietRemote, Zenon
<1>9. CASE keys[k].in_flight = FALSE
  <2>. DEFINE o == start(keys[k], c)
  <2>1. Handler(k, {}, o)
    BY <1>0, <1>9, Zenon DEF enqueue
  <2>2. Good(o) /\ o.call = None /\ o.ks.queue = keys[k].queue
    BY <1>3, StartGood, Zenon
  <2>. HIDE DEF o
  <2>3. keys' = [keys EXCEPT ![k] = o.ks] /\ result' = result
    BY <2>1, <2>2, Zenon DEF Handler
  <2>4. keys'[k] = o.ks /\ \A x \in Keys : x # k => keys'[x] = keys[x]
    BY <1>1, <2>3, Zenon
  <2>5. Started(k)' = (Len(arrived[k]) + 1) - Len(keys[k].queue)
    BY <1>4, <1>5, <2>2, <2>4, StartedIs, Zenon DEF StartedOf
  <2>6. Started(k) = Len(arrived[k]) - Len(keys[k].queue)
    BY StartedIs, Zenon DEF StartedOf
  <2>7. Started(k) <= Started(k)'
    BY <1>5, <2>5, <2>6
  <2>8. Advances(k)
    BY <1>4, <1>6, <1>7, <2>3, <2>4, <2>7, Zenon DEF Advances
  <2>. QED
    BY <2>1, <2>2, <2>8, HandlerRemote, Zenon
<1>. QED
  BY <1>3, <1>8, <1>9, Zenon

\* The service performs the first call of its mailbox: it came no earlier than
\* the last one performed and no later than the rest of the mailbox.
LEMMA PerformedPosition ==
  ASSUME CallerInv, RemoteInv, NEW n \in Nodes, Performed(n)
  PROVE  \E k \in Keys : \E p \in 1 .. Started(k) :
           /\ k = inbox[n][1].key /\ p \in DOMAIN arrived[k]
           /\ arrived[k][p] = inbox[n][1].call
           /\ ran[n][k] <= p /\ p <= Started(k)
           /\ inbox[n][1].live => keys[k].in_flight /\ p = Started(k)
           /\ ran' = [ran EXCEPT ![n] = [ran[n] EXCEPT ![k] = p]]
           /\ replied' = IF inbox[n][1].live THEN replied \cup {k} ELSE replied
<1>1. inbox[n] \in Seq(Envelopes) /\ inbox[n] # << >>
  BY Zenon DEF RemoteInv, Performed
<1>2. 1 \in DOMAIN inbox[n] /\ Head(inbox[n]) = inbox[n][1]
  BY <1>1
<1>3. inbox[n][1] \in Envelopes
  BY <1>1, <1>2, Element, Zenon
<1>4. PICK k \in Keys : k = inbox[n][1].key
  BY <1>3, Zenon DEF Envelopes
<1>5. Sent(n, inbox[n][1])
  BY <1>2, Zenon DEF RemoteInv
<1>6. PICK p \in 1 .. Started(k) :
        /\ arrived[k][p] = inbox[n][1].call /\ ran[n][k] <= p
        /\ inbox[n][1].live => keys[k].in_flight /\ p = Started(k)
  BY <1>4, <1>5, Zenon DEF Sent
<1>7. keys[k] \in KeyStates /\ arrived[k] \in Seq(Calls) /\ Line(keys[k], arrived[k], result)
  BY InLineIs, Zenon DEF CallerInv
<1>8. Started(k) \in Nat /\ 1 .. Started(k) \subseteq DOMAIN arrived[k]
  BY <1>7, LineStarted, StartedIs, Zenon
<1>9. p \in DOMAIN arrived[k] /\ p <= Started(k)
  BY <1>8
<1>10. Position(k, inbox[n][1].call) = p
  <2>1. \A i, j \in DOMAIN arrived[k] : arrived[k][i] = arrived[k][j] => i = j
    BY DEF CallerInv
  <2>. QED
    BY <1>6, <1>9, <2>1, Zenon DEF Position
<1>11. /\ ran' = [ran EXCEPT ![n][k] = p]
       /\ replied' = IF inbox[n][1].live THEN replied \cup {k} ELSE replied
  BY <1>2, <1>4, <1>10, Zenon DEF Performed
<1>. QED
  BY <1>4, <1>6, <1>9, <1>11, Zenon

\* A service never goes back in the calls of a key.
LEMMA RanGrows ==
  ASSUME CallerInv, RemoteInv, [Next]_vars, NEW n \in Nodes, NEW k \in Keys
  PROVE  ran'[n][k] >= ran[n][k]
<1>1. ran \in [Nodes -> [Keys -> Nat]]
  BY Zenon DEF RemoteInv
<1>2. ASSUME NEW m \in Nodes, Performed(m) PROVE ran'[n][k] >= ran[n][k]
  <2>1. PICK x \in Keys : \E p \in 1 .. Started(x) :
          /\ ran[m][x] <= p /\ ran' = [ran EXCEPT ![m] = [ran[m] EXCEPT ![x] = p]]
    BY <1>2, PerformedPosition
  <2>2. PICK p \in 1 .. Started(x) :
          /\ ran[m][x] <= p /\ ran' = [ran EXCEPT ![m] = [ran[m] EXCEPT ![x] = p]]
    BY <2>1, Zenon
  <2>3. CASE n = m /\ k = x
    <3>1. ran'[n][k] = p
      BY <1>1, <2>2, <2>3, Zenon
    <3>. QED
      BY <1>1, <2>2, <2>3, <3>1, Zenon
  <2>4. CASE ~ (n = m /\ k = x)
    <3>1. ran'[n][k] = ran[n][k]
      BY <1>1, <2>2, <2>4, Zenon
    <3>. QED
      BY <1>1, <3>1
  <2>. QED
    BY <2>3, <2>4, Zenon
<1>3. ASSUME ran' = ran PROVE ran'[n][k] >= ran[n][k]
  BY <1>1, <1>3
<1>4. ASSUME NEW c \in Calls, enqueue(c) PROVE ran' = ran
  BY <1>4, Zenon DEF enqueue, Handler, remoteVars
<1>5. ASSUME NEW x \in Keys, KeyStep(x) PROVE ran' = ran
  BY <1>5, Zenon DEF KeyStep, Resolved, ResolveFails, Connected, StepFails, Answered, RetryTick,
       Handler, remoteVars
<1>6. ASSUME LookedUp PROVE ran' = ran
  BY <1>6, Zenon DEF LookedUp, Handler
<1>7. CASE UNCHANGED vars
  BY <1>3, <1>7, Zenon DEF vars
<1>. QED
  BY <1>2, <1>3, <1>4, <1>5, <1>6, <1>7, Zenon DEF Next

\* What the service performs keeps the mailboxes in order.
LEMMA PerformedRemote ==
  ASSUME CallerInv, RemoteInv, NEW n \in Nodes, Performed(n)
  PROVE  RemoteInv'
<1>1. PICK k \in Keys : \E p \in 1 .. Started(k) :
           /\ k = inbox[n][1].key /\ p \in DOMAIN arrived[k]
           /\ arrived[k][p] = inbox[n][1].call
           /\ ran[n][k] <= p /\ p <= Started(k)
           /\ inbox[n][1].live => keys[k].in_flight /\ p = Started(k)
           /\ ran' = [ran EXCEPT ![n] = [ran[n] EXCEPT ![k] = p]]
           /\ replied' = IF inbox[n][1].live THEN replied \cup {k} ELSE replied
  BY PerformedPosition, Zenon
<1>2. PICK p \in 1 .. Started(k) :
           /\ k = inbox[n][1].key /\ p \in DOMAIN arrived[k]
           /\ arrived[k][p] = inbox[n][1].call
           /\ ran[n][k] <= p /\ p <= Started(k)
           /\ inbox[n][1].live => keys[k].in_flight /\ p = Started(k)
           /\ ran' = [ran EXCEPT ![n] = [ran[n] EXCEPT ![k] = p]]
           /\ replied' = IF inbox[n][1].live THEN replied \cup {k} ELSE replied
  BY <1>1, Zenon
<1>3. keys' = keys /\ arrived' = arrived /\ result' = result
  BY Zenon DEF Performed
<1>4. ASSUME NEW x \in Keys PROVE Started(x)' = Started(x) /\ Started(x) \in Nat
  <2>1. keys[x] \in KeyStates /\ arrived[x] \in Seq(Calls) /\ Line(keys[x], arrived[x], result)
    BY InLineIs, Zenon DEF CallerInv
  <2>. QED
    BY <1>3, <2>1, LineStarted, StartedIs, Zenon
<1>5. /\ inbox \in [Nodes -> Seq(Envelopes)] /\ replied \in SUBSET Keys
      /\ ran \in [Nodes -> [Keys -> Nat]]
      /\ \A m \in Nodes : \A x \in Keys : ran[m][x] <= Started(x)
      /\ \A x \in replied :
           keys[x].in_flight /\ \E m \in Nodes : ran[m][x] = Started(x)
  BY Zenon DEF RemoteInv
<1>6. p \in Nat
  OBVIOUS
<1>7. ASSUME NEW m \in Nodes, NEW x \in Keys
      PROVE  /\ ran'[m][x] = IF m = n /\ x = k THEN p ELSE ran[m][x]
             /\ ran[m][x] \in Nat /\ ran'[m][x] \in Nat
             /\ ran[m][x] <= ran'[m][x] /\ ran'[m][x] <= Started(x)'
  <2>1. ran[m][x] \in Nat /\ ran[m][x] <= Started(x)
    BY <1>5, Zenon
  <2>2. ran'[m][x] = IF m = n /\ x = k THEN p ELSE ran[m][x]
    BY <1>2, <1>5, Zenon
  <2>3. CASE m = n /\ x = k
    BY <1>2, <1>4, <1>6, <2>1, <2>2, <2>3, Zenon
  <2>4. CASE ~ (m = n /\ x = k)
    BY <1>4, <2>1, <2>2, <2>4
  <2>. QED
    BY <2>2, <2>3, <2>4, <2>1, Zenon
<1>8. inbox[n] \in Seq(Envelopes) /\ inbox[n] # << >> /\ inbox' = [inbox EXCEPT ![n] = Tail(inbox[n])]
  BY <1>5, Zenon DEF Performed
<1>9. /\ Tail(inbox[n]) \in Seq(Envelopes)
      /\ 1 \in DOMAIN inbox[n]
      /\ \A i \in DOMAIN Tail(inbox[n]) :
           /\ i \in Nat \ {0} /\ i + 1 \in DOMAIN inbox[n]
           /\ Tail(inbox[n])[i] = inbox[n][i + 1]
  BY <1>8
<1>10. inbox' \in [Nodes -> Seq(Envelopes)] /\ inbox'[n] = Tail(inbox[n])
       /\ \A m \in Nodes : m # n => inbox'[m] = inbox[m]
  BY <1>5, <1>8, <1>9, Zenon
<1>11. ASSUME NEW m \in Nodes, NEW i \in DOMAIN inbox'[m]
       PROVE  \E j \in DOMAIN inbox[m] :
                /\ inbox'[m][i] = inbox[m][j] /\ j = (IF m = n THEN i + 1 ELSE i)
                /\ i \in Nat
  <2>1. CASE m = n
    BY <1>9, <1>10, <2>1, Zenon
  <2>2. CASE m # n
    <3>1. inbox[m] \in Seq(Envelopes)
      BY <1>5, Zenon
    <3>. QED
      BY <1>10, <2>2, <3>1
  <2>. QED
    BY <2>1, <2>2, Zenon
<1>12. ran' \in [Nodes -> [Keys -> Nat]]
  BY <1>2, <1>5, <1>6, Zenon
<1>13. replied' \in SUBSET Keys
  BY <1>2, <1>5, Zenon
<1>14. ASSUME NEW x \in replied'
       PROVE  keys'[x].in_flight /\ \E m \in Nodes : ran'[m][x] = Started(x)'
  <2>0. x \in Keys
    BY <1>13, Zenon
  <2>1. CASE x \in replied
    <3>1. PICK m \in Nodes : ran[m][x] = Started(x)
      BY <1>5, <2>1, Zenon
    <3>2. ran[m][x] <= ran'[m][x] /\ ran'[m][x] <= Started(x)' /\ Started(x)' = Started(x)
          /\ ran'[m][x] \in Nat /\ Started(x) \in Nat
      BY <1>4, <1>7, <2>0, Zenon
    <3>. QED
      BY ONLY <1>3, <1>5, <2>1, <3>1, <3>2
  <2>2. CASE x \notin replied
    <3>1. x = k /\ inbox[n][1].live
      BY <1>2, <2>2, Zenon
    <3>2. keys[k].in_flight /\ p = Started(k)
      BY <1>2, <3>1, Zenon
    <3>3. ran'[n][k] = p /\ Started(k)' = Started(k)
      BY <1>4, <1>7, Zenon
    <3>. QED
      BY <1>3, <3>1, <3>2, <3>3, Zenon
  <2>. QED
    BY <2>1, <2>2, Zenon
<1>15. ASSUME NEW m \in Nodes, NEW i \in DOMAIN inbox[m]
       PROVE  /\ inbox[m][i] \in Envelopes /\ inbox[m][i].key \in Keys
              /\ Sent(m, inbox[m][i])
  <2>1. inbox[m] \in Seq(Envelopes) /\ Sent(m, inbox[m][i])
    BY <1>5, Zenon DEF RemoteInv
  <2>2. inbox[m][i] \in Envelopes
    BY <2>1, Element, Zenon
  <2>. QED
    BY <2>1, <2>2, Zenon DEF Envelopes
<1>16. ASSUME NEW m \in Nodes, NEW i \in DOMAIN inbox[m], NEW j \in DOMAIN inbox[m],
              i < j, NEW x \in Keys, inbox[m][i].key = x, inbox[m][j].key = x,
              NEW a \in DOMAIN arrived[x], NEW b \in DOMAIN arrived[x],
              arrived[x][a] = inbox[m][i].call, arrived[x][b] = inbox[m][j].call
       PROVE  a <= b
  <2>1. \A u, v \in DOMAIN arrived[inbox[m][i].key] :
          /\ arrived[inbox[m][i].key][u] = inbox[m][i].call
          /\ arrived[inbox[m][i].key][v] = inbox[m][j].call
          => u <= v
    BY <1>16, ZenonT(30) DEF RemoteInv
  <2>. QED
    BY <1>16, <2>1, Zenon
<1>17. ASSUME NEW m \in Nodes, NEW i \in DOMAIN inbox'[m]
       PROVE  Sent(m, inbox[m][i])'
  <2>1. PICK j \in DOMAIN inbox[m] :
          /\ inbox'[m][i] = inbox[m][j] /\ j = (IF m = n THEN i + 1 ELSE i) /\ i \in Nat
    BY <1>11, Zenon
  <2>. DEFINE e == inbox'[m][i]
  <2>2. PICK x \in Keys : x = e.key
    BY <1>15, <2>1, Zenon
  <2>3. PICK q \in 1 .. Started(x) :
          /\ arrived[x][q] = e.call /\ ran[m][x] <= q
          /\ e.live => keys[x].in_flight /\ q = Started(x)
    BY <1>15, <2>1, <2>2 DEF Sent
  <2>4. q \in Nat /\ q \in DOMAIN arrived[x]
    <3>1. keys[x] \in KeyStates /\ arrived[x] \in Seq(Calls) /\ Line(keys[x], arrived[x], result)
      BY InLineIs, Zenon DEF CallerInv
    <3>. QED
      BY <3>1, LineStarted, StartedIs
  <2>5. ran'[m][x] <= q
    <3>1. CASE m = n /\ x = k
      <4>1. 1 < j /\ 1 \in DOMAIN inbox[n]
        <5>1. i # 0
          BY <1>9, <1>10, <3>1, Zenon
        <5>. QED
          BY <1>9, <2>1, <3>1, <5>1
      <4>2. p <= q
        BY ONLY <1>2, <1>16, <2>1, <2>2, <2>3, <2>4, <3>1, <4>1
      <4>. QED
        BY <1>7, <3>1, <4>2, Zenon
    <3>2. CASE ~ (m = n /\ x = k)
      BY <1>7, <2>3, <3>2, Zenon
    <3>. QED
      BY <3>1, <3>2, Zenon
  <2>. HIDE DEF e
  <2>6. \E r \in 1 .. Started(x)' :
          /\ arrived'[x][r] = e.call /\ ran'[m][x] <= r
          /\ e.live => keys'[x].in_flight /\ r = Started(x)'
    BY <1>3, <1>4, <2>3, <2>5, Zenon
  <2>. QED
    BY <2>2, <2>6, Zenon DEF Sent, e
<1>18. ASSUME NEW m \in Nodes, NEW i \in DOMAIN inbox'[m], NEW j \in DOMAIN inbox'[m],
              i < j, inbox'[m][i].key = inbox'[m][j].key,
              NEW a \in DOMAIN arrived'[inbox'[m][i].key],
              NEW b \in DOMAIN arrived'[inbox'[m][i].key],
              arrived'[inbox'[m][i].key][a] = inbox'[m][i].call,
              arrived'[inbox'[m][i].key][b] = inbox'[m][j].call
       PROVE  a <= b
  <2>1. PICK u \in DOMAIN inbox[m] :
          /\ inbox'[m][i] = inbox[m][u] /\ u = (IF m = n THEN i + 1 ELSE i) /\ i \in Nat
    BY <1>11, Zenon
  <2>2. PICK v \in DOMAIN inbox[m] :
          /\ inbox'[m][j] = inbox[m][v] /\ v = (IF m = n THEN j + 1 ELSE j) /\ j \in Nat
    BY <1>11, Zenon
  <2>3. u < v
    BY ONLY <1>18, <2>1, <2>2
  <2>4. inbox[m][u].key \in Keys
    BY <1>15, Zenon
  <2>. QED
    BY ONLY <1>3, <1>16, <1>18, <2>1, <2>2, <2>3, <2>4, m \in Nodes
<1>19. OkPerformed'
  <2>. SUFFICES ASSUME NEW x \in Keys, NEW i \in DOMAIN arrived[x],
                       result[arrived[x][i]] = "ok"
                PROVE  \E m \in Nodes : ran'[m][x] >= i
    BY <1>3, Zenon DEF OkPerformed
  <2>1. PICK m \in Nodes : ran[m][x] >= i
    BY Zenon DEF RemoteInv, OkPerformed
  <2>2. i \in Nat
    <3>1. arrived[x] \in Seq(Calls)
      BY Zenon DEF CallerInv
    <3>. QED
      BY <3>1, SMTT(30)
  <2>. QED
    BY <1>7, <2>1, <2>2
<1>. QED
  BY ONLY <1>7, <1>10, <1>12, <1>13, <1>14, <1>17, <1>18, <1>19, ZenonT(30) DEF RemoteInv

-----------------------------------------------------------------------------
(* The theorems.                                                           *)

\* The invariant holds at the start.
LEMMA InitHolds == Init => CallerInv
<1>. SUFFICES ASSUME Init PROVE CallerInv
  BY Zenon
<1>. DEFINE new == [routes |-> << >>, cursor |-> 1, in_flight |-> FALSE,
                    call |-> None, left |-> 0, queue |-> << >>]
<1>1. /\ keys = [k \in Keys |-> new] /\ conts = [k \in Keys |-> {}]
      /\ lookups = << >> /\ arrived = [k \in Keys |-> << >>]
      /\ result = [c \in Calls |-> "none"]
  BY Zenon DEF Init
<1>2. << >> \in Seq([node : Nodes, target : BOOLEAN, healthy : BOOLEAN])
      /\ << >> \in Seq(Calls) /\ << >> \in Seq([key : Keys, idx : Nat])
  OBVIOUS
<1>3. new \in KeyStates /\ Chained(new, {}) /\ new.in_flight = FALSE /\ new.queue = << >>
  BY <1>2 DEF KeyStates, Chained
<1>. HIDE DEF new
<1>4. Line(new, << >>, result)
  BY <1>3 DEF Line, SettledOf
<1>5. \A k \in Keys : InLine(k)
  BY <1>1, <1>4, InLineIs, Zenon
<1>. QED
  BY <1>1, <1>2, <1>3, <1>5 DEF CallerInv

\* Every step keeps it.
LEMMA NextKeeps == CallerInv /\ [Next]_vars => CallerInv'
<1>. SUFFICES ASSUME CallerInv, [Next]_vars PROVE CallerInv'
  BY Zenon
<1>1. ASSUME NEW c \in Calls, enqueue(c) PROVE CallerInv'
  BY <1>1, EnqueueKeeps, Zenon
<1>2. ASSUME NEW k \in Keys, KeyStep(k) PROVE CallerInv'
  BY <1>2, ResolvedWorks, ResolveFailsWorks, ConnectedKeeps, StepFailsWorks,
     AnsweredWorks, RetryTickWorks, WorksKeeps, Zenon DEF KeyStep
<1>3. CASE LookedUp
  BY <1>3, LookedUpWorks, WorksKeeps, Zenon
<1>4. ASSUME keys' = keys, conts' = conts, lookups' = lookups, arrived' = arrived,
             result' = result
      PROVE  CallerInv'
  <2>1. \A x \in Keys : InLine(x)'
    BY <1>4, InLineIs, Zenon DEF CallerInv
  <2>2. /\ keys' \in [Keys -> KeyStates] /\ conts' \in [Keys -> SUBSET Conts]
        /\ lookups' \in Seq([key : Keys, idx : Nat])
        /\ arrived' \in [Keys -> Seq(Calls)]
        /\ result' \in [Calls -> {"none", "ok", "error"}]
        /\ \A k \in Keys : Chained(keys'[k], conts'[k])
    BY <1>4, Zenon DEF CallerInv
  <2>3. /\ \A i \in DOMAIN lookups' :
             conts'[lookups'[i].key] = {Cont("lookup", lookups'[i].idx)}
        /\ \A i, j \in DOMAIN lookups' : lookups'[i].key = lookups'[j].key => i = j
        /\ \A k \in Keys : \A i, j \in DOMAIN arrived'[k] :
             /\ KeyOf[arrived'[k][i]] = k
             /\ arrived'[k][i] = arrived'[k][j] => i = j
    BY ONLY <1>4, CallerInv DEF CallerInv
  <2>. QED
    BY <2>1, <2>2, <2>3, Zenon DEF CallerInv
<1>5. ASSUME NEW n \in Nodes, Performed(n) PROVE CallerInv'
  BY <1>4, <1>5, Zenon DEF Performed
<1>6. CASE UNCHANGED vars
  BY <1>4, <1>6, Zenon DEF vars
<1>. QED
  BY <1>1, <1>2, <1>3, <1>5, <1>6, Zenon DEF Next

\* The calls of a key stand in one line: answered, in flight, waiting; and a
\* key waits for one message exactly when it has a call in flight.
THEOREM CallerInvariant == Spec => []CallerInv
  BY InitHolds, NextKeeps, PTL DEF Spec

\* One request or timer per busy key, whose candidate is still in the list
\* when it is answered (the continuations of remote_caller.cpp keep an index).
THEOREM KeysChained == Spec => []OneChain
<1>1. CallerInv => OneChain
  <2>. SUFFICES ASSUME CallerInv, NEW k \in Keys PROVE Chained(keys[k], conts[k])
    BY Zenon DEF OneChain
  <2>. QED
    BY Zenon DEF CallerInv
<1>. QED
  BY <1>1, CallerInvariant, PTL

\* The calls of a key are answered in the order in which they came, whatever
\* fails over, times out or is tried again.
THEOREM AnswersInOrder == Spec => []AnsweredInOrder
<1>1. CallerInv => AnsweredInOrder
  <2>. SUFFICES ASSUME CallerInv, NEW k \in Keys,
                       NEW i \in DOMAIN arrived[k], NEW j \in DOMAIN arrived[k],
                       i < j, result[arrived[k][j]] # "none"
                PROVE  result[arrived[k][i]] # "none"
    BY Zenon DEF AnsweredInOrder
  <2>1. arrived[k] \in Seq(Calls) /\ Line(keys[k], arrived[k], result)
    BY InLineIs, Zenon DEF CallerInv
  <2>2. PICK n \in Nat : n = SettledOf(keys[k], arrived[k])
    BY <2>1, Zenon DEF Line
  <2>3. i \in Int /\ j \in Int
    BY <2>1
  <2>4. \A x \in DOMAIN arrived[k] : result[arrived[k][x]] # "none" <=> x <= n
    BY <2>1, <2>2, Zenon DEF Line
  <2>. QED
    BY <2>3, <2>4
<1>. QED
  BY <1>1, CallerInvariant, PTL
\* The mailboxes are in order at the start.
LEMMA RemoteInit == Init => RemoteInv
<1>. SUFFICES ASSUME Init PROVE RemoteInv
  OBVIOUS
<1>1. /\ inbox = [n \in Nodes |-> << >>] /\ replied = {}
      /\ ran = [n \in Nodes |-> [k \in Keys |-> 0]]
      /\ arrived = [k \in Keys |-> << >>]
  BY Zenon DEF Init
<1>2. \A k \in Keys : Started(k) = 0
  BY DEF Init, Started
<1>3. OkPerformed
  BY <1>1 DEF OkPerformed
<1>4. inbox \in [Nodes -> Seq(Envelopes)]
  BY <1>1
<1>. QED
  BY <1>1, <1>2, <1>3, <1>4 DEF RemoteInv

\* Every step keeps the mailboxes in order.
LEMMA RemoteNext == CallerInv /\ CallerInv' /\ RemoteInv /\ [Next]_vars => RemoteInv'
<1>. SUFFICES ASSUME CallerInv, CallerInv', RemoteInv, [Next]_vars PROVE RemoteInv'
  BY Zenon
<1>1. ASSUME NEW c \in Calls, enqueue(c) PROVE RemoteInv'
  BY <1>1, EnqueueRemote, Zenon
<1>2. ASSUME NEW k \in Keys, KeyStep(k) PROVE RemoteInv'
  BY <1>2, ResolvedWorks, ResolveFailsWorks, ConnectedRemote, StepFailsWorks,
     AnsweredWorks, RetryTickWorks, WorksRemote, Zenon DEF KeyStep
<1>3. CASE LookedUp
  BY <1>3, LookedUpWorks, WorksRemote, Zenon
<1>4. ASSUME NEW n \in Nodes, Performed(n) PROVE RemoteInv'
  BY <1>4, PerformedRemote, Zenon
<1>5. CASE UNCHANGED vars
  <2>1. /\ keys' = keys /\ arrived' = arrived /\ result' = result
        /\ inbox' = inbox /\ replied' = replied /\ ran' = ran
    BY <1>5, Zenon DEF vars
  <2>2. OkPerformed'
    BY <2>1, Zenon DEF RemoteInv, OkPerformed
  <2>3. \A n \in Nodes : \A i \in DOMAIN inbox'[n] : Sent(n, inbox[n][i])'
    <3>. SUFFICES ASSUME NEW n \in Nodes, NEW i \in DOMAIN inbox[n]
                  PROVE  Sent(n, inbox[n][i])'
      BY <2>1, Zenon
    <3>1. Sent(n, inbox[n][i])
      BY Zenon DEF RemoteInv
    <3>. QED
      BY <2>1, <3>1, Zenon DEF Sent, Started
  <2>4. /\ \A n \in Nodes : \A k \in Keys : ran'[n][k] <= Started(k)'
        /\ \A k \in replied' :
             keys'[k].in_flight /\ \E n \in Nodes : ran'[n][k] = Started(k)'
    BY <2>1, Zenon DEF RemoteInv, Started
  <2>5. /\ inbox' \in [Nodes -> Seq(Envelopes)] /\ replied' \in SUBSET Keys
        /\ ran' \in [Nodes -> [Keys -> Nat]]
        /\ \A n \in Nodes : \A i, j \in DOMAIN inbox'[n] :
             i < j /\ inbox'[n][i].key = inbox'[n][j].key =>
               \A p, q \in DOMAIN arrived'[inbox'[n][i].key] :
                 /\ arrived'[inbox'[n][i].key][p] = inbox'[n][i].call
                 /\ arrived'[inbox'[n][i].key][q] = inbox'[n][j].call
                 => p <= q
    BY ONLY <2>1, RemoteInv DEF RemoteInv
  <2>. QED
    BY <2>2, <2>3, <2>4, <2>5, Zenon DEF RemoteInv
<1>. QED
  BY <1>1, <1>2, <1>3, <1>4, <1>5, Zenon DEF Next

\* The mailboxes of the services hold the calls of a key in their order of
\* arrival, and a reply that is waited for is that of the call in flight.
THEOREM RemoteInvariant == Spec => []RemoteInv
<1>1. Init => CallerInv /\ RemoteInv
  BY InitHolds, RemoteInit, Zenon
<1>2. CallerInv /\ RemoteInv /\ [Next]_vars => CallerInv' /\ RemoteInv'
  BY NextKeeps, RemoteNext, Zenon
<1>. QED
  BY <1>1, <1>2, PTL DEF Spec

\* A call reported as successful was performed, although replies may be late
\* and calls are sent again after a timeout (do_call of remote_caller.cpp).
THEOREM SuccessIsPerformed == Spec => []OkPerformed
<1>1. RemoteInv => OkPerformed
  BY Zenon DEF RemoteInv
<1>. QED
  BY <1>1, RemoteInvariant, PTL

\* A service performs the calls of a key in the order in which they came,
\* those that were given up and sent again included.
THEOREM PerformsInOrder == Spec => PerformedInOrder
<1>1. CallerInv /\ RemoteInv /\ [Next]_vars =>
        [\A n \in Nodes : \A k \in Keys : ran'[n][k] >= ran[n][k]]_vars
  <2>. SUFFICES ASSUME CallerInv, RemoteInv, [Next]_vars
                PROVE  \A n \in Nodes : \A k \in Keys : ran'[n][k] >= ran[n][k]
    BY Zenon
  <2>. QED
    BY RanGrows, Zenon
<1>. QED
  BY <1>1, CallerInvariant, RemoteInvariant, PTL DEF Spec, PerformedInOrder
=============================================================================
