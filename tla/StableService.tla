--------------------------- MODULE StableService ---------------------------
(***************************************************************************)
(* What callers are promised of a plugin's services: a call is carried out *)
(* at most once, on a state that never forgets an acknowledged call, and   *)
(* one client's calls to one service in the order they were made; or it    *)
(* is answered with an error.  A hot reload is invisible here.             *)
(***************************************************************************)
EXTENDS Naturals, Sequences

CONSTANT Calls    \* records with fields from, n (the client's count) and to

VARIABLES
  asked,    \* calls made
  done,     \* calls that were carried out and acknowledged
  errors,   \* calls that were answered with an error
  state     \* the calls carried out, in order

vars == <<asked, done, errors, state>>

Init == asked = {} /\ done = {} /\ errors = {} /\ state = << >>

Open == asked \ (done \cup errors)

\* c was made before d by the same client to the same service.
Before(c, d) == c.from = d.from /\ c.to = d.to /\ c.n < d.n

\* A call is made.  It is answered at once when the service is gone.
Ask(c) ==
  /\ c \notin asked
  /\ asked' = asked \cup {c}
  /\ errors' \in {errors, errors \cup {c}}
  /\ UNCHANGED <<done, state>>

\* A call is carried out and acknowledged.
Do(c) ==
  /\ c \in Open
  /\ \A d \in Open : ~Before(d, c)
  /\ done' = done \cup {c}
  /\ state' = Append(state, c)
  /\ UNCHANGED <<asked, errors>>

\* Some calls are answered with an error.
Fail(S) ==
  /\ S # {}
  /\ errors' = errors \cup S
  /\ UNCHANGED <<asked, done, state>>

Next ==
  \/ \E c \in Calls : Ask(c) \/ Do(c)
  \/ \E S \in SUBSET Open : Fail(S)

Spec == Init /\ [][Next]_vars
=============================================================================
