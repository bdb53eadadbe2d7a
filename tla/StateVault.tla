----------------------------- MODULE StateVault -----------------------------
(***************************************************************************)
(* What the checkpoints promise: each plugin has one saved state, which    *)
(* only a save of that plugin changes, at once and to a state that the     *)
(* plugin was in, and which its next start gets.  The end of the process   *)
(* does not touch it.  When the machine goes down a saved state that had   *)
(* not settled may be lost as a whole, for the one before it or for none.  *)
(***************************************************************************)
CONSTANTS Plugins, States, Empty

VARIABLES
  on,       \* plugins that run
  work,     \* per plugin: the state it works with
  pending,  \* per plugin: states that it was asked for and not yet saved
  vault,    \* per plugin: the saved state
  stable    \* per plugin: the saved state that the machine cannot lose

vars == <<on, work, pending, vault, stable>>

Nothing == [p \in Plugins |-> Empty]

Init ==
  /\ on = {} /\ work = Nothing
  /\ pending = [p \in Plugins |-> {}]
  /\ vault = Nothing /\ stable = Nothing

\* A plugin starts with its saved state, or with none when that cannot be had
\* in time.
Resume(p) ==
  /\ p \notin on /\ on' = on \cup {p}
  /\ \E d \in {vault[p], Empty} : work' = [work EXCEPT ![p] = d]
  /\ UNCHANGED <<pending, vault, stable>>

Work(p) ==
  /\ p \in on
  /\ \E d \in States \cup {Empty} : work' = [work EXCEPT ![p] = d]
  /\ UNCHANGED <<on, pending, vault, stable>>

Snapshot(p) ==
  /\ p \in on /\ work[p] # Empty
  /\ pending' = [pending EXCEPT ![p] = @ \cup {work[p]}]
  /\ UNCHANGED <<on, work, vault, stable>>

\* A save succeeds, or fails and changes nothing.
Save(p) ==
  /\ \E ds \in SUBSET pending[p] : pending' = [pending EXCEPT ![p] = ds]
  /\ \/ \E d \in pending[p] : vault' = [vault EXCEPT ![p] = d]
     \/ UNCHANGED vault
  /\ UNCHANGED <<on, work, stable>>

Settle(p) ==
  /\ stable' = [stable EXCEPT ![p] = vault[p]]
  /\ UNCHANGED <<on, work, pending, vault>>

Ends ==
  /\ on' = {} /\ work' = Nothing
  /\ pending' = [p \in Plugins |-> {}]
  /\ \/ UNCHANGED <<vault, stable>>
     \/ /\ \A p \in Plugins :
             vault'[p] \in IF stable[p] = vault[p] THEN {vault[p]}
                           ELSE {vault[p], stable[p], Empty}
        /\ stable' = vault'

Next ==
  \/ \E p \in Plugins :
       Resume(p) \/ Work(p) \/ Snapshot(p) \/ Save(p) \/ Settle(p)
  \/ Ends

Spec == Init /\ [][Next]_vars
=============================================================================
