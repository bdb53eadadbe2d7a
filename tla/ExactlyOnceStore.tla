-------------------------- MODULE ExactlyOnceStore --------------------------
(***************************************************************************)
(* What an entity store promises its callers, whichever backend it uses: a *)
(* save takes effect as a whole and at most once per request id, whoever   *)
(* sends it again; a success reports the versions of that one commit; and  *)
(* an answer other than commit_unknown says what has become of the save.   *)
(***************************************************************************)
EXTENDS Integers, Sequences
LOCAL INSTANCE SequencesExt

CONSTANTS
  Saves,      \* save requests as they are sent; a retry is one of its own
  Request,    \* of each: id, sig (its content), changes
  FirstRows   \* version of each entity at the start, 0 when there is none

VARIABLES
  rows,     \* version of each entity
  ledger,   \* per committed request id: by whom, its content, its versions
  answers   \* per save: the answer, or NoAnswer

vars == <<rows, ledger, answers>>

NoAnswer == [code |-> "none", vers |-> << >>]
Failures == {"not_found", "conflict", "invalid_request", "unavailable",
             "internal_error"}

\* What one change does to the rows: a version of -1 is no version at all.
Changed(rs, ch) ==
  LET v == rs[ch.entity]
      matches == ch.expected \in {-1, v}
      creates == ch.create /\ ch.expected \in {-1, 0}
  IN  CASE ch.op = "insert" /\ v = 0 -> 1
        [] ch.op = "delete" /\ v # 0 /\ matches -> 0
        [] ch.op = "patch" /\ v # 0 /\ matches -> v + 1
        [] ch.op = "patch" /\ v = 0 /\ creates -> 1
        [] OTHER -> -1

\* All changes of a save, one after the other.
Effect(rs, changes) ==
  LET apply(acc, ch) ==
        LET v == Changed(acc.rows, ch) IN
        IF ~acc.ok \/ v = -1 THEN [acc EXCEPT !.ok = FALSE]
        ELSE [ok |-> TRUE, vers |-> Append(acc.vers, v),
              rows |-> [acc.rows EXCEPT ![ch.entity] = v]]
  IN  FoldLeft(apply, [ok |-> TRUE, vers |-> << >>, rows |-> rs], changes)

Init ==
  /\ rows = FirstRows
  /\ ledger = << >>
  /\ answers = [s \in Saves |-> NoAnswer]

\* The save of s takes effect; a caller that does not know may see that
\* later.
Commit(s) ==
  LET e == Effect(rows, Request[s].changes)
      entry == [by |-> s, sig |-> Request[s].sig, vers |-> e.vers]
      id == Request[s].id
  IN
  /\ answers[s].code \in {"none", "commit_unknown"}
  /\ id \notin DOMAIN ledger /\ e.ok
  /\ rows' = e.rows
  /\ ledger' = [i \in DOMAIN ledger \cup {id} |->
                  IF i = id THEN entry ELSE ledger[i]]

\* What s may be answered: a success is the recorded one, and a failure means
\* that this save has not been and will not be applied.
Truthful(s, a) ==
  LET known == Request[s].id \in DOMAIN ledger'
      entry == ledger'[Request[s].id]
  IN  \/ /\ a.code = "ok"
         /\ known /\ entry.sig = Request[s].sig /\ a.vers = entry.vers
      \/ a.code = "commit_unknown"
      \/ a.code \in Failures /\ ~(known /\ entry.by = s)

\* At most one save takes effect in a step; any number may be answered.
Next ==
  /\ UNCHANGED <<rows, ledger>> \/ \E s \in Saves : Commit(s)
  /\ \A s \in Saves :
       \/ answers'[s] = answers[s]
       \/ answers[s] = NoAnswer /\ Truthful(s, answers'[s])

Spec == Init /\ [][Next]_vars
=============================================================================
