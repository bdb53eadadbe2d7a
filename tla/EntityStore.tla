---------------------------- MODULE EntityStore ----------------------------
(***************************************************************************)
(* The SQL entity store: entity_store_actor and its recovery.  A save is a *)
(* chain of requests to a SQL plugin (idempotency table, BEGIN, reserve    *)
(* the request id, replay or apply the changes, record the result, COMMIT, *)
(* or a rollback by key), one chain per partition, and is started again    *)
(* from the beginning when the connection or the plugin fails.             *)
(*                                                                         *)
(* The plugin is external here: each attempt has a transaction of its own, *)
(* and each request of it may be answered, fail, lose its connection, or   *)
(* not be answered in time.  A COMMIT or a rollback that was not answered  *)
(* may still be executed afterwards, behind the store's back; a statement  *)
(* that was not answered was executed or not, and is followed by a         *)
(* rollback in any case.                                                   *)
(*                                                                         *)
(* A request and its continuation are one step of the chain: nobody else   *)
(* looks at the state of the chain in between.  Where the code looks at    *)
(* the clock, the deadline of the request may have passed or not.          *)
(***************************************************************************)
EXTENDS Integers, Sequences, FiniteSets

CONSTANTS
  Saves,        \* save requests as they are sent
  Loads,        \* load requests
  Entities,
  Request,      \* of each save: id, sig, partition, changes
  FirstRows,    \* version of each entity at the start
  MaxAttempts,  \* save_retry_attempts and load_retry_attempts
  Limits,       \* the values of max_pending_requests to consider
  MaxRequests,  \* bound: requests that are sent at all
  ExitInRetry   \* the actor may be killed while a save whose COMMIT is
                \* uncertain has started again and not yet sent BEGIN

Partitions == {Request[s].partition : s \in Saves}
Keys == Saves \X (1 .. MaxAttempts)

ASSUME StoreAssumption ==
  /\ MaxAttempts \in Nat \ {0}
  /\ Limits \subseteq Nat /\ MaxRequests \in Nat
  /\ ExitInRetry \in BOOLEAN
  /\ Saves \cap Loads = {}

VARIABLES
  \* entity_store_actor
  max_pending, \* settings_.max_pending_requests
  alive,     \* the actor has not exited
  schema,    \* "loading", "ready" or "broken" (config_error)
  waiters,   \* schema_waiters_
  queues,    \* save_queues_
  in_flight, \* in_flight_
  drain,     \* "no", "waiting" (draining_, a waiter) or "acked"
  ctx,       \* save_context of each save
  loads,     \* load_context of each load
  answers,   \* what each save was answered
  \* the SQL plugin and its database
  rows,      \* committed version of each entity
  ledger,    \* committed idempotency records
  tx,        \* the transaction of each attempt
  late       \* per attempt: the COMMIT or rollback that the store no
             \* longer waits for

vars == <<max_pending, alive, schema, waiters, queues, in_flight, drain, ctx,
          loads, answers, rows, ledger, tx, late>>
dbVars == <<max_pending, rows, ledger, tx, late>>
frontVars == <<max_pending, alive, schema, waiters, queues, in_flight, drain>>

NoAnswer == [code |-> "none", vers |-> << >>]
Refusal(code) == [code |-> code, vers |-> << >>]
Fresh == [pc |-> "new", attempt |-> 0, begin_sent |-> FALSE, index |-> 1,
          vers |-> << >>, retry |-> FALSE, uncertain |-> FALSE,
          result |-> NoAnswer]
Completed == [Fresh EXCEPT !.pc = "done"]
Unwritten == [e \in Entities |-> -1]
NoTx == [open |-> FALSE, reserved |-> FALSE, ws |-> Unwritten, vers |-> << >>]

Rollbacks == {"rollback", "rollback_replay"}

Init ==
  /\ max_pending \in Limits
  /\ alive = TRUE
  /\ schema \in {"loading", "ready"}
  /\ waiters = << >>
  /\ queues = [p \in Partitions |-> << >>]
  /\ in_flight = 0
  /\ drain = "no"
  /\ ctx = [s \in Saves |-> Fresh]
  /\ loads = [l \in Loads |-> [pc |-> "new", attempt |-> 0]]
  /\ answers = [s \in Saves |-> NoAnswer]
  /\ rows = FirstRows
  /\ ledger = << >>
  /\ tx = [k \in Keys |-> NoTx]
  /\ late = [k \in Keys |-> "none"]

-----------------------------------------------------------------------------
(* The end of a save.                                                      *)

\* start_save, when the deadline has not passed.
start_save(x) ==
  [x EXCEPT !.attempt = @ + 1, !.begin_sent = FALSE, !.retry = FALSE,
            !.index = 1, !.vers = << >>, !.pc = "ddl"]

\* notify_drained, when n requests are left in flight.
notify_drained(n, loading) ==
  drain' = IF drain = "waiting" /\ n = 0 /\ ~loading THEN "acked" ELSE drain

\* finish_save: answer a, and start the next save of the partition.  The
\* next n are answered in passing, when their deadlines have passed.
finish_save(s, a) ==
  LET p == Request[s].partition
      rest == Tail(queues[p])
  IN
  \E n \in 0 .. Len(rest) :
    LET over == {rest[i] : i \in 1 .. n}
        left == SubSeq(rest, n + 1, Len(rest))
        count == in_flight - 1 - n
    IN
    /\ queues' = [queues EXCEPT ![p] = left]
    /\ in_flight' = count
    /\ notify_drained(count, schema = "loading")
    /\ answers' = [t \in Saves |-> CASE t = s -> a
                                     [] t \in over -> Refusal("unavailable")
                                     [] OTHER -> answers[t]]
    /\ ctx' = [t \in Saves |->
         CASE t \in over \cup {s} -> Completed
           [] left # << >> /\ t = Head(left) -> start_save(ctx[t])
           [] OTHER -> ctx[t]]
    /\ UNCHANGED <<max_pending, alive, schema, waiters>>

\* retry_or_finish: the delay may not fit before the deadline.
retry_or_finish(s, x) ==
  LET a == IF x.uncertain THEN Refusal("commit_unknown") ELSE x.result IN
  \/ finish_save(s, a)
  \/ /\ x.retry /\ x.attempt < MaxAttempts
     /\ ctx' = [ctx EXCEPT ![s] = [x EXCEPT !.pc = "backoff",
                                            !.result = NoAnswer]]
     /\ UNCHANGED <<frontVars, answers>>

\* The chain of s goes on with context x.
Continue(s, x) ==
  IF x.pc = "settle" THEN retry_or_finish(s, x)
  ELSE ctx' = [ctx EXCEPT ![s] = x] /\ UNCHANGED <<frontVars, answers>>

\* Mutant: a BEGIN that was not answered is taken for one that failed.
RollbackIfBegun(x, code) ==
  [x EXCEPT !.pc = IF x.begin_sent /\ x.pc # "begin" THEN "rollback" ELSE "settle",
            !.result = Refusal(code), !.vers = << >>, !.index = 1]

\* rollback: by key, when BEGIN was sent.
rollback(x, code) ==
  [x EXCEPT !.pc = IF x.begin_sent THEN "rollback" ELSE "settle",
            !.result = Refusal(code), !.vers = << >>, !.index = 1]

\* fail_database, with a connection error or not, and fail_transport.
fail_database(x, connection, fallback) ==
  rollback([x EXCEPT !.retry = connection,
                     !.uncertain = @ \/ fallback = "commit_unknown"],
           IF connection THEN "unavailable" ELSE fallback)
\* Mutant: the answer of the last attempt is given, whatever was before.
FailTransportCertain(x, fallback) ==
  rollback([x EXCEPT !.retry = TRUE], fallback)
fail_transport(x, fallback) ==
  rollback([x EXCEPT !.retry = TRUE,
                     !.uncertain = @ \/ fallback = "commit_unknown"], fallback)

-----------------------------------------------------------------------------
(* The SQL plugin, external: see SqlService.                               *)

ChangeOf(k, i) == Request[k[1]].changes[i]
IdOf(k) == Request[k[1]].id
View(k, e) == IF tx[k].ws[e] # -1 THEN tx[k].ws[e] ELSE rows[e]

\* Locks of other transactions that are still open.
Locked(k, e) == \E o \in Keys \ {k} : tx[o].ws[e] # -1
Reserved(k) ==
  \E o \in Keys \ {k} : tx[o].reserved /\ IdOf(o) = IdOf(k)

\* The UPDATE or DELETE of a change finds its row.
Matches(k, i) ==
  LET c == ChangeOf(k, i)
      v == View(k, c.entity)
  IN  v # 0 /\ c.expected \in {-1, v}

\* Request m of attempt k succeeds.
Performs(k, m) ==
  \/ /\ m.op \in {"ddl", "replay", "exists", "version"}
     /\ UNCHANGED <<rows, ledger, tx>>
  \/ /\ m.op = "begin"
     /\ tx' = [tx EXCEPT ![k].open = TRUE]
     /\ UNCHANGED <<rows, ledger>>
  \/ /\ m.op = "reserve" /\ ~Reserved(k)
     /\ tx' = [tx EXCEPT ![k].reserved = IdOf(k) \notin DOMAIN ledger]
     /\ UNCHANGED <<rows, ledger>>
  \/ /\ m.op = "change"
     /\ LET c == ChangeOf(k, m.index) IN
        /\ ~Locked(k, c.entity)
        /\ tx' = IF Matches(k, m.index)
                   THEN [tx EXCEPT ![k].ws[c.entity] =
                           IF c.op = "delete" THEN 0 ELSE View(k, c.entity) + 1]
                   ELSE tx
     /\ UNCHANGED <<rows, ledger>>
  \/ /\ m.op = "insert"
     /\ LET e == ChangeOf(k, m.index).entity IN
        /\ ~Locked(k, e) /\ View(k, e) = 0
        /\ tx' = [tx EXCEPT ![k].ws[e] = 1]
     /\ UNCHANGED <<rows, ledger>>
  \/ /\ m.op = "finish"
     /\ tx' = [tx EXCEPT ![k].vers = m.vers]
     /\ UNCHANGED <<rows, ledger>>
  \/ /\ m.op = "commit"
     /\ rows' = [e \in Entities |-> View(k, e)]
     /\ ledger' = [i \in DOMAIN ledger \cup {IdOf(k)} |->
          IF i = IdOf(k)
            THEN [by |-> k[1], sig |-> Request[k[1]].sig, vers |-> tx[k].vers]
            ELSE ledger[i]]
     /\ tx' = [tx EXCEPT ![k] = NoTx]

\* The transaction of attempt k is rolled back, because it was asked for, an
\* error happened or the connection is gone.
Breaks(k) ==
  /\ tx' = [tx EXCEPT ![k] = NoTx]
  /\ UNCHANGED <<rows, ledger>>

\* A request that nobody waits for is executed, or fails.
Late(k) ==
  /\ late[k] # "none"
  /\ late' = [late EXCEPT ![k] = "none"]
  /\ \/ late[k] = "commit" /\ Performs(k, [op |-> "commit"])
     \/ Breaks(k)
  /\ UNCHANGED <<frontVars, ctx, loads, answers>>

-----------------------------------------------------------------------------
(* The chain of a save: one request and its continuation.                  *)

Key(s) == <<s, ctx[s].attempt>>
Message(x) == [op |-> x.pc, index |-> x.index, vers |-> x.vers]
Steps == {"ddl", "begin", "reserve", "replay", "change", "exists", "insert",
          "version", "finish", "commit"}

\* The code of a failure that is no connection error.
Fallback(pc) ==
  CASE pc \in {"ddl", "begin"} -> "unavailable"
    [] pc \in {"replay", "commit"} -> "commit_unknown"
    [] pc = "insert" -> "conflict"
    [] OTHER -> "internal_error"

\* begin_transaction and apply_next_change.
begin_transaction(x) == [x EXCEPT !.pc = "begin", !.begin_sent = TRUE]
apply_next_change(s, x) ==
  [x EXCEPT !.pc =
    CASE x.index > Len(Request[s].changes) -> "finish"
      [] x.index <= Len(Request[s].changes)
           /\ ChangeOf(<<s, 1>>, x.index).op = "insert" -> "insert"
      [] OTHER -> "change"]
next_change(s, x, v) ==
  apply_next_change(s, [x EXCEPT !.vers = Append(@, v), !.index = @ + 1])

\* The record of an earlier commit of the same request id.
replay_request(s, x) ==
  LET r == ledger[Request[s].id] IN
  IF r.sig # Request[s].sig THEN rollback(x, "conflict")
  ELSE [x EXCEPT !.pc = "rollback_replay",
                 !.result = [code |-> "ok", vers |-> r.vers]]

\* The continuation of a change that was executed.
change_applied(s, x) ==
  LET k == Key(s)
      c == ChangeOf(k, x.index)
  IN  IF Matches(k, x.index)
        THEN IF c.op = "delete" THEN next_change(s, x, 0)
             ELSE [x EXCEPT !.pc = "version"]
      ELSE IF c.create /\ c.expected \in {-1, 0}
        THEN [x EXCEPT !.pc = "insert"]
      ELSE [x EXCEPT !.pc = "exists"]

\* Each continuation, after the request succeeded.
Succeeded(s, x) ==
  LET k == Key(s) IN
  CASE x.pc = "ddl" -> begin_transaction(x)
    [] x.pc = "begin" -> [x EXCEPT !.pc = "reserve"]
    [] x.pc = "reserve" -> IF IdOf(k) \in DOMAIN ledger
                             THEN [x EXCEPT !.pc = "replay"]
                             ELSE apply_next_change(s, x)
    [] x.pc = "replay" -> replay_request(s, x)
    [] x.pc = "change" -> change_applied(s, x)
    [] x.pc = "exists" ->
         rollback(x, IF View(k, ChangeOf(k, x.index).entity) = 0
                       THEN "not_found" ELSE "conflict")
    [] x.pc = "insert" -> [x EXCEPT !.pc = "version"]
    [] x.pc = "version" ->
         next_change(s, x, View(k, ChangeOf(k, x.index).entity))
    [] x.pc = "finish" -> [x EXCEPT !.pc = "commit"]

\* Steps that are not taken once the deadline has passed: begin_transaction,
\* reserve_request, apply_next_change and commit look at the clock first.
ChecksClock(x, y) ==
  \/ y.pc \in {"begin", "reserve", "commit"}
  \/ x.pc \in {"reserve", "change", "version"}
     /\ y.pc \in {"finish", "change"} \cup
                  (IF x.pc = "change" THEN {} ELSE {"insert"})

\* The plugin answers the request of s with success.
Answered(s) ==
  LET x == ctx[s] IN
  /\ alive /\ x.pc \in Steps
  /\ Performs(Key(s), Message(x))
  /\ IF x.pc = "commit"
       THEN finish_save(s, [code |-> "ok", vers |-> x.vers])
       ELSE LET y == Succeeded(s, x) IN
            \/ Continue(s, y)
            \/ ChecksClock(x, y) /\ Continue(s, rollback(x, "unavailable"))
  /\ UNCHANGED <<late, loads>>

\* It answers with an error.  A COMMIT that lost its connection may have
\* been executed; one that was refused has been rolled back.
Failed(s) ==
  LET x == ctx[s] IN
  /\ alive /\ x.pc \in Steps
  /\ \E connection \in BOOLEAN :
       /\ Continue(s, fail_database(x, connection, Fallback(x.pc)))
       /\ \/ x.pc \notin {"ddl", "begin"} /\ Breaks(Key(s))
          \/ /\ x.pc \in {"ddl", "begin"} \/ (~connection /\ x.pc # "commit")
             /\ UNCHANGED <<rows, ledger, tx>>
          \/ connection /\ x.pc = "commit" /\ Performs(Key(s), Message(x))
  /\ UNCHANGED <<late, loads>>

\* No answer: the plugin went down, or the deadline has passed.
Unanswered(s) ==
  LET x == ctx[s]
      k == Key(s)
  IN
  /\ alive /\ x.pc \in Steps
  /\ IF x.pc = "commit"
       THEN /\ Continue(s, fail_transport(x, "commit_unknown"))
            /\ late' = [late EXCEPT ![k] = "commit"]
            /\ UNCHANGED <<rows, ledger, tx>>
       ELSE /\ Continue(s, fail_transport(x, "unavailable"))
            /\ Performs(k, Message(x)) \/ UNCHANGED <<rows, ledger, tx>>
            /\ UNCHANGED late
  /\ UNCHANGED loads

\* The rollback by key.  When a COMMIT is on its way the transaction is
\* closing and the rollback is refused.  Its answer does not matter, nor
\* whether there is one within two seconds.
RolledBack(s) ==
  LET x == ctx[s]
      k == Key(s)
  IN
  /\ alive /\ x.pc \in Rollbacks
  /\ \/ /\ late[k] = "none" /\ Breaks(k)
        /\ UNCHANGED late
     \/ /\ late[k] = "commit"
        /\ UNCHANGED <<rows, ledger, tx, late>>
     \/ /\ late[k] = "none" /\ tx[k].open
        /\ late' = [late EXCEPT ![k] = "rollback"]
        /\ UNCHANGED <<rows, ledger, tx>>
  /\ IF x.pc = "rollback" THEN retry_or_finish(s, x)
     ELSE finish_save(s, x.result)
  /\ UNCHANGED loads

\* The timer of retry_or_finish: the service is looked up again.
RetryTimer(s) ==
  LET x == ctx[s] IN
  /\ alive /\ x.pc = "backoff"
  /\ \/ Continue(s, start_save(x))
     \/ retry_or_finish(s, rollback([x EXCEPT !.retry = FALSE,
                                              !.begin_sent = FALSE],
                                    "unavailable"))
     \/ retry_or_finish(s, [x EXCEPT !.attempt = @ + 1,
                                     !.result = Refusal("unavailable")])
  /\ UNCHANGED <<dbVars, loads>>

-----------------------------------------------------------------------------
(* Admission, schema discovery, drain and exit.                            *)

\* The bound on what is sent.
MaySend ==
  Cardinality({s \in Saves : ctx[s].pc # "new"})
    + Cardinality({l \in Loads : loads[l].pc # "new"}) < MaxRequests

admission_error == drain # "no" \/ in_flight + Len(waiters) >= max_pending

\* save_ready of the saves ws, in this order: a config_error, a deadline that
\* passed, a batch without changes and a service that cannot be found are
\* answered; the others are queued, and the first of a partition starts.
\* started: the loads that begin at the same time.
save_ready(ws, broken, started) ==
  LET listed == {ws[i] : i \in DOMAIN ws} IN
  \E unavailable \in SUBSET listed :
    LET invalid(s) ==
          broken \/ (Request[s].changes = << >> /\ s \notin unavailable)
        refused == {s \in listed : invalid(s) \/ s \in unavailable}
        new(p) == SelectSeq(ws, LAMBDA s : s \notin refused
                                           /\ Request[s].partition = p)
        starts(s) == LET p == Request[s].partition IN
                     queues[p] = << >> /\ new(p)[1] = s
    IN
    /\ queues' = [p \in Partitions |-> queues[p] \o new(p)]
    /\ in_flight' = in_flight + Cardinality(listed \ refused)
                              + Cardinality(started)
    /\ answers' = [s \in Saves |->
         IF s \in refused
           THEN Refusal(IF invalid(s) THEN "invalid_request" ELSE "unavailable")
           ELSE answers[s]]
    /\ ctx' = [s \in Saves |->
         CASE s \in refused -> Completed
           [] s \in listed \ refused ->
                IF starts(s) THEN start_save(ctx[s])
                ELSE [ctx[s] EXCEPT !.pc = "queued"]
           [] OTHER -> ctx[s]]

\* load_ready of the loads ls: those in started begin, the others are
\* answered (a config_error, an unknown entity or service, no time left).
load_ready(ls, started) ==
  loads' = [l \in Loads |->
    CASE l \in started -> [pc |-> "query", attempt |-> 1]
      [] l \in ls \ started -> [loads[l] EXCEPT !.pc = "done"]
      [] OTHER -> loads[l]]

\* The entity_save_atom handler.
save(s) ==
  /\ alive /\ ctx[s].pc = "new" /\ MaySend
  /\ \/ /\ admission_error
        /\ answers' = [answers EXCEPT ![s] = Refusal("unavailable")]
        /\ ctx' = [ctx EXCEPT ![s] = Completed]
        /\ UNCHANGED <<waiters, queues, in_flight>>
     \/ /\ ~admission_error /\ schema = "loading"
        /\ waiters' = Append(waiters, s)
        /\ ctx' = [ctx EXCEPT ![s].pc = "schema"]
        /\ UNCHANGED <<queues, in_flight, answers>>
     \/ /\ ~admission_error /\ schema # "loading"
        /\ save_ready(<<s>>, schema = "broken", {})
        /\ UNCHANGED waiters
  /\ UNCHANGED <<alive, schema, drain, loads, dbVars>>

\* The entity_load_atom handler.
load(l) ==
  /\ alive /\ loads[l].pc = "new" /\ MaySend
  /\ \/ /\ admission_error
        /\ load_ready({l}, {})
        /\ UNCHANGED <<waiters, in_flight>>
     \/ /\ ~admission_error /\ schema = "loading"
        /\ waiters' = Append(waiters, l)
        /\ loads' = [loads EXCEPT ![l].pc = "schema"]
        /\ UNCHANGED in_flight
     \/ /\ ~admission_error /\ schema # "loading"
        /\ \E started \in IF schema = "broken" THEN {{}} ELSE SUBSET {l} :
             /\ load_ready({l}, started)
             /\ in_flight' = in_flight + Cardinality(started)
        /\ UNCHANGED waiters
  /\ UNCHANGED <<alive, schema, queues, drain, ctx, answers, dbVars>>

\* The query of a load is answered, or fails; retry_load repeats it after a
\* delay when the connection or the service failed and there is time.
LoadAnswered(l) ==
  /\ alive /\ loads[l].pc = "query"
  /\ \/ /\ loads' = [loads EXCEPT ![l] = [pc |-> "done", attempt |-> 0]]
        /\ in_flight' = in_flight - 1
        /\ notify_drained(in_flight - 1, schema = "loading")
     \/ /\ loads[l].attempt < MaxAttempts
        /\ loads' = [loads EXCEPT ![l].pc = "backoff"]
        /\ UNCHANGED <<in_flight, drain>>
  /\ UNCHANGED <<alive, schema, waiters, queues, ctx, answers, dbVars>>

\* start_load from the timer of retry_load.
start_load(l) ==
  /\ alive /\ loads[l].pc = "backoff"
  /\ loads' = [loads EXCEPT ![l] = [pc |-> "query", attempt |-> @.attempt + 1]]
  /\ UNCHANGED <<frontVars, ctx, answers, dbVars>>

\* finish_schema: discovery has succeeded, or has failed for good (an error,
\* or its deadline; connection errors are retried until then).
finish_schema ==
  LET ls == {l \in Loads : loads[l].pc = "schema"} IN
  /\ alive /\ schema = "loading"
  /\ schema' \in {"ready", "broken"}
  /\ waiters' = << >>
  /\ \E started \in IF schema' = "broken" THEN {{}} ELSE SUBSET ls :
       /\ save_ready(SelectSeq(waiters, LAMBDA w : w \in Saves),
                     schema' = "broken", started)
       /\ load_ready(ls, started)
  /\ notify_drained(in_flight', FALSE)
  /\ UNCHANGED <<alive, dbVars>>

\* Mutant: requests that wait for the schema are forgotten.
DrainWithoutSchema ==
  /\ alive /\ drain = "no"
  /\ drain' = IF in_flight = 0 THEN "acked" ELSE "waiting"
  /\ UNCHANGED <<alive, schema, waiters, queues, in_flight, ctx, loads, answers,
                 dbVars>>

\* The drain_atom handler.
DrainAtom ==
  /\ alive /\ drain = "no"
  /\ drain' = IF in_flight = 0 /\ schema # "loading" THEN "acked" ELSE "waiting"
  /\ UNCHANGED <<alive, schema, waiters, queues, in_flight, ctx, loads, answers,
                 dbVars>>

\* on_exit without a drain: every save that waits is answered.
Waiting == {s \in Saves : ctx[s].pc \notin {"new", "done"}}
on_exit ==
  /\ alive
  /\ ExitInRetry \/ \A s \in Waiting : ctx[s].uncertain => ctx[s].begin_sent
  /\ alive' = FALSE
  /\ answers' = [s \in Saves |->
       CASE s \notin Waiting -> answers[s]
         [] ctx[s].pc = "schema" -> Refusal("invalid_request")
         [] ctx[s].begin_sent -> Refusal("commit_unknown")
         [] OTHER -> Refusal("unavailable")]
  /\ ctx' = [s \in Saves |-> IF s \in Waiting THEN Completed ELSE ctx[s]]
  /\ late' = [k \in Keys |->
       LET s == k[1] IN
       CASE s \notin Waiting \/ Key(s) # k \/ late[k] # "none" -> late[k]
         [] ctx[s].pc \in Rollbacks -> "rollback"
         [] ctx[s].pc = "commit" -> "commit"
         [] OTHER -> "none"]
  /\ waiters' = << >>
  /\ queues' = [p \in Partitions |-> << >>]
  /\ loads' = [l \in Loads |-> [pc |-> "done", attempt |-> 0]]
  /\ UNCHANGED <<max_pending, schema, in_flight, drain, rows, ledger, tx>>

-----------------------------------------------------------------------------
Chain(s) ==
  Answered(s) \/ Failed(s) \/ Unanswered(s) \/ RolledBack(s) \/ RetryTimer(s)

Next ==
  \/ \E s \in Saves : save(s) \/ Chain(s)
  \/ \E l \in Loads : load(l) \/ LoadAnswered(l) \/ start_load(l)
  \/ \E k \in Keys : Late(k)
  \/ finish_schema \/ DrainAtom \/ on_exit

\* A request is answered or runs into its timeout, a timer fires, discovery
\* has a deadline, and what was sent to the database is executed or fails.
Fairness ==
  /\ \A s \in Saves : WF_vars(Chain(s))
  /\ \A l \in Loads : WF_vars(LoadAnswered(l) \/ start_load(l))
  /\ WF_vars(finish_schema)
  /\ \A k \in Keys : WF_vars(Late(k))

Spec == Init /\ [][Next]_vars /\ Fairness

-----------------------------------------------------------------------------
(* Properties.                                                             *)

TypeOK ==
  /\ schema \in {"loading", "ready", "broken"}
  /\ drain \in {"no", "waiting", "acked"}
  /\ in_flight \in 0 .. max_pending
  /\ \A s \in Saves :
       /\ ctx[s].pc \in Steps \cup Rollbacks
                        \cup {"new", "schema", "queued", "backoff", "done"}
       /\ ctx[s].attempt \in 0 .. MaxAttempts
       /\ ctx[s].index \in 1 .. Len(Request[s].changes) + 1

\* The store implements ExactlyOnceStore: a save takes effect once and as a
\* whole, however often it is retried by the store or sent again by its
\* caller, also when an earlier attempt commits late, and its answer is true.
Store == INSTANCE ExactlyOnceStore
ExactlyOnce == Store!Spec

\* Saves of one partition do not overtake each other: only the first of the
\* queue has been started, also while it waits for its retry.
OneChain ==
  \A p \in Partitions : \A i \in DOMAIN queues[p] :
    (ctx[queues[p][i]].pc = "queued") <=> (i > 1)

\* in_flight_ counts what was admitted and not answered, and never exceeds
\* max_pending_requests together with what waits for the schema.
Admitted ==
  alive =>
    /\ in_flight + Len(waiters) <= max_pending
    /\ in_flight = Cardinality({s \in Waiting : ctx[s].pc # "schema"})
                   + Cardinality({l \in Loads :
                                    loads[l].pc \in {"query", "backoff"}})

\* The answer to drain_atom means what the reload relies on: every request
\* that was accepted has been answered, and none is accepted afterwards.  It
\* is given as soon as that is so: no drain waits for nothing.
DrainHonest ==
  alive /\ drain # "no" =>
    (drain = "acked" <=> /\ Waiting = {} /\ schema # "loading"
                         /\ \A l \in Loads : loads[l].pc \in {"new", "done"})

\* The books of the actor are right at every moment: partitions, limit and drain
\* agree with what was accepted and what was answered, so that neither a retry
\* nor a failure leaks a place or holds up a drain.
Accounted == TypeOK /\ OneChain /\ Admitted /\ DrainHonest

\* No transaction is left behind: as long as one may be open, the chain that
\* began it still runs, or its end is on the way to the plugin.
NoOrphanTransaction ==
  alive => \A k \in Keys :
    tx[k].open =>
      \/ Key(k[1]) = k /\ ctx[k[1]].pc \in Steps \cup Rollbacks
      \/ late[k] # "none"

\* Every save is answered.
EverySaveAnswered ==
  \A s \in Saves : s \in Waiting ~> answers[s] # NoAnswer

\* A drain ends.
DrainEnds == drain = "waiting" ~> drain = "acked" \/ ~alive
=============================================================================
