----------------------------- MODULE SqlService -----------------------------
(***************************************************************************)
(* A SQL plugin: the handlers of SqlServiceDispatcher, run by the plugin's *)
(* actor, the connection pool with its transaction slots and registry, one *)
(* worker thread per slot with its queue, and the database sessions.  The  *)
(* worker is the reconnecting one of MySQL and PostgreSQL or the one of    *)
(* SQLite.                                                                 *)
(*                                                                         *)
(* The actor and the threads interleave.  A handler is cut between the     *)
(* route it chooses and the enqueue; the worker where it takes a job, runs *)
(* it, and inside the completion callback after a fail_pending.            *)
(*                                                                         *)
(* A client is a sequence of requests, one at a time: plain statements,    *)
(* and transactions that it rolls back as soon as a statement fails, as    *)
(* the entity store does.  While it waits it may give up and cancel the    *)
(* transaction by its request key.  The message in the actor's mailbox is  *)
(* not a state of its own: a client sends when the actor handles it.       *)
(***************************************************************************)
EXTENDS Integers, Sequences, FiniteSets, Positions, JobQueue

CONSTANTS
  Clients,      \* the actors that use the service; also their request keys
  NSlots,       \* pool_size: connections of the one named pool
  MaxRequests,  \* bound: requests of all clients together
  Backends,     \* the kinds of worker to consider
  MayStop       \* the plugin may be shut down

Slots == 1 .. NSlots
Requests == 1 .. MaxRequests
NoTx == [slot |-> 0, gen |-> 0]
NoKey == "none"
Statements == {"Query", "Exec"}

\* db::error_code of a failed result; "none" is SQLite's, which sets no code.
ConnectionErrors == {"connection_unavailable", "connection_lost",
                     "transaction_lost", "outcome_unknown"}
Results == {"ok", "none", "sql_error"} \cup ConnectionErrors

ASSUME BoundsAssumption ==
  /\ NSlots \in Nat \ {0}
  /\ MaxRequests \in Nat
  /\ Backends \subseteq {"sqlite", "reconnecting"}
  /\ MayStop \in BOOLEAN
  /\ NoKey \notin Clients

VARIABLES
  backend,   \* the kind of worker
  \* the plugin's actor
  actor,     \* pc, and the job and slot it is about to enqueue or stop
  cursor,    \* round_robin_
  entries,   \* TransactionRegistry: token and request key
  \* the slots
  txstate,   \* TransactionSlot: state and generation
  queue,     \* see JobQueue
  worker,    \* pc, job, result, connected_ and active_transaction_
  \* the database
  session,   \* per slot: the transaction open in it and its statements
  applied,   \* requests whose statement is durable
  commits,   \* transactions that were committed
  \* the clients
  asked,     \* the requests: client, operation and transaction
  answers    \* the answers to each request

vars == <<backend, actor, cursor, entries, txstate, queue, worker, session,
          applied, commits, asked, answers>>
dbVars == <<session, applied, commits>>

NoJob == [op |-> "none", tx |-> NoTx, req |-> 0, original |-> "unset"]
Job(op, tx, r) == [op |-> op, tx |-> tx, req |-> r, original |-> "unset"]
Closed == [tx |-> NoTx, done |-> {}]
Idle == [pc |-> "ready", slot |-> 0, job |-> NoJob]

Init ==
  /\ backend \in Backends
  /\ actor = Idle
  /\ cursor = 0
  /\ entries = {}
  /\ txstate = [s \in Slots |-> [state |-> "Idle", gen |-> 0]]
  /\ queue = [s \in Slots |-> NewQueue]
  /\ worker = [s \in Slots |-> [pc |-> "wait", job |-> NoJob, result |-> "ok",
                                connected |-> backend = "sqlite",
                                active |-> NoTx]]
  /\ session = [s \in Slots |-> Closed]
  /\ applied = {}
  /\ commits = {}
  /\ asked = << >>
  /\ answers = [r \in Requests |-> << >>]

recoverable == backend = "reconnecting"

-----------------------------------------------------------------------------
(* Settling jobs: the completion callbacks of the dispatcher.              *)

\* Mutant: the slot is put back, the registry keeps the transaction.
ReleaseSlotOnly(ts) ==
  /\ entries' = entries
  /\ txstate' = [s \in Slots |->
       IF \E e \in entries : e.token \in ts /\ e.token.slot = s
         THEN [txstate[s] EXCEPT !.state = "Idle"]
         ELSE txstate[s]]

\* release_transaction of every token in ts that is still registered.
Release(ts) ==
  LET es == {e \in entries : e.token \in ts} IN
  /\ entries' = entries \ es
  /\ txstate' = [s \in Slots |->
       IF \E e \in es : e.token = [slot |-> s, gen |-> txstate[s].gen]
         THEN [txstate[s] EXCEPT !.state = "Idle"]
         ELSE txstate[s]]

\* What the client makes of the result of job j: success, failure or not
\* known.  A cleanup rollback answers with the result of the COMMIT.
Verdict(j, res) ==
  LET code == IF j.original # "unset" THEN j.original ELSE res
  IN  CASE code = "ok" -> "ok"
        [] code = "outcome_unknown" -> "unknown"
        [] OTHER -> "failed"

\* Each job of js delivers its promise with result res.
Deliver(js, res) ==
  answers' = [r \in Requests |->
    LET mine == At(js, {i \in DOMAIN js : js[i].req = r})
    IN  answers[r] \o [i \in DOMAIN mine |-> Verdict(mine[i], res)]]

\* Every job of js fails without having been run.  A COMMIT that fails would
\* enqueue its cleanup, which is rejected too and settles the request.
FailJobs(js) ==
  /\ Release({js[i].tx : i \in DOMAIN js})
  /\ Deliver(js, "connection_unavailable")

-----------------------------------------------------------------------------
(* The handlers.                                                           *)

\* The last request of client c, 0 when there is none.
Last(c) == 
  LET mine == {r \in DOMAIN asked : asked[r].by = c}
  IN  IF mine = {} THEN 0 ELSE CHOOSE r \in mine : \A q \in mine : q <= r
NextRequest == Len(asked) + 1
Answered(r) == answers[r] # << >>
Waiting(c) == Last(c) # 0 /\ ~Answered(Last(c))
Succeeded(c) == answers[Last(c)] = <<"ok">>

\* The transaction that c believes to be in, and the one it has ended.
Held(c) ==
  LET r == Last(c) IN
  IF r = 0 \/ Waiting(c) THEN NoTx
  ELSE IF asked[r].op \in Statements \/ (asked[r].op = "Begin" /\ Succeeded(c))
       THEN asked[r].tx
  ELSE NoTx
Ended(c) ==
  IF Last(c) # 0 /\ asked[Last(c)].op \in {"Commit", "Rollback"}
    THEN asked[Last(c)].tx ELSE NoTx

\* The next request: c asks for operation op in transaction tx.
Ask(c, op, tx) ==
  /\ actor.pc = "ready"
  /\ Len(asked) < MaxRequests
  /\ asked' = Append(asked, [by |-> c, op |-> op, tx |-> tx])

\* job->fail or deliver_error in the handler: no slot, nothing else happens.
Reject(res) ==
  /\ Deliver(<<Job("none", NoTx, NextRequest)>>, res)
  /\ UNCHANGED <<backend, actor, entries, txstate, queue, worker, dbVars>>

\* A route was found: the job is enqueued in the next step.
RouteTo(s, j) ==
  /\ actor' = [pc |-> "enqueue", slot |-> s, job |-> j]
  /\ UNCHANGED <<backend, queue, worker, answers, dbVars>>

\* A connection in no transaction is free for plain statements, and for a
\* new transaction.
IsIdle(s) == txstate[s].state = "Idle"

\* WorkerPool::route_round_robin; 0 when no slot is running and idle, which is
\* what both callers ask for.  stopped_ is only set by the handler after which
\* the actor quits.
round_robin ==
  LET at(i) == ((cursor + i - 1) % NSlots) + 1
      fits == {i \in Slots : ~Stopped(queue[at(i)]) /\ IsIdle(at(i))}
  IN  IF fits = {} THEN 0 ELSE at(CHOOSE i \in fits : \A j \in fits : i <= j)

NextCursor == cursor' = (cursor + 1) % NSlots

\* dispatch_regular.
dispatch_regular(c, op) ==
  LET s == round_robin IN
  /\ ~Waiting(c) /\ Held(c) = NoTx
  /\ Ask(c, op, NoTx)
  /\ NextCursor
  /\ IF s = 0 THEN Reject("connection_unavailable")
     ELSE /\ RouteTo(s, Job(op, NoTx, NextRequest))
          /\ UNCHANGED <<entries, txstate>>

\* begin_transaction with request key c: try_acquire and insert.
begin_transaction(c) ==
  LET s == round_robin
      g == txstate[s].gen + 1
      tx == [slot |-> s, gen |-> g]
      known == \E e \in entries : e.key = c
  IN
  /\ ~Waiting(c) /\ Held(c) = NoTx
  /\ IF known \/ s = 0
     THEN /\ Ask(c, "Begin", NoTx)
          /\ IF known THEN UNCHANGED cursor ELSE NextCursor
          /\ Reject("connection_unavailable")
     ELSE /\ Ask(c, "Begin", tx)
          /\ NextCursor
          /\ txstate' = [txstate EXCEPT ![s] = [state |-> "Active", gen |-> g]]
          /\ entries' = entries \cup {[token |-> tx, key |-> c]}
          /\ RouteTo(s, Job("Begin", tx, NextRequest))

\* route_transaction(token) finds the slot in transaction tx, still active.
IsActive(tx) ==
  /\ txstate[tx.slot].gen = tx.gen
  /\ txstate[tx.slot].state = "Active"

\* dispatch_transaction with the transaction c is in, or with the token of
\* one that has ended.
dispatch_transaction(c, op) ==
  LET tx == IF Ended(c) # NoTx THEN Ended(c) ELSE Held(c) IN
  /\ ~Waiting(c) /\ tx # NoTx
  /\ Succeeded(c) \/ Ended(c) # NoTx
  /\ Ask(c, op, tx)
  /\ UNCHANGED cursor
  /\ IF IsActive(tx)
       THEN /\ RouteTo(tx.slot, Job(op, tx, NextRequest))
            /\ UNCHANGED <<entries, txstate>>
       ELSE Reject("transaction_lost")

\* finish_transaction with token tx (NoTx: the key is not registered).
finish_transaction(c, op, tx) ==
  /\ Ask(c, op, tx)
  /\ UNCHANGED cursor
  /\ IF tx # NoTx /\ IsActive(tx)
       THEN /\ txstate' = [txstate EXCEPT ![tx.slot].state = "Closing"]
            /\ RouteTo(tx.slot, Job(op, tx, NextRequest))
            /\ UNCHANGED entries
       ELSE Reject("transaction_lost")

\* The client ends its transaction; after a failure it only rolls back.
Finish(c, op) ==
  /\ ~Waiting(c) /\ Held(c) # NoTx
  /\ Succeeded(c) \/ op = "Rollback"
  /\ finish_transaction(c, op, Held(c))

\* tx_rollback_atom with the request key, while the client still waits.
Cancel(c) ==
  /\ Waiting(c)
  /\ finish_transaction(c, "Rollback",
       IF \E e \in entries : e.key = c
         THEN (CHOOSE e \in entries : e.key = c).token
         ELSE NoTx)

\* Mutant: the job is pushed without a look at the state of the queue.
EnqueueUnchecked ==
  /\ actor.pc = "enqueue"
  /\ actor' = Idle
  /\ queue' = [queue EXCEPT ![actor.slot] = Push(@, actor.job)]
  /\ UNCHANGED <<backend, cursor, entries, txstate, worker, dbVars, asked,
                 answers>>

\* Route::enqueue, the end of every handler above.
Enqueue ==
  LET s == actor.slot IN
  /\ actor.pc = "enqueue"
  /\ actor' = Idle
  /\ IF Stopped(queue[s])
       THEN FailJobs(<<actor.job>>) /\ UNCHANGED queue
       ELSE /\ queue' = [queue EXCEPT ![s] = Push(@, actor.job)]
            /\ UNCHANGED <<entries, txstate, answers>>
  /\ UNCHANGED <<backend, cursor, worker, dbVars, asked>>

-----------------------------------------------------------------------------
(* The database, external: what a statement does in the session of slot s. *)

\* The statement of job j succeeds.
Performs(s, j) ==
  LET open == session[s].tx # NoTx IN
  \/ /\ j.op = "Begin"
     /\ ~open
     /\ backend = "sqlite" => \A o \in Slots : session[o].tx = NoTx
     /\ session' = [session EXCEPT ![s] = [tx |-> j.tx, done |-> {}]]
     /\ UNCHANGED <<applied, commits>>
  \/ /\ j.op = "Query"
     /\ UNCHANGED dbVars
  \/ /\ j.op = "Exec" /\ open
     /\ session' = [session EXCEPT ![s].done = @ \cup {j.req}]
     /\ UNCHANGED <<applied, commits>>
  \/ /\ j.op = "Exec" /\ ~open
     /\ applied' = applied \cup {j.req}
     /\ UNCHANGED <<session, commits>>
  \/ /\ j.op = "Commit" /\ open
     /\ applied' = applied \cup session[s].done
     /\ commits' = commits \cup {session[s].tx}
     /\ session' = [session EXCEPT ![s] = Closed]
  \/ /\ j.op = "Rollback"
     /\ open \/ backend = "reconnecting"
     /\ session' = [session EXCEPT ![s] = Closed]
     /\ UNCHANGED <<applied, commits>>

\* The statement is refused.  Some errors end the transaction as well.
Refuses(s) ==
  /\ session' \in {session, [session EXCEPT ![s] = Closed]}
  /\ UNCHANGED <<applied, commits>>

\* The connection breaks, before or after the statement took effect.
Breaks(s, j) ==
  /\ session' = [session EXCEPT ![s] = Closed]
  /\ \/ UNCHANGED <<applied, commits>>
     \/ /\ j.op = "Commit" /\ session[s].tx # NoTx
        /\ applied' = applied \cup session[s].done
        /\ commits' = commits \cup {session[s].tx}
     \/ /\ j.op = "Exec" /\ session[s].tx = NoTx
        /\ applied' = applied \cup {j.req}
        /\ UNCHANGED commits

-----------------------------------------------------------------------------
(* The worker threads.                                                     *)

\* The job at the head of the queue, taken by next_job.  Nobody else sees
\* that it was taken before it has been run.
Taken(s) == Head(queue[s].jobs)
CanRun(s) == worker[s].pc = "wait" /\ CanPop(queue[s])

\* The job has result res; the worker is connected or not, in transaction tx.
Ran(s, res, conn, tx) ==
  /\ worker' = [worker EXCEPT ![s] = [pc |-> "done", job |-> Taken(s),
                  result |-> res, connected |-> conn, active |-> tx]]
  /\ queue' = [queue EXCEPT ![s] = Popped(@)]
  /\ UNCHANGED <<backend, actor, cursor, entries, txstate, asked, answers>>

\* ReconnectingSqlWorker::process, before it reaches the database: the slot
\* is stopping, the job's transaction is not the session's, or there is no
\* connection and reconnect() fails.
ProcessRejects(s) ==
  LET w == worker[s]
      j == Taken(s)
      lost == j.tx # NoTx /\ j.op # "Begin" /\ j.tx # w.active
  IN
  /\ CanRun(s) /\ recoverable
  /\ \/ Stopped(queue[s]) /\ Ran(s, "connection_unavailable", w.connected, w.active)
     \/ /\ ~Stopped(queue[s]) /\ lost
        /\ Ran(s, "transaction_lost", w.connected, w.active)
     \/ /\ ~Stopped(queue[s]) /\ ~lost /\ ~w.connected
        /\ \E res \in {"connection_unavailable", "sql_error"} :
             Ran(s, res, FALSE, w.active)
  /\ UNCHANGED dbVars

\* Mutant: a COMMIT that the connection broke is reported as any other job.
ProcessNoUnknown(s) ==
  LET w == worker[s]
      j == Taken(s)
  IN
  /\ CanRun(s) /\ recoverable /\ ~Stopped(queue[s])
  /\ j.tx = NoTx \/ j.op = "Begin" \/ j.tx = w.active
  /\ \/ Performs(s, j) /\ Ran(s, "ok", TRUE, j.tx)
     \/ Breaks(s, j) /\ Ran(s, "connection_lost", FALSE, NoTx)

\* The rest of process: connection_->execute and what its result means.
Process(s) ==
  LET w == worker[s]
      j == Taken(s)
  IN
  /\ CanRun(s) /\ recoverable /\ ~Stopped(queue[s])
  /\ j.tx = NoTx \/ j.op = "Begin" \/ j.tx = w.active
  /\ \/ /\ Performs(s, j)
        /\ Ran(s, "ok", TRUE,
               CASE j.op = "Begin" -> j.tx
                 [] j.op \in {"Commit", "Rollback"} -> NoTx
                 [] OTHER -> w.active)
     \/ /\ Refuses(s)
        /\ IF j.op = "Rollback"
             THEN session'[s] = Closed /\ Ran(s, "sql_error", FALSE, NoTx)
             ELSE Ran(s, "sql_error", TRUE, w.active)
     \/ /\ Breaks(s, j)
        /\ Ran(s, IF j.op = "Commit" \/ (j.tx = NoTx /\ j.op = "Exec")
                     THEN "outcome_unknown" ELSE "connection_lost",
               FALSE, NoTx)

\* One turn of the loop of SQLite's worker_main; a failure has no code.
SqliteExecute(s) ==
  LET j == Taken(s) IN
  /\ CanRun(s) /\ ~recoverable
  /\ \/ Performs(s, j) /\ Ran(s, "ok", TRUE, NoTx)
     \/ Refuses(s) /\ Ran(s, "none", TRUE, NoTx)

\* The callback releases the transaction after result res.
Releases(j, res) ==
  CASE j.op = "Begin" -> res # "ok"
    [] j.op \in Statements -> j.tx # NoTx /\ res \in ConnectionErrors
    [] OTHER -> TRUE

Settle(s) ==
  LET w == worker[s] IN
  /\ IF Releases(w.job, w.result) THEN Release({w.job.tx})
     ELSE UNCHANGED <<entries, txstate>>
  /\ Deliver(<<w.job>>, w.result)
  /\ worker' = [worker EXCEPT ![s].pc = "wait", ![s].job = NoJob,
                                  ![s].result = "ok"]
  /\ UNCHANGED queue

\* A failed COMMIT: its rollback is enqueued on the same worker, and settles
\* the request with the result of the COMMIT.  When the queue has stopped it
\* fails at once, on this thread.
CleanUp(s) ==
  LET w == worker[s]
      cleanup == [Job("Rollback", w.job.tx, w.job.req) EXCEPT
                    !.original = w.result]
  IN
  /\ IF Stopped(queue[s])
       THEN /\ worker' = [worker EXCEPT ![s].job = cleanup,
                             ![s].result = "connection_unavailable"]
            /\ UNCHANGED queue
       ELSE /\ queue' = [queue EXCEPT ![s] = Push(@, cleanup)]
            /\ worker' = [worker EXCEPT ![s].pc = "wait", ![s].job = NoJob,
                                  ![s].result = "ok"]
  /\ UNCHANGED <<entries, txstate, answers>>

\* A failed rollback on a connection that cannot be replaced stops the slot,
\* before the transaction is released.
FailPending(s) ==
  /\ FailJobs(queue[s].jobs)
  /\ queue' = [queue EXCEPT ![s] = FailedAll(@)]
  /\ worker' = [worker EXCEPT ![s].pc = "settle"]

\* job->done(result).
Done(s) ==
  LET w == worker[s]
      failed == w.result # "ok"
  IN
  /\ \/ w.pc = "done" /\ w.job.op = "Commit" /\ failed /\ CleanUp(s)
     \/ /\ w.pc = "done" /\ w.job.op = "Rollback" /\ failed /\ ~recoverable
        /\ FailPending(s)
     \/ /\ w.pc = "done"
        /\ ~(w.job.op = "Commit" /\ failed)
        /\ ~(w.job.op = "Rollback" /\ failed /\ ~recoverable)
        /\ Settle(s)
     \/ w.pc = "settle" /\ Settle(s)
  /\ UNCHANGED <<backend, actor, cursor, dbVars, asked>>

\* The loop ends, the connection is closed and the thread's wrapper calls
\* fail_pending.
Exit(s) ==
  /\ worker[s].pc = "wait"
  /\ Finished(queue[s])
  /\ worker' = [worker EXCEPT ![s].pc = "exited", ![s].connected = FALSE]
  /\ queue' = [queue EXCEPT ![s] = FailedAll(@)]
  /\ session' = [session EXCEPT ![s] = Closed]
  /\ UNCHANGED <<backend, actor, cursor, entries, txstate, applied, commits,
                 asked, answers>>

-----------------------------------------------------------------------------
(* WorkerPool::stop_and_join, from on_shutdown.                            *)

AtSlot(pc, s) == [pc |-> pc, slot |-> s, job |-> NoJob]

\* All workers are stopped, one after the other, before the first is joined:
\* at slot s its stop was requested and its queue is not stopped yet.
StopAndJoin ==
  LET s == actor.slot IN
  /\ \/ /\ actor.pc = "ready" /\ MayStop
        /\ actor' = AtSlot("stop", 1)
        /\ queue' = [queue EXCEPT ![1] = StopRequested(@)]
     \/ /\ actor.pc = "stop"
        /\ actor' = IF s < NSlots THEN AtSlot("stop", s + 1)
                                  ELSE AtSlot("join", 1)
        /\ queue' = [t \in Slots |->
             CASE t = s -> QueueStopped(queue[t])
               [] t = s + 1 -> StopRequested(queue[t])
               [] OTHER -> queue[t]]
     \/ /\ actor.pc = "join" /\ worker[s].pc = "exited"
        /\ actor' = IF s < NSlots THEN AtSlot("join", s + 1)
                                  ELSE AtSlot("down", 0)
        /\ UNCHANGED queue
  /\ UNCHANGED <<backend, cursor, entries, txstate, worker, dbVars, asked,
                 answers>>

-----------------------------------------------------------------------------
\* In a transaction a query is handled like a statement, less its effect.
Request(c) ==
  \/ \E op \in Statements : dispatch_regular(c, op)
  \/ dispatch_transaction(c, "Exec")
  \/ begin_transaction(c)
  \/ \E op \in {"Commit", "Rollback"} : Finish(c, op)
  \/ Cancel(c)

Work(s) ==
  ProcessRejects(s) \/ Process(s) \/ SqliteExecute(s) \/ Done(s)
    \/ Exit(s)

Next ==
  \/ \E c \in Clients : Request(c)
  \/ Enqueue
  \/ \E s \in Slots : Work(s)
  \/ StopAndJoin

\* A thread that can run does run, and a driver call returns: the drivers
\* have time limits.  A handler finishes what it began.
Fairness ==
  /\ WF_vars(Enqueue)
  /\ WF_vars(actor.pc # "ready" /\ StopAndJoin)
  /\ \A s \in Slots : WF_vars(Work(s))

Spec == Init /\ [][Next]_vars /\ Fairness

-----------------------------------------------------------------------------
(* Properties.                                                             *)

TypeOK ==
  /\ cursor \in 0 .. NSlots - 1
  /\ actor.pc \in {"ready", "enqueue", "stop", "join", "down"}
  /\ actor.slot \in 0 .. NSlots
  /\ \A e \in entries : e.token.slot \in Slots /\ e.key \in Clients
  /\ \A s \in Slots :
       /\ txstate[s].state \in {"Idle", "Active", "Closing"}
       /\ worker[s].pc \in {"wait", "done", "settle", "exited"}
       /\ worker[s].result \in Results
  /\ applied \subseteq DOMAIN asked
  /\ \A r \in Requests : Answered(r) => r \in DOMAIN asked

\* Nothing is forgotten: when the actor and all workers have nothing left to
\* do, no request is waiting for its answer.  In particular no job is in the
\* queue of a worker that has ended.
NothingForgotten ==
  /\ actor.pc \in {"ready", "down"}
  /\ \A s \in Slots : \/ worker[s].pc = "exited"
                       \/ /\ worker[s].pc = "wait"
                          /\ queue[s].jobs = << >> /\ queue[s].running
  => \A r \in DOMAIN asked : Answered(r)

\* Every promise is delivered once, whichever thread settles the job (the
\* handler, the worker's callback, a cleanup rollback, fail_pending or a push
\* that finds the queue stopped), and none is left behind.
AnsweredOnce == (\A r \in Requests : Len(answers[r]) <= 1) /\ NothingForgotten

\* Tokens name slots of the pool; the types of requests and jobs.
Tokens == {NoTx} \cup [slot : Slots, gen : Nat]
Operations == Statements \cup {"Begin", "Commit", "Rollback"}
Jobs == [op : Operations \cup {"none"}, tx : Tokens, req : Nat,
         original : Results \cup {"unset"}]

JobTypes ==
  /\ asked \in Seq([by : Clients, op : Operations, tx : Tokens])
  /\ Len(asked) <= MaxRequests
  /\ answers \in [Requests -> Seq({"ok", "failed", "unknown"})]
  /\ queue \in [Slots -> [stop : BOOLEAN, running : BOOLEAN, jobs : Seq(Jobs)]]
  /\ worker \in [Slots -> [pc : {"wait", "done", "settle", "exited"},
                           job : Jobs, result : Results,
                           connected : BOOLEAN, active : Tokens]]
  /\ actor \in [pc : {"ready", "enqueue", "stop", "join", "down"},
                slot : 0 .. NSlots, job : Jobs]
  /\ actor.pc \in {"enqueue", "stop", "join"} => actor.slot \in Slots

\* Where a request can be: with the actor (0), in the queue of slot s (s), or
\* with the worker of slot s (-s).
Places == -NSlots .. NSlots
Reqs(q) == {q[i].req : i \in DOMAIN q}
OnceEach(q) == \A i, j \in DOMAIN q : q[i].req = q[j].req => i = j
InHand(s) ==
  IF worker[s].pc \in {"done", "settle"} THEN {worker[s].job.req} ELSE {}
AtActor == IF actor.pc = "enqueue" THEN {actor.job.req} ELSE {}
Holds ==
  [p \in Places |-> IF p = 0 THEN AtActor
                    ELSE IF p > 0 THEN Reqs(queue[p].jobs) ELSE InHand(-p)]

\* Of the first n requests, with answers a, those without an answer are at
\* one place each, and no other request is anywhere.
Accounted(H, n, a) ==
  /\ \A p \in Places : H[p] \subseteq 1 .. n
  /\ \A p, q \in Places : \A r \in H[p] \cap H[q] : p = q
  /\ \A r \in 1 .. n : a[r] = << >> <=> \E p \in Places : r \in H[p]
  /\ \A r \in Requests : Len(a[r]) <= 1 /\ (r > n => a[r] = << >>)

\* Why every promise is delivered once: a job has one holder, a queue has a
\* request once, and nothing is put in the queue of a worker that has ended.
JobsInv ==
  /\ JobTypes
  /\ Accounted(Holds, Len(asked), answers)
  /\ \A s \in Slots : OnceEach(queue[s].jobs)
  /\ \A s \in Slots : worker[s].pc = "exited" => Finished(queue[s])

\* A slot is taken out of the pool exactly while the registry knows the one
\* transaction that occupies it, so whoever ends that transaction, or whose
\* BEGIN fails, puts the slot back, and nobody puts it back twice.
SlotOwned ==
  \A s \in Slots :
    LET mine == {e \in entries : e.token.slot = s} IN
    IF txstate[s].state = "Idle" THEN mine = {}
    ELSE \E e \in mine : mine = {e} /\ e.token.gen = txstate[s].gen

\* Why: the round robin stays within the pool, tokens name slots and request
\* keys are not reused while their transaction is registered.
SlotInv ==
  /\ cursor \in 0 .. NSlots - 1
  /\ entries \subseteq [token : [slot : Slots, gen : Nat], key : Clients]
  /\ txstate \in [Slots -> [state : {"Idle", "Active", "Closing"}, gen : Nat]]
  /\ \A d, e \in entries : d.key = e.key => d = e
  /\ SlotOwned

\* All or nothing: a statement sent in a transaction takes effect only when
\* that transaction commits (it never runs outside it, or in the session of
\* another one), and a commit makes all of its acknowledged statements
\* durable.
Atomic ==
  \A r \in DOMAIN asked :
    asked[r].op = "Exec" /\ asked[r].tx # NoTx =>
      /\ r \in applied => asked[r].tx \in commits
      /\ answers[r] = <<"ok">> /\ asked[r].tx \in commits => r \in applied

\* The answer to a COMMIT or a plain statement tells the truth: "ok" means
\* it took effect (a plain statement does not end up in a transaction that
\* someone else may roll back), and any failure but outcome_unknown means it
\* did not, now and ever after.
Honest ==
  \A r \in DOMAIN asked :
    LET effect == IF asked[r].op = "Commit" THEN asked[r].tx \in commits
                  ELSE r \in applied
    IN  asked[r].op = "Commit" \/ (asked[r].op = "Exec" /\ asked[r].tx = NoTx)
          => /\ answers[r] = <<"ok">> => effect
             /\ answers[r] = <<"failed">> => ~effect

\* Every request is answered, also when the plugin is shut down, when a slot
\* has been stopped for good and when connections keep breaking.
EveryRequestAnswered ==
  \A r \in Requests : r \in DOMAIN asked ~> Answered(r)

\* stop_and_join returns: no worker waits for the actor that joins it.
StopEnds == actor.pc = "stop" ~> actor.pc = "down"
=============================================================================
