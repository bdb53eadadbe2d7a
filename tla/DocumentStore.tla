--------------------------- MODULE DocumentStore ---------------------------
(***************************************************************************)
(* The entity store on Redis or MongoDB: the entity_store_actor that both  *)
(* share, which sends one save per partition at a time to the database     *)
(* plugin, the worker threads of the plugin with their queues, and the     *)
(* EntityStoreEngine of each, which performs a whole save:                 *)
(*                                                                         *)
(*   Redis    read a snapshot of the objects and the request's record,     *)
(*            compute, and publish by a script that compares the snapshot; *)
(*   MongoDB  one transaction, whose commit is repeated until its outcome  *)
(*            is known.                                                    *)
(*                                                                         *)
(* The servers are external.  A script or a commit whose reply is lost was *)
(* executed, was not, or will be executed later.  Saves of other processes *)
(* on the same database happen at any moment (Remote).  A request of the   *)
(* actor and the enqueueing in the plugin are one step; the reply travels  *)
(* (reply) and races with the timeout.  Where the code looks at the clock, *)
(* the deadline may have passed or not.                                    *)
(***************************************************************************)
EXTENDS Integers, Sequences, FiniteSets, JobQueue
LOCAL INSTANCE SequencesExt

CONSTANTS
  Saves,        \* save requests as they are sent; a retry is one of its own
  Remote,       \* the saves among them that other processes perform
  Loads,        \* load requests, of the first worker's connection
  Entities,
  Request,      \* of each save: id, sig, partition, changes
  FirstRows,    \* version of each entity at the start
  Backends,     \* subset of {"redis", "mongo"}
  Workers,      \* workers of the connection in MongoDB's pool
  Slot,         \* the worker that route_affine picks for each partition
  MaxAttempts,  \* save_retry_attempts
  Limits,       \* the values of max_pending_requests to consider
  MaxRequests   \* bound: requests that are sent at all

Partitions == {Request[s].partition : s \in Saves}
Local == Saves \ Remote

ASSUME DocumentAssumption ==
  /\ MaxAttempts \in Nat \ {0}
  /\ Limits \subseteq Nat \ {0} /\ MaxRequests \in Nat
  /\ Remote \subseteq Saves /\ Saves \cap Loads = {}
  /\ Backends \subseteq {"redis", "mongo"}
  /\ Slot \in [Partitions -> Workers]

VARIABLES
  backend,     \* which plugin serves the store
  max_pending, \* max_pending_requests, of the actor and of each worker
  \* entity_store_actor
  alive,       \* the actor has not exited
  drain,       \* "no", "waiting" (draining_, a waiter) or "acked"
  queues,      \* saves_
  pending,     \* pending_
  status,      \* per request: "new", "queued", "sent" or "done"
  answers,     \* what each save was answered
  accepted,    \* the requests in the order of their arrival
  \* the plugin
  reply,       \* per request: the reply that is on its way
  stopped,     \* on_shutdown has run: the pool routes no more
  workq,       \* queue of each worker
  eng,         \* what each worker does
  \* the server
  cells,       \* objects: -1 none, 0 deletion marker, else the version
  ledger,      \* records of the committed requests
  late         \* per save: what a script or commit without reply may still do

actorVars == <<alive, drain, queues, pending, status, answers, accepted>>
serverVars == <<cells, ledger, late>>
vars == <<backend, max_pending, actorVars, reply, stopped, workq, eng,
          serverVars>>

NoAnswer == [code |-> "none", vers |-> << >>]
Refusal(code) == [code |-> code, vers |-> << >>]
Idle == [job |-> "none", pc |-> "idle", attempt |-> 0, commits |-> 0,
         uncertain |-> FALSE, applied |-> FALSE, snap |-> << >>]
Nothing == [some |-> FALSE, snap |-> << >>]

Init ==
  /\ backend \in Backends
  /\ max_pending \in Limits
  /\ alive = TRUE /\ drain = "no"
  /\ queues = [p \in Partitions |-> << >>]
  /\ pending = 0
  /\ status = [r \in Saves \cup Loads |-> "new"]
  /\ answers = [s \in Saves |-> NoAnswer]
  /\ accepted = << >>
  /\ reply = [r \in Saves \cup Loads |-> NoAnswer]
  /\ stopped = FALSE
  /\ workq = [w \in Workers |-> NewQueue]
  /\ eng = [w \in Workers |-> Idle]
  /\ cells = FirstRows
  /\ ledger = << >>
  /\ late = [s \in Saves |-> Nothing]

-----------------------------------------------------------------------------
(* What the changes of a save do to the objects it reads.                  *)

Touched(s) == {Request[s].changes[i].entity : i \in DOMAIN Request[s].changes}

\* EntityStoreEngine::apply of one patch to an object of version v; a
\* negative expected version is no check.
apply(v, c) ==
  LET checks(x) == c.expected \in {-1, x}
      no(code) == [code |-> code, v |-> v]
  IN  CASE v <= 0 -> IF (c.op = "insert" \/ c.create) /\ checks(0)
                       THEN [code |-> "ok", v |-> 1] ELSE no("not_found")
        [] v > 0 -> IF c.op = "insert" \/ ~checks(v) THEN no("conflict")
                    ELSE [code |-> "ok",
                          v |-> IF c.op = "delete" THEN 0 ELSE v + 1]

\* All patches in order, on a snapshot: the first that fails ends it.
ApplyAll(s, snap) ==
  LET step(acc, c) ==
        LET r == apply(acc.docs[c.entity], c) IN
        IF acc.code # "ok" THEN acc
        ELSE IF r.code # "ok" THEN [acc EXCEPT !.code = r.code]
        ELSE [code |-> "ok", vers |-> Append(acc.vers, r.v),
              docs |-> [acc.docs EXCEPT ![c.entity] = r.v]]
  IN  FoldLeft(step, [code |-> "ok", vers |-> << >>, docs |-> snap],
               Request[s].changes)

Snapshot(s) == [e \in Touched(s) |-> cells[e]]

\* EntityCodec::replay.
Replay(s) ==
  LET r == ledger[Request[s].id] IN
  IF r.sig = Request[s].sig THEN [code |-> "ok", vers |-> r.vers]
  ELSE Refusal("conflict")

\* The objects and the record of s are written together.
Publish(s, snap) ==
  LET r == ApplyAll(s, snap)
      id == Request[s].id
  IN
  /\ cells' = [e \in Entities |->
                 IF e \in Touched(s) THEN r.docs[e] ELSE cells[e]]
  /\ ledger' = [i \in DOMAIN ledger \cup {id} |->
                  IF i = id THEN [by |-> s, sig |-> Request[s].sig,
                                  vers |-> r.vers]
                  ELSE ledger[i]]

\* Mutant: the script does not look for the request's record.
ScriptWithoutLedger(s, snap) ==
  IF snap # Snapshot(s) THEN "changed" ELSE "publish"

\* commit_script: what it finds decides what it does.
commit_script(s, snap) ==
  IF Request[s].id \in DOMAIN ledger THEN "recorded"
  ELSE IF snap # Snapshot(s) THEN "changed"
  ELSE "publish"

RunScript(s, snap) ==
  IF commit_script(s, snap) = "publish" THEN Publish(s, snap)
  ELSE UNCHANGED <<cells, ledger>>

-----------------------------------------------------------------------------
(* The plugin: routing and queueing.                                       *)

\* Mutant: a partition whose worker is busy is served by another one.
WorkerOfIdle(p) ==
  IF backend = "redis" THEN Slot[CHOOSE q \in Partitions : TRUE]
  ELSE CHOOSE w \in Workers :
         \A x \in Workers : Len(workq[w].jobs) <= Len(workq[x].jobs)
                            /\ (eng[w].pc # "idle" => eng[x].pc # "idle")

\* route_affine in MongoDB's pool; a Redis connection has one worker.
WorkerOf(p) ==
  IF backend = "redis" THEN Slot[CHOOSE q \in Partitions : TRUE] ELSE Slot[p]

\* WorkerState::pending: a job counts until the worker lets go of it.
InUse(w) == Len(workq[w].jobs) + (IF eng[w].pc = "idle" THEN 0 ELSE 1)

\* The entity_load_atom and entity_save_atom handlers of the plugin: request
\* r is refused or put into the queue of w.  A plugin that has been shut
\* down does not answer.
Dispatch(r, w) ==
  CASE stopped -> UNCHANGED <<reply, workq>>
    [] ~stopped /\ InUse(w) >= max_pending ->
         /\ reply' = [reply EXCEPT ![r] = Refusal("unavailable")]
         /\ UNCHANGED workq
    [] OTHER -> /\ workq' = [workq EXCEPT ![w] = Push(@, r)]
                /\ UNCHANGED reply

-----------------------------------------------------------------------------
(* entity_store_actor.                                                     *)

admission_error == drain # "no" \/ pending >= max_pending

\* Mutant: a drain is answered without waiting for the reads and saves.
NotifyAtOnce(n) == drain' = IF drain = "waiting" THEN "acked" ELSE drain

\* notify_drained, when n requests are left.
notify_drained(n) ==
  drain' = IF drain = "waiting" /\ n = 0 THEN "acked" ELSE drain

\* pump on the queue q of partition p: the first n saves are refused, because
\* their deadlines have passed or the write service is missing, and the next
\* one is sent.  ans, st and count are what finish_save or save has changed.
pump(p, q, ans, st, count) ==
  \E n \in 0 .. Len(q) :
    LET over == {q[i] : i \in 1 .. n}
        left == SubSeq(q, n + 1, Len(q))
    IN
    /\ queues' = [queues EXCEPT ![p] = left]
    /\ pending' = count - n
    /\ notify_drained(count - n)
    /\ answers' = [s \in Saves |->
                     IF s \in over THEN Refusal("unavailable") ELSE ans[s]]
    /\ status' = [r \in DOMAIN st |->
         CASE r \in over -> "done"
           [] left # << >> /\ r = Head(left) -> "sent"
           [] OTHER -> st[r]]
    /\ IF left = << >> THEN UNCHANGED <<reply, workq>>
       ELSE Dispatch(Head(left), WorkerOf(p))

Sent == {r \in Saves \cup Loads : status[r] # "new"}

\* The entity_save_atom handler.
save(s) ==
  LET p == Request[s].partition IN
  /\ alive /\ s \in Local /\ status[s] = "new"
  /\ Cardinality(Sent) < MaxRequests
  /\ \/ /\ Request[s].changes = << >> \/ admission_error
        /\ answers' = [answers EXCEPT ![s] =
             Refusal(IF Request[s].changes = << >> THEN "invalid_request"
                     ELSE "unavailable")]
        /\ status' = [status EXCEPT ![s] = "done"]
        /\ UNCHANGED <<drain, queues, pending, accepted, reply, workq>>
     \/ /\ Request[s].changes # << >> /\ ~admission_error
        /\ accepted' = Append(accepted, s)
        /\ IF queues[p] = << >>
             THEN pump(p, <<s>>, answers, status, pending + 1)
             ELSE /\ queues' = [queues EXCEPT ![p] = Append(@, s)]
                  /\ pending' = pending + 1
                  /\ status' = [status EXCEPT ![s] = "queued"]
                  /\ UNCHANGED <<drain, answers, reply, workq>>
  /\ UNCHANGED <<backend, max_pending, alive, stopped, eng, serverVars>>

\* finish_save with the answer a.
finish_save(s, a) ==
  LET p == Request[s].partition IN
  /\ pump(p, Tail(queues[p]), [answers EXCEPT ![s] = a],
          [status EXCEPT ![s] = "done"], pending - 1)
  /\ UNCHANGED <<backend, max_pending, alive, accepted, stopped, eng,
                 serverVars>>

\* The reply, or the error of the request: its timeout, or a plugin that is
\* gone.
Received(s) ==
  /\ alive /\ status[s] = "sent" /\ reply[s] # NoAnswer
  /\ finish_save(s, reply[s])

Timeout(s) ==
  alive /\ status[s] = "sent" /\ finish_save(s, Refusal("commit_unknown"))

\* The entity_load_atom handler; a load is only counted here, its result
\* does not matter.  It may find no read service.
load(l) ==
  /\ alive /\ status[l] = "new" /\ Cardinality(Sent) < MaxRequests
  /\ \/ /\ status' = [status EXCEPT ![l] = "done"]
        /\ UNCHANGED <<pending, reply, workq>>
     \/ /\ ~admission_error
        /\ status' = [status EXCEPT ![l] = "sent"]
        /\ pending' = pending + 1
        /\ \E p \in Partitions : Dispatch(l, WorkerOf(p))
  /\ UNCHANGED <<backend, max_pending, alive, drain, queues, answers,
                 accepted, stopped, eng, serverVars>>

\* finish_load: a result, or an error of the request.
finish_load(l) ==
  /\ alive /\ status[l] = "sent"
  /\ status' = [status EXCEPT ![l] = "done"]
  /\ pending' = pending - 1
  /\ notify_drained(pending - 1)
  /\ UNCHANGED <<backend, max_pending, alive, queues, answers, accepted,
                 reply, stopped, workq, eng, serverVars>>

\* The drain_atom handler.
DrainAtom ==
  /\ alive /\ drain = "no"
  /\ drain' = IF pending = 0 THEN "acked" ELSE "waiting"
  /\ UNCHANGED <<backend, max_pending, alive, queues, pending, status,
                 answers, accepted, reply, stopped, workq, eng, serverVars>>

\* on_exit: everything that waits is answered.
on_exit ==
  /\ alive
  /\ alive' = FALSE
  /\ queues' = [p \in Partitions |-> << >>]
  /\ pending' = 0
  /\ answers' = [s \in Saves |->
       CASE status[s] = "sent" -> Refusal("commit_unknown")
         [] status[s] = "queued" -> Refusal("unavailable")
         [] OTHER -> answers[s]]
  /\ status' = [r \in DOMAIN status |->
       IF status[r] \in {"sent", "queued"} THEN "done" ELSE status[r]]
  /\ UNCHANGED <<backend, max_pending, drain, accepted, reply, stopped,
                 workq, eng, serverVars>>

-----------------------------------------------------------------------------
(* The workers.                                                            *)

\* The result reaches the actor unless that has given up; the job counts
\* until the worker asks for the next one.
Deliver(w, a) ==
  LET r == eng[w].job IN
  /\ reply' = IF alive /\ status[r] = "sent" THEN [reply EXCEPT ![r] = a]
              ELSE reply
  /\ eng' = [eng EXCEPT ![w] = [Idle EXCEPT !.pc = "delivered"]]

\* next_job: a load is executed at once; a MongoDB worker that is stopping
\* refuses what it takes.
Take(w) ==
  LET r == Head(workq[w].jobs)
      refused == backend = "mongo" /\ Stopped(workq[w])
      settled(a) ==
        /\ reply' = IF alive /\ status[r] = "sent"
                      THEN [reply EXCEPT ![r] = a] ELSE reply
        /\ eng' = [eng EXCEPT ![w] = [Idle EXCEPT !.pc = "delivered"]]
  IN
  /\ eng[w].pc = "idle" /\ CanPop(workq[w])
  /\ workq' = [workq EXCEPT ![w] = Popped(@)]
  /\ IF refused \/ r \in Loads THEN settled(Refusal("unavailable"))
     ELSE /\ eng' = [eng EXCEPT ![w] =
                       [Idle EXCEPT !.job = r, !.pc = "read", !.attempt = 1]]
          /\ UNCHANGED reply
  /\ UNCHANGED <<backend, max_pending, actorVars, stopped, serverVars>>

LetGo(w) ==
  /\ eng[w].pc = "delivered"
  /\ eng' = [eng EXCEPT ![w] = Idle]
  /\ UNCHANGED <<backend, max_pending, actorVars, reply, stopped, workq,
                 serverVars>>

\* The end of an attempt: a pause and another one, or the answer code.  A
\* pause ends early when the worker is stopped or the time is up.
retry_or(w, code) ==
  \/ /\ eng[w].attempt < MaxAttempts /\ ~workq[w].stop
     /\ eng' = [eng EXCEPT ![w] = [Idle EXCEPT !.job = eng[w].job,
                            !.pc = "read", !.attempt = eng[w].attempt + 1]]
     /\ UNCHANGED reply
  \/ Deliver(w, Refusal(code))

Others == <<backend, max_pending, actorVars, stopped, workq>>

\* MongoDB transactions that may still commit hold their documents and the
\* record; a save that writes one of them meets a conflict.
OpenTx ==
  {eng[w].job : w \in {x \in Workers : eng[x].pc = "write" /\ ~eng[x].applied}}
  \cup {s \in Saves : late[s].some}
Free(s) ==
  \A t \in OpenTx \ {s} : /\ Request[t].id # Request[s].id
                          /\ Touched(t) \cap Touched(s) = {}

\* What both engines do once they have read the record and the objects.
Computed(w, s) ==
  LET snap == Snapshot(s)
      r == ApplyAll(s, snap)
  IN  CASE Request[s].id \in DOMAIN ledger -> Deliver(w, Replay(s))
        [] Request[s].id \notin DOMAIN ledger /\ r.code # "ok" ->
             Deliver(w, Refusal(r.code))
        [] OTHER -> /\ backend = "mongo" => Free(s)
                    /\ eng' = [eng EXCEPT ![w].pc = "write",
                                          ![w].snap = snap]
                    /\ UNCHANGED reply

-----------------------------------------------------------------------------
(* EntityStoreEngine of Redis.                                             *)

\* HMGET and the computation; stopped, out of time, not connected, or an
\* error: unavailable.
RedisRead(w) ==
  LET s == eng[w].job IN
  /\ backend = "redis" /\ eng[w].pc = "read"
  /\ \/ ~workq[w].stop /\ Computed(w, s)
     \/ retry_or(w, "unavailable")
  /\ UNCHANGED <<Others, serverVars>>

\* EVAL.  A failure before it is sent, or an error reply, is no commit; a
\* reply that does not arrive leaves it open, and the script may run later.
RedisWrite(w) ==
  LET s == eng[w].job
      snap == eng[w].snap
  IN
  /\ backend = "redis" /\ eng[w].pc = "write"
  /\ \/ /\ retry_or(w, "unavailable")
        /\ UNCHANGED serverVars
     \/ /\ ~workq[w].stop
        /\ RunScript(s, snap)
        /\ CASE commit_script(s, snap) = "publish" ->
                  Deliver(w, [code |-> "ok", vers |-> ApplyAll(s, snap).vers])
             [] commit_script(s, snap) = "recorded" -> Deliver(w, Replay(s))
             [] OTHER -> retry_or(w, "conflict")
        /\ UNCHANGED late
     \/ /\ ~workq[w].stop
        /\ Deliver(w, Refusal("commit_unknown"))
        /\ \/ RunScript(s, snap) /\ UNCHANGED late
           \/ /\ late' = [late EXCEPT ![s] = [some |-> TRUE, snap |-> snap]]
              /\ UNCHANGED <<cells, ledger>>
  /\ UNCHANGED Others

-----------------------------------------------------------------------------
(* EntityStoreEngine of MongoDB.                                           *)

\* The transaction up to its commit.  A conflict with another one, a lost
\* connection or a duplicate key ends the attempt; a budget that is used up,
\* or an error that is not retryable, ends the save.
MongoRead(w) ==
  LET s == eng[w].job IN
  /\ backend = "mongo" /\ eng[w].pc = "read"
  /\ \/ ~workq[w].stop /\ Computed(w, s)
     \/ retry_or(w, "unavailable")
     \/ retry_or(w, "conflict")
     \/ Deliver(w, Refusal("internal_error"))
  /\ UNCHANGED <<Others, serverVars>>

\* A commit that may have been received is left to the server.
LeaveOpen(w) ==
  late' = IF eng[w].applied THEN late
          ELSE [late EXCEPT ![eng[w].job] = [some |-> TRUE,
                                             snap |-> eng[w].snap]]

\* The server refuses the commit, or the budget is used up: nothing was
\* done, unless an earlier commit of this transaction had no answer.
CommitRefused(w) ==
  IF eng[w].uncertain
    THEN Deliver(w, Refusal("commit_unknown")) /\ LeaveOpen(w)
    ELSE /\ retry_or(w, "unavailable") \/ Deliver(w, Refusal("internal_error"))
         /\ UNCHANGED late

\* commit_transaction: acknowledged; without an answer, and then repeated or
\* given up; or refused.  Committing twice is committing once.
MongoCommit(w) ==
  LET s == eng[w].job
      snap == eng[w].snap
      commits == ~eng[w].applied /\ Publish(s, snap)
      idles == UNCHANGED <<cells, ledger>>
      again(applied) ==
        /\ eng[w].commits + 1 < MaxAttempts
        /\ eng' = [eng EXCEPT ![w].uncertain = TRUE, ![w].commits = @ + 1,
                              ![w].applied = applied]
        /\ UNCHANGED <<reply, late>>
      unknown == Deliver(w, Refusal("commit_unknown"))
  IN
  /\ backend = "mongo" /\ eng[w].pc = "write"
  /\ \/ /\ ~workq[w].stop
        /\ commits \/ (eng[w].applied /\ idles)
        /\ Deliver(w, [code |-> "ok", vers |-> ApplyAll(s, snap).vers])
        /\ UNCHANGED late
     \/ /\ ~workq[w].stop
        /\ \/ commits /\ (again(TRUE) \/ (unknown /\ UNCHANGED late))
           \/ idles /\ (again(eng[w].applied) \/ (unknown /\ LeaveOpen(w)))
     \/ CommitRefused(w) /\ idles
  /\ UNCHANGED Others

-----------------------------------------------------------------------------
(* The environment.                                                        *)

\* A script or a commit without reply is executed late, or was lost.
Late(s) ==
  /\ late[s].some
  /\ late' = [late EXCEPT ![s] = Nothing]
  /\ RunScript(s, late[s].snap) \/ UNCHANGED <<cells, ledger>>
  /\ UNCHANGED <<Others, eng, reply>>

\* Another process saves.
RemoteSave(s) ==
  /\ s \in Remote /\ status[s] = "new"
  /\ backend = "mongo" => Free(s)
  /\ commit_script(s, Snapshot(s)) = "publish"
  /\ ApplyAll(s, Snapshot(s)).code = "ok"
  /\ Publish(s, Snapshot(s))
  /\ status' = [status EXCEPT ![s] = "done"]
  /\ answers' = [answers EXCEPT ![s] =
       [code |-> "ok", vers |-> ApplyAll(s, Snapshot(s)).vers]]
  /\ UNCHANGED <<backend, max_pending, alive, drain, queues, pending,
                 accepted, reply, stopped, workq, eng, late>>

\* on_shutdown of the plugin: stop_and_join.  A MongoDB pool fails what is
\* queued, a Redis worker still takes it and finds itself stopped.
StopPlugin ==
  LET failed == {r \in Saves \cup Loads :
                   /\ status[r] = "sent"
                   /\ \E w \in Workers : \E i \in DOMAIN workq[w].jobs :
                        workq[w].jobs[i] = r}
  IN
  /\ ~stopped
  /\ stopped' = TRUE
  /\ IF backend = "mongo"
       THEN /\ workq' = [w \in Workers |-> FailedAll(workq[w])]
            /\ reply' = [r \in DOMAIN reply |->
                 IF alive /\ r \in failed THEN Refusal("unavailable")
                 ELSE reply[r]]
       ELSE /\ workq' = [w \in Workers |->
                           QueueStopped(StopRequested(workq[w]))]
            /\ UNCHANGED reply
  /\ UNCHANGED <<backend, max_pending, actorVars, eng, serverVars>>

-----------------------------------------------------------------------------
Worker(w) ==
  \/ Take(w) \/ LetGo(w)
  \/ RedisRead(w) \/ RedisWrite(w) \/ MongoRead(w) \/ MongoCommit(w)

Next ==
  \/ \E s \in Saves : save(s) \/ Received(s) \/ Timeout(s) \/ Late(s)
                      \/ RemoteSave(s)
  \/ \E l \in Loads : load(l) \/ finish_load(l)
  \/ DrainAtom \/ on_exit \/ StopPlugin
  \/ \E w \in Workers : Worker(w)

\* Requests have timeouts, worker threads run, a load is answered.
Fairness ==
  /\ \A s \in Saves : WF_vars(Received(s) \/ Timeout(s))
  /\ \A l \in Loads : WF_vars(finish_load(l))
  /\ \A w \in Workers : WF_vars(Worker(w))

Spec == Init /\ [][Next]_vars /\ Fairness

-----------------------------------------------------------------------------
(* Properties.                                                             *)

TypeOK ==
  /\ drain \in {"no", "waiting", "acked"}
  /\ pending \in 0 .. max_pending
  /\ \A r \in Saves \cup Loads : status[r] \in {"new", "queued", "sent", "done"}
  /\ \A w \in Workers :
       /\ eng[w].pc \in {"idle", "read", "write", "delivered"}
       /\ eng[w].attempt \in 0 .. MaxAttempts
       /\ eng[w].commits \in 0 .. MaxAttempts - 1
       /\ InUse(w) <= max_pending
  /\ \A e \in Entities : cells[e] \in -1 .. Cardinality(Saves) * 2

\* The store implements ExactlyOnceStore on either database: retries of the
\* engine, repeated requests, saves of other processes and scripts or commits
\* that take effect late never apply a save twice or in part, and every
\* answer but commit_unknown is true.
Rows == [e \in Entities |-> IF cells[e] < 0 THEN 0 ELSE cells[e]]
FirstVersions == [e \in Entities |-> IF FirstRows[e] < 0 THEN 0 ELSE FirstRows[e]]
Store == INSTANCE ExactlyOnceStore WITH rows <- Rows, FirstRows <- FirstVersions
ExactlyOnce == Store!Spec

\* The saves of a partition reach the database one at a time and in the order
\* in which they were accepted, although the actor goes on to the next one
\* when it has stopped waiting for the one before: when a worker is at a
\* save, no earlier one of its partition is still to come or at a worker.
InOrder ==
  LET at(s) == \E w \in Workers : eng[w].job = s
      waits(s) == \/ \E w \in Workers : \E i \in DOMAIN workq[w].jobs :
                       workq[w].jobs[i] = s
                  \/ status[s] = "queued"
  IN  \A i, j \in DOMAIN accepted :
        LET s == accepted[i]
            t == accepted[j]
        IN  i < j /\ Request[s].partition = Request[t].partition /\ at(t)
              => ~at(s) /\ ~waits(s)

\* pending_ is the number of requests that wait for an answer, and the head
\* of each queue is the one that was sent.
Counted ==
  /\ pending = Cardinality({r \in Saves \cup Loads :
                              status[r] \in {"queued", "sent"}})
  /\ \A p \in Partitions : \A i \in DOMAIN queues[p] :
       status[queues[p][i]] = IF i = 1 THEN "sent" ELSE "queued"

\* A drain is answered exactly when nothing is left to answer, and nothing is
\* accepted after it.
DrainHonest ==
  alive /\ drain # "no" =>
    (drain = "acked" <=>
       \A r \in Saves \cup Loads : status[r] \in {"new", "done"})

\* The books of the actor are right at every moment, also when answers come
\* after their timeout and when full or stopped queues refuse a save.
Accounted == TypeOK /\ Counted /\ DrainHonest

\* Every request is answered: by the database, by its timeout or by the exit.
EveryRequestAnswered ==
  \A r \in Saves \cup Loads :
    status[r] \in {"queued", "sent"} ~> status[r] = "done"
=============================================================================
