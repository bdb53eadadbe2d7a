------------------------------ MODULE JobQueue ------------------------------
(***************************************************************************)
(* The queue between the actor of a database plugin and one of its worker  *)
(* threads (JobQueue) with the stop flag that WorkerState adds to it.  The *)
(* operators are what each method does while it holds the queue's mutex; a *)
(* job that a method rejects or throws out is failed by its caller, after  *)
(* the mutex is released.                                                  *)
(***************************************************************************)
EXTENDS Sequences

\* stop: stop_requested() of the stop source.  running, jobs: the queue.
NewQueue == [stop |-> FALSE, running |-> TRUE, jobs |-> << >>]

\* WorkerState::stopped().
Stopped(q) == q.stop \/ ~q.running

\* Mutant: a job is put in front of the waiting ones.
PushFront(q, j) == [q EXCEPT !.jobs = <<j>> \o @]

\* WorkerState::enqueue of a job that passes the check on stopped().
Push(q, j) == [q EXCEPT !.jobs = Append(@, j)]

\* JobQueue::pop, the job it returns and what is left; nothing to take and
\* not running means the worker ends.
CanPop(q) == q.jobs # << >>
Popped(q) == [q EXCEPT !.jobs = Tail(@)]
Finished(q) == q.jobs = << >> /\ ~q.running

\* The two halves of WorkerState::stop without fail_pending_on_stop.
StopRequested(q) == [q EXCEPT !.stop = TRUE]
QueueStopped(q) == [q EXCEPT !.running = FALSE]

\* WorkerState::fail_pending: the caller fails the jobs of the old queue.
FailedAll(q) == [stop |-> TRUE, running |-> FALSE, jobs |-> << >>]
=============================================================================
