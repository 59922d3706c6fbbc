------------------------------- MODULE Logger -------------------------------
(***************************************************************************)
(* The asynchronous logger (src/monitor/Logger.cpp): log, called by every  *)
(* thread of the program; run, the worker thread; start and stop, called   *)
(* by main, which stops the logger after it has joined all other threads.  *)
(*                                                                         *)
(* Logger::mtx is held for the whole first block of log, which is one step *)
(* here; notify_one follows outside the lock and is another step.  The     *)
(* worker tests its predicate holding the mutex and then blocks: releasing *)
(* the mutex and starting to wait is one step, but the test and that step  *)
(* are two, and a notification that falls between them reaches nobody.     *)
(* stop writes running and notifies without taking the mutex.              *)
(*                                                                         *)
(* The worker only empties the queue.  Logger.hpp says that it prints what *)
(* it takes; the code does not, so the history is all that ever becomes    *)
(* visible of a message.                                                   *)
(***************************************************************************)
EXTENDS Integers, Sequences

CONSTANTS
  Threads,       \* the threads that log
  Messages,
  MAX_HISTORY,
  MaxLogs        \* bound: messages logged in a behaviour

ASSUME LoggerAssumption ==
  /\ MAX_HISTORY \in Nat \ {0}
  /\ MaxLogs \in Nat

VARIABLES
  running,       \* the atomic flag
  queue, history,
  worker,        \* where the worker thread is
  thread,        \* where each logging thread is in log
  main,          \* where main is in start and stop
  logged         \* all messages logged, in the order of the lock

vars == <<running, queue, history, worker, thread, main, logged>>

Init ==
  /\ running = FALSE
  /\ queue = <<>>
  /\ history = <<>>
  /\ worker = "unborn"
  /\ thread = [t \in Threads |-> "out"]
  /\ main = "init"
  /\ logged = <<>>

\* The worker holds mtx exactly at these places.
WorkerHoldsLock == worker \in {"predicate", "block", "drain"}

-----------------------------------------------------------------------------
\* main

start ==
  /\ main = "init"
  /\ running' = TRUE
  /\ worker' = "loop"
  /\ main' = "up"
  /\ UNCHANGED <<queue, history, thread, logged>>

\* stop, in three steps.  No thread is inside log any more, nor enters it.
stop ==
  /\ main = "up"
  /\ \A t \in Threads : thread[t] = "out"
  /\ running' = FALSE
  /\ main' = "notify"
  /\ UNCHANGED <<queue, history, worker, thread, logged>>

notifyAll ==
  /\ main = "notify"
  /\ worker' = IF worker = "waiting" THEN "woken" ELSE worker
  /\ main' = "join"
  /\ UNCHANGED <<running, queue, history, thread, logged>>

join ==
  /\ main = "join"
  /\ worker = "exited"
  /\ main' = "down"
  /\ UNCHANGED <<running, queue, history, worker, thread, logged>>

-----------------------------------------------------------------------------
\* A logging thread.

\* What a plausible bug would make of the definition that follows (as in all
\* definitions named ..._faulty, which no specification uses).
Trimmed_faulty(h) ==            \* drops the newest
  IF Len(h) > MAX_HISTORY THEN SubSeq(h, 1, Len(h) - 1) ELSE h

Trimmed_late_faulty(h) ==       \* one entry too many
  IF Len(h) > MAX_HISTORY + 1 THEN Tail(h) ELSE h

\* history.erase(history.begin()) when it has grown past MAX_HISTORY.
Trimmed(h) == IF Len(h) > MAX_HISTORY THEN Tail(h) ELSE h

\* The block of log that holds the lock.
log(t, msg) ==
  /\ main = "up"
  /\ thread[t] = "out"
  /\ ~WorkerHoldsLock
  /\ Len(logged) < MaxLogs
  /\ queue' = Append(queue, msg)
  /\ history' = Trimmed(Append(history, msg))
  /\ logged' = Append(logged, msg)
  /\ thread' = [thread EXCEPT ![t] = "notify"]
  /\ UNCHANGED <<running, worker, main>>

notifyOne_faulty(t) ==      \* does not notify for a queue that was not empty
  /\ thread[t] = "notify"
  /\ worker' = IF worker = "waiting" /\ Len(queue) = 1 THEN "woken" ELSE worker
  /\ thread' = [thread EXCEPT ![t] = "out"]
  /\ UNCHANGED <<running, queue, history, main, logged>>

notifyOne(t) ==
  /\ thread[t] = "notify"
  /\ worker' = IF worker = "waiting" THEN "woken" ELSE worker
  /\ thread' = [thread EXCEPT ![t] = "out"]
  /\ UNCHANGED <<running, queue, history, main, logged>>

-----------------------------------------------------------------------------
\* The worker thread: run.

\* while (running)
testRunning ==
  /\ worker = "loop"
  /\ worker' = IF running THEN "acquire" ELSE "exited"
  /\ UNCHANGED <<running, queue, history, thread, main, logged>>

\* Taking the mutex, at the start of the body or when woken.
acquire ==
  /\ worker \in {"acquire", "woken"}
  /\ worker' = "predicate"
  /\ UNCHANGED <<running, queue, history, thread, main, logged>>

WorkToDo_faulty == queue # <<>>      \* the predicate forgets about stop

\* The predicate of cv.wait.
WorkToDo == queue # <<>> \/ ~running

testPredicate ==
  /\ worker = "predicate"
  /\ worker' = IF WorkToDo THEN "drain" ELSE "block"
  /\ UNCHANGED <<running, queue, history, thread, main, logged>>

\* cv.wait releases the mutex and starts to wait.
block ==
  /\ worker = "block"
  /\ worker' = "waiting"
  /\ UNCHANGED <<running, queue, history, thread, main, logged>>

\* A condition variable may wake up for no reason.
spuriousWakeup ==
  /\ worker = "waiting"
  /\ worker' = "woken"
  /\ UNCHANGED <<running, queue, history, thread, main, logged>>

\* The inner loop, then the lock goes out of scope.  The messages are popped and
\* discarded: the worker prints none of them.
drain ==
  /\ worker = "drain"
  /\ queue' = <<>>
  /\ worker' = "loop"
  /\ UNCHANGED <<running, history, thread, main, logged>>

WorkerStep == testRunning \/ acquire \/ testPredicate \/ block \/ drain

Next ==
  \/ start \/ stop \/ notifyAll \/ join
  \/ \E t \in Threads : notifyOne(t) \/ \E msg \in Messages : log(t, msg)
  \/ WorkerStep
  \/ spuriousWakeup

Spec == Init /\ [][Next]_vars

\* The scheduler runs every thread that can run; nothing makes a thread log,
\* main stop the logger, or a condition variable wake up spuriously.
Fairness ==
  /\ WF_vars(WorkerStep)
  /\ WF_vars(notifyAll \/ join)
  /\ \A t \in Threads : WF_vars(notifyOne(t))

FairSpec == Spec /\ Fairness

-----------------------------------------------------------------------------
\* Properties.

\* Every variable keeps its type.
TypeOK ==
  /\ running \in BOOLEAN
  /\ queue \in Seq(Messages)
  /\ history \in Seq(Messages) /\ Len(history) <= MAX_HISTORY
  /\ worker \in {"unborn", "loop", "acquire", "predicate", "block", "waiting",
                 "woken", "drain", "exited"}
  /\ thread \in [Threads -> {"out", "notify"}]
  /\ main \in {"init", "up", "notify", "join", "down"}
  /\ logged \in Seq(Messages)

\* The history shown on the dashboard is exactly the last MAX_HISTORY messages
\* logged, oldest first, whatever the threads that logged them (log).
HistoryIsTail ==
  /\ Len(history) = IF Len(logged) <= MAX_HISTORY THEN Len(logged)
                                                  ELSE MAX_HISTORY
  /\ \A i \in 1 .. Len(history) :
       history[i] = logged[Len(logged) - Len(history) + i]

\* The worker never sleeps on a message: if it waits and the queue is not
\* empty, some thread is still to notify it (push under the lock, then notify;
\* test under the lock, then wait).
NoLostWakeup ==
  worker = "waiting" /\ queue # <<>> => \E t \in Threads : thread[t] = "notify"

\* A queued message is taken from the queue (and discarded, see drain), unless
\* the logger is stopped.
MessagesConsumed == queue # <<>> ~> (queue = <<>> \/ ~running)

\* stop returns if the worker was neither blocked nor about to block when main
\* started to join it.
StopReturnsOutsideWindow ==
  (main = "join" /\ worker \notin {"block", "waiting"}) ~> main = "down"

\* What Logger.hpp says of stop: it waits for the worker thread to exit.
StopReturns == main = "join" ~> main = "down"

\* What Logger.hpp says of stop: all queued messages are printed before
\* shutdown.  The worker prints nothing; here, even to have been taken from the
\* queue is not ensured.
StopFlushes == main = "down" => queue = <<>>
=============================================================================
