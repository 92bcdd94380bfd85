------------------------------ MODULE LifoPool ------------------------------
(***************************************************************************)
(* LifoThreadPool of core/pool.py over LeakyLifoQueue of core/queues.py:   *)
(* the pool that runs automatic tile downloads.  Work waits on a stack.    *)
(* Once the stack is full, a new item pushes the bottom item out ("leaks"  *)
(* it) instead of blocking, so the newest requests are served first and    *)
(* the oldest are given up.  The pool is shut down by putting one          *)
(* terminator per worker on top of the stack.                              *)
(*                                                                         *)
(* Every queue method runs under the queue's mutex and every submit() and  *)
(* the test-and-set of shutdown() under _shutdownLock; with leaking on, a  *)
(* put never blocks, so each of them is one atomic step.  The loop that    *)
(* puts the terminators runs in a thread of its own, one put at a time.    *)
(* The pool's only user (the tile Downloader) sets leak to                 *)
(* taskBufferSize >= 0, so a bounded queue always leaks.                   *)
(***************************************************************************)
EXTENDS Integers, Sequences, FiniteSets

CONSTANTS Tasks,           \* submit() calls, numbered in the order they are made
          Workers,         \* the worker threads, maxThreads of them
          TaskBufferSize   \* taskBufferSize; negative: the queue is not bounded

ASSUME PoolAssumption ==
    /\ Tasks \subseteq Nat \ {0}
    /\ IsFiniteSet(Workers)
    /\ TaskBufferSize \in Int

VARIABLES stack,           \* _workQueue.queue, its bottom at index 1
          unfinished,      \* _workQueue.unfinished_tasks
          worker,          \* what every worker thread is doing
          item,            \* the work item a worker holds, 0 for none
          stage,           \* what has become of every task
          phase,           \* how far the shutdown has come
          terminatorsPut,  \* the terminators _shutdownHandler() has put so far
          join             \* the join argument of shutdown()

vars == <<stack, unfinished, worker, item, stage, phase, terminatorsPut, join>>

MaxThreads == Cardinality(Workers)

\* The sentinel object that tells a worker to stop; tasks are numbered from 1.
Terminator == 0

\* 0 stands for an unbounded queue.
QueueSize == IF TaskBufferSize >= 0 THEN MaxThreads + TaskBufferSize ELSE 0

WorkerStates == {"idle", "running", "stopping", "exited", "dead"}

Stages == {"new", "refused", "queued", "running", "done", "failed",
           "leaked", "dropped"}

Init ==
    /\ stack = <<>>
    /\ unfinished = 0
    /\ worker = [w \in Workers |-> "idle"]
    /\ item = [w \in Workers |-> 0]
    /\ stage = [t \in Tasks |-> "new"]
    /\ phase = "open"
    /\ terminatorsPut = 0
    /\ join = FALSE

-----------------------------------------------------------------------------
(* The queue.                                                              *)

Full == QueueSize > 0 /\ Len(stack) = QueueSize

\* The task that a put into the queue pushes out at the bottom.
Leaks(t) == Full /\ stack[1] = t

\* Mutant: the full queue pushes out the item on top.
PutOverTop(x) ==
    /\ stack' = Append(IF Full THEN SubSeq(stack, 1, Len(stack) - 1) ELSE stack, x)
    /\ unfinished' = IF Full THEN unfinished ELSE unfinished + 1

\* Mutant: the counter forgets that the item pushed out will never be done.
PutWithoutDiscount(x) ==
    /\ stack' = Append(IF Full THEN Tail(stack) ELSE stack, x)
    /\ unfinished' = unfinished + 1

\* LeakyLifoQueue.put(): leak the bottom item if the queue is full, then push.
Put(x) ==
    /\ stack' = Append(IF Full THEN Tail(stack) ELSE stack, x)
    /\ unfinished' = IF Full THEN unfinished ELSE unfinished + 1

TaskDone == unfinished' = unfinished - 1

-----------------------------------------------------------------------------
(* The callers of submit().                                                *)

\* Tasks are numbered in the order of the calls.
IsNextCall(t) == \A u \in Tasks : stage[u] = "new" <=> u >= t

\* submit(): the item is put, and the item leaked for it is returned.
Submit(t) ==
    /\ IsNextCall(t)
    /\ phase = "open"
    /\ Put(t)
    /\ stage' = [u \in Tasks |-> IF u = t THEN "queued"
                                 ELSE IF Leaks(u) THEN "leaked" ELSE stage[u]]
    /\ UNCHANGED <<worker, item, phase, terminatorsPut, join>>

\* submit() after shutdown(): RuntimeError.
Refuse(t) ==
    /\ IsNextCall(t)
    /\ phase # "open"
    /\ stage' = [stage EXCEPT ![t] = "refused"]
    /\ UNCHANGED <<stack, unfinished, worker, item, phase, terminatorsPut, join>>

-----------------------------------------------------------------------------
(* The worker threads.                                                     *)

Top == stack[Len(stack)]

\* Mutant: the queue hands out its oldest item.
GetBottom(w) ==
    /\ worker[w] = "idle"
    /\ stack # <<>>
    /\ stack' = Tail(stack)
    /\ worker' = [worker EXCEPT ![w] =
                    IF stack[1] = Terminator THEN "stopping" ELSE "running"]
    /\ item' = [item EXCEPT ![w] = stack[1]]
    /\ stage' = [t \in Tasks |-> IF t = stack[1] THEN "running" ELSE stage[t]]
    /\ UNCHANGED <<unfinished, phase, terminatorsPut, join>>

\* get() pops the item on top of the stack.
Get(w) ==
    /\ worker[w] = "idle"
    /\ stack # <<>>
    /\ stack' = SubSeq(stack, 1, Len(stack) - 1)
    /\ worker' = [worker EXCEPT ![w] =
                    IF Top = Terminator THEN "stopping" ELSE "running"]
    /\ item' = [item EXCEPT ![w] = Top]
    /\ stage' = [t \in Tasks |-> IF t = Top THEN "running" ELSE stage[t]]
    /\ UNCHANGED <<unfinished, phase, terminatorsPut, join>>

\* The function returns and the worker reports the task done.
Finish(w) ==
    /\ worker[w] = "running"
    /\ TaskDone
    /\ worker' = [worker EXCEPT ![w] = "idle"]
    /\ item' = [item EXCEPT ![w] = 0]
    /\ stage' = [stage EXCEPT ![item[w]] = "done"]
    /\ UNCHANGED <<stack, phase, terminatorsPut, join>>

\* The function raises: the exception ends the worker's loop and its thread
\* before task_done() is called, and nothing replaces the thread.
Raise(w) ==
    /\ worker[w] = "running"
    /\ worker' = [worker EXCEPT ![w] = "dead"]
    /\ item' = [item EXCEPT ![w] = 0]
    /\ stage' = [stage EXCEPT ![item[w]] = "failed"]
    /\ UNCHANGED <<stack, unfinished, phase, terminatorsPut, join>>

\* Mutant: the worker takes the terminator for an ordinary item and goes on.
StopNot(w) ==
    /\ worker[w] = "stopping"
    /\ TaskDone
    /\ worker' = [worker EXCEPT ![w] = "idle"]
    /\ UNCHANGED <<stack, item, stage, phase, terminatorsPut, join>>

\* The worker has got a terminator: task_done() and out of the loop.
Stop(w) ==
    /\ worker[w] = "stopping"
    /\ TaskDone
    /\ worker' = [worker EXCEPT ![w] = "exited"]
    /\ UNCHANGED <<stack, item, stage, phase, terminatorsPut, join>>

-----------------------------------------------------------------------------
(* The shutdown.                                                           *)

\* shutdown(): set the flag, then start the thread that puts the terminators.
\* A second call finds the flag set and changes nothing.
Shutdown(j) ==
    /\ phase = "open"
    /\ phase' = "closing"
    /\ join' = j
    /\ UNCHANGED <<stack, unfinished, worker, item, stage, terminatorsPut>>

\* Mutant: the loop leaves out the last worker.
PutTerminatorButOne ==
    /\ phase = "closing"
    /\ terminatorsPut < MaxThreads - 1
    /\ Put(Terminator)
    /\ terminatorsPut' = terminatorsPut + 1
    /\ stage' = [t \in Tasks |-> IF Leaks(t) THEN "dropped" ELSE stage[t]]
    /\ UNCHANGED <<worker, item, phase, join>>

\* One pass of the loop of _shutdownHandler(); what the put leaks is ignored.
PutTerminator ==
    /\ phase = "closing"
    /\ terminatorsPut < MaxThreads
    /\ Put(Terminator)
    /\ terminatorsPut' = terminatorsPut + 1
    /\ stage' = [t \in Tasks |-> IF Leaks(t) THEN "dropped" ELSE stage[t]]
    /\ UNCHANGED <<worker, item, phase, join>>

\* After the loop: _workQueue.join() if asked to wait, then the callback.
ShutdownReturns ==
    /\ phase = "closing"
    /\ terminatorsPut = MaxThreads
    /\ join => unfinished = 0
    /\ phase' = "closed"
    /\ UNCHANGED <<stack, unfinished, worker, item, stage, terminatorsPut, join>>

-----------------------------------------------------------------------------
WorkerStep(w) == Get(w) \/ Finish(w) \/ Raise(w) \/ Stop(w)

Next ==
    \/ \E t \in Tasks : Submit(t) \/ Refuse(t)
    \/ \E w \in Workers : Get(w) \/ Finish(w) \/ Raise(w) \/ Stop(w)
    \/ \E j \in BOOLEAN : Shutdown(j)
    \/ PutTerminator
    \/ ShutdownReturns

Spec == Init /\ [][Next]_vars

\* Threads that can run do run, and a submitted function returns or raises;
\* nobody has to call submit() or shutdown().
Fairness ==
    /\ \A w \in Workers : WF_vars(WorkerStep(w))
    /\ WF_vars(PutTerminator)
    /\ WF_vars(ShutdownReturns)

FairSpec == Spec /\ Fairness

-----------------------------------------------------------------------------
(* Properties.                                                             *)

TypeOK ==
    /\ stack \in Seq(Tasks \cup {Terminator})
    /\ unfinished \in Nat
    /\ worker \in [Workers -> WorkerStates]
    /\ item \in [Workers -> Tasks \cup {0}]
    /\ stage \in [Tasks -> Stages]
    /\ phase \in {"open", "closing", "closed"}
    /\ terminatorsPut \in 0..MaxThreads
    /\ join \in BOOLEAN

\* The workers that have taken an item and not (or never) reported it done.
Owing == {w \in Workers : worker[w] \in {"running", "stopping", "dead"}}

\* The counter that join() waits for is the number of items still in the
\* queue plus the number taken and not reported, through leaks, terminators
\* and functions that raise: it never falls below zero, where task_done()
\* raises ValueError and takes the worker with it.
CountsUnfinished == unfinished = Len(stack) + Cardinality(Owing)

\* A task is on the stack exactly while it is queued, and once; it is held by
\* a worker exactly while it runs, and by one.  So no call of submit() is
\* lost or run twice, whatever leaks past it.
NoTaskLost ==
    /\ TypeOK
    /\ \A t \in Tasks :
        /\ stage[t] = "queued" <=> \E i \in DOMAIN stack : stack[i] = t
        /\ \A i, j \in DOMAIN stack : stack[i] = t /\ stack[j] = t => i = j
        /\ stage[t] = "running" <=> \E w \in Workers : item[w] = t /\ worker[w] = "running"
        /\ \A v, w \in Workers :
              item[v] = t /\ item[w] = t /\ worker[v] = "running" /\ worker[w] = "running"
              => v = w

\* The workers that have got their terminator, and the terminators put that
\* no worker has got yet.
Stopped == {w \in Workers : worker[w] \in {"stopping", "exited"}}
Pending == terminatorsPut - Cardinality(Stopped)

\* The terminators nobody has taken are the topmost items of the stack, all of
\* them: no put leaks a terminator, however small the queue, and no work item
\* gets between them.
TerminatorsOnTop ==
    /\ Pending \in 0..Len(stack)
    /\ \A i \in DOMAIN stack : stack[i] = Terminator <=> i > Len(stack) - Pending

\* "The stack queue actually only supports shutting down at once": when the
\* last terminator has been put, no task still queued is started any more.
NoStartAfterShutdown ==
    [][terminatorsPut = MaxThreads =>
          \A t \in Tasks : stage[t] = "queued" => stage'[t] # "running"]_vars

\* Of the waiting tasks the newest is started, and the oldest is given up.
NewestFirst ==
    [][\A t, u \in Tasks :
          stage[t] = "queued" /\ stage[u] = "queued" =>
             /\ stage'[t] = "running" => u <= t
             /\ stage'[t] \in {"leaked", "dropped"} => t <= u]_vars

\* After shutdown() every worker thread ends, those included that were idle or
\* busy then, even when the stack was full.  A shutdown that was asked to wait
\* returns ("if requested, wait for the pool to shutdown", core/pool.py), but
\* for two cases in which an item is never reported done: a function has
\* raised, or tasks lie under the terminators, where no worker looks any more.
ShutdownEnds ==
    /\ phase = "closing" ~> \A w \in Workers : worker[w] \in {"exited", "dead"}
    /\ phase = "closing" /\ join ~>
          \/ phase = "closed"
          \/ \E w \in Workers : worker[w] = "dead"
          \/ terminatorsPut = MaxThreads /\ \E t \in Tasks : stage[t] = "queued"

\* The pool does what a pool of tasks promises.
mode == CASE phase = "open" -> "open"
          [] phase # "open" /\ terminatorsPut < MaxThreads -> "closing"
          [] OTHER -> "quiet"

Pool == INSTANCE TaskPool

ImplementsTaskPool == Pool!Spec

=============================================================================
