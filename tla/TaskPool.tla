------------------------------ MODULE TaskPool ------------------------------
(***************************************************************************)
(* What a thread pool of core/pool.py promises to the code that submits    *)
(* work to it, without queues, priorities or terminators: every submitted  *)
(* task is accepted once, then it is run once by one of a bounded number   *)
(* of threads or is given up, and after a shutdown the pool comes to a     *)
(* point from which no waiting task is started any more.                   *)
(***************************************************************************)
EXTENDS Naturals

CONSTANTS Tasks,       \* the calls of ThreadPool.submit()
          Workers      \* the maxThreads threads of the pool

VARIABLES stage,       \* what has become of every task
          item,        \* the task that every thread runs, 0 for none
          mode         \* whether the pool accepts tasks and still starts them

poolVars == <<stage, item, mode>>

Stages == {"new", "refused", "queued", "running", "done", "failed",
           "leaked", "dropped"}

InStage(s) == {t \in Tasks : stage[t] = s}

Init ==
    /\ stage = [t \in Tasks |-> "new"]
    /\ item = [w \in Workers |-> 0]
    /\ mode = "open"

\* A submitted task is accepted; the pool may give up one that waits and say so.
Accept(t) ==
    /\ mode = "open"
    /\ stage[t] = "new"
    /\ \/ stage' = [stage EXCEPT ![t] = "queued"]
       \/ \E u \in InStage("queued") :
             stage' = [stage EXCEPT ![t] = "queued", ![u] = "leaked"]
    /\ UNCHANGED <<item, mode>>

\* Once the pool is shut down a submit() raises RuntimeError.
Refuse(t) ==
    /\ mode # "open"
    /\ stage[t] = "new"
    /\ stage' = [stage EXCEPT ![t] = "refused"]
    /\ UNCHANGED <<item, mode>>

\* A thread with nothing to do takes a waiting task.
Start(t, w) ==
    /\ mode # "quiet"
    /\ stage[t] = "queued"
    /\ item[w] = 0
    /\ stage' = [stage EXCEPT ![t] = "running"]
    /\ item' = [item EXCEPT ![w] = t]
    /\ UNCHANGED mode

\* The thread comes to the end of its task, by a return or by an exception.
End(w) ==
    /\ item[w] \in InStage("running")
    /\ \E s \in {"done", "failed"} : stage' = [stage EXCEPT ![item[w]] = s]
    /\ item' = [item EXCEPT ![w] = 0]
    /\ UNCHANGED mode

Close ==
    /\ mode = "open"
    /\ mode' \in {"closing", "quiet"}
    /\ UNCHANGED <<stage, item>>

\* While it shuts down the pool gives up waiting tasks and tells nobody;
\* with the last step of the shutdown it stops starting tasks.
Wind ==
    /\ mode = "closing"
    /\ mode' \in {"closing", "quiet"}
    /\ \/ UNCHANGED stage
       \/ \E u \in InStage("queued") : stage' = [stage EXCEPT ![u] = "dropped"]
    /\ UNCHANGED item

Next ==
    \/ \E t \in Tasks : Accept(t) \/ Refuse(t)
    \/ \E t \in Tasks, w \in Workers : Start(t, w)
    \/ \E w \in Workers : End(w)
    \/ Close
    \/ Wind

Spec == Init /\ [][Next]_poolVars

=============================================================================
