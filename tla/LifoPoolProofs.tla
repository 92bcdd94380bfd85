--------------------------- MODULE LifoPoolProofs ---------------------------
(***************************************************************************)
(* Proofs about LifoPool, for any number of workers, any buffer size and   *)
(* any set of tasks.  The theorems all rest on one inductive invariant,    *)
(* PoolInv, which says what the stack holds and in which order.            *)
(***************************************************************************)
EXTENDS LifoPool, FiniteSetTheorems, SequenceTheorems, TLAPS

\* A worker holds a task exactly while it runs one.
HoldsWhileRunning ==
    \A w \in Workers : worker[w] = "running" <=> item[w] # 0

\* Work items stand in the order of their calls, and below every terminator.
InCallOrder ==
    \A i, j \in 1..Len(stack) :
        i < j /\ stack[j] # 0 => stack[i] # 0 /\ stack[i] < stack[j]

\* The stack holds the queued tasks, and the workers the running ones.
QueuedOnStack ==
    \A t \in Tasks : stage[t] = "queued" <=> \E i \in 1..Len(stack) : stack[i] = t

RunningHeld ==
    \A t \in Tasks : stage[t] = "running" <=> \E w \in Workers : item[w] = t

HeldOnce ==
    \A v, w \in Workers : item[v] = item[w] /\ item[v] # 0 => v = w

NoTerminatorBeforeShutdown == phase = "open" => terminatorsPut = 0

PoolInv ==
    /\ TypeOK
    /\ HoldsWhileRunning
    /\ InCallOrder
    /\ QueuedOnStack
    /\ RunningHeld
    /\ HeldOnce
    /\ NoTerminatorBeforeShutdown
    /\ TerminatorsOnTop
    /\ CountsUnfinished

USE PoolAssumption DEF Terminator

-----------------------------------------------------------------------------
(* Facts about the operations of the queue.                                *)

\* The numbers of workers that occur in the model are natural numbers.
LEMMA Counts ==
    /\ MaxThreads \in Nat
    /\ IsFiniteSet(Stopped) /\ Cardinality(Stopped) \in 0..MaxThreads
    /\ IsFiniteSet(Owing) /\ Cardinality(Owing) \in Nat
    /\ QueueSize \in Nat
    /\ QueueSize > 0 => QueueSize >= MaxThreads
  <1>1. MaxThreads \in Nat
    BY FS_CardinalityType DEF MaxThreads
  <1>2. Stopped \subseteq Workers /\ Owing \subseteq Workers
    BY DEF Stopped, Owing
  <1>3. /\ IsFiniteSet(Stopped) /\ Cardinality(Stopped) <= Cardinality(Workers)
        /\ IsFiniteSet(Owing) /\ Cardinality(Owing) <= Cardinality(Workers)
    BY <1>2, FS_Subset
  <1>4. Cardinality(Stopped) \in Nat /\ Cardinality(Owing) \in Nat
    BY <1>3, FS_CardinalityType
  <1> QED
    BY <1>1, <1>3, <1>4 DEF MaxThreads, QueueSize

\* What put() does to a stack that is not full: the item goes on top.
LEMMA PutOnTop ==
    ASSUME TypeOK, NEW x \in Tasks \cup {0}, Put(x), ~Full
    PROVE  /\ stack' \in Seq(Tasks \cup {0})
           /\ Len(stack') = Len(stack) + 1
           /\ stack'[Len(stack')] = x
           /\ \A i \in 1..Len(stack) : stack'[i] = stack[i]
           /\ unfinished' = unfinished + 1
  BY DEF TypeOK, Put

\* What put() does to a full stack: everything moves down by one place.
LEMMA PutLeaks ==
    ASSUME TypeOK, NEW x \in Tasks \cup {0}, Put(x), Full
    PROVE  /\ stack' \in Seq(Tasks \cup {0})
           /\ Len(stack) > 0
           /\ Len(stack') = Len(stack)
           /\ stack'[Len(stack')] = x
           /\ \A i \in 1..Len(stack) - 1 : stack'[i] = stack[i + 1]
           /\ unfinished' = unfinished
  <1>1. stack # <<>> /\ stack \in Seq(Tasks \cup {0}) /\ Len(stack) > 0
    BY Counts DEF TypeOK, Full
  <1>2. /\ Tail(stack) \in Seq(Tasks \cup {0})
        /\ Len(Tail(stack)) = Len(stack) - 1
        /\ \A i \in 1..Len(stack) - 1 : Tail(stack)[i] = stack[i + 1]
    BY <1>1
  <1>3. stack' = Append(Tail(stack), x) /\ unfinished' = unfinished
    BY DEF Put
  <1> QED
    BY <1>1, <1>2, <1>3

\* What get() does: the stack loses its top and nothing else.
LEMMA GetPops ==
    ASSUME TypeOK, NEW w \in Workers, Get(w)
    PROVE  /\ Len(stack) > 0
           /\ Top \in Tasks \cup {0}
           /\ stack' \in Seq(Tasks \cup {0})
           /\ Len(stack') = Len(stack) - 1
           /\ \A i \in 1..Len(stack) - 1 : stack'[i] = stack[i]
  <1>1. stack \in Seq(Tasks \cup {0}) /\ stack # <<>>
    BY DEF TypeOK, Get
  <1>2. Len(stack) \in Nat /\ Len(stack) > 0
    BY <1>1
  <1>3. stack' = SubSeq(stack, 1, Len(stack) - 1)
    BY DEF Get
  <1>4. Top \in Tasks \cup {0}
    BY <1>1, <1>2 DEF Top
  <1>5. /\ stack' \in Seq(Tasks \cup {0})
        /\ Len(stack') = Len(stack) - 1
    <2>1. \A i \in 1..Len(stack) - 1 : stack[i] \in Tasks \cup {0}
      BY <1>1, <1>2
    <2> DEFINE n == Len(stack) - 1
    <2>2. n \in Nat /\ \A i \in 1..n : stack[i] \in Tasks \cup {0}
      BY <1>1, <1>2, <2>1
    <2>3. /\ SubSeq(stack, 1, n) \in Seq(Tasks \cup {0})
          /\ Len(SubSeq(stack, 1, n)) = IF 1 <= n THEN n - 1 + 1 ELSE 0
      <3> HIDE DEF n
      <3> QED
        BY <2>2, SubSeqProperties
    <2>4. stack' = SubSeq(stack, 1, n) /\ n = Len(stack) - 1
      BY <1>3
    <2> HIDE DEF n
    <2>5. Len(SubSeq(stack, 1, n)) = n
      BY <2>2, <2>3
    <2> QED
      BY <2>3, <2>4, <2>5, Zenon
  <1>6. \A i \in 1..Len(stack) - 1 : stack'[i] = stack[i]
    BY <1>1, <1>2, <1>3
  <1> QED
    BY <1>2, <1>4, <1>5, <1>6

\* The variables that a step leaves alone leave these sets alone.
LEMMA SameWorkers ==
    ASSUME UNCHANGED worker
    PROVE  Stopped' = Stopped /\ Owing' = Owing
  BY DEF Stopped, Owing

-----------------------------------------------------------------------------
(* Every step preserves PoolInv.                                           *)

\* The pool starts with an empty stack and idle workers, so PoolInv holds.
LEMMA InitInv == Init => PoolInv
  <1> SUFFICES ASSUME Init PROVE PoolInv
    OBVIOUS
  <1>1. Stopped = {} /\ Owing = {}
    BY DEF Init, Stopped, Owing
  <1>2. Cardinality(Stopped) = 0 /\ Cardinality(Owing) = 0
    BY <1>1, FS_EmptySet
  <1>3. stack = <<>> /\ Len(stack) = 0
    BY DEF Init
  <1>4. TypeOK
    <2>1. <<>> \in Seq(Tasks \cup {0}) /\ 0 \in 0..MaxThreads
      BY Counts
    <2> QED
      BY <2>1 DEF Init, TypeOK, WorkerStates, Stages
  <1>5. TerminatorsOnTop /\ CountsUnfinished
    BY <1>2, <1>3 DEF Init, TerminatorsOnTop, Pending, CountsUnfinished
  <1>6. InCallOrder /\ QueuedOnStack
    BY <1>3 DEF Init, InCallOrder, QueuedOnStack
  <1>7. HoldsWhileRunning /\ RunningHeld /\ HeldOnce /\ NoTerminatorBeforeShutdown
    BY DEF Init, HoldsWhileRunning, RunningHeld, HeldOnce, NoTerminatorBeforeShutdown
  <1> QED
    BY <1>4, <1>5, <1>6, <1>7 DEF PoolInv

\* A submit() puts one task, leaks at most the bottom one, and never a terminator.
LEMMA SubmitInv ==
    ASSUME PoolInv, NEW t \in Tasks, Submit(t)
    PROVE  PoolInv'
  <1> USE DEF PoolInv
  <1>1. /\ Put(t) /\ t # 0 /\ t \in Nat
        /\ UNCHANGED <<worker, item, phase, terminatorsPut, join>>
        /\ phase = "open" /\ terminatorsPut = 0
    BY DEF Submit, NoTerminatorBeforeShutdown
  <1>2. \A u \in Tasks : stage[u] = "new" <=> u >= t
    BY DEF Submit, IsNextCall
  <1>3. Stopped' = Stopped /\ Owing' = Owing
    BY <1>1, SameWorkers
  <1>4. Pending = 0 /\ Pending' = 0
    BY <1>1, <1>3, Counts DEF TerminatorsOnTop, Pending
  <1>5. stack \in Seq(Tasks \cup {0}) /\ Len(stack) \in Nat
    BY DEF TypeOK
  <1>6. \A i \in 1..Len(stack) : stack[i] \in Tasks /\ stack[i] < t
    <2> SUFFICES ASSUME NEW i \in 1..Len(stack)
                 PROVE  stack[i] \in Tasks /\ stack[i] < t
      OBVIOUS
    <2>1. stack[i] # 0 /\ stack[i] \in Tasks
      BY <1>4, <1>5 DEF TerminatorsOnTop
    <2>2. stage[stack[i]] = "queued"
      BY <2>1 DEF QueuedOnStack
    <2>3. ~(stack[i] >= t)
      BY <1>2, <2>1, <2>2
    <2>4. stack[i] \in Nat
      BY <2>1
    <2> QED
      BY <1>1, <2>1, <2>3, <2>4
  <1>7. stage' = [u \in Tasks |-> IF u = t THEN "queued"
                                  ELSE IF Leaks(u) THEN "leaked" ELSE stage[u]]
    BY DEF Submit
  <1>8. \A u \in Tasks : stage'[u] = "running" <=> stage[u] = "running"
    <2> SUFFICES ASSUME NEW u \in Tasks
                 PROVE  stage'[u] = "running" <=> stage[u] = "running"
      OBVIOUS
    <2>1. stage[t] = "new"
      BY <1>1, <1>2
    <2>2. CASE Leaks(u)
      <3>1. stage[u] = "queued"
        BY <1>5, <2>2, Counts DEF QueuedOnStack, Leaks, Full
      <3> QED
        BY <1>7, <2>1, <2>2, <3>1
    <2>3. CASE ~Leaks(u)
      BY <1>7, <2>1, <2>3
    <2> QED
      BY <2>2, <2>3
  <1>9. HoldsWhileRunning' /\ HeldOnce' /\ NoTerminatorBeforeShutdown'
    BY <1>1 DEF HoldsWhileRunning, HeldOnce, NoTerminatorBeforeShutdown
  <1>10. RunningHeld'
    BY <1>1, <1>8 DEF RunningHeld
  <1>11. CASE ~Full
    <2>1. /\ stack' \in Seq(Tasks \cup {0})
          /\ Len(stack') = Len(stack) + 1
          /\ stack'[Len(stack')] = t
          /\ \A i \in 1..Len(stack) : stack'[i] = stack[i]
          /\ unfinished' = unfinished + 1
      BY <1>1, <1>11, PutOnTop
    <2>2. TypeOK'
      BY <1>1, <1>7, <2>1 DEF TypeOK, Stages, MaxThreads
    <2>3. InCallOrder'
      BY <1>1, <1>5, <1>6, <2>1 DEF InCallOrder
    <2>4. QueuedOnStack'
      BY <1>1, <1>5, <1>7, <1>11, <2>1 DEF QueuedOnStack, Leaks
    <2>5. TerminatorsOnTop'
      BY <1>1, <1>4, <1>5, <1>6, <2>1 DEF TerminatorsOnTop
    <2>6. CountsUnfinished'
      BY <1>3, <2>1, <1>5, Counts DEF CountsUnfinished
    <2> QED
      BY <1>9, <1>10, <2>2, <2>3, <2>4, <2>5, <2>6
  <1>12. CASE Full
    <2>1. /\ stack' \in Seq(Tasks \cup {0})
          /\ Len(stack) > 0
          /\ Len(stack') = Len(stack)
          /\ stack'[Len(stack')] = t
          /\ \A i \in 1..Len(stack) - 1 : stack'[i] = stack[i + 1]
          /\ unfinished' = unfinished
      BY <1>1, <1>12, PutLeaks
    <2>2. TypeOK'
      BY <1>1, <1>7, <2>1 DEF TypeOK, Stages, MaxThreads
    <2>3. InCallOrder'
      BY <1>1, <1>5, <1>6, <2>1 DEF InCallOrder
    <2>4. QueuedOnStack'
      <3> SUFFICES ASSUME NEW u \in Tasks
                   PROVE  stage'[u] = "queued" <=> \E i \in 1..Len(stack') : stack'[i] = u
        BY DEF QueuedOnStack
      <3>1. CASE u = t
        BY <1>1, <1>5, <1>7, <2>1, <3>1
      <3>2. CASE u # t /\ u = stack[1]
        <4>1. stage'[u] = "leaked"
          BY <1>7, <1>12, <3>2 DEF Leaks
        <4>2. \A i \in 1..Len(stack) - 1 : stack[i + 1] # u
          BY <1>1, <1>5, <1>6, <3>2 DEF InCallOrder
        <4> QED
          BY <1>5, <2>1, <3>2, <4>1, <4>2
      <3>3. CASE u # t /\ u # stack[1]
        <4>1. stage'[u] = stage[u]
          BY <1>7, <3>3 DEF Leaks
        <4>2. (\E i \in 1..Len(stack) : stack[i] = u)
                 <=> \E i \in 1..Len(stack) - 1 : stack[i + 1] = u
          <5>1. ASSUME NEW i \in 1..Len(stack), stack[i] = u
                PROVE  \E k \in 1..Len(stack) - 1 : stack[k + 1] = u
            <6>1. i # 1 /\ i - 1 \in 1..Len(stack) - 1 /\ (i - 1) + 1 = i
              BY <1>5, <3>3, <5>1
            <6> QED
              BY <5>1, <6>1
          <5> QED
            BY <1>5, <5>1
        <4>3. (\E i \in 1..Len(stack') : stack'[i] = u)
                 <=> \E i \in 1..Len(stack) - 1 : stack[i + 1] = u
          <5>1. 1..Len(stack') = (1..Len(stack) - 1) \cup {Len(stack')}
            BY <1>5, <2>1
          <5> QED
            BY <2>1, <3>3, <5>1
        <4> QED
          BY <4>1, <4>2, <4>3 DEF QueuedOnStack
      <3> QED
        BY <3>1, <3>2, <3>3
    <2>5. TerminatorsOnTop'
      BY <1>1, <1>4, <1>5, <1>6, <2>1 DEF TerminatorsOnTop
    <2>6. CountsUnfinished'
      BY <1>3, <2>1, <1>5, Counts DEF CountsUnfinished
    <2> QED
      BY <1>9, <1>10, <2>2, <2>3, <2>4, <2>5, <2>6
  <1> QED
    BY <1>11, <1>12

\* A submit() that is refused touches nothing but its own stage.
LEMMA RefuseInv ==
    ASSUME PoolInv, NEW t \in Tasks, Refuse(t)
    PROVE  PoolInv'
  <1> USE DEF PoolInv
  <1>1. /\ stage' = [stage EXCEPT ![t] = "refused"] /\ stage[t] = "new"
        /\ phase # "open"
        /\ UNCHANGED <<stack, unfinished, worker, item, phase, terminatorsPut, join>>
    BY DEF Refuse, IsNextCall
  <1>2. Stopped' = Stopped /\ Owing' = Owing
    BY <1>1, SameWorkers
  <1>3. TypeOK'
    BY <1>1 DEF TypeOK, Stages, MaxThreads
  <1>4. QueuedOnStack' /\ RunningHeld'
    BY <1>1 DEF TypeOK, QueuedOnStack, RunningHeld
  <1>5. TerminatorsOnTop' /\ CountsUnfinished'
    BY <1>1, <1>2 DEF TerminatorsOnTop, Pending, CountsUnfinished
  <1>6. HoldsWhileRunning' /\ HeldOnce' /\ InCallOrder' /\ NoTerminatorBeforeShutdown'
    BY <1>1 DEF HoldsWhileRunning, HeldOnce, InCallOrder, NoTerminatorBeforeShutdown
  <1> QED
    BY <1>3, <1>4, <1>5, <1>6

\* A worker that gets the top item takes the last terminator or the newest task.
LEMMA GetInv ==
    ASSUME PoolInv, NEW w \in Workers, Get(w)
    PROVE  PoolInv'
  <1> USE DEF PoolInv
  <1>1. /\ Len(stack) > 0
        /\ Top \in Tasks \cup {0}
        /\ stack' \in Seq(Tasks \cup {0})
        /\ Len(stack') = Len(stack) - 1
        /\ \A i \in 1..Len(stack) - 1 : stack'[i] = stack[i]
    BY GetPops
  <1>2. /\ worker[w] = "idle" /\ item[w] = 0
        /\ worker' = [worker EXCEPT ![w] = IF Top = 0 THEN "stopping" ELSE "running"]
        /\ item' = [item EXCEPT ![w] = Top]
        /\ stage' = [t \in Tasks |-> IF t = Top THEN "running" ELSE stage[t]]
        /\ UNCHANGED <<unfinished, phase, terminatorsPut, join>>
    BY DEF Get, HoldsWhileRunning, TypeOK
  <1>3. stack \in Seq(Tasks \cup {0}) /\ Len(stack) \in Nat
    BY DEF TypeOK
  <1>4. TypeOK'
    BY <1>1, <1>2 DEF TypeOK, WorkerStates, Stages, MaxThreads
  <1>5. HoldsWhileRunning' /\ NoTerminatorBeforeShutdown'
    BY <1>1, <1>2 DEF TypeOK, HoldsWhileRunning, NoTerminatorBeforeShutdown
  <1>6. InCallOrder'
    BY <1>1, <1>3 DEF InCallOrder
  <1>0. /\ Len(stack) \in 1..Len(stack)
        /\ \A i \in 1..Len(stack) - 1 : i \in 1..Len(stack) /\ i < Len(stack)
    BY <1>1, <1>3
  <1>7. Top # 0 => stage[Top] = "queued"
    BY <1>0, <1>1 DEF QueuedOnStack, Top
  <1>8. \A i \in 1..Len(stack) - 1 : Top # 0 => stack[i] # Top
    <2> SUFFICES ASSUME NEW i \in 1..Len(stack) - 1, Top # 0
                 PROVE  stack[i] # Top
      OBVIOUS
    <2>1. stack[i] < stack[Len(stack)] /\ stack[i] \in Tasks \cup {0}
      BY <1>0, <1>3 DEF InCallOrder, Top
    <2>2. stack[i] \in Int /\ Top \in Int
      <3>1. \A x \in Tasks \cup {0} : x \in Int
        OBVIOUS
      <3> QED
        BY <1>1, <2>1, <3>1, Zenon
    <2>3. Top = stack[Len(stack)]
      BY DEF Top
    <2> QED
      BY <2>1, <2>2, <2>3
  <1>9. QueuedOnStack'
    <2> SUFFICES ASSUME NEW t \in Tasks
                 PROVE  stage'[t] = "queued" <=> \E i \in 1..Len(stack') : stack'[i] = t
      BY DEF QueuedOnStack
    <2>1. CASE t = Top
      BY <1>1, <1>2, <1>3, <1>8, <2>1
    <2>2. CASE t # Top
      <3>1. (\E i \in 1..Len(stack) : stack[i] = t)
               <=> \E i \in 1..Len(stack) - 1 : stack[i] = t
        BY <1>1, <1>3, <2>2 DEF Top
      <3> QED
        BY <1>1, <1>2, <1>3, <2>2, <3>1 DEF QueuedOnStack
    <2> QED
      BY <2>1, <2>2
  <1>10. Top # 0 => \A v \in Workers : item[v] # Top
    BY <1>1, <1>7 DEF RunningHeld
  <1>11. HeldOnce'
    BY <1>2, <1>10 DEF TypeOK, HeldOnce
  <1>12. RunningHeld'
    BY <1>1, <1>2 DEF TypeOK, RunningHeld
  <1>13. CountsUnfinished'
    <2>1. Owing' = Owing \cup {w} /\ w \notin Owing
      BY <1>2 DEF TypeOK, Owing
    <2>2. Cardinality(Owing') = Cardinality(Owing) + 1
      BY <2>1, Counts, FS_AddElement
    <2> QED
      BY <1>1, <1>2, <1>3, <2>2, Counts DEF CountsUnfinished
  <1>14. TerminatorsOnTop'
    <2>1. CASE Top = 0
      <3>1. Stopped' = Stopped \cup {w} /\ w \notin Stopped
        BY <1>2, <2>1 DEF TypeOK, Stopped
      <3>2. Cardinality(Stopped') = Cardinality(Stopped) + 1
        BY <3>1, Counts, FS_AddElement
      <3>3. Pending' = Pending - 1
        BY <1>2, <3>2, Counts DEF Pending, TypeOK
      <3>4. Pending > 0
        BY <1>1, <1>3, <2>1 DEF TerminatorsOnTop, Top
      <3> QED
        BY <1>1, <1>3, <3>3, <3>4 DEF TerminatorsOnTop
    <2>2. CASE Top # 0
      <3>1. Stopped' = Stopped
        BY <1>2, <2>2 DEF TypeOK, Stopped
      <3>2. Pending' = Pending
        BY <1>2, <3>1 DEF Pending
      <3>3. Pending = 0
        BY <1>1, <1>3, <2>2 DEF TerminatorsOnTop, Top
      <3> QED
        BY <1>1, <1>3, <3>2, <3>3 DEF TerminatorsOnTop
    <2> QED
      BY <2>1, <2>2
  <1> QED
    BY <1>4, <1>5, <1>6, <1>9, <1>11, <1>12, <1>13, <1>14

\* Finish and Raise end a task in the same way but for the worker and the count.
LEMMA EndOfTask ==
    ASSUME PoolInv, NEW w \in Workers, NEW s \in {"done", "failed"},
           worker[w] = "running",
           stage' = [stage EXCEPT ![item[w]] = s],
           item' = [item EXCEPT ![w] = 0],
           UNCHANGED stack
    PROVE  /\ item[w] \in Tasks
           /\ stage' \in [Tasks -> Stages]
           /\ item' \in [Workers -> Tasks \cup {0}]
           /\ InCallOrder' /\ QueuedOnStack' /\ RunningHeld' /\ HeldOnce'
  <1> USE DEF PoolInv
  <1>1. item[w] \in Tasks /\ stage[item[w]] = "running"
    BY DEF TypeOK, HoldsWhileRunning, RunningHeld
  <1>2. stage' \in [Tasks -> Stages] /\ item' \in [Workers -> Tasks \cup {0}]
    BY <1>1 DEF TypeOK, Stages
  <1>3. InCallOrder' /\ QueuedOnStack'
    BY <1>1 DEF InCallOrder, QueuedOnStack, TypeOK
  <1>4. HeldOnce'
    BY DEF HeldOnce, TypeOK
  <1>5. RunningHeld'
    <2> SUFFICES ASSUME NEW t \in Tasks
                 PROVE  stage'[t] = "running" <=> \E v \in Workers : item'[v] = t
      BY DEF RunningHeld
    <2>1. CASE t = item[w]
      BY <1>1, <2>1 DEF HeldOnce, TypeOK
    <2>2. CASE t # item[w]
      BY <1>1, <2>2 DEF RunningHeld, TypeOK
    <2> QED
      BY <2>1, <2>2
  <1> QED
    BY <1>1, <1>2, <1>3, <1>4, <1>5

\* A worker that reports its task done owes one item less, like the counter.
LEMMA FinishInv ==
    ASSUME PoolInv, NEW w \in Workers, Finish(w)
    PROVE  PoolInv'
  <1> USE DEF PoolInv
  <1>1. /\ worker[w] = "running"
        /\ unfinished' = unfinished - 1
        /\ worker' = [worker EXCEPT ![w] = "idle"]
        /\ item' = [item EXCEPT ![w] = 0]
        /\ stage' = [stage EXCEPT ![item[w]] = "done"]
        /\ UNCHANGED <<stack, phase, terminatorsPut, join>>
    BY DEF Finish, TaskDone
  <1>2. /\ stage' \in [Tasks -> Stages]
        /\ item' \in [Workers -> Tasks \cup {0}]
        /\ InCallOrder' /\ QueuedOnStack' /\ RunningHeld' /\ HeldOnce'
    BY <1>1, EndOfTask
  <1>3. Owing' = Owing \ {w} /\ w \in Owing /\ Stopped' = Stopped
    BY <1>1 DEF TypeOK, Owing, Stopped
  <1>4. Cardinality(Owing') = Cardinality(Owing) - 1
    BY <1>3, Counts, FS_RemoveElement
  <1>5. Cardinality(Owing) > 0
    BY <1>3, Counts, FS_EmptySet
  <1>6. Len(stack) \in Nat
    BY DEF TypeOK
  <1>7. unfinished' = Len(stack) + Cardinality(Owing') /\ unfinished' \in Nat
    BY <1>1, <1>4, <1>5, <1>6, Counts DEF CountsUnfinished, TypeOK
  <1>8. TypeOK'
    BY <1>1, <1>2, <1>7 DEF TypeOK, WorkerStates, MaxThreads
  <1>9. CountsUnfinished' /\ TerminatorsOnTop'
    BY <1>1, <1>3, <1>7 DEF CountsUnfinished, TerminatorsOnTop, Pending
  <1>10. HoldsWhileRunning' /\ NoTerminatorBeforeShutdown'
    BY <1>1 DEF TypeOK, HoldsWhileRunning, NoTerminatorBeforeShutdown
  <1> QED
    BY <1>2, <1>8, <1>9, <1>10

\* A worker that dies goes on owing its item, and the counter stays.
LEMMA RaiseInv ==
    ASSUME PoolInv, NEW w \in Workers, Raise(w)
    PROVE  PoolInv'
  <1> USE DEF PoolInv
  <1>1. /\ worker[w] = "running"
        /\ worker' = [worker EXCEPT ![w] = "dead"]
        /\ item' = [item EXCEPT ![w] = 0]
        /\ stage' = [stage EXCEPT ![item[w]] = "failed"]
        /\ UNCHANGED <<stack, unfinished, phase, terminatorsPut, join>>
    BY DEF Raise
  <1>2. /\ stage' \in [Tasks -> Stages]
        /\ item' \in [Workers -> Tasks \cup {0}]
        /\ InCallOrder' /\ QueuedOnStack' /\ RunningHeld' /\ HeldOnce'
    BY <1>1, EndOfTask
  <1>3. Owing' = Owing /\ Stopped' = Stopped
    BY <1>1 DEF TypeOK, Owing, Stopped
  <1>4. TypeOK'
    BY <1>1, <1>2 DEF TypeOK, WorkerStates, MaxThreads
  <1>5. CountsUnfinished' /\ TerminatorsOnTop'
    BY <1>1, <1>3 DEF CountsUnfinished, TerminatorsOnTop, Pending
  <1>6. HoldsWhileRunning' /\ NoTerminatorBeforeShutdown'
    BY <1>1 DEF TypeOK, HoldsWhileRunning, NoTerminatorBeforeShutdown
  <1> QED
    BY <1>2, <1>4, <1>5, <1>6

\* A worker that reports its terminator done stays among those stopped.
LEMMA StopInv ==
    ASSUME PoolInv, NEW w \in Workers, Stop(w)
    PROVE  PoolInv'
  <1> USE DEF PoolInv
  <1>1. /\ worker[w] = "stopping"
        /\ unfinished' = unfinished - 1
        /\ worker' = [worker EXCEPT ![w] = "exited"]
        /\ UNCHANGED <<stack, item, stage, phase, terminatorsPut, join>>
    BY DEF Stop, TaskDone
  <1>2. Owing' = Owing \ {w} /\ w \in Owing /\ Stopped' = Stopped
    BY <1>1 DEF TypeOK, Owing, Stopped
  <1>3. Cardinality(Owing') = Cardinality(Owing) - 1
    BY <1>2, Counts, FS_RemoveElement
  <1>4. Cardinality(Owing) > 0
    BY <1>2, Counts, FS_EmptySet
  <1>5. Len(stack) \in Nat
    BY DEF TypeOK
  <1>6. unfinished' = Len(stack) + Cardinality(Owing') /\ unfinished' \in Nat
    BY <1>1, <1>3, <1>4, <1>5, Counts DEF CountsUnfinished, TypeOK
  <1>7. TypeOK'
    BY <1>1, <1>6 DEF TypeOK, WorkerStates, MaxThreads
  <1>8. CountsUnfinished' /\ TerminatorsOnTop'
    BY <1>1, <1>2, <1>6 DEF CountsUnfinished, TerminatorsOnTop, Pending
  <1>9. HoldsWhileRunning' /\ HeldOnce' /\ InCallOrder' /\ NoTerminatorBeforeShutdown'
    BY <1>1 DEF TypeOK, HoldsWhileRunning, HeldOnce, InCallOrder, NoTerminatorBeforeShutdown
  <1>10. QueuedOnStack' /\ RunningHeld'
    BY <1>1 DEF QueuedOnStack, RunningHeld
  <1> QED
    BY <1>7, <1>8, <1>9, <1>10

\* shutdown() sets the flag only.
LEMMA ShutdownInv ==
    ASSUME PoolInv, NEW j \in BOOLEAN, Shutdown(j)
    PROVE  PoolInv'
  <1> USE DEF PoolInv
  <1>1. /\ phase' = "closing" /\ join' = j
        /\ UNCHANGED <<stack, unfinished, worker, item, stage, terminatorsPut>>
    BY DEF Shutdown
  <1>2. Stopped' = Stopped /\ Owing' = Owing
    BY <1>1, SameWorkers
  <1>3. TypeOK'
    BY <1>1 DEF TypeOK, MaxThreads
  <1>4. TerminatorsOnTop' /\ CountsUnfinished'
    BY <1>1, <1>2 DEF TerminatorsOnTop, Pending, CountsUnfinished
  <1>5. /\ HoldsWhileRunning' /\ HeldOnce' /\ InCallOrder'
        /\ QueuedOnStack' /\ RunningHeld' /\ NoTerminatorBeforeShutdown'
    BY <1>1 DEF HoldsWhileRunning, HeldOnce, InCallOrder, QueuedOnStack, RunningHeld,
                NoTerminatorBeforeShutdown
  <1> QED
    BY <1>3, <1>4, <1>5

\* A terminator that is put on top leaks a task at most: fewer than MaxThreads
\* terminators are on a full stack, which holds MaxThreads items or more.
LEMMA PutTerminatorInv ==
    ASSUME PoolInv, PutTerminator
    PROVE  PoolInv'
  <1> USE DEF PoolInv
  <1>1. /\ Put(0) /\ phase = "closing"
        /\ terminatorsPut < MaxThreads /\ terminatorsPut' = terminatorsPut + 1
        /\ stage' = [t \in Tasks |-> IF Leaks(t) THEN "dropped" ELSE stage[t]]
        /\ UNCHANGED <<worker, item, phase, join>>
    BY DEF PutTerminator
  <1>2. Stopped' = Stopped /\ Owing' = Owing
    BY <1>1, SameWorkers
  <1>3. stack \in Seq(Tasks \cup {0}) /\ Len(stack) \in Nat /\ terminatorsPut \in Nat
    BY DEF TypeOK
  <1>4. terminatorsPut' \in 0..MaxThreads
    BY <1>1, <1>3, Counts
  <1>5. Pending \in 0..Len(stack) /\ Pending' = Pending + 1
    BY <1>1, <1>2, <1>3, Counts DEF TerminatorsOnTop, Pending
  <1>6. HoldsWhileRunning' /\ HeldOnce' /\ NoTerminatorBeforeShutdown'
    BY <1>1 DEF HoldsWhileRunning, HeldOnce, NoTerminatorBeforeShutdown
  <1>7. CASE ~Full
    <2>1. /\ stack' \in Seq(Tasks \cup {0})
          /\ Len(stack') = Len(stack) + 1
          /\ stack'[Len(stack')] = 0
          /\ \A i \in 1..Len(stack) : stack'[i] = stack[i]
          /\ unfinished' = unfinished + 1
      BY <1>1, <1>7, PutOnTop
    <2>2. stage' = stage
      BY <1>1, <1>7 DEF Leaks, TypeOK
    <2>3. TypeOK'
      BY <1>1, <1>4, <2>1, <2>2 DEF TypeOK, MaxThreads
    <2>4. InCallOrder'
      BY <1>3, <2>1 DEF InCallOrder
    <2>5. QueuedOnStack' /\ RunningHeld'
      BY <1>1, <1>3, <2>1, <2>2 DEF QueuedOnStack, RunningHeld
    <2>6. TerminatorsOnTop'
      BY <1>3, <1>5, <2>1 DEF TerminatorsOnTop
    <2>7. CountsUnfinished'
      BY <1>2, <1>3, <2>1, Counts DEF CountsUnfinished
    <2> QED
      BY <1>6, <2>3, <2>4, <2>5, <2>6, <2>7
  <1>8. CASE Full
    <2>1. /\ stack' \in Seq(Tasks \cup {0})
          /\ Len(stack) > 0
          /\ Len(stack') = Len(stack)
          /\ stack'[Len(stack')] = 0
          /\ \A i \in 1..Len(stack) - 1 : stack'[i] = stack[i + 1]
          /\ unfinished' = unfinished
      BY <1>1, <1>8, PutLeaks
    \* The queue holds more items than terminators have been put.
    <2>2. Pending < Len(stack)
      BY <1>1, <1>3, <1>8, Counts DEF Full, Pending
    <2>3. stack[1] \in Tasks /\ stack[1] # 0
      BY <1>3, <2>1, <2>2 DEF TerminatorsOnTop
    <2>4. TypeOK'
      BY <1>1, <1>4, <2>1 DEF TypeOK, Stages, MaxThreads
    <2>5. InCallOrder'
      BY <1>3, <2>1 DEF InCallOrder
    <2>6. \A t \in Tasks : stage'[t] = IF t = stack[1] THEN "dropped" ELSE stage[t]
      BY <1>1, <1>8 DEF Leaks
    <2>7. QueuedOnStack'
      <3> SUFFICES ASSUME NEW t \in Tasks
                   PROVE  stage'[t] = "queued" <=> \E i \in 1..Len(stack') : stack'[i] = t
        BY DEF QueuedOnStack
      <3>1. 1..Len(stack') = (1..Len(stack) - 1) \cup {Len(stack')}
        BY <1>3, <2>1
      <3>2. (\E i \in 1..Len(stack') : stack'[i] = t)
               <=> \E i \in 1..Len(stack) - 1 : stack[i + 1] = t
        BY <2>1, <3>1
      <3>3. CASE t = stack[1]
        <4>1. \A i \in 1..Len(stack) - 1 : stack[i + 1] # t
          <5> SUFFICES ASSUME NEW i \in 1..Len(stack) - 1, stack[i + 1] = t
                       PROVE  FALSE
            OBVIOUS
          <5>1. 1 \in 1..Len(stack) /\ i + 1 \in 1..Len(stack) /\ 1 < i + 1
            BY <1>3
          <5>2. stack[1] < stack[i + 1]
            BY <5>1 DEF InCallOrder
          <5> QED
            BY <2>3, <3>3, <5>2
        <4> QED
          BY <2>6, <3>2, <3>3, <4>1
      <3>4. CASE t # stack[1]
        <4>1. ASSUME NEW i \in 1..Len(stack), stack[i] = t
              PROVE  \E k \in 1..Len(stack) - 1 : stack[k + 1] = t
          <5>1. i # 1 /\ i - 1 \in 1..Len(stack) - 1 /\ (i - 1) + 1 = i
            BY <1>3, <3>4, <4>1
          <5> QED
            BY <4>1, <5>1
        <4>2. ASSUME NEW i \in 1..Len(stack) - 1, stack[i + 1] = t
              PROVE  \E k \in 1..Len(stack) : stack[k] = t
          BY <1>3, <4>2
        <4> QED
          BY <2>6, <3>2, <3>4, <4>1, <4>2 DEF QueuedOnStack
      <3> QED
        BY <3>3, <3>4
    <2>8. stage[stack[1]] = "queued"
      <3>1. 1 \in 1..Len(stack)
        BY <1>3, <2>1
      <3> QED
        BY <2>3, <3>1 DEF QueuedOnStack
    <2>9. RunningHeld'
      BY <1>1, <2>6, <2>8 DEF RunningHeld
    <2>10. TerminatorsOnTop'
      <3>1. Pending' \in 0..Len(stack')
        BY <1>3, <1>5, <2>1, <2>2
      <3>2. \A i \in 1..Len(stack') : stack'[i] = 0 <=> i > Len(stack') - Pending'
        <4> SUFFICES ASSUME NEW i \in 1..Len(stack')
                     PROVE  stack'[i] = 0 <=> i > Len(stack') - Pending'
          OBVIOUS
        <4>1. CASE i = Len(stack')
          BY <1>3, <1>5, <2>1, <4>1
        <4>2. CASE i # Len(stack')
          <5>1. /\ i \in 1..Len(stack) - 1 /\ i + 1 \in 1..Len(stack)
                /\ stack'[i] = stack[i + 1]
            BY <1>3, <2>1, <4>2
          <5>2. stack[i + 1] = 0 <=> i + 1 > Len(stack) - Pending
            BY <1>3, <5>1 DEF TerminatorsOnTop
          <5> QED
            BY <1>3, <1>5, <2>1, <5>1, <5>2
        <4> QED
          BY <4>1, <4>2
      <3>3. DOMAIN stack' = 1..Len(stack')
        BY <2>1
      <3> QED
        BY <3>1, <3>2, <3>3 DEF TerminatorsOnTop
    <2>11. CountsUnfinished'
      BY <1>2, <2>1 DEF CountsUnfinished
    <2> QED
      BY <1>6, <2>4, <2>5, <2>7, <2>9, <2>10, <2>11
  <1> QED
    BY <1>7, <1>8

\* The end of the shutdown touches neither stack nor workers.
LEMMA ShutdownReturnsInv ==
    ASSUME PoolInv, ShutdownReturns
    PROVE  PoolInv'
  <1> USE DEF PoolInv
  <1>1. /\ phase' = "closed"
        /\ UNCHANGED <<stack, unfinished, worker, item, stage, terminatorsPut, join>>
    BY DEF ShutdownReturns
  <1>2. Stopped' = Stopped /\ Owing' = Owing
    BY <1>1, SameWorkers
  <1>3. TypeOK'
    BY <1>1 DEF TypeOK, MaxThreads
  <1>4. TerminatorsOnTop' /\ CountsUnfinished'
    BY <1>1, <1>2 DEF TerminatorsOnTop, Pending, CountsUnfinished
  <1>5. /\ HoldsWhileRunning' /\ HeldOnce' /\ InCallOrder'
        /\ QueuedOnStack' /\ RunningHeld' /\ NoTerminatorBeforeShutdown'
    BY <1>1 DEF HoldsWhileRunning, HeldOnce, InCallOrder, QueuedOnStack, RunningHeld,
                NoTerminatorBeforeShutdown
  <1> QED
    BY <1>3, <1>4, <1>5

\* A step that changes no variable keeps PoolInv.
LEMMA StutterInv ==
    ASSUME PoolInv, UNCHANGED vars
    PROVE  PoolInv'
  <1> USE DEF PoolInv, vars
  <1>1. Stopped' = Stopped /\ Owing' = Owing
    BY SameWorkers
  <1>2. TypeOK'
    BY DEF TypeOK, MaxThreads
  <1>3. TerminatorsOnTop' /\ CountsUnfinished'
    BY <1>1 DEF TerminatorsOnTop, Pending, CountsUnfinished
  <1>4. /\ HoldsWhileRunning' /\ HeldOnce' /\ InCallOrder'
        /\ QueuedOnStack' /\ RunningHeld' /\ NoTerminatorBeforeShutdown'
    BY DEF HoldsWhileRunning, HeldOnce, InCallOrder, QueuedOnStack, RunningHeld,
           NoTerminatorBeforeShutdown
  <1> QED
    BY <1>2, <1>3, <1>4

\* Every step of the pool keeps PoolInv.
LEMMA StepInv == PoolInv /\ [Next]_vars => PoolInv'
  <1> SUFFICES ASSUME PoolInv, [Next]_vars
               PROVE  PoolInv'
    OBVIOUS
  <1>1. ASSUME NEW t \in Tasks, Submit(t) PROVE PoolInv'
    BY <1>1, SubmitInv
  <1>2. ASSUME NEW t \in Tasks, Refuse(t) PROVE PoolInv'
    BY <1>2, RefuseInv
  <1>3. ASSUME NEW w \in Workers, Get(w) PROVE PoolInv'
    BY <1>3, GetInv
  <1>4. ASSUME NEW w \in Workers, Finish(w) PROVE PoolInv'
    BY <1>4, FinishInv
  <1>5. ASSUME NEW w \in Workers, Raise(w) PROVE PoolInv'
    BY <1>5, RaiseInv
  <1>6. ASSUME NEW w \in Workers, Stop(w) PROVE PoolInv'
    BY <1>6, StopInv
  <1>7. ASSUME NEW j \in BOOLEAN, Shutdown(j) PROVE PoolInv'
    BY <1>7, ShutdownInv
  <1>8. CASE PutTerminator
    BY <1>8, PutTerminatorInv
  <1>9. CASE ShutdownReturns
    BY <1>9, ShutdownReturnsInv
  <1>10. CASE UNCHANGED vars
    BY <1>10, StutterInv
  <1> QED
    BY <1>1, <1>2, <1>3, <1>4, <1>5, <1>6, <1>7, <1>8, <1>9, <1>10 DEF Next

\* PoolInv, the strengthening all the theorems below rest on, always holds.
LEMMA PoolInvariant == Spec => []PoolInv
  BY InitInv, StepInv, PTL DEF Spec

-----------------------------------------------------------------------------
(* What follows from it.                                                   *)

\* The variables of the pool keep their types; in particular the unfinished
\* counter never goes below zero, so task_done() never raises ValueError.
THEOREM TypeCorrect == Spec => []TypeOK
  <1>1. PoolInv => TypeOK
    BY DEF PoolInv
  <1> QED
    BY <1>1, PoolInvariant, PTL

\* The counter that join() waits for is exact.
THEOREM UnfinishedExact == Spec => []CountsUnfinished
  <1>1. PoolInv => CountsUnfinished
    BY DEF PoolInv
  <1> QED
    BY <1>1, PoolInvariant, PTL

\* No put ever leaks a terminator, whatever the buffer size: the terminators
\* not yet taken are the topmost items of the stack.
THEOREM TerminatorsKept == Spec => []TerminatorsOnTop
  <1>1. PoolInv => TerminatorsOnTop
    BY DEF PoolInv
  <1> QED
    BY <1>1, PoolInvariant, PTL

\* Every submitted task is on the stack once, or held by one worker, or has
\* come to an end that the pool knows of.
THEOREM TasksKept == Spec => []NoTaskLost
  <1>1. PoolInv => NoTaskLost
    <2> SUFFICES ASSUME PoolInv, NEW t \in Tasks
                 PROVE  /\ stage[t] = "queued" <=> \E i \in DOMAIN stack : stack[i] = t
                        /\ \A i, j \in DOMAIN stack :
                              stack[i] = t /\ stack[j] = t => i = j
                        /\ stage[t] = "running" <=>
                              \E w \in Workers : item[w] = t /\ worker[w] = "running"
                        /\ \A v, w \in Workers :
                              /\ item[v] = t /\ item[w] = t
                              /\ worker[v] = "running" /\ worker[w] = "running"
                              => v = w
      BY DEF NoTaskLost, PoolInv
    <2> USE DEF PoolInv
    <2>1. stack \in Seq(Tasks \cup {0}) /\ DOMAIN stack = 1..Len(stack) /\ t \in Nat \ {0}
      BY DEF TypeOK
    <2>2. stage[t] = "queued" <=> \E i \in DOMAIN stack : stack[i] = t
      BY <2>1 DEF QueuedOnStack
    <2>3. ASSUME NEW i \in DOMAIN stack, NEW j \in DOMAIN stack,
                 stack[i] = t, stack[j] = t
          PROVE  i = j
      <3>1. ~(i < j) /\ ~(j < i)
        BY <2>1, <2>3 DEF InCallOrder
      <3> QED
        BY <2>1, <3>1
    <2>4. stage[t] = "running" <=> \E w \in Workers : item[w] = t /\ worker[w] = "running"
      BY <2>1 DEF RunningHeld, HoldsWhileRunning
    <2>5. \A v, w \in Workers : item[v] = t /\ item[w] = t => v = w
      BY <2>1 DEF HeldOnce
    <2> QED
      BY <2>2, <2>3, <2>4, <2>5
  <1> QED
    BY <1>1, PoolInvariant, PTL

\* After the last terminator has been put no queued task is started.
THEOREM NothingStartsAfterShutdown == Spec => NoStartAfterShutdown
  <1>1. PoolInv /\ [Next]_vars =>
           [terminatorsPut = MaxThreads =>
              \A t \in Tasks : stage[t] = "queued" => stage'[t] # "running"]_vars
    <2> SUFFICES ASSUME PoolInv, Next, terminatorsPut = MaxThreads,
                        NEW t \in Tasks, stage[t] = "queued", stage'[t] = "running"
                 PROVE  FALSE
      OBVIOUS
    <2> USE DEF PoolInv
    <2>1. PICK w \in Workers : Get(w)
      <3>1. ASSUME NEW u \in Tasks, Submit(u) PROVE FALSE
        BY <3>1 DEF Submit
      <3>2. ASSUME NEW u \in Tasks, Refuse(u) PROVE FALSE
        BY <3>2 DEF Refuse, TypeOK
      <3>3. ASSUME NEW w \in Workers, Finish(w) PROVE FALSE
        BY <3>3 DEF Finish, TypeOK
      <3>4. ASSUME NEW w \in Workers, Raise(w) PROVE FALSE
        BY <3>4 DEF Raise, TypeOK
      <3>5. ASSUME NEW w \in Workers, Stop(w) PROVE FALSE
        BY <3>5 DEF Stop
      <3>6. ASSUME NEW j \in BOOLEAN, Shutdown(j) PROVE FALSE
        BY <3>6 DEF Shutdown
      <3>7. ~PutTerminator /\ ~ShutdownReturns
        BY DEF PutTerminator, ShutdownReturns
      <3> QED
        BY <3>1, <3>2, <3>3, <3>4, <3>5, <3>6, <3>7 DEF Next
    <2>2. /\ Len(stack) > 0 /\ Top \in Tasks \cup {0}
      BY <2>1, GetPops
    <2>3. Top = t /\ worker[w] = "idle" /\ t # 0
      BY <2>1 DEF Get
    <2>4. Pending <= 0
      BY <2>2, <2>3 DEF TerminatorsOnTop, Top, TypeOK
    <2>5. Cardinality(Stopped) = Cardinality(Workers)
      BY <2>4, Counts DEF Pending, MaxThreads, TerminatorsOnTop
    <2>6. Stopped = Workers
      <3>1. Stopped \subseteq Workers
        BY DEF Stopped
      <3> QED
        BY <2>5, <3>1, FS_Subset
    <2> QED
      BY <2>3, <2>6 DEF Stopped
  <1> QED
    BY <1>1, PoolInvariant, PTL DEF Spec, NoStartAfterShutdown

\* Of the waiting tasks the newest is started and the oldest is given up.
THEOREM ServesNewestFirst == Spec => NewestFirst
  <1>1. PoolInv /\ [Next]_vars =>
           [\A t, u \in Tasks :
              stage[t] = "queued" /\ stage[u] = "queued" =>
                 /\ stage'[t] = "running" => u <= t
                 /\ stage'[t] \in {"leaked", "dropped"} => t <= u]_vars
    <2> SUFFICES ASSUME PoolInv, Next, NEW t \in Tasks, NEW u \in Tasks,
                        stage[t] = "queued", stage[u] = "queued"
                 PROVE  /\ stage'[t] = "running" => u <= t
                        /\ stage'[t] \in {"leaked", "dropped"} => t <= u
      OBVIOUS
    <2> USE DEF PoolInv
    <2>1. /\ t \in Nat \ {0} /\ u \in Nat \ {0} /\ Len(stack) \in Nat
          /\ stack \in Seq(Tasks \cup {0})
          /\ stage \in [Tasks -> Stages]
      BY DEF TypeOK
    <2>2. PICK i \in 1..Len(stack) : stack[i] = t
      BY DEF QueuedOnStack
    <2>3. PICK k \in 1..Len(stack) : stack[k] = u
      BY DEF QueuedOnStack
    <2>4. /\ i < k => t < u
          /\ k < i => u < t
      BY <2>1, <2>2, <2>3 DEF InCallOrder
    <2>5. ASSUME Leaks(t) PROVE t <= u
      <3>1. 1 \in 1..Len(stack) /\ stack[1] = t
        BY <2>1, <2>2, <2>5 DEF Leaks
      <3>2. 1 < k => t < u
        BY <2>1, <2>3, <3>1 DEF InCallOrder
      <3> QED
        BY <2>1, <2>3, <3>1, <3>2
    <2>6. ASSUME NEW x \in Tasks, Submit(x)
          PROVE  stage'[t] # "running" /\ (stage'[t] \in {"leaked", "dropped"} => Leaks(t))
      BY <2>6 DEF Submit
    <2>7. ASSUME NEW x \in Tasks, Refuse(x)
          PROVE  stage'[t] \notin {"running", "leaked", "dropped"}
      BY <2>1, <2>7 DEF Refuse
    <2>8. ASSUME NEW w \in Workers, Get(w)
          PROVE  /\ stage'[t] \notin {"leaked", "dropped"}
                 /\ stage'[t] = "running" => u <= t
      <3>1. stage'[t] = IF t = Top THEN "running" ELSE "queued"
        BY <2>8 DEF Get
      <3>2. CASE t = Top
        <4>1. Len(stack) \in 1..Len(stack) /\ stack[Len(stack)] = t
          BY <2>1, <2>2, <3>2 DEF Top
        <4>2. k < Len(stack) => u < t
          BY <2>1, <2>3, <4>1 DEF InCallOrder
        <4> QED
          BY <2>1, <2>3, <3>1, <3>2, <4>1, <4>2
      <3>3. CASE t # Top
        BY <3>1, <3>3
      <3> QED
        BY <3>2, <3>3
    <2>9. ASSUME NEW w \in Workers, Finish(w) \/ Raise(w)
          PROVE  stage'[t] \notin {"running", "leaked", "dropped"}
      BY <2>1, <2>9 DEF Finish, Raise
    <2>10. ASSUME NEW w \in Workers, Stop(w)
           PROVE  stage'[t] = stage[t]
      BY <2>10 DEF Stop
    <2>11. ASSUME NEW j \in BOOLEAN, Shutdown(j)
           PROVE  stage'[t] = stage[t]
      BY <2>11 DEF Shutdown
    <2>12. PutTerminator =>
              stage'[t] # "running" /\ (stage'[t] \in {"leaked", "dropped"} => Leaks(t))
      BY DEF PutTerminator
    <2>13. ShutdownReturns => stage'[t] = stage[t]
      BY DEF ShutdownReturns
    <2> QED
      BY <2>5, <2>6, <2>7, <2>8, <2>9, <2>10, <2>11, <2>12, <2>13 DEF Next
  <1> QED
    BY <1>1, PoolInvariant, PTL DEF Spec, NewestFirst

-----------------------------------------------------------------------------
(* The pool implements TaskPool.                                           *)

\* At any time a put pushes out at most one task, and that task was queued.
LEMMA LeakedIsQueued ==
    ASSUME PoolInv, NEW t \in Tasks, Leaks(t)
    PROVE  stage[t] = "queued" /\ \A u \in Tasks : Leaks(u) => u = t
  <1>1. 1 \in 1..Len(stack) /\ stack[1] = t
    BY Counts DEF PoolInv, TypeOK, Leaks, Full
  <1> QED
    BY <1>1 DEF PoolInv, QueuedOnStack, Leaks

\* Every behaviour of LifoPool is one of TaskPool: tasks are accepted, run by
\* one of the workers or given up, and after the shutdown
\* comes a point from which none is started.
THEOREM LifoPoolImplementsTaskPool == Spec => ImplementsTaskPool
  <1>1. Init => Pool!Init
    BY DEF Init, Pool!Init, mode
  <1>2. PoolInv /\ [Next]_vars => [Pool!Next]_(Pool!poolVars)
    <2> SUFFICES ASSUME PoolInv, [Next]_vars
                 PROVE  Pool!Next \/ UNCHANGED <<stage, item, mode>>
      BY DEF Pool!poolVars
    <2> USE DEF PoolInv
    <2>1. stage \in [Tasks -> Stages] /\ terminatorsPut \in Nat /\ MaxThreads \in Nat
      BY Counts DEF TypeOK
    <2>2. ASSUME NEW t \in Tasks, Submit(t) PROVE Pool!Next
      <3>1. /\ phase = "open" /\ mode = "open" /\ mode' = mode /\ item' = item
            /\ stage[t] = "new"
            /\ stage' = [u \in Tasks |-> IF u = t THEN "queued"
                                         ELSE IF Leaks(u) THEN "leaked" ELSE stage[u]]
        BY <2>2 DEF Submit, IsNextCall, mode
      <3>2. CASE \E u \in Tasks : Leaks(u)
        <4>1. PICK u \in Tasks : Leaks(u)
          BY <3>2
        <4>2. stage[u] = "queued" /\ \A v \in Tasks : Leaks(v) => v = u
          BY <4>1, LeakedIsQueued
        <4>3. stage' = [stage EXCEPT ![t] = "queued", ![u] = "leaked"]
          BY <2>1, <3>1, <4>1, <4>2
        <4>4. Pool!Accept(t)
          BY <3>1, <4>2, <4>3 DEF Pool!Accept, Pool!InStage
        <4> QED
          BY <4>4 DEF Pool!Next
      <3>3. CASE ~\E u \in Tasks : Leaks(u)
        <4>1. stage' = [stage EXCEPT ![t] = "queued"]
          BY <2>1, <3>1, <3>3
        <4>2. Pool!Accept(t)
          BY <3>1, <4>1 DEF Pool!Accept
        <4> QED
          BY <4>2 DEF Pool!Next
      <3> QED
        BY <3>2, <3>3
    <2>3. ASSUME NEW t \in Tasks, Refuse(t) PROVE Pool!Next
      <3>1. Pool!Refuse(t)
        BY <2>3 DEF Refuse, IsNextCall, mode, Pool!Refuse
      <3> QED
        BY <3>1 DEF Pool!Next
    <2>4. ASSUME NEW w \in Workers, Get(w)
          PROVE  Pool!Next \/ UNCHANGED <<stage, item, mode>>
      <3>1. /\ worker[w] = "idle" /\ mode' = mode
            /\ item[w] = 0 /\ item' = [item EXCEPT ![w] = Top]
            /\ stage' = [t \in Tasks |-> IF t = Top THEN "running" ELSE stage[t]]
        BY <2>4 DEF Get, mode, HoldsWhileRunning, TypeOK
      <3>2. Len(stack) \in Nat /\ Len(stack) > 0 /\ Top \in Tasks \cup {0}
        BY <2>4, GetPops DEF TypeOK
      <3>3. CASE Top = 0
        BY <2>1, <3>1, <3>3 DEF TypeOK
      <3>4. CASE Top \in Tasks
        <4>1. stage[Top] = "queued"
          <5>1. Len(stack) \in 1..Len(stack) /\ stack[Len(stack)] = Top
            BY <3>2 DEF Top
          <5> QED
            BY <3>4, <5>1 DEF QueuedOnStack
        <4>2. stage' = [stage EXCEPT ![Top] = "running"]
          BY <2>1, <3>1
        <4>3. mode # "quiet"
          <5> SUFFICES ASSUME mode = "quiet" PROVE FALSE
            OBVIOUS
          <5>1. terminatorsPut = MaxThreads
            BY <2>1 DEF mode, TypeOK
          <5>2. Pending <= 0
            BY <3>2, <3>4 DEF TerminatorsOnTop, Top, TypeOK
          <5>3. Cardinality(Stopped) = Cardinality(Workers) /\ Stopped \subseteq Workers
            BY <5>1, <5>2, Counts DEF Pending, MaxThreads, TerminatorsOnTop, Stopped
          <5>4. Stopped = Workers
            BY <5>3, FS_Subset
          <5> QED
            BY <3>1, <5>4 DEF Stopped
        <4>4. Pool!Start(Top, w)
          BY <3>1, <4>1, <4>2, <4>3 DEF Pool!Start
        <4> QED
          BY <3>4, <4>4 DEF Pool!Next
      <3> QED
        BY <3>2, <3>3, <3>4
    <2>5. ASSUME NEW w \in Workers, Finish(w) \/ Raise(w) PROVE Pool!Next
      <3>1. item[w] \in Tasks /\ stage[item[w]] = "running"
        <4>1. worker[w] = "running"
          BY <2>5 DEF Finish, Raise
        <4> QED
          BY <4>1 DEF TypeOK, HoldsWhileRunning, RunningHeld
      <3>2. Pool!End(w)
        BY <2>5, <3>1 DEF Finish, Raise, mode, Pool!End, Pool!InStage
      <3> QED
        BY <3>2 DEF Pool!Next
    <2>6. ASSUME NEW w \in Workers, Stop(w) PROVE UNCHANGED <<stage, item, mode>>
      BY <2>6 DEF Stop, mode
    <2>7. ASSUME NEW j \in BOOLEAN, Shutdown(j) PROVE Pool!Next
      <3>1. Pool!Close
        BY <2>7 DEF Shutdown, mode, Pool!Close
      <3> QED
        BY <3>1 DEF Pool!Next
    <2>8. CASE PutTerminator
      <3>1. /\ phase = "closing" /\ phase' = phase /\ mode = "closing"
            /\ mode' \in {"closing", "quiet"} /\ item' = item
            /\ stage' = [u \in Tasks |-> IF Leaks(u) THEN "dropped" ELSE stage[u]]
        BY <2>8 DEF PutTerminator, mode
      <3>2. CASE \E u \in Tasks : Leaks(u)
        <4>1. PICK u \in Tasks : Leaks(u)
          BY <3>2
        <4>2. stage[u] = "queued" /\ \A v \in Tasks : Leaks(v) => v = u
          BY <4>1, LeakedIsQueued
        <4>3. stage' = [stage EXCEPT ![u] = "dropped"]
          BY <2>1, <3>1, <4>1, <4>2
        <4>4. Pool!Wind
          BY <3>1, <4>2, <4>3 DEF Pool!Wind, Pool!InStage
        <4> QED
          BY <4>4 DEF Pool!Next
      <3>3. CASE ~\E u \in Tasks : Leaks(u)
        <4>1. stage' = stage
          BY <2>1, <3>1, <3>3
        <4>2. Pool!Wind
          BY <3>1, <4>1 DEF Pool!Wind
        <4> QED
          BY <4>2 DEF Pool!Next
      <3> QED
        BY <3>2, <3>3
    <2>9. CASE ShutdownReturns
      BY <2>9 DEF ShutdownReturns, mode
    <2>10. CASE UNCHANGED vars
      BY <2>10 DEF vars, mode
    <2> QED
      BY <2>2, <2>3, <2>4, <2>5, <2>6, <2>7, <2>8, <2>9, <2>10 DEF Next
  <1> QED
    BY <1>1, <1>2, PoolInvariant, PTL DEF Spec, ImplementsTaskPool, Pool!Spec

-----------------------------------------------------------------------------
(* What a shutdown leaves at rest.                                         *)

\* No thread of a pool that is shut down can take a step: the terminators are put, the
\* functions have returned and the idle workers find nothing on the stack.
ShutdownAtRest ==
    /\ phase = "closing" /\ terminatorsPut = MaxThreads
    /\ \A w \in Workers : worker[w] \notin {"running", "stopping"}
    /\ stack # <<>> => \A w \in Workers : worker[w] # "idle"
RestIsShutDown ==
    ShutdownAtRest =>
        /\ \A w \in Workers : worker[w] \in {"exited", "dead"}
        /\ \/ unfinished = 0
           \/ \E w \in Workers : worker[w] = "dead"
           \/ \E t \in Tasks : stage[t] = "queued"

\* A shutdown forgets no worker: when nothing moves any more each has got a terminator
\* or has died before, and join() is kept waiting by a function that has raised or a
\* task under the terminators only (_shutdownHandler() of core/pool.py).
THEOREM ShutdownLeavesNoWorker == Spec => []RestIsShutDown
  <1> SUFFICES ASSUME PoolInv, ShutdownAtRest
               PROVE  /\ \A w \in Workers : worker[w] \in {"exited", "dead"}
                      /\ \/ unfinished = 0
                         \/ \E w \in Workers : worker[w] = "dead"
                         \/ \E t \in Tasks : stage[t] = "queued"
    BY PoolInvariant, PTL DEF RestIsShutDown
  <1> USE DEF PoolInv
  <1>1. /\ worker \in [Workers -> WorkerStates] /\ stack \in Seq(Tasks \cup {0})
        /\ DOMAIN stack = 1..Len(stack) /\ Len(stack) \in Nat
    BY DEF TypeOK
  <1>2. Cardinality(Stopped) \in Nat /\ IsFiniteSet(Stopped) /\ Stopped \subseteq Workers
    BY Counts DEF Stopped
  <1>3. /\ Pending \in 0..Len(stack)
        /\ \A i \in 1..Len(stack) : stack[i] = 0 <=> i > Len(stack) - Pending
    BY <1>1 DEF TerminatorsOnTop
  <1>4. ASSUME NEW w \in Workers, worker[w] = "idle"
        PROVE  FALSE
    <2>1. Len(stack) = 0
      BY <1>4 DEF ShutdownAtRest
    <2>2. Cardinality(Stopped) = Cardinality(Workers)
      BY <1>2, <1>3, <2>1, Counts DEF Pending, ShutdownAtRest, MaxThreads
    <2>3. Stopped = Workers
      BY <1>2, <2>2, FS_Subset
    <2> QED
      BY <1>4, <2>3 DEF Stopped
  <1>5. \A w \in Workers : worker[w] \in {"exited", "dead"}
    BY <1>1, <1>4 DEF WorkerStates, ShutdownAtRest
  <1>6. ASSUME unfinished # 0, \A w \in Workers : worker[w] # "dead"
        PROVE  \E t \in Tasks : stage[t] = "queued"
    <2>1. Owing = {} /\ Stopped = Workers
      BY <1>5, <1>6 DEF Owing, Stopped
    <2>2. Cardinality(Owing) = 0 /\ Pending = 0
      BY <2>1, FS_EmptySet, Counts DEF Pending, ShutdownAtRest, MaxThreads
    <2>3. Len(stack) # 0
      BY <1>1, <1>6, <2>2 DEF CountsUnfinished
    <2>4. 1 \in 1..Len(stack)
      BY <1>1, <2>3
    <2>5. stack[1] # 0 /\ stack[1] \in Tasks \cup {0}
      BY <1>1, <1>3, <2>2, <2>4
    <2> QED
      BY <2>4, <2>5 DEF QueuedOnStack
  <1> QED
    BY <1>5, <1>6

=============================================================================
