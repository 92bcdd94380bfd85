--------------------------- MODULE ThreadManager ---------------------------
(***************************************************************************)
(* ThreadManager and ModRanaThread of core/threads.py: the table of named  *)
(* threads that pools, searches, routing and the navigation worker share.  *)
(*                                                                         *)
(* add() looks a free name up before it takes the lock and enters the      *)
(* thread under the lock, so the two are separate steps, and a caller of   *)
(* add() is a process of its own.  A thread runs its target, reads its     *)
(* callback, calls it, and takes its name out of the table; what it raises *)
(* is kept per name, for the next get() or wait() of that name.            *)
(*                                                                         *)
(* Left out: the signals, which have no listeners but the search status,   *)
(* the global index that replaces the suffixes from 9000 on (MaxSuffix),   *)
(* and wait_all(), which nothing calls.                                    *)
(***************************************************************************)
EXTENDS Integers

CONSTANTS Threads,      \* the ModRanaThread objects
          Bases,        \* the names they are created with
          MaxSuffix,    \* the last suffix _getDuplicateName() tries
          Callers,      \* the threads that call add()
          Waiters,      \* the threads that call wait()
          NoThread

ASSUME ThreadManagerAssumption ==
    /\ Bases # {}
    /\ MaxSuffix \in Nat
    /\ NoThread \notin Threads

VARIABLES objs,         \* _objs: the thread of every name, or NoThread
          errors,       \* _errors: whose exception a name has, or NoThread
          name,         \* what Thread.name is, or was when the thread ended
          state,        \* what every thread is doing
          callback,     \* is Thread.callback set?
          adding,       \* the thread a caller is about to enter, or NoThread
          failed,       \* did the thread raise? (history)
          waiting,      \* the thread a waiter joins, or NoThread
          waitName      \* the name it called wait() with

threadVars == <<objs, errors, name, state, callback, adding, failed>>
waitVars == <<waiting, waitName>>
managerVars == <<objs, errors, name, state, callback, adding, failed,
                 waiting, waitName>>

\* A name is a base and the suffix "_i"; suffix 0 stands for none.
Name == Bases \X (0..MaxSuffix)

MaybeThread == Threads \cup {NoThread}

States == {"new", "named", "running", "calling", "leaving", "ended"}

\* A thread that was started and has not yet taken its name back.
Alive == {"running", "calling", "leaving"}

Init ==
    /\ objs = [n \in Name |-> NoThread]
    /\ errors = [n \in Name |-> NoThread]
    /\ name \in [Threads -> {<<b, 0>> : b \in Bases}]
    /\ state = [t \in Threads |-> "new"]
    /\ callback = [t \in Threads |-> TRUE]
    /\ adding = [c \in Callers |-> NoThread]
    /\ failed = [t \in Threads |-> FALSE]
    /\ waiting = [w \in Waiters |-> NoThread]
    /\ waitName = [w \in Waiters |-> CHOOSE n \in Name : TRUE]

-----------------------------------------------------------------------------
(* add().                                                                  *)

Free(n) == objs[n] = NoThread

\* The name itself if it is free, else the free one with the lowest suffix.
FreeName(b) ==
    {<<b, i>> : i \in {j \in 0..MaxSuffix :
                          /\ Free(<<b, j>>)
                          /\ \A k \in 0..(j - 1) : ~Free(<<b, k>>)}}

\* A provider makes a thread and add() settles its name.
ChooseName(c, t) ==
    /\ adding[c] = NoThread
    /\ state[t] = "new"
    /\ \E n \in FreeName(name[t][1]) : name' = [name EXCEPT ![t] = n]
    /\ state' = [state EXCEPT ![t] = "named"]
    /\ adding' = [adding EXCEPT ![c] = t]
    /\ UNCHANGED <<objs, errors, callback, failed, waitVars>>

\* Mutant: the error of the last thread of that name is left in the table.
EnterOnly(c) ==
    LET t == adding[c] IN
    /\ t # NoThread
    /\ objs' = [objs EXCEPT ![name[t]] = t]
    /\ state' = [state EXCEPT ![t] = "running"]
    /\ adding' = [adding EXCEPT ![c] = NoThread]
    /\ UNCHANGED <<errors, name, callback, failed, waitVars>>

\* Under the lock: the thread is entered, its error reset, and it is started.
Enter(c) ==
    LET t == adding[c] IN
    /\ t # NoThread
    /\ objs' = [objs EXCEPT ![name[t]] = t]
    /\ errors' = [errors EXCEPT ![name[t]] = NoThread]
    /\ state' = [state EXCEPT ![t] = "running"]
    /\ adding' = [adding EXCEPT ![c] = NoThread]
    /\ UNCHANGED <<name, callback, failed, waitVars>>

-----------------------------------------------------------------------------
(* ModRanaThread.run().                                                    *)

\* The target returned, and _conditionalCallback() reads the callback.
TargetReturns(t) ==
    /\ state[t] = "running"
    /\ state' = [state EXCEPT ![t] = IF callback[t] THEN "calling" ELSE "leaving"]
    /\ UNCHANGED <<objs, errors, name, callback, adding, failed, waitVars>>

\* The callback returned.
CallbackReturns(t) ==
    /\ state[t] = "calling"
    /\ state' = [state EXCEPT ![t] = "leaving"]
    /\ UNCHANGED <<objs, errors, name, callback, adding, failed, waitVars>>

\* The target or the callback raised: set_error().
Fail(t) ==
    /\ state[t] \in {"running", "calling"}
    /\ errors' = [errors EXCEPT ![name[t]] = t]
    /\ failed' = [failed EXCEPT ![t] = TRUE]
    /\ state' = [state EXCEPT ![t] = "leaving"]
    /\ UNCHANGED <<objs, name, callback, adding, waitVars>>

\* remove(): whatever has the thread's name is taken out of the table.  If
\* nothing has it, pop() raises KeyError, which ends the thread as well.
RemoveThread(t) ==
    /\ state[t] = "leaving"
    /\ objs' = [objs EXCEPT ![name[t]] = NoThread]
    /\ state' = [state EXCEPT ![t] = "ended"]
    /\ UNCHANGED <<errors, name, callback, adding, failed, waitVars>>

-----------------------------------------------------------------------------
(* cancel_thread() and wait().                                             *)

\* get() raises the error of the name and forgets it; otherwise the thread
\* found loses its callback.  A thread that reads its callback between the
\* two does what one does that read it before.
CancelThread(n) ==
    /\ objs[n] # NoThread
    /\ errors' = [errors EXCEPT ![n] = NoThread]
    /\ callback' = IF errors[n] = NoThread
                   THEN [callback EXCEPT ![objs[n]] = FALSE] ELSE callback
    /\ UNCHANGED <<objs, name, state, adding, failed, waitVars>>

\* wait() finds the thread, or raises the error of the name at once; without
\* either it returns.
Wait(w, n) ==
    /\ waiting[w] = NoThread
    /\ waitName' = [waitName EXCEPT ![w] = n]
    /\ waiting' = [waiting EXCEPT ![w] = IF errors[n] = NoThread THEN objs[n]
                                         ELSE NoThread]
    /\ errors' = [errors EXCEPT ![n] = NoThread]
    /\ UNCHANGED <<objs, name, state, callback, adding, failed>>

\* Mutant: a thread that failed is waited for until it succeeds.
JoinedUnlessFailed(w) ==
    /\ waiting[w] # NoThread
    /\ state[waiting[w]] = "ended"
    /\ ~failed[waiting[w]]
    /\ errors' = [errors EXCEPT ![waitName[w]] = NoThread]
    /\ waiting' = [waiting EXCEPT ![w] = NoThread]
    /\ UNCHANGED <<objs, name, state, callback, adding, failed, waitName>>

\* join() returned; what the name has by now is raised and forgotten.
Joined(w) ==
    /\ waiting[w] # NoThread
    /\ state[waiting[w]] = "ended"
    /\ errors' = [errors EXCEPT ![waitName[w]] = NoThread]
    /\ waiting' = [waiting EXCEPT ![w] = NoThread]
    /\ UNCHANGED <<objs, name, state, callback, adding, failed, waitName>>

ThreadStep(t) ==
    \/ TargetReturns(t)
    \/ CallbackReturns(t)
    \/ Fail(t)
    \/ RemoveThread(t)

Next ==
    \/ \E c \in Callers : Enter(c) \/ \E t \in Threads : ChooseName(c, t)
    \/ \E t \in Threads : ThreadStep(t)
    \/ \E n \in Name : CancelThread(n) \/ \E w \in Waiters : Wait(w, n)
    \/ \E w \in Waiters : Joined(w)

Spec == Init /\ [][Next]_managerVars

-----------------------------------------------------------------------------
(* Properties.                                                             *)

TypeOK ==
    /\ objs \in [Name -> MaybeThread]
    /\ errors \in [Name -> MaybeThread]
    /\ name \in [Threads -> Name]
    /\ state \in [Threads -> States]
    /\ callback \in [Threads -> BOOLEAN]
    /\ adding \in [Callers -> MaybeThread]
    /\ failed \in [Threads -> BOOLEAN]
    /\ waiting \in [Waiters -> MaybeThread]
    /\ waitName \in [Waiters -> Name]

\* No thread that has ended is found in the table, however callers of add()
\* race for a name: wait() and get() would hand it out for ever, and its name
\* could not be used again.
NoGhost ==
    \A n \in Name : objs[n] # NoThread => /\ state[objs[n]] \in Alive
                                          /\ name[objs[n]] = n

\* Unless callers of add() collide, every thread that runs is in the table under its
\* own name, so it can be found, cancelled and waited for.
Registered ==
    \A t \in Threads : state[t] \in Alive => objs[name[t]] = t

\* Unless callers of add() collide, the error get() and wait() raise for a thread
\* that runs is its own, never that of an earlier thread of the name.
ErrorIsOwn ==
    \A n \in Name : objs[n] # NoThread => errors[n] \in {NoThread, objs[n]}

\* A thread whose callback is taken away while its target runs does not call
\* it ("if it is set to None or False during processing, the callback will
\* not be called").
CancelledIsSilent ==
    [][\A t \in Threads : state[t] = "running" /\ ~callback[t]
                             => state'[t] # "calling"]_managerVars

\* What get(), wait(), cancel_thread() and exists() rely on, unless two callers
\* of add() have settled on one name at once: the names in the table are those of
\* the threads that run.
TableExact == NoGhost /\ Registered /\ ErrorIsOwn

\* A wait() for a thread returns, whatever threads take its name meanwhile.
WaitReturns ==
    \A w \in Waiters : waiting[w] # NoThread ~> waiting[w] = NoThread

=============================================================================
