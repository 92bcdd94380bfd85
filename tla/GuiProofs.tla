----------------------------- MODULE GuiProofs -----------------------------
(***************************************************************************)
(* Proofs about what the Qt 5 GUI shows and what it asks of Python.        *)
(*                                                                         *)
(* ThreadManager: its table holds no thread that has ended, for any number *)
(* of racing callers; unless two callers settle on one name at once it     *)
(* holds every thread that runs, under its own name, with its own error.   *)
(* OnlineSearch, which implements ThreadManager: its callers do not        *)
(* overlap, and a page that stays busy has a search thread at work.        *)
(* TileView: answers reach the tile they are about, the model of the map   *)
(* holds what the map covered at the last call for an update, a tile that  *)
(* is stored is found, and at rest no tile of the screen is forgotten.     *)
(***************************************************************************)
EXTENDS OnlineSearch, TileView, FiniteSetTheorems, FunctionTheorems, SequenceTheorems, TLAPS

-----------------------------------------------------------------------------
(* The thread manager.                                                     *)

\* A thread that a caller is about to enter has its name, is not started, and
\* is entered by no other caller.
AddingIsNamed ==
    \A c \in Callers : adding[c] # NoThread =>
        /\ state[adding[c]] = "named"
        /\ \A d \in Callers : adding[d] = adding[c] => d = c

\* The state of the table alone, for any callers.
TableInv == TypeOK /\ AddingIsNamed /\ NoGhost

\* What FreeName() offers is a name that nothing has.
LEMMA FreeNameIsFree ==
    ASSUME NEW b \in Bases, NEW n \in FreeName(b)
    PROVE  n \in Name /\ objs[n] = NoThread
  <1>1. PICK i \in 0..MaxSuffix : n = <<b, i>> /\ Free(<<b, i>>)
    BY DEF FreeName
  <1>2. n \in Name
    BY <1>1 DEF Name
  <1>3. objs[n] = NoThread
    BY <1>1 DEF Free
  <1> QED
    BY <1>2, <1>3

LEMMA NameHasBase ==
    ASSUME NEW n \in Name
    PROVE  n[1] \in Bases
  BY DEF Name

\* In the initial states nothing is named, entered or failed.
LEMMA TableInit == Init => TableInv
  <1> SUFFICES ASSUME Init PROVE TableInv
    OBVIOUS
  <1>1. name \in [Threads -> Name]
    <2>1. \A b \in Bases : <<b, 0>> \in Name
      BY ThreadManagerAssumption DEF Name
    <2> QED
      BY <2>1 DEF Init
  <1>2. waitName \in [Waiters -> Name]
    <2>1. PICK b \in Bases : TRUE
      BY ThreadManagerAssumption
    <2>2. <<b, 0>> \in Name
      BY ThreadManagerAssumption DEF Name
    <2>3. (CHOOSE n \in Name : TRUE) \in Name
      BY <2>2
    <2> QED
      BY <2>3 DEF Init
  <1> QED
    BY <1>1, <1>2 DEF Init, TableInv, TypeOK, AddingIsNamed, NoGhost, MaybeThread, States

\* No step of add(), of a thread, of cancel_thread() or of wait() leaves an
\* ended thread in the table.
LEMMA TableStep == TableInv /\ [Next]_managerVars => TableInv'
  <1> SUFFICES ASSUME TableInv, [Next]_managerVars PROVE TableInv'
    OBVIOUS
  <1> USE ThreadManagerAssumption DEF TableInv, TypeOK, AddingIsNamed, NoGhost, MaybeThread, States, Alive
  <1>1. ASSUME NEW c \in Callers, NEW t \in Threads, ChooseName(c, t)
        PROVE  TableInv'
    <2>1. PICK n \in FreeName(name[t][1]) : name' = [name EXCEPT ![t] = n]
      BY <1>1 DEF ChooseName
    <2>2. n \in Name
      BY <2>1, NameHasBase, FreeNameIsFree
    <2>3. \A m \in Name : objs[m] # t
      BY <1>1 DEF ChooseName
    <2> QED
      BY <1>1, <2>1, <2>2, <2>3 DEF ChooseName, waitVars
  <1>2. ASSUME NEW c \in Callers, Enter(c)
        PROVE  TableInv'
    <2>1. adding[c] \in Threads /\ state[adding[c]] = "named"
      BY <1>2 DEF Enter
    <2>2. TypeOK'
      BY <1>2, <2>1 DEF Enter, waitVars
    <2>3. AddingIsNamed'
      <3> SUFFICES ASSUME NEW d \in Callers, adding'[d] # NoThread
                   PROVE  /\ state'[adding'[d]] = "named"
                          /\ \A e \in Callers : adding'[e] = adding'[d] => e = d
        OBVIOUS
      <3>1. d # c /\ adding'[d] = adding[d] /\ adding[d] # adding[c]
        BY <1>2, <2>1 DEF Enter
      <3> QED
        BY <1>2, <2>1, <3>1 DEF Enter
    <2>4. NoGhost'
      BY <1>2, <2>1 DEF Enter
    <2> QED
      BY <2>2, <2>3, <2>4
  <1>3. ASSUME NEW t \in Threads, ThreadStep(t)
        PROVE  TableInv'
    <2>1. CASE TargetReturns(t)
      BY <2>1 DEF TargetReturns, waitVars
    <2>2. CASE CallbackReturns(t)
      BY <2>2 DEF CallbackReturns, waitVars
    <2>3. CASE Fail(t)
      BY <2>3 DEF Fail, waitVars
    <2>4. CASE RemoveThread(t)
      BY <2>4 DEF RemoveThread, waitVars
    <2> QED
      BY <1>3, <2>1, <2>2, <2>3, <2>4 DEF ThreadStep
  <1>4. ASSUME NEW n \in Name, CancelThread(n)
        PROVE  TableInv'
    BY <1>4 DEF CancelThread, waitVars
  <1>5. ASSUME NEW n \in Name, NEW w \in Waiters, Wait(w, n)
        PROVE  TableInv'
    BY <1>5 DEF Wait
  <1>6. ASSUME NEW w \in Waiters, Joined(w)
        PROVE  TableInv'
    BY <1>6 DEF Joined
  <1>7. CASE UNCHANGED managerVars
    BY <1>7 DEF managerVars
  <1> QED
    BY <1>1, <1>2, <1>3, <1>4, <1>5, <1>6, <1>7 DEF Next

\* The variables of the thread manager keep their types.
THEOREM TypeCorrect == Spec => []TypeOK
  <1>1. TableInv => TypeOK
    BY DEF TableInv
  <1> QED
    BY <1>1, TableInit, TableStep, PTL DEF Spec

\* However many callers race for names, no name in the table stands for a
\* thread that has ended: remove() takes out whatever has the name.
THEOREM TableHasNoGhosts == Spec => []NoGhost
  <1>1. TableInv => NoGhost
    BY DEF TableInv
  <1> QED
    BY <1>1, TableInit, TableStep, PTL DEF Spec

-----------------------------------------------------------------------------
(* Callers of add() that do not settle on one name at once.                *)

\* No two callers are between the two steps of add() with the same name.
NamesApart ==
    \A c, d \in Callers :
        adding[c] # NoThread /\ adding[d] # NoThread /\ name[adding[c]] = name[adding[d]]
            => c = d

\* No two callers are between the two steps of add() at all.
OneAdding ==
    \A c, d \in Callers : adding[c] # NoThread /\ adding[d] # NoThread => c = d

\* The name a caller has chosen stays free until the thread is entered: only
\* a caller that has chosen it as well could take it.
ChosenIsFree ==
    \A c \in Callers : adding[c] # NoThread => objs[name[adding[c]]] = NoThread

OwnInv == TableInv /\ ChosenIsFree /\ Registered /\ ErrorIsOwn

LEMMA OwnInit == Init => OwnInv
  BY TableInit DEF Init, OwnInv, TableInv, ChosenIsFree, Registered, ErrorIsOwn, Alive

\* Choosing a name: it is free, and no thread that runs is touched.
LEMMA ChooseOwn ==
    ASSUME OwnInv, NEW c \in Callers, NEW t \in Threads, ChooseName(c, t)
    PROVE  ChosenIsFree' /\ Registered' /\ ErrorIsOwn'
  <1> USE ThreadManagerAssumption
      DEF OwnInv, TableInv, TypeOK, NoGhost, MaybeThread, States, Alive
  <1>1. PICK n \in FreeName(name[t][1]) : name' = [name EXCEPT ![t] = n]
    BY DEF ChooseName
  <1>2. n \in Name /\ objs[n] = NoThread
    BY <1>1, NameHasBase, FreeNameIsFree
  <1>3. ChosenIsFree'
    <2> SUFFICES ASSUME NEW d \in Callers, adding'[d] # NoThread
                 PROVE  objs'[name'[adding'[d]]] = NoThread
      BY DEF ChosenIsFree
    <2>1. CASE d = c
      BY <1>1, <1>2, <2>1 DEF ChooseName
    <2>2. CASE d # c
      <3>1. adding'[d] = adding[d] /\ state[adding[d]] = "named" /\ adding[d] # t
        BY <2>2 DEF ChooseName, AddingIsNamed
      <3> QED
        BY <1>1, <3>1 DEF ChooseName, ChosenIsFree
    <2> QED
      BY <2>1, <2>2
  <1>4. Registered'
    BY <1>1 DEF Registered, ChooseName
  <1>5. ErrorIsOwn'
    BY DEF ErrorIsOwn, ChooseName
  <1> QED
    BY <1>3, <1>4, <1>5

\* Entering a thread: its name was free, so no other thread loses its entry,
\* and the error an earlier thread left under the name is gone.
LEMMA EnterOwn ==
    ASSUME NamesApart, OwnInv, NEW c \in Callers, Enter(c)
    PROVE  ChosenIsFree' /\ Registered' /\ ErrorIsOwn'
  <1> USE ThreadManagerAssumption
      DEF OwnInv, TableInv, TypeOK, NoGhost, MaybeThread, States, Alive
  <1> DEFINE t == adding[c]
  <1>1. t \in Threads /\ objs[name[t]] = NoThread
    BY DEF Enter, ChosenIsFree
  <1>2. ASSUME NEW d \in Callers, adding'[d] # NoThread
        PROVE  adding'[d] = adding[d] /\ name[adding[d]] # name[t]
    BY <1>2 DEF Enter, NamesApart
  <1>3. ChosenIsFree'
    BY <1>1, <1>2 DEF ChosenIsFree, Enter
  <1>4. Registered'
    <2> SUFFICES ASSUME NEW u \in Threads, state'[u] \in Alive
                 PROVE  objs'[name'[u]] = u
      BY DEF Registered
    <2>1. CASE u = t
      BY <1>1, <2>1 DEF Enter
    <2>2. CASE u # t
      <3>1. objs[name[u]] = u
        BY <2>2 DEF Enter, Registered
      <3>2. name[u] # name[t]
        BY <1>1, <3>1
      <3> QED
        BY <1>1, <3>1, <3>2 DEF Enter
    <2> QED
      BY <2>1, <2>2
  <1>5. ErrorIsOwn'
    BY <1>1 DEF ErrorIsOwn, Enter
  <1> QED
    BY <1>3, <1>4, <1>5

\* A thread ends: only its own entry goes.
LEMMA ThreadOwn ==
    ASSUME OwnInv, NEW t \in Threads, ThreadStep(t)
    PROVE  ChosenIsFree' /\ Registered' /\ ErrorIsOwn'
  <1> USE ThreadManagerAssumption
      DEF OwnInv, TableInv, TypeOK, NoGhost, AddingIsNamed, MaybeThread, States, Alive
  <1>1. CASE TargetReturns(t)
    BY <1>1 DEF TargetReturns, ChosenIsFree, Registered, ErrorIsOwn
  <1>2. CASE CallbackReturns(t)
    BY <1>2 DEF CallbackReturns, ChosenIsFree, Registered, ErrorIsOwn
  <1>3. CASE Fail(t)
    <2>1. objs[name[t]] = t
      BY <1>3 DEF Fail, Registered
    <2> QED
      BY <1>3, <2>1 DEF Fail, ChosenIsFree, Registered, ErrorIsOwn
  <1>4. CASE RemoveThread(t)
    <2>1. objs[name[t]] = t
      BY <1>4 DEF RemoveThread, Registered
    <2>2. ChosenIsFree'
      BY <1>4 DEF RemoveThread, ChosenIsFree
    <2>3. Registered'
      BY <1>4, <2>1 DEF RemoveThread, Registered
    <2>4. ErrorIsOwn'
      BY <1>4 DEF RemoveThread, ErrorIsOwn
    <2> QED
      BY <2>2, <2>3, <2>4
  <1> QED
    BY <1>1, <1>2, <1>3, <1>4 DEF ThreadStep

LEMMA OwnStep ==
    ASSUME NamesApart, OwnInv, [Next]_managerVars
    PROVE  OwnInv'
  <1>1. TableInv'
    BY TableStep DEF OwnInv
  <1> USE ThreadManagerAssumption
      DEF OwnInv, TableInv, TypeOK, ChosenIsFree, Registered, ErrorIsOwn, MaybeThread
  <1>2. ASSUME NEW c \in Callers, NEW t \in Threads, ChooseName(c, t)
        PROVE  OwnInv'
    BY <1>1, <1>2, ChooseOwn
  <1>3. ASSUME NEW c \in Callers, Enter(c)
        PROVE  OwnInv'
    BY <1>1, <1>3, EnterOwn
  <1>4. ASSUME NEW t \in Threads, ThreadStep(t)
        PROVE  OwnInv'
    BY <1>1, <1>4, ThreadOwn
  <1>5. ASSUME NEW n \in Name, CancelThread(n)
        PROVE  OwnInv'
    BY <1>1, <1>5 DEF CancelThread
  <1>6. ASSUME NEW n \in Name, NEW w \in Waiters, Wait(w, n)
        PROVE  OwnInv'
    BY <1>1, <1>6 DEF Wait
  <1>7. ASSUME NEW w \in Waiters, Joined(w)
        PROVE  OwnInv'
    BY <1>1, <1>7 DEF Joined
  <1>8. CASE UNCHANGED managerVars
    BY <1>1, <1>8 DEF managerVars
  <1> QED
    BY <1>2, <1>3, <1>4, <1>5, <1>6, <1>7, <1>8 DEF Next

\* Whoever calls add(), and however often at once: as long as no two callers
\* have settled on the same name and entered neither thread yet, the names in the
\* table are those of the threads that run, each with its own error.  Two callers
\* that hold one name are the only way to lose a thread that runs from the table,
\* or to be given the error of another (ThreadManager.add()).
THEOREM TableIsExact == Spec /\ []NamesApart => []TableExact
  <1>1. OwnInv /\ NamesApart /\ [Next]_managerVars => OwnInv'
    BY OwnStep
  <1>2. OwnInv => TableExact
    BY DEF OwnInv, TableInv, TableExact
  <1> QED
    BY <1>1, <1>2, OwnInit, PTL DEF Spec

\* A thread that has lost its callback before its target returned stays
\* silent, whoever cancels it and however names are shared.
THEOREM CancelledStaysSilent == Spec => CancelledIsSilent
  <1>1. ASSUME TableInv, [Next]_managerVars
        PROVE  [\A t \in Threads : state[t] = "running" /\ ~callback[t]
                                     => state'[t] # "calling"]_managerVars
    <2> SUFFICES ASSUME NEW t \in Threads, state[t] = "running", ~callback[t]
                 PROVE  state'[t] # "calling"
      OBVIOUS
    <2> USE DEF TableInv, TypeOK, AddingIsNamed, States
    <2>1. ASSUME NEW c \in Callers, NEW u \in Threads, ChooseName(c, u)
          PROVE  state'[t] # "calling"
      BY <2>1 DEF ChooseName
    <2>2. ASSUME NEW c \in Callers, Enter(c)
          PROVE  state'[t] # "calling"
      BY <2>2 DEF Enter
    <2>3. ASSUME NEW u \in Threads, ThreadStep(u)
          PROVE  state'[t] # "calling"
      BY <1>1, <2>3 DEF ThreadStep, TargetReturns, CallbackReturns, Fail, RemoveThread
    <2>4. ASSUME NEW n \in Name, CancelThread(n)
          PROVE  state'[t] # "calling"
      BY <2>4 DEF CancelThread
    <2>5. ASSUME NEW n \in Name, NEW w \in Waiters, Wait(w, n)
          PROVE  state'[t] # "calling"
      BY <2>5 DEF Wait
    <2>6. ASSUME NEW w \in Waiters, Joined(w)
          PROVE  state'[t] # "calling"
      BY <2>6 DEF Joined
    <2>7. CASE UNCHANGED managerVars
      BY <1>1, <2>7 DEF managerVars
    <2> QED
      BY <1>1, <2>1, <2>2, <2>3, <2>4, <2>5, <2>6, <2>7 DEF Next
  <1> QED
    BY <1>1, TableInit, TableStep, PTL DEF Spec, CancelledIsSilent

-----------------------------------------------------------------------------
(* Online searches.  The pages send their calls to one Python thread, so   *)
(* the caller of add() is one at a time, whatever thread it is.            *)

\* A caller is between the two steps of add() only while a search is being
\* entered; what it enters is a thread of the kind the page asked for.
EnteringAdds ==
    \A c \in Callers : adding[c] # NoThread =>
        /\ serving = "entering"
        /\ Kind(adding[c]) = Head(calls).kind

\* The call that is being served is still the first.
ServingHasCall == serving # "idle" => calls # <<>>

\* A thread that was not yet entered can not have lost its callback; one whose
\* callback is at work with its name has sent its results, and one that has
\* sent them had its callback called.
SentAreCalled ==
    /\ \A t \in Threads : state[t] \in {"new", "named"} => callback[t]
    /\ \A t \in sent : state[t] \in {"calling", "leaving", "ended"}
    /\ \A t \in deleting : state[t] = "calling" /\ t \in sent

\* The state of the searches but for what the pages are to show.
Served ==
    /\ TableInv
    /\ SearchTypeOK
    /\ OneAdding
    /\ EnteringAdds
    /\ ServingHasCall
    /\ SentAreCalled

\* This thread will still send results.
WillSend(t) ==
    \/ state[t] = "running" /\ callback[t]
    \/ state[t] = "calling" /\ t \notin sent

\* The page will show a search in progress when it has handled what is under
\* way to it: the last event of its kind decides, or else what it shows now.
WillBeBusy(k) ==
    \/ busy[k] /\ \A i \in 1..Len(events) : events[i].kind # k
    \/ \E i \in 1..Len(events) :
          /\ events[i].kind = k /\ events[i].type = "searching"
          /\ \A j \in 1..Len(events) : j > i => events[j].kind # k

Working(k) == Unheard(k) \/ \E t \in Threads : Kind(t) = k /\ WillSend(t)

\* A page that will be busy has a thread that will send results, or is about
\* to hear that its search was cancelled.
BusyHasWork ==
    \A k \in Bases : WillBeBusy(k) =>
        \/ Working(k)
        \/ serving = "untracking" /\ Head(calls).kind = k

\* A search that is entered but not yet tracked has its thread at work.
TrackedHasWork == serving = "tracking" => Working(Head(calls).kind)

SearchInv ==
    /\ Served
    /\ BusyHasWork
    /\ TrackedHasWork

LEMMA FreeNameHasBase ==
    ASSUME NEW b, NEW n \in FreeName(b)
    PROVE  n[1] = b
  <1>1. PICK i \in 0..MaxSuffix : n = <<b, i>>
    BY DEF FreeName
  <1> QED
    BY <1>1

\* Appending to a sequence leaves its head alone.
LEMMA HeadStays ==
    ASSUME NEW S, NEW q \in Seq(S), q # <<>>
    PROVE  /\ Head(q) \in S
           /\ Tail(q) \in Seq(S)
           /\ \A x \in S : Head(Append(q, x)) = Head(q)
  OBVIOUS

LEMMA FirstHasKind ==
    ASSUME SearchTypeOK, calls # <<>>
    PROVE  Head(calls).kind \in Bases
  <1> DEFINE C == [op : {"search", "cancel"}, kind : Bases]
  <1>1. calls \in Seq(C)
    BY DEF SearchTypeOK
  <1>2. Head(calls) \in C
    <2> HIDE DEF C
    <2> QED
      BY <1>1, HeadStays
  <1> QED
    BY <1>2

LEMMA IdIsName == ASSUME NEW k \in Bases PROVE Id(k) \in Name
  BY ThreadManagerAssumption DEF Id, Name

\* A thread has a kind, and it is the first part of its name.
LEMMA KindIsBase == ASSUME TypeOK, NEW t \in Threads PROVE Kind(t) \in Bases
  BY DEF TypeOK, Kind, Name

\* Every step of a search is a step of the thread manager, or leaves it alone.
LEMMA SearchIsManager == SearchNext => [Next]_managerVars
  <1> USE DEF managerVars, waitVars
  <1>1. ASSUME NEW k \in Bases, AskSearch(k) \/ ClickCancel(k)
        PROVE  [Next]_managerVars
    BY <1>1 DEF AskSearch, ClickCancel
  <1>2. CASE Handle
    BY <1>2 DEF Handle
  <1>3. CASE PythonStep
    <2>1. ASSUME NEW c \in Callers, StartSearch(c)
          PROVE  Next
      BY <2>1 DEF StartSearch, Next
    <2>2. ASSUME NEW c \in Callers, NEW k \in Bases, BeginSearch(c, k)
          PROVE  Next
      BY <2>2 DEF BeginSearch, Next
    <2>3. CASE TrackSearch \/ Untrack
      BY <2>3 DEF TrackSearch, Untrack
    <2>4. ASSUME NEW k \in Bases, CancelSearch(k)
          PROVE  [Next]_managerVars
      BY <2>4, IdIsName DEF CancelSearch, Next
    <2> QED
      BY <1>3, <2>1, <2>2, <2>3, <2>4 DEF PythonStep
  <1>4. ASSUME NEW t \in Threads, SearchStep(t)
        PROVE  [Next]_managerVars
    <2>1. ThreadStep(t) \/ UNCHANGED managerVars
      BY <1>4 DEF SearchStep, Search, SendResults, StopTracking, NoResults, Leave, ThreadStep
    <2> QED
      BY <2>1 DEF Next
  <1>5. ASSUME NEW w \in Waiters, WaitStep(w)
        PROVE  Next
    BY <1>5 DEF WaitStep, Next
  <1>6. ASSUME NEW w \in Waiters, NEW n \in Name, Wait(w, n)
        PROVE  Next
    BY <1>6 DEF Next
  <1> QED
    BY <1>1, <1>2, <1>3, <1>4, <1>5, <1>6 DEF SearchNext

\* What the steps of the thread manager do to the threads: kinds stay, what
\* failed stays failed.
LEMMA KindsStay ==
    ASSUME TableInv, [Next]_managerVars, NEW t \in Threads
    PROVE  /\ name'[t][1] = name[t][1]
           /\ failed[t] => failed'[t]
  <1> USE DEF TableInv, TypeOK
  <1>1. ASSUME NEW c \in Callers, NEW u \in Threads, ChooseName(c, u)
        PROVE  name'[t][1] = name[t][1] /\ failed' = failed
    <2>1. PICK n \in FreeName(name[u][1]) : name' = [name EXCEPT ![u] = n]
      BY <1>1 DEF ChooseName
    <2>2. n[1] = name[u][1]
      BY <2>1, FreeNameHasBase
    <2> QED
      BY <1>1, <2>1, <2>2 DEF ChooseName
  <1>2. ASSUME NEW c \in Callers, Enter(c)
        PROVE  name' = name /\ failed' = failed
    BY <1>2 DEF Enter
  <1>3. ASSUME NEW u \in Threads, ThreadStep(u)
        PROVE  name' = name /\ (failed[t] => failed'[t])
    BY <1>3 DEF ThreadStep, TargetReturns, CallbackReturns, Fail, RemoveThread
  <1>4. ASSUME NEW n \in Name, CancelThread(n)
        PROVE  name' = name /\ failed' = failed
    BY <1>4 DEF CancelThread
  <1>5. ASSUME NEW n \in Name, NEW w \in Waiters, Wait(w, n)
        PROVE  name' = name /\ failed' = failed
    BY <1>5 DEF Wait
  <1>6. ASSUME NEW w \in Waiters, Joined(w)
        PROVE  name' = name /\ failed' = failed
    BY <1>6 DEF Joined
  <1> QED
    BY <1>1, <1>2, <1>3, <1>4, <1>5, <1>6 DEF Next, managerVars

LEMMA ServedInit == SearchInit => Served
  BY TableInit DEF SearchInit, Init, Served, SearchTypeOK, TableInv,
      OneAdding, OneAdding, EnteringAdds, ServingHasCall, SentAreCalled

LEMMA ServedStep == Served /\ [SearchNext]_searchVars => Served'
  <1> SUFFICES ASSUME Served, [SearchNext]_searchVars PROVE Served'
    OBVIOUS
  <1>0. TableInv'
    BY SearchIsManager, TableStep DEF Served, searchVars
  <1> DEFINE C == [op : {"search", "cancel"}, kind : Bases]
             E == [type : {"searching", "cancelled", "result"}, kind : Bases]
             Rest == OneAdding' /\ EnteringAdds' /\ ServingHasCall' /\ SentAreCalled'
  <1> USE DEF Served, TableInv
  <1>c. ASSUME NEW op \in {"search", "cancel"}, NEW k \in Bases
        PROVE  Call(op, k) \in C /\ Call(op, k).kind = k /\ Call(op, k).op = op
    BY DEF Call
  <1>e. ASSUME NEW type \in {"searching", "cancelled", "result"}, NEW k \in Bases
        PROVE  Event(type, k) \in E
    BY DEF Event
  <1>h. calls # <<>> => /\ Head(calls) \in C
                        /\ Tail(calls) \in Seq(C)
                        /\ \A x \in C : Head(Append(calls, x)) = Head(calls)
    <2>1. calls \in Seq(C)
      BY DEF SearchTypeOK
    <2> HIDE DEF C
    <2> QED
      BY <2>1, HeadStays
  <1>i. \A t \in Threads : Kind(t) \in Bases
    BY KindIsBase
  <1>1. ASSUME NEW k \in Bases, AskSearch(k) \/ ClickCancel(k)
        PROVE  Served'
    <2>1. PICK op \in {"search", "cancel"} : calls' = Append(calls, Call(op, k))
      BY <1>1 DEF AskSearch, ClickCancel
    <2>2. calls' \in Seq(C) /\ calls' # <<>>
      BY <2>1, <1>c DEF SearchTypeOK
    <2>3. SearchTypeOK'
      BY <1>0, <1>1, <2>2 DEF AskSearch, ClickCancel, SearchTypeOK
    <2>4. serving # "idle" => Head(calls') = Head(calls)
      BY <2>1, <1>c, <1>h DEF ServingHasCall
    <2>5. Rest
      BY <1>1, <2>2, <2>4 DEF AskSearch, ClickCancel, OneAdding, EnteringAdds, ServingHasCall,
            SentAreCalled, managerVars, Kind
    <2> QED
      BY <1>0, <2>3, <2>5
  <1>2. CASE Handle
    <2>1. events' \in Seq(E)
      BY <1>2 DEF Handle, SearchTypeOK
    <2>2. SearchTypeOK'
      BY <1>0, <1>2, <2>1 DEF Handle, SearchTypeOK
    <2>3. Rest
      BY <1>2 DEF Handle, OneAdding, EnteringAdds, ServingHasCall, SentAreCalled, managerVars, Kind
    <2> QED
      BY <1>0, <2>2, <2>3
  <1>3. ASSUME NEW c \in Callers, StartSearch(c)
        PROVE  Served'
    <2>1. SearchTypeOK'
      BY <1>0, <1>3 DEF StartSearch, SearchTypeOK
    <2>2. \A d \in Callers : adding'[d] = NoThread
      BY <1>3 DEF StartSearch, Enter, OneAdding, TypeOK
    <2>3. OneAdding' /\ EnteringAdds'
      BY <2>2 DEF OneAdding, EnteringAdds
    <2>4. ServingHasCall' /\ SentAreCalled'
      BY <1>3 DEF StartSearch, Enter, AddingIsNamed, EnteringAdds, ServingHasCall,
            SentAreCalled, TypeOK, SearchTypeOK, MaybeThread
    <2> QED
      BY <1>0, <2>1, <2>3, <2>4
  <1>4. ASSUME NEW c \in Callers, NEW k \in Bases, BeginSearch(c, k)
        PROVE  Served'
    <2>1. SearchTypeOK'
      BY <1>0, <1>4 DEF BeginSearch, SearchTypeOK
    <2>2. PICK t \in Threads : Kind(t) = k /\ ChooseName(c, t)
      BY <1>4 DEF BeginSearch
    <2>3. Kind(t)' = k
      BY <2>2, KindsStay DEF Kind, Next
    <2>4. \A d \in Callers : adding[d] = NoThread
      BY <1>4 DEF BeginSearch, IsSearch, EnteringAdds
    <2>5. \A d \in Callers : adding'[d] # NoThread => d = c /\ adding'[d] = t
      BY <2>2, <2>4 DEF ChooseName, TypeOK
    <2>6. calls' = calls /\ calls # <<>> /\ Head(calls).kind = k /\ serving' = "entering"
      BY <1>4, <1>c DEF BeginSearch, IsSearch
    <2>7. OneAdding' /\ EnteringAdds' /\ ServingHasCall'
      BY <2>3, <2>5, <2>6 DEF OneAdding, EnteringAdds, ServingHasCall, Kind
    <2>8. SentAreCalled'
      BY <1>4, <2>2 DEF BeginSearch, ChooseName, SentAreCalled, TypeOK
    <2> QED
      BY <1>0, <2>1, <2>7, <2>8
  <1>5. CASE TrackSearch \/ Untrack
    <2> DEFINE k == Head(calls).kind
    <2>1. k \in Bases /\ Tail(calls) \in Seq(C)
      BY <1>5, <1>h DEF TrackSearch, Untrack, ServingHasCall
    <2>2. PICK type \in {"searching", "cancelled"} : Reply(type, k)
      BY <1>5 DEF TrackSearch, Untrack
    <2>3. events' \in Seq(E)
      BY <2>1, <2>2, <1>e DEF Reply, SearchTypeOK
    <2>4. tracked' \subseteq Name
      BY <1>5, <2>1, IdIsName DEF TrackSearch, Untrack, SearchTypeOK
    <2>5. SearchTypeOK'
      BY <1>0, <1>5, <2>1, <2>2, <2>3, <2>4 DEF TrackSearch, Untrack, Reply, SearchTypeOK
    <2>6. \A d \in Callers : adding'[d] = NoThread
      BY <1>5 DEF TrackSearch, Untrack, EnteringAdds, managerVars
    <2>7. Rest
      BY <1>5, <2>2, <2>6 DEF TrackSearch, Untrack, Reply, OneAdding, EnteringAdds,
            ServingHasCall, SentAreCalled, managerVars
    <2> QED
      BY <1>0, <2>5, <2>7
  <1>6. ASSUME NEW k \in Bases, CancelSearch(k)
        PROVE  Served'
    <2>1. Tail(calls) \in Seq(C)
      BY <1>6, <1>h DEF CancelSearch, IsCancel
    <2>2. Append(events, Event("cancelled", k)) \in Seq(E)
      BY <1>e DEF SearchTypeOK
    <2>3. SearchTypeOK'
      BY <1>0, <1>6, <2>1, <2>2 DEF CancelSearch, Reply, SearchTypeOK
    <2>4. \A d \in Callers : adding'[d] = NoThread
      BY <1>6 DEF CancelSearch, IsCancel, EnteringAdds, CancelThread, managerVars
    <2>5. OneAdding' /\ EnteringAdds' /\ ServingHasCall'
      BY <1>6, <2>4 DEF CancelSearch, IsCancel, Reply, OneAdding, EnteringAdds, ServingHasCall
    <2>6. SentAreCalled'
      <3>1. state' = state /\ sent' = sent /\ deleting' = deleting
        BY <1>6 DEF CancelSearch, CancelThread, managerVars
      <3>2. \A t \in Threads : state[t] \in {"new", "named"} => callback'[t] = callback[t]
        BY <1>6, IdIsName DEF CancelSearch, CancelThread, managerVars, NoGhost, Alive,
              TypeOK, MaybeThread
      <3> QED
        BY <3>1, <3>2 DEF SentAreCalled
    <2> QED
      BY <1>0, <2>3, <2>5, <2>6
  <1>7. ASSUME NEW t \in Threads, SearchStep(t)
        PROVE  Served'
    <2>1. adding' = adding /\ serving' = serving /\ calls' = calls /\ name' = name
          /\ busy' = busy /\ callback' = callback
      BY <1>7 DEF SearchStep, Search, SendResults, StopTracking, NoResults, Leave, TargetReturns,
            CallbackReturns, Fail, RemoveThread, managerVars, pageVars
    <2>2. OneAdding' /\ EnteringAdds' /\ ServingHasCall'
      BY <2>1 DEF OneAdding, EnteringAdds, ServingHasCall, Kind
    <2>3. events' \in Seq(E)
      <3>1. events' = events \/ events' = Append(events, Event("result", Kind(t)))
        BY <1>7 DEF SearchStep, Search, SendResults, StopTracking, NoResults, Leave, pageVars
      <3>2. Event("result", Kind(t)) \in E
        BY <1>e, <1>i
      <3>3. events \in Seq(E)
        BY DEF SearchTypeOK
      <3> HIDE DEF E
      <3> QED
        BY <3>1, <3>2, <3>3
    <2>4. /\ tracked' \subseteq tracked
          /\ deleting' \subseteq deleting \cup {t}
          /\ sent' \subseteq sent \cup {t}
          /\ overtaken' \subseteq overtaken \cup {Kind(t)}
      BY <1>7 DEF SearchStep, Search, SendResults, StopTracking, NoResults, Leave, pageVars
    <2>5. SearchTypeOK'
      BY <1>0, <1>i, <2>1, <2>3, <2>4 DEF SearchTypeOK
    <2>6. SentAreCalled'
      <3> USE DEF SentAreCalled, TypeOK, SearchTypeOK
      <3>1. CASE Search(t)
        BY <2>1, <3>1 DEF Search, TargetReturns, Fail, pageVars
      <3>2. CASE SendResults(t)
        BY <2>1, <3>2 DEF SendResults, CallbackReturns, managerVars
      <3>3. CASE StopTracking(t)
        BY <2>1, <3>3 DEF StopTracking, CallbackReturns, Fail
      <3>4. CASE NoResults(t) \/ Leave(t)
        BY <2>1, <3>4, ZenonT(60) DEF NoResults, Leave, Fail, RemoveThread, pageVars
      <3> QED
        BY <1>7, <3>1, <3>2, <3>3, <3>4 DEF SearchStep
    <2> QED
      BY <1>0, <2>2, <2>5, <2>6
  <1>8. ASSUME UNCHANGED <<pageVars, adding, name, state, callback>>
        PROVE  Served'
    BY <1>0, <1>8 DEF pageVars, SearchTypeOK, OneAdding, EnteringAdds, ServingHasCall,
          SentAreCalled, Kind
  <1>9. ASSUME NEW w \in Waiters, WaitStep(w) \/ \E n \in Name : Wait(w, n) /\ UNCHANGED pageVars
        PROVE  Served'
    BY <1>8, <1>9 DEF WaitStep, Joined, Wait
  <1>10. CASE UNCHANGED searchVars
    BY <1>8, <1>10 DEF searchVars, managerVars
  <1> QED
    BY <1>1, <1>2, <1>3, <1>4, <1>5, <1>6, <1>7, <1>9, <1>10 DEF SearchNext, PythonStep

\* A search that went unheard stays so.
LEMMA UnheardStays ==
    ASSUME Served, [SearchNext]_searchVars, NEW k \in Bases, Unheard(k)
    PROVE  Unheard(k)'
  <1>1. overtaken \subseteq overtaken'
    BY DEF SearchNext, AskSearch, ClickCancel, Handle, PythonStep, StartSearch, BeginSearch,
        TrackSearch, CancelSearch, Untrack, SearchStep, Search, SendResults, StopTracking,
        NoResults, Leave, WaitStep, pageVars, searchVars
  <1>2. \A t \in Threads : failed[t] /\ Kind(t) = k => failed'[t] /\ Kind(t)' = k
    BY SearchIsManager, KindsStay DEF Served, searchVars, Kind
  <1> QED
    BY <1>1, <1>2 DEF Unheard

\* A thread that will send results goes on to do so, or fails, unless its
\* search is cancelled.
LEMMA WorkingStays ==
    ASSUME Served, [SearchNext]_searchVars, NEW k \in Bases, Working(k), ~CancelSearch(k),
           \A t \in Threads : Kind(t) = k => ~SendResults(t)
    PROVE  Working(k)'
  <1>1. CASE Unheard(k)
    BY <1>1, UnheardStays DEF Working
  <1>2. ASSUME NEW t \in Threads, Kind(t) = k, WillSend(t)
        PROVE  Working(k)'
    <2>1. Kind(t)' = k
      BY <1>2, SearchIsManager, KindsStay DEF Served, searchVars, Kind
    <2> SUFFICES failed'[t] \/ WillSend(t)'
      BY <2>1 DEF Working, Unheard
    <2> USE DEF Served, TableInv, TypeOK, WillSend
    <2>2. ASSUME UNCHANGED <<state, callback, sent>>
          PROVE  WillSend(t)'
      BY <1>2, <2>2
    <2>3. ASSUME NEW c \in Callers, StartSearch(c)
          PROVE  WillSend(t)'
      BY <1>2, <2>3 DEF StartSearch, Enter, AddingIsNamed, MaybeThread
    <2>4. ASSUME NEW c \in Callers, NEW j \in Bases, BeginSearch(c, j)
          PROVE  WillSend(t)'
      BY <1>2, <2>4 DEF BeginSearch, ChooseName
    <2>5. ASSUME NEW j \in Bases, CancelSearch(j)
          PROVE  WillSend(t)'
      <3>1. j # k
        BY <2>5
      <3>2. objs[Id(j)] # t
        <4> SUFFICES ASSUME objs[Id(j)] = t PROVE FALSE
          OBVIOUS
        <4>1. name[t] = Id(j)
          BY IdIsName, ThreadManagerAssumption DEF NoGhost
        <4>2. Kind(t) = j
          BY <4>1 DEF Kind, Id
        <4> QED
          BY <1>2, <3>1, <4>2
      <3>3. callback'[t] = callback[t] /\ state' = state /\ sent' = sent
        BY <2>5, <3>2 DEF CancelSearch, CancelThread, managerVars
      <3> QED
        BY <1>2, <3>3
    <2>6. ASSUME NEW u \in Threads, SearchStep(u)
          PROVE  failed'[t] \/ WillSend(t)'
      <3> USE DEF SentAreCalled, SearchTypeOK
      <3>1. CASE Search(u)
        BY <1>2, <3>1 DEF Search, TargetReturns, Fail, pageVars
      <3>2. CASE SendResults(u)
        BY <1>2, <3>2 DEF SendResults, CallbackReturns, managerVars
      <3>3. CASE StopTracking(u)
        BY <1>2, <3>3 DEF StopTracking, CallbackReturns, Fail
      <3>4. CASE NoResults(u) \/ Leave(u)
        BY <1>2, <3>4 DEF NoResults, Leave, Fail, RemoveThread, pageVars
      <3> QED
        BY <2>6, <3>1, <3>2, <3>3, <3>4 DEF SearchStep
    <2>7. ASSUME NEW j \in Bases, AskSearch(j) \/ ClickCancel(j)
          PROVE  WillSend(t)'
      BY <2>2, <2>7 DEF AskSearch, ClickCancel, managerVars
    <2>8. CASE Handle \/ TrackSearch \/ Untrack
      BY <2>2, <2>8 DEF Handle, TrackSearch, Untrack, managerVars
    <2>9. ASSUME NEW w \in Waiters, WaitStep(w) \/ \E n \in Name : Wait(w, n) /\ UNCHANGED pageVars
          PROVE  WillSend(t)'
      BY <2>2, <2>9 DEF WaitStep, Joined, Wait, pageVars
    <2>10. CASE UNCHANGED searchVars
      BY <2>2, <2>10 DEF searchVars, managerVars, pageVars
    <2> QED
      BY <2>3, <2>4, <2>5, <2>6, <2>7, <2>8, <2>9, <2>10 DEF SearchNext, PythonStep
  <1> QED
    BY <1>1, <1>2 DEF Working

\* An event that ends the indicator of a page, or is for another, does not
\* make this page busy.
LEMMA EventsTell ==
    ASSUME SearchTypeOK, NEW k \in Bases,
           NEW e \in [type : {"searching", "cancelled", "result"}, kind : Bases],
           events' = Append(events, e), busy' = busy
    PROVE  /\ e.kind # k => (WillBeBusy(k)' => WillBeBusy(k))
           /\ e.kind = k /\ e.type # "searching" => ~WillBeBusy(k)'
  <1> DEFINE E == [type : {"searching", "cancelled", "result"}, kind : Bases]
             n == Len(events)
  <1>1. events \in Seq(E)
    BY DEF SearchTypeOK
  <1>2. /\ n \in Nat
        /\ Len(events') = n + 1
        /\ events'[n + 1] = e
        /\ \A i \in 1..n : events'[i] = events[i]
    <2> HIDE DEF E
    <2> QED
      BY <1>1
  <1> HIDE DEF E, n
  <1> USE DEF WillBeBusy
  <1>3. ASSUME e.kind # k, WillBeBusy(k)'
        PROVE  WillBeBusy(k)
    <2>1. CASE busy'[k] /\ \A i \in 1..Len(events') : events'[i].kind # k
      BY <1>2, <2>1 DEF n
    <2>2. ASSUME NEW i \in 1..Len(events'), events'[i].kind = k, events'[i].type = "searching",
                 \A j \in 1..Len(events') : j > i => events'[j].kind # k
          PROVE  WillBeBusy(k)
      <3>1. i \in 1..n
        BY <1>2, <1>3, <2>2
      <3> QED
        BY <1>2, <2>2, <3>1 DEF n
    <2> QED
      BY <1>3, <2>1, <2>2
  <1>4. ASSUME e.kind = k, e.type # "searching", WillBeBusy(k)'
        PROVE  FALSE
    <2>1. n + 1 \in 1..Len(events')
      BY <1>2
    <2>2. PICK i \in 1..Len(events') : /\ events'[i].kind = k /\ events'[i].type = "searching"
                                       /\ \A j \in 1..Len(events') : j > i => events'[j].kind # k
      BY <1>2, <1>4, <2>1
    <2>3. i # n + 1
      BY <1>2, <1>4, <2>2
    <2> QED
      BY <1>2, <1>4, <2>1, <2>2, <2>3
  <1> QED
    BY <1>3, <1>4

\* What a page will show does not change when it handles an event.
LEMMA HandlingTells ==
    ASSUME SearchTypeOK, NEW k \in Bases, Handle, WillBeBusy(k)'
    PROVE  WillBeBusy(k)
  <1> DEFINE E == [type : {"searching", "cancelled", "result"}, kind : Bases]
             n == Len(events)
             e == events[1]
  <1>1. events \in Seq(E) /\ events # <<>>
    BY DEF SearchTypeOK, Handle
  <1>2. /\ n \in Nat \ {0}
        /\ Head(events) = e
        /\ Len(events') = n - 1
        /\ \A i \in 1..(n - 1) : events'[i] = events[i + 1]
    <2> HIDE DEF E
    <2>1. events' = Tail(events)
      BY DEF Handle
    <2> QED
      BY <1>1, <2>1
  <1>3. busy'[k] = IF e.kind = k THEN e.type = "searching" ELSE busy[k]
    BY <1>2 DEF Handle, SearchTypeOK
  <1> HIDE DEF E, n, e
  <1> USE DEF WillBeBusy
  <1>4. CASE busy'[k] /\ \A i \in 1..Len(events') : events'[i].kind # k
    <2>1. \A i \in 2..n : events[i].kind # k
      <3> SUFFICES ASSUME NEW i \in 2..n PROVE events[i].kind # k
        OBVIOUS
      <3>1. i - 1 \in 1..(n - 1) /\ events'[i - 1] = events[(i - 1) + 1] /\ (i - 1) + 1 = i
        BY <1>2
      <3> QED
        BY <1>2, <1>4, <3>1
    <2>2. CASE e.kind = k
      <3>0. e.type = "searching"
        BY <1>3, <1>4, <2>2
      <3>1. 1 \in 1..n /\ events[1].kind = k /\ events[1].type = "searching"
        BY <1>2, <2>2, <3>0 DEF e
      <3> QED
        BY <1>2, <2>1, <3>1 DEF n
    <2>3. CASE e.kind # k
      <3>1. \A i \in 1..n : events[i].kind # k
        BY <1>2, <2>1, <2>3 DEF e
      <3> QED
        BY <1>3, <1>4, <2>3, <3>1 DEF n
    <2> QED
      BY <2>2, <2>3
  <1>5. ASSUME NEW i \in 1..Len(events'), events'[i].kind = k, events'[i].type = "searching",
               \A j \in 1..Len(events') : j > i => events'[j].kind # k
        PROVE  WillBeBusy(k)
    <2>1. i + 1 \in 1..n /\ events[i + 1] = events'[i]
      BY <1>2, <1>5
    <2>2. ASSUME NEW j \in 1..n, j > i + 1
          PROVE  events[j].kind # k
      <3>1. j - 1 \in 1..(n - 1) /\ events'[j - 1] = events[(j - 1) + 1] /\ (j - 1) + 1 = j
            /\ j - 1 > i
        BY <1>2, <2>2
      <3> QED
        BY <1>2, <1>5, <3>1
    <2> QED
      BY <1>5, <2>1, <2>2 DEF n
  <1> QED
    BY <1>4, <1>5

\* Only the reply to a search makes a page busy that would not be.
LEMMA OnlyRepliesMakeBusy ==
    ASSUME Served, [SearchNext]_searchVars, NEW k \in Bases, WillBeBusy(k)',
           ~(TrackSearch /\ Head(calls).kind = k)
    PROVE  /\ WillBeBusy(k)
           /\ \A t \in Threads : SendResults(t) => Kind(t) # k
           /\ Untrack => Head(calls).kind # k
           /\ CancelSearch(k) => Id(k) \in tracked
  <1> DEFINE E == [type : {"searching", "cancelled", "result"}, kind : Bases]
  <1>e. ASSUME NEW type \in {"searching", "cancelled", "result"}, NEW j \in Bases
        PROVE  Event(type, j) \in E /\ Event(type, j).kind = j /\ Event(type, j).type = type
    BY DEF Event
  <1>s. SearchTypeOK
    BY DEF Served
  <1>n. ASSUME UNCHANGED <<events, busy>>
        PROVE  WillBeBusy(k)
    BY <1>n DEF WillBeBusy
  <1>a. ASSUME NEW type \in {"searching", "cancelled", "result"}, NEW j \in Bases,
               events' = Append(events, Event(type, j)), busy' = busy,
               type = "searching" => j # k
        PROVE  j # k /\ WillBeBusy(k)
    BY <1>a, <1>e, <1>s, EventsTell
  <1>1. ASSUME NEW t \in Threads, SendResults(t)
        PROVE  Kind(t) # k /\ WillBeBusy(k)
    <2>1. Kind(t) \in Bases
      BY <1>s, KindIsBase DEF SearchTypeOK
    <2>2. events' = Append(events, Event("result", Kind(t))) /\ busy' = busy
      BY <1>1 DEF SendResults
    <2> QED
      BY <1>a, <2>1, <2>2
  <1>2. ASSUME Untrack \/ TrackSearch
        PROVE  Head(calls).kind # k /\ WillBeBusy(k)
    <2>1. Head(calls).kind \in Bases
      BY <1>2, <1>s, FirstHasKind DEF Untrack, TrackSearch, Served, ServingHasCall
    <2>2. PICK type \in {"searching", "cancelled"} :
            /\ events' = Append(events, Event(type, Head(calls).kind)) /\ busy' = busy
            /\ type = "searching" => TrackSearch
      BY <1>2 DEF Untrack, TrackSearch, Reply
    <2> QED
      BY <1>a, <2>1, <2>2
  <1>3. ASSUME NEW j \in Bases, CancelSearch(j)
        PROVE  WillBeBusy(k) /\ (j = k => Id(k) \in tracked)
    <2>1. CASE Id(j) \in tracked
      BY <1>3, <1>n, <2>1 DEF CancelSearch
    <2>2. CASE Id(j) \notin tracked
      <3>1. events' = Append(events, Event("cancelled", j)) /\ busy' = busy
        BY <1>3, <2>2 DEF CancelSearch, Reply
      <3> QED
        BY <1>a, <3>1
    <2> QED
      BY <2>1, <2>2
  <1>4. WillBeBusy(k)
    <2>1. CASE Handle
      BY <1>s, <2>1, HandlingTells
    <2>2. ASSUME NEW t \in Threads, SearchStep(t)
          PROVE  WillBeBusy(k)
      BY <1>1, <1>n, <2>2 DEF SearchStep, Search, StopTracking, NoResults, Leave, pageVars
    <2>3. CASE PythonStep
      BY <1>2, <1>3, <1>n, <2>3 DEF PythonStep, StartSearch, BeginSearch
    <2>4. ASSUME NEW j \in Bases, AskSearch(j) \/ ClickCancel(j)
          PROVE  WillBeBusy(k)
      BY <1>n, <2>4 DEF AskSearch, ClickCancel
    <2>5. ASSUME NEW w \in Waiters, WaitStep(w) \/ \E n \in Name : Wait(w, n) /\ UNCHANGED pageVars
          PROVE  WillBeBusy(k)
      BY <1>n, <2>5 DEF WaitStep, pageVars
    <2>6. CASE UNCHANGED searchVars
      BY <1>n, <2>6 DEF searchVars, pageVars
    <2> QED
      BY <2>1, <2>2, <2>3, <2>4, <2>5, <2>6 DEF SearchNext
  <1> QED
    BY <1>1, <1>2, <1>3, <1>4

\* What the Python thread serves changes by its own steps only.
LEMMA ServingStays ==
    ASSUME Served, [SearchNext]_searchVars, ~PythonStep
    PROVE  serving' = serving /\ (serving # "idle" => Head(calls') = Head(calls))
  <1>1. ASSUME NEW k \in Bases, AskSearch(k) \/ ClickCancel(k)
        PROVE  serving' = serving /\ (serving # "idle" => Head(calls') = Head(calls))
    <2> DEFINE C == [op : {"search", "cancel"}, kind : Bases]
    <2>1. PICK op \in {"search", "cancel"} : calls' = Append(calls, Call(op, k))
      BY <1>1 DEF AskSearch, ClickCancel
    <2>2. Call(op, k) \in C
      BY DEF Call
    <2>3. calls \in Seq(C)
      BY DEF Served, SearchTypeOK
    <2>4. calls # <<>> => Head(calls') = Head(calls)
      <3> HIDE DEF C
      <3> QED
        BY <2>1, <2>2, <2>3, HeadStays
    <2> QED
      BY <1>1, <2>4 DEF AskSearch, ClickCancel, Served, ServingHasCall
  <1>2. ASSUME UNCHANGED <<serving, calls>>
        PROVE  serving' = serving /\ (serving # "idle" => Head(calls') = Head(calls))
    BY <1>2
  <1>3. ASSUME Handle \/ (\E t \in Threads : SearchStep(t)) \/ (\E w \in Waiters : WaitStep(w))
               \/ UNCHANGED pageVars \/ UNCHANGED searchVars
        PROVE  UNCHANGED <<serving, calls>>
    BY <1>3 DEF Handle, SearchStep, Search, SendResults, StopTracking, NoResults, Leave, WaitStep,
        pageVars, searchVars
  <1> QED
    BY <1>1, <1>2, <1>3 DEF SearchNext

LEMMA BusyStep == SearchInv /\ [SearchNext]_searchVars => BusyHasWork'
  <1> SUFFICES ASSUME SearchInv, [SearchNext]_searchVars, NEW k \in Bases, WillBeBusy(k)'
               PROVE  Working(k)' \/ (serving' = "untracking" /\ Head(calls').kind = k)
    BY DEF BusyHasWork
  <1>s. Served
    BY DEF SearchInv
  <1>1. CASE TrackSearch /\ Head(calls).kind = k
    <2>1. Working(k)
      BY <1>1 DEF SearchInv, TrackedHasWork, TrackSearch
    <2>2. ~CancelSearch(k)
      BY <1>1 DEF CancelSearch, IsCancel, TrackSearch
    <2>3. \A t \in Threads : ~SendResults(t)
      BY <1>1 DEF SendResults, TrackSearch, Reply
    <2> QED
      BY <1>s, <2>1, <2>2, <2>3, WorkingStays
  <1>2. CASE ~(TrackSearch /\ Head(calls).kind = k)
    <2>1. /\ WillBeBusy(k)
          /\ \A t \in Threads : SendResults(t) => Kind(t) # k
          /\ Untrack => Head(calls).kind # k
          /\ CancelSearch(k) => Id(k) \in tracked
      BY <1>s, <1>2, OnlyRepliesMakeBusy
    <2>2. CASE CancelSearch(k)
      BY <1>s, <2>1, <2>2 DEF CancelSearch, IsCancel, Call
    <2>3. CASE Working(k) /\ ~CancelSearch(k)
      BY <1>s, <2>1, <2>3, WorkingStays
    <2>4. CASE serving = "untracking" /\ Head(calls).kind = k
      <3>1. ~PythonStep
        BY <2>1, <2>4 DEF PythonStep, StartSearch, BeginSearch, IsSearch, TrackSearch, CancelSearch,
              IsCancel
      <3> QED
        BY <1>s, <2>4, <3>1, ServingStays
    <2> QED
      BY <2>1, <2>2, <2>3, <2>4 DEF SearchInv, BusyHasWork
  <1> QED
    BY <1>1, <1>2

LEMMA TrackedStep == SearchInv /\ [SearchNext]_searchVars => TrackedHasWork'
  <1> SUFFICES ASSUME SearchInv, [SearchNext]_searchVars, serving' = "tracking"
               PROVE  Working(Head(calls).kind)'
    BY DEF TrackedHasWork
  <1>s. Served
    BY DEF SearchInv
  <1>1. ASSUME NEW c \in Callers, StartSearch(c)
        PROVE  Working(Head(calls).kind)'
    <2>1. PICK t \in Threads : /\ t = adding[c] /\ Kind(t) = Head(calls).kind
                               /\ state[t] = "named" /\ callback[t]
      BY <1>1, <1>s DEF StartSearch, Enter, Served, TableInv, TypeOK, MaybeThread, AddingIsNamed,
            EnteringAdds, SentAreCalled
    <2>2. Kind(t)' = Head(calls').kind /\ state'[t] = "running" /\ callback'[t]
      BY <1>1, <1>s, <2>1 DEF StartSearch, Enter, Kind, Served, TableInv, TypeOK
    <2>3. WillSend(t)'
      BY <2>2 DEF WillSend
    <2> QED
      BY <2>1, <2>2, <2>3 DEF Working
  <1>2. ASSUME ~PythonStep
        PROVE  Working(Head(calls).kind)'
    <2> DEFINE k == Head(calls).kind
    <2>1. serving = "tracking" /\ Head(calls') = Head(calls) /\ k \in Bases
      BY <1>2, <1>s, ServingStays, FirstHasKind DEF Served, ServingHasCall
    <2>2. Working(k)
      BY <2>1 DEF SearchInv, TrackedHasWork
    <2>3. ~CancelSearch(k)
      BY <2>1 DEF CancelSearch, IsCancel
    <2>4. CASE \A t \in Threads : Kind(t) = k => ~SendResults(t)
      BY <1>s, <2>1, <2>2, <2>3, <2>4, WorkingStays
    <2>5. ASSUME NEW t \in Threads, Kind(t) = k, SendResults(t)
          PROVE  Working(k)'
      BY <2>1, <2>5 DEF SendResults, Working, Unheard
    <2> QED
      BY <2>1, <2>4, <2>5
  <1> QED
    BY <1>1, <1>2 DEF PythonStep, BeginSearch, TrackSearch, CancelSearch, IsCancel, Untrack, Reply

LEMMA SearchInvInit == SearchInit => SearchInv
  BY ServedInit DEF SearchInit, SearchInv, BusyHasWork, WillBeBusy, TrackedHasWork

LEMMA SearchInvStep == SearchInv /\ [SearchNext]_searchVars => SearchInv'
  BY ServedStep, BusyStep, TrackedStep DEF SearchInv

\* A page that shows a search in progress, when nothing is under way, has a
\* search thread at work or missed a search that went wrong, for any number of
\* pages, searches and cancels.
THEOREM BusyPagesHaveWork == SearchSpec => []BusyMeansWork
  <1>1. SearchInv => BusyMeansWork
    BY DEF SearchInv, Served, BusyMeansWork, BusyHasWork, WillBeBusy, Working, WillSend,
        ServingHasCall
  <1> QED
    BY <1>1, SearchInvInit, SearchInvStep, PTL DEF SearchSpec

\* An online search uses the thread manager as it is meant to be used: all
\* that is proved of any callers holds of its threads.
THEOREM SearchUsesManager == SearchSpec => Spec
  <1>1. SearchInit => Init
    BY DEF SearchInit
  <1>2. [SearchNext]_searchVars => [Next]_managerVars
    BY SearchIsManager DEF searchVars
  <1> QED
    BY <1>1, <1>2, PTL DEF SearchSpec, Spec

\* The calls of the pages are served one by one, so callers of add() do not
\* overlap, however many threads there are to call it: the names in the table
\* are those of the searches that run, each with its own error.
THEOREM SearchTableIsExact == SearchSpec => []TableExact
  <1>1. SearchInit => Served
    BY ServedInit
  <1>2. Served /\ [SearchNext]_searchVars => Served'
    BY ServedStep
  <1>3. Served => NamesApart
    BY DEF Served, OneAdding, NamesApart
  <1> QED
    BY <1>1, <1>2, <1>3, SearchUsesManager, TableIsExact, PTL DEF SearchSpec

-----------------------------------------------------------------------------
(* The map: the parts of the invariant.                                    *)

TileStates == [available : BOOLEAN, retries : Nat, error : BOOLEAN,
               picture : {"none", "loading", "image", "blank"}]

\* What Python sends: what a batch of checks has found, or one download.
Messages == [kind : {"checked"}, ids : SUBSET Ids, ok : SUBSET Ids]
                \cup [kind : {"success", "fatal", "retry"}, ids : {{id} : id \in Ids}, ok : {{}}]

TileTypes == /\ tile \in [Tiles -> TileStates]
             /\ current \in [Ids -> Tiles \cup {None}]
             /\ requests \in Seq(Ids)
ScreenTypes == /\ layer \in [Rows -> Layers \cup {None}] /\ layer[Base] # None
               /\ model \in [Slots -> Places \cup {None}]
               /\ zoom \in Zooms
CheckTypes == /\ checks \in Seq(Seq(Ids)) /\ looked \in BOOLEAN /\ (looked => checks # <<>>)
              /\ answer \subseteq Ids
InboxType == inbox \in Seq(Messages)

\* A handler that writes late is one of those a request waits for.
AskedInv == /\ asked \in [Ids -> Nat] /\ storing \in [Ids -> Types \cup {None}]
            /\ \A id \in Ids : storing[id] # None => asked[id] > 0

\* The primary store of a layer is asked first, and a store that is written to
\* late is one of the layer's.
StoreInv ==
    /\ StoreTypeOK
    /\ \A l \in Layers : Contains(stores[l], primary) => Head(stores[l]) = primary
    /\ \A id \in Ids : storing[id] # None => Contains(stores[id[1]], storing[id])

\* currentTiles, with what makes it inductive: tiles that share an id are twins.
TwinsKnown ==
    \A t, u \in OnScreen : t # u /\ TileId(t) = TileId(u) => t \in twins
RegisteredShows ==
    \A id \in Ids : current[id] # None => current[id] \in OnScreen /\ TileId(current[id]) = id
OthersRegistered == \A t \in OnScreen \ twins : current[TileId(t)] = t
RegisterInv == TwinsKnown /\ RegisteredShows /\ OthersRegistered

\* The model holds what the last update has given it, each place once.
Held == {model[s] : s \in Slots} \ {None}
EachOnce == \A s, t \in Slots : model[s] = model[t] /\ s # t => model[s] = None

\* What an update works from, and that it is for what the map covered at the last
\* call of updateTilesModel() or is followed by another.
UpdateInv ==
    \/ update = NoUpdate /\ ~running /\ ~again /\ Held = covered /\ should = covered
    \/ /\ update \in [kind : {"to-do"}, window : Windows, should : SUBSET Places]
       /\ running /\ Held = update.should /\ (again \/ update.window = covered)
    \/ /\ update \in [kind : {"done"}, should : Windows]
       /\ running /\ Held = update.should /\ (again \/ update.should = covered)

ModelInv == {window, covered} \subseteq Windows /\ should \subseteq Places /\ EachOnce /\ UpdateInv

ViewInv ==
    /\ ScreenTypes /\ TileTypes /\ CheckTypes /\ InboxType
    /\ AskedInv /\ StoreInv /\ RegisterInv /\ ModelInv

-----------------------------------------------------------------------------
(* Sequences and finite sets.                                              *)

\* A finite set has a subset of each size up to its own.
LEMMA SubsetOfSize ==
    ASSUME NEW T, IsFiniteSet(T), NEW n \in Nat, n <= Cardinality(T)
    PROVE  \E U \in SUBSET T : IsFiniteSet(U) /\ Cardinality(U) = n
  <1>1. Cardinality(T) \in Nat /\ ExistsBijection(1..Cardinality(T), T)
    BY FS_CardinalityType
  <1>2. PICK f \in Bijection(1..Cardinality(T), T) : TRUE
    BY <1>1 DEF ExistsBijection
  <1> DEFINE U == {f[i] : i \in 1..n}
             g == [i \in 1..n |-> f[i]]
  <1>3. /\ f \in [1..Cardinality(T) -> T]
        /\ \A i, j \in 1..Cardinality(T) : f[i] = f[j] => i = j
    BY <1>2, Fun_BijectionProperties
  <1>4. \A i \in 1..n : i \in 1..Cardinality(T)
    BY <1>1
  <1>5. g \in [1..n -> U] /\ \A i \in 1..n : g[i] = f[i]
    OBVIOUS
  <1>6. \A i, j \in 1..n : g[i] = g[j] => i = j
    BY <1>3, <1>4, <1>5
  <1>7. \A u \in U : \E i \in 1..n : g[i] = u
    BY <1>5
  <1>8. g \in Bijection(1..n, U)
    BY <1>5, <1>6, <1>7, Fun_IsBij
  <1>9. U \in SUBSET T
    BY <1>3, <1>4
  <1>10. IsFiniteSet(U)
    BY <1>9, FS_Subset
  <1>11. Cardinality(U) = n
    BY <1>8, FS_CountingElements DEF ExistsBijection
  <1> QED
    BY <1>9, <1>10, <1>11

\* A finite set is written down as a sequence of its elements.
LEMMA SetToSeqType ==
    ASSUME NEW S, IsFiniteSet(S)
    PROVE  SetToSeq(S) \in Seq(S) /\ ToSet(SetToSeq(S)) = S
  <1> DEFINE s == SetToSeq(S)
             D == 1..Cardinality(S)
  <1>1. Cardinality(S) \in Nat /\ ExistsBijection(D, S)
    BY FS_CardinalityType
  <1>2. PICK f \in Bijection(D, S) : TRUE
    BY <1>1 DEF ExistsBijection
  <1>3. f \in [D -> S] /\ IsInjective(f)
    BY <1>2 DEF Bijection, Injection
  <1>4. s \in [D -> S] /\ IsInjective(s)
    BY <1>3 DEF SetToSeq
  <1> HIDE DEF s
  <1>5. s \in Surjection(D, S)
    <2>1. IsFiniteSet(D) /\ Cardinality(D) = Cardinality(S)
      BY <1>1, FS_Interval
    <2>2. s \in Injection(D, S)
      BY <1>4 DEF Injection
    <2> QED
      BY <2>1, <2>2, FS_Injection
  <1>6. ToSet(s) = S
    <2> HIDE DEF D
    <2>1. DOMAIN s = D /\ \A i \in D : s[i] \in S
      BY <1>4
    <2>2. \A x \in S : \E i \in D : s[i] = x
      BY <1>5, Fun_SurjectionProperties
    <2> QED
      BY <2>1, <2>2 DEF ToSet
  <1> QED
    BY <1>1, <1>4, <1>6, IsASeq DEF s

\* The stores of a layer keep their types when they are sorted, and the first
\* type is in front.
LEMMA SortedParts ==
    ASSUME NEW types \in Seq(Types), NEW first \in Types
    PROVE  /\ Sorted(types, first) \in Seq(Types)
           /\ \A y : Contains(types, y) => Contains(Sorted(types, first), y)
           /\ Contains(Sorted(types, first), first) => Head(Sorted(types, first)) = first
  <1>1. CASE ~Contains(types, first)
    BY <1>1 DEF Sorted
  <1>2. CASE Contains(types, first)
    <2> DEFINE k == CHOOSE i \in DOMAIN types : types[i] = first
               front == SubSeq(types, 1, k - 1)
               back == SubSeq(types, k + 1, Len(types))
               sorted == <<first>> \o (front \o back)
    <2>1. k \in 1..Len(types) /\ types[k] = first /\ Len(types) \in Nat
      BY <1>2 DEF Contains
    <2>2. Sorted(types, first) = sorted
      BY <1>2 DEF Sorted, RemoveAt
    <2> HIDE DEF k
    <2>3. /\ front \in Seq(Types) /\ Len(front) = k - 1
          /\ \A i \in 1..(k - 1) : front[i] = types[i]
      BY <2>1
    <2>4. /\ back \in Seq(Types) /\ Len(back) = Len(types) - k
          /\ \A i \in 1..(Len(types) - k) : back[i] = types[k + i]
      BY <2>1
    <2> HIDE DEF front, back
    <2>5. /\ front \o back \in Seq(Types) /\ Len(front \o back) = Len(types) - 1
          /\ \A i \in 1..(k - 1) : (front \o back)[i] = types[i]
          /\ \A i \in 1..(Len(types) - k) : (front \o back)[k - 1 + i] = types[k + i]
      <3>1. /\ front \o back \in Seq(Types) /\ Len(front \o back) = Len(front) + Len(back)
            /\ \A i \in 1..(Len(front) + Len(back)) :
                  (front \o back)[i] = IF i <= Len(front) THEN front[i] ELSE back[i - Len(front)]
        BY <2>3, <2>4, ConcatProperties
      <3>2. \A i \in 1..(k - 1) : (front \o back)[i] = types[i]
        BY <2>1, <2>3, <2>4, <3>1
      <3>3. ASSUME NEW i \in 1..(Len(types) - k)
            PROVE  (front \o back)[k - 1 + i] = types[k + i]
        BY <2>1, <2>3, <2>4, <3>1
      <3> QED
        BY <2>1, <2>3, <2>4, <3>1, <3>2, <3>3
    <2> DEFINE rest == front \o back
    <2>6. /\ sorted \in Seq(Types) /\ Len(sorted) = Len(types) /\ sorted[1] = first
          /\ \A i \in 1..(Len(types) - 1) : sorted[i + 1] = rest[i]
      BY <2>1, <2>5
    <2>7. ASSUME NEW y, Contains(types, y)
          PROVE  Contains(sorted, y)
      <3>1. PICK i \in 1..Len(types) : types[i] = y
        BY <2>7 DEF Contains
      <3>2. CASE i < k
        <4>1. i \in 1..(k - 1) /\ i \in 1..(Len(types) - 1) /\ i + 1 \in 1..Len(types)
          BY <2>1, <3>1, <3>2
        <4>2. sorted[i + 1] = y
          BY <2>5, <2>6, <3>1, <4>1
        <4> QED
          BY <2>6, <4>1, <4>2 DEF Contains
      <3>3. CASE i = k
        BY <2>1, <2>6, <3>1, <3>3 DEF Contains
      <3>4. CASE i > k
        <4>1. i - k \in 1..(Len(types) - k) /\ i = k + (i - k)
          BY <2>1, <3>1, <3>4
        <4>2. rest[k - 1 + (i - k)] = y
          BY <2>5, <3>1, <4>1
        <4>3. i - 1 \in 1..(Len(types) - 1) /\ k - 1 + (i - k) = i - 1 /\ (i - 1) + 1 = i
          BY <2>1, <3>1, <3>4
        <4>4. sorted[i] = y
          BY <2>6, <4>2, <4>3
        <4> QED
          BY <2>6, <3>1, <4>4 DEF Contains
      <3> QED
        BY <2>1, <3>1, <3>2, <3>3, <3>4
    <2>8. Head(sorted) = first
      BY <2>1, <2>6
    <2> QED
      BY <2>2, <2>6, <2>7, <2>8
  <1> QED
    BY <1>1, <1>2

-----------------------------------------------------------------------------
(* Tiles that change their ids.                                            *)

LEMMA NoneIsNothing ==
    None \notin Places /\ None \notin Layers /\ None \notin Tiles /\ None \notin Types
  BY ViewAssumption

LEMMA TilesFinite == IsFiniteSet(Tiles)
  BY ViewAssumption, FS_Product DEF Tiles

\* A tile that is shown has an id.
LEMMA ShownHasId ==
    ASSUME NEW lay \in [Rows -> Layers \cup {None}], NEW z \in Zooms,
           NEW mod \in [Slots -> Places \cup {None}], NEW t \in Shown(lay, mod)
    PROVE  t \in Tiles /\ IdOf(t, lay, z, mod) \in Ids
  BY ViewAssumption DEF Shown, IdOf, Tiles

\* Of the tiles that get an id one is registered.
LEMMA WinnersParts ==
    ASSUME NEW lay, NEW z, NEW mod, NEW winners \in Winners(lay, z, mod)
    PROVE  /\ winners \subseteq Changed(lay, z, mod)
           /\ \A t \in Changed(lay, z, mod) :
                 \E u \in winners : IdOf(u, lay, z, mod) = IdOf(t, lay, z, mod)
  <1> DEFINE Rivals(t) == {u \in Changed(lay, z, mod) : IdOf(u, lay, z, mod) = IdOf(t, lay, z, mod)}
             sets == {Rivals(t) : t \in Changed(lay, z, mod)}
  <1>1. winners \in Choices(sets)
    BY DEF Winners
  <1>2. PICK f \in [sets -> UNION sets] : (\A T \in sets : f[T] \in T) /\ winners = Range(f)
    BY <1>1 DEF Choices
  <1>3. winners = {f[T] : T \in sets}
    BY <1>2 DEF Range
  <1>4. winners \subseteq Changed(lay, z, mod)
    BY <1>2, <1>3
  <1>5. ASSUME NEW t \in Changed(lay, z, mod)
        PROVE  f[Rivals(t)] \in winners /\ IdOf(f[Rivals(t)], lay, z, mod) = IdOf(t, lay, z, mod)
    <2>1. Rivals(t) \in sets
      OBVIOUS
    <2>2. f[Rivals(t)] \in Rivals(t) /\ f[Rivals(t)] \in winners
      BY <1>2, <1>3, <2>1
    <2> QED
      BY <2>2
  <1> QED
    BY <1>4, <1>5

\* What is registered after a change: who got the id, or who had it and kept it.
LEMMA CurrentParts ==
    ASSUME NEW lay, NEW z, NEW mod, NEW winners \in Winners(lay, z, mod), NEW id \in Ids,
           NEW c, c = CurrentTiles(winners, lay, z, mod)[id]
    PROVE  \/ c \in Changed(lay, z, mod) /\ IdOf(c, lay, z, mod) = id
           \/ /\ \A t \in Changed(lay, z, mod) : IdOf(t, lay, z, mod) # id
              /\ \/ /\ c = None
                    /\ \E t \in Gone(lay, mod) \cup (Changed(lay, z, mod) \cap OnScreen) :
                          TileId(t) = id
                 \/ /\ c = current[id]
                    /\ \A t \in Gone(lay, mod) \cup (Changed(lay, z, mod) \cap OnScreen) :
                          TileId(t) # id
  <1>1. CASE \E t \in winners : IdOf(t, lay, z, mod) = id
    <2>1. c \in winners /\ IdOf(c, lay, z, mod) = id
      BY <1>1 DEF CurrentTiles
    <2> QED
      BY <2>1, WinnersParts
  <1>2. CASE ~\E t \in winners : IdOf(t, lay, z, mod) = id
    <2>1. \A t \in Changed(lay, z, mod) : IdOf(t, lay, z, mod) # id
      BY <1>2, WinnersParts
    <2>2. c = IF \E t \in Gone(lay, mod) \cup (Changed(lay, z, mod) \cap OnScreen) : TileId(t) = id
              THEN None ELSE current[id]
      BY <1>2 DEF CurrentTiles, TakenOut
    <2> QED
      BY <2>1, <2>2
  <1> QED
    BY <1>1, <1>2

\* Tiles stay registered under the ids they show.
LEMMA RetileRegisters ==
    ASSUME ScreenTypes, TileTypes, RegisterInv,
           NEW lay \in [Rows -> Layers \cup {None}], NEW z \in Zooms,
           NEW mod \in [Slots -> Places \cup {None}], Retile(lay, z, mod)
    PROVE  RegisterInv'
  <1> DEFINE New(t) == IdOf(t, lay, z, mod)
             changed == Changed(lay, z, mod)
             leaving == Gone(lay, mod) \cup (changed \cap OnScreen)
  <1>1. layer' = lay /\ zoom' = z /\ model' = mod
    BY DEF Retile
  <1>2. PICK winners \in Winners(lay, z, mod) : current' = CurrentTiles(winners, lay, z, mod)
    BY DEF Retile
  <1>3. OnScreen' = Shown(lay, mod) /\ \A t : TileId(t)' = New(t)
    BY <1>1 DEF OnScreen, TileId
  <1>4. \A t : t \in twins' <=> /\ t \in Shown(lay, mod)
                                /\ Twin(t, lay, z, mod) \/ (t \in twins /\ t \notin changed)
    BY DEF Retile
  <1>5. \A t \in Shown(lay, mod) \ changed : t \in OnScreen /\ New(t) = TileId(t)
    BY DEF Changed
  <1>6. \A t \in OnScreen : t \in leaving \/ (t \in Shown(lay, mod) /\ t \notin changed)
    BY DEF Gone
  <1>7. \A t \in Shown(lay, mod) : t \in Tiles /\ New(t) \in Ids
    BY ShownHasId
  <1>8. TwinsKnown'
    <2> SUFFICES ASSUME NEW t \in Shown(lay, mod), NEW u \in Shown(lay, mod), t # u, New(t) = New(u)
                 PROVE  t \in twins'
      BY <1>3 DEF TwinsKnown
    <2> QED
      BY <1>4 DEF Twin
  <1>9. RegisteredShows'
    <2> SUFFICES ASSUME NEW id \in Ids, current'[id] # None
                 PROVE  current'[id] \in Shown(lay, mod) /\ New(current'[id]) = id
      BY <1>3 DEF RegisteredShows
    <2> DEFINE c == current'[id]
    <2>1. CASE c \in changed /\ New(c) = id
      BY <2>1 DEF Changed
    <2>2. CASE c = current[id] /\ \A t \in leaving : TileId(t) # id
      <3>1. c \in OnScreen /\ TileId(c) = id
        BY <2>2 DEF RegisterInv, RegisteredShows
      <3> QED
        BY <1>5, <1>6, <2>2, <3>1
    <2> QED
      BY <1>2, <2>1, <2>2, CurrentParts
  <1>10. OthersRegistered'
    <2> SUFFICES ASSUME NEW t \in Shown(lay, mod), t \notin twins'
                 PROVE  current'[New(t)] = t
      BY <1>3 DEF OthersRegistered
    <2>1. /\ \A u \in Shown(lay, mod) : u # t => New(u) # New(t)
          /\ t \in twins => t \in changed
      BY <1>4 DEF Twin
    <2> DEFINE c == current'[New(t)]
    <2>2. CASE c \in changed /\ New(c) = New(t)
      BY <2>1, <2>2 DEF Changed
    <2>3. CASE \A u \in changed : New(u) # New(t)
      <3>1. t \in OnScreen /\ t \notin changed /\ New(t) = TileId(t) /\ t \notin twins
        BY <1>5, <2>1, <2>3
      <3>2. current[TileId(t)] = t
        BY <3>1 DEF RegisterInv, OthersRegistered
      <3>3. \A u \in OnScreen : u # t => TileId(u) # TileId(t)
        BY <3>1 DEF RegisterInv, TwinsKnown
      <3>4. t \notin leaving /\ leaving \subseteq OnScreen
        BY <3>1 DEF Gone
      <3>5. \A u \in leaving : TileId(u) # New(t)
        BY <3>1, <3>3, <3>4
      <3> QED
        BY <1>2, <1>7, <2>3, <3>1, <3>2, <3>5, CurrentParts
    <2> QED
      BY <1>2, <1>7, <2>2, <2>3, CurrentParts
  <1> QED
    BY <1>8, <1>9, <1>10 DEF RegisterInv

\* The types a change of ids touches.
LEMMA RetileTypes ==
    ASSUME ScreenTypes, TileTypes, RegisterInv,
           NEW lay \in [Rows -> Layers \cup {None}], NEW z \in Zooms, lay[Base] # None,
           NEW mod \in [Slots -> Places \cup {None}], Retile(lay, z, mod)
    PROVE  ScreenTypes' /\ TileTypes'
  <1> DEFINE New(t) == IdOf(t, lay, z, mod)
             changed == Changed(lay, z, mod)
  <1>1. ScreenTypes'
    BY DEF ScreenTypes, Retile
  <1>2. changed \subseteq Tiles /\ IsFiniteSet(changed) /\ \A t \in changed : New(t) \in Ids
    <2>1. \A t \in changed : t \in Tiles /\ New(t) \in Ids
      BY ShownHasId DEF Changed
    <2> QED
      BY <2>1, TilesFinite, FS_Subset
  <1>3. tile' \in [Tiles -> TileStates]
    <2>1. Clear \in TileStates
      BY DEF Clear, TileStates
    <2> QED
      BY <2>1 DEF Retile, TileTypes
  <1>4. current' \in [Ids -> Tiles \cup {None}]
    <2>1. PICK winners \in Winners(lay, z, mod) : current' = CurrentTiles(winners, lay, z, mod)
      BY DEF Retile
    <2>2. DOMAIN current' = Ids /\ current' = [id \in Ids |-> current'[id]]
      BY <2>1 DEF CurrentTiles
    <2>3. ASSUME NEW id \in Ids
          PROVE  current'[id] \in Tiles \cup {None}
      <3>1. current'[id] \in changed \/ current'[id] = None \/ current'[id] = current[id]
        BY <2>1, CurrentParts
      <3> QED
        BY <1>2, <3>1 DEF TileTypes
    <2> QED
      BY <2>2, <2>3
  <1>5. requests' \in Seq(Ids)
    <2> DEFINE asks == SetToSeq(changed)
               ids == [i \in DOMAIN asks |-> New(asks[i])]
    <2>1. asks \in Seq(changed)
      BY <1>2, SetToSeqType
    <2>2. requests' = requests \o ids
      BY DEF Retile
    <2> HIDE DEF asks
    <2>3. DOMAIN asks = 1..Len(asks) /\ Len(asks) \in Nat /\ \A i \in 1..Len(asks) : asks[i] \in changed
      BY <2>1
    <2>4. ids \in [1..Len(asks) -> Ids]
      BY <1>2, <2>3
    <2>5. ids \in Seq(Ids)
      BY <2>3, <2>4, IsASeq
    <2> QED
      BY <2>2, <2>5, ConcatProperties DEF TileTypes
  <1> QED
    BY <1>1, <1>3, <1>4, <1>5 DEF TileTypes

-----------------------------------------------------------------------------
(* The tiles model.                                                        *)

\* The slots suffice for a window: those that are free or whose place is no
\* longer seen are at least as many as the new places.
LEMMA SlotsSuffice ==
    ASSUME model \in [Slots -> Places \cup {None}], EachOnce, update.window \in Windows,
           update.should = Held
    PROVE  /\ IsFiniteSet(NewPlaces) /\ IsFiniteSet(Freed \cup Unused)
           /\ Cardinality(NewPlaces) <= Cardinality(Freed \cup Unused)
  <1> DEFINE W == update.window
             Kept == {s \in Slots : model[s] # None /\ model[s] \in W}
             f == [s \in Kept |-> model[s]]
  <1>1. /\ IsFiniteSet(W) /\ Cardinality(W) <= Cardinality(Slots) /\ IsFiniteSet(Slots)
        /\ Cardinality(Slots) \in Nat /\ Cardinality(W) \in Nat
    BY ViewAssumption, FS_CardinalityType
  <1>2. IsFiniteSet(Kept) /\ Cardinality(Kept) \in Nat
    BY <1>1, FS_Subset, FS_CardinalityType
  <1>3. f \in [Kept -> W \cap Held]
    BY DEF Held
  <1>4. \A s, t \in Kept : f[s] = f[t] => s = t
    BY DEF EachOnce
  <1>5. IsFiniteSet(W \cap Held) /\ Cardinality(W \cap Held) \in Nat
    BY <1>1, FS_Intersection, FS_CardinalityType
  <1>6. Cardinality(Kept) <= Cardinality(W \cap Held)
    <2> HIDE DEF f, Kept
    <2>1. f \in Injection(Kept, W \cap Held)
      BY <1>3, <1>4, Fun_IsInj
    <2> QED
      BY <1>5, <2>1, FS_Injection
  <1>7. /\ IsFiniteSet(NewPlaces)
        /\ Cardinality(NewPlaces) = Cardinality(W) - Cardinality(W \cap Held)
    BY <1>1, FS_Difference DEF NewPlaces
  <1>8. Freed \cup Unused = Slots \ Kept /\ Slots \cap Kept = Kept
    BY DEF Freed, Unused
  <1>9. /\ IsFiniteSet(Freed \cup Unused)
        /\ Cardinality(Freed \cup Unused) = Cardinality(Slots) - Cardinality(Kept)
    <2> HIDE DEF Kept
    <2>1. IsFiniteSet(Slots \ Kept) /\ Cardinality(Slots \ Kept) = Cardinality(Slots) - Cardinality(Slots \cap Kept)
      BY <1>1, FS_Difference
    <2> QED
      BY <1>8, <2>1
  <1> QED
    BY <1>1, <1>2, <1>5, <1>6, <1>7, <1>9

\* So there are slots to fill: freed ones first.
LEMMA SlotsToFill ==
    ASSUME model \in [Slots -> Places \cup {None}], EachOnce, update.window \in Windows,
           update.should = Held
    PROVE  \E F \in SUBSET (Freed \cup Unused) :
              /\ IsFiniteSet(F) /\ Cardinality(F) = Cardinality(NewPlaces)
              /\ F \cap Unused # {} => Freed \subseteq F
  <1> DEFINE n == Cardinality(NewPlaces)
  <1>1. /\ IsFiniteSet(NewPlaces) /\ IsFiniteSet(Freed \cup Unused)
        /\ n <= Cardinality(Freed \cup Unused)
    BY SlotsSuffice
  <1>2. IsFiniteSet(Freed) /\ IsFiniteSet(Unused) /\ Freed \cap Unused = {}
    BY <1>1, FS_Subset DEF Freed, Unused
  <1>3. /\ n \in Nat /\ Cardinality(Freed) \in Nat /\ Cardinality(Unused) \in Nat
        /\ Cardinality(Freed \cup Unused) = Cardinality(Freed) + Cardinality(Unused)
    <2>1. Cardinality(Freed) \in Nat /\ Cardinality(Unused) \in Nat /\ n \in Nat
      BY <1>1, <1>2, FS_CardinalityType
    <2>2. Cardinality(Freed \cap Unused) = 0
      BY <1>2, FS_EmptySet
    <2>3. Cardinality(Freed \cup Unused)
              = Cardinality(Freed) + Cardinality(Unused) - Cardinality(Freed \cap Unused)
      BY <1>2, FS_Union
    <2> QED
      BY <2>1, <2>2, <2>3
  <1>4. CASE n <= Cardinality(Freed)
    <2>1. PICK F \in SUBSET Freed : IsFiniteSet(F) /\ Cardinality(F) = n
      BY <1>2, <1>3, <1>4, SubsetOfSize
    <2> QED
      BY <1>2, <2>1
  <1>5. CASE n > Cardinality(Freed)
    <2>1. n - Cardinality(Freed) \in Nat /\ n - Cardinality(Freed) <= Cardinality(Unused)
      BY <1>1, <1>3, <1>5
    <2>2. PICK U \in SUBSET Unused : IsFiniteSet(U) /\ Cardinality(U) = n - Cardinality(Freed)
      BY <1>2, <2>1, SubsetOfSize
    <2>3. Freed \cap U = {}
      BY <1>2, <2>2
    <2>4. /\ IsFiniteSet(Freed \cup U)
          /\ Cardinality(Freed \cup U) = Cardinality(Freed) + Cardinality(U)
      <3>1. Cardinality(Freed \cap U) = 0
        BY <2>3, FS_EmptySet
      <3>2. /\ IsFiniteSet(Freed \cup U)
            /\ Cardinality(Freed \cup U) = Cardinality(Freed) + Cardinality(U) - Cardinality(Freed \cap U)
        BY <1>2, <2>2, FS_Union
      <3> QED
        BY <1>3, <2>1, <2>2, <3>1, <3>2
    <2> QED
      BY <1>3, <2>2, <2>4
  <1> QED
    BY <1>3, <1>4, <1>5

\* What the worker computes exists.
LEMMA RecycledThere ==
    ASSUME model \in [Slots -> Places \cup {None}], EachOnce, update.window \in Windows,
           update.should = Held
    PROVE  \E m \in [Slots -> Places \cup {None}] : Recycled(m)
  <1>1. PICK F \in SUBSET (Freed \cup Unused) :
              /\ IsFiniteSet(F) /\ Cardinality(F) = Cardinality(NewPlaces)
              /\ F \cap Unused # {} => Freed \subseteq F
    BY SlotsToFill
  <1>2. IsFiniteSet(NewPlaces)
    BY SlotsSuffice
  <1>3. PICK g \in Bijection(F, NewPlaces) : TRUE
    BY <1>1, <1>2, FS_SameCardinalityBij DEF ExistsBijection
  <1>4. g \in [F -> NewPlaces] /\ \A p \in NewPlaces : \E s \in F : g[s] = p
    BY <1>3, Fun_BijectionProperties
  <1>5. NewPlaces \subseteq Places /\ NewPlaces \cap Held = {} /\ None \notin Places
    BY NoneIsNothing, ViewAssumption DEF NewPlaces
  <1>6. F \subseteq Slots
    BY <1>1 DEF Freed, Unused
  <1> DEFINE m == [s \in Slots |-> IF s \in F THEN g[s] ELSE IF s \in Freed THEN None ELSE model[s]]
             filled == {s \in Slots : m[s] # None /\ m[s] # model[s]}
  <1>7. m \in [Slots -> Places \cup {None}]
    BY <1>4, <1>5, <1>6
  <1>8. \A s \in F : m[s] \in NewPlaces /\ m[s] = g[s] /\ m[s] # None /\ m[s] # model[s]
    BY <1>4, <1>5, <1>6 DEF Held
  <1>9. filled = F
    BY <1>6, <1>8
  <1>10. {m[s] : s \in filled} = NewPlaces
    <2>1. \A p \in NewPlaces : \E s \in F : m[s] = p
      BY <1>4, <1>8
    <2> HIDE DEF m
    <2> QED
      BY <1>8, <1>9, <2>1
  <1>11. \A s \in Freed : s \in Slots /\ model[s] # None /\ model[s] \notin NewPlaces
    BY DEF Freed, NewPlaces
  <1>12. \A s \in Freed : m[s] # model[s]
    BY <1>8, <1>11
  <1>13. \A s \in Slots : m[s] # model[s] => s \in Freed \cup Unused
    BY <1>1
  <1> HIDE DEF m
  <1>14. Recycled(m)
    BY <1>1, <1>9, <1>10, <1>12, <1>13 DEF Recycled
  <1> QED
    BY <1>7, <1>14

\* What it computes holds the window, each place once.
LEMMA RecycledHolds ==
    ASSUME model \in [Slots -> Places \cup {None}], EachOnce, update.window \in Windows,
           update.should = Held,
           NEW m \in [Slots -> Places \cup {None}], Recycled(m)
    PROVE  /\ {m[s] : s \in Slots} \ {None} = update.window
           /\ \A s, t \in Slots : m[s] = m[t] /\ s # t => m[s] = None
  <1> DEFINE filled == {s \in Slots : m[s] # None /\ m[s] # model[s]}
             g == [s \in filled |-> m[s]]
  <1>1. /\ \A s \in Slots : m[s] # model[s] => s \in Freed \cup Unused
        /\ Cardinality(filled) = Cardinality(NewPlaces)
        /\ {m[s] : s \in filled} = NewPlaces
        /\ \A s \in Freed : m[s] # model[s]
    BY DEF Recycled
  <1>2. update.window \subseteq Places /\ None \notin update.window
    BY NoneIsNothing, ViewAssumption
  <1>3. IsFiniteSet(filled)
    BY ViewAssumption, FS_Subset
  <1>4. g \in [filled -> NewPlaces] /\ \A p \in NewPlaces : \E s \in filled : g[s] = p
    BY <1>1
  <1>5. \A s, t \in filled : m[s] = m[t] => s = t
    <2>1. g \in Injection(filled, NewPlaces)
      BY <1>1, <1>3, <1>4, Fun_IsSurj, FS_SurjSameCardinalityImpliesInj
    <2> QED
      BY <2>1, Fun_InjectionProperties
  <1>6. \A s \in Slots \ filled : m[s] # None => m[s] = model[s] /\ s \notin Freed
    BY <1>1
  <1>7. \A s \in filled : m[s] \in NewPlaces /\ m[s] \notin Held
    BY <1>1 DEF NewPlaces
  <1>8. \A s \in Slots \ filled : m[s] # None => m[s] \in update.window /\ m[s] \in Held
    BY <1>6 DEF Freed, Held
  <1>9. \A p \in update.window : \E s \in Slots : m[s] = p
    <2> SUFFICES ASSUME NEW p \in update.window
                 PROVE  \E s \in Slots : m[s] = p
      OBVIOUS
    <2>1. CASE p \in NewPlaces
      BY <1>4, <2>1
    <2>2. CASE p \in Held
      <3>1. PICK s \in Slots : model[s] = p /\ p # None
        BY <2>2 DEF Held
      <3>2. s \notin Freed \cup Unused
        BY <3>1 DEF Freed, Unused
      <3> QED
        BY <1>1, <3>1, <3>2
    <2> QED
      BY <2>1, <2>2 DEF NewPlaces
  <1>10. \A s \in Slots : m[s] # None => m[s] \in update.window
    BY <1>7, <1>8 DEF NewPlaces
  <1>11. \A s, t \in Slots : m[s] = m[t] /\ s # t => m[s] = None
    BY <1>5, <1>6, <1>7, <1>8 DEF EachOnce
  <1> HIDE DEF filled, g
  <1> QED
    BY <1>2, <1>9, <1>10, <1>11

-----------------------------------------------------------------------------
(* The storage behind the map.                                             *)

\* A layer's store of the primary type is opened in front of its others.
LEMMA OpenedParts ==
    ASSUME StoreInv, NEW l \in Layers
    PROVE  /\ Opened(l) \in [Layers -> Seq(Types)]
           /\ Contains(Opened(l)[l], primary)
           /\ \A k \in Layers :
                 /\ Contains(Opened(l)[k], primary) => Head(Opened(l)[k]) = primary
                 /\ \A y : Contains(stores[k], y) => Contains(Opened(l)[k], y)
  <1>1. stores \in [Layers -> Seq(Types)] /\ primary \in Types /\ stores[l] \in Seq(Types)
    BY DEF StoreInv, StoreTypeOK
  <1>2. CASE Contains(stores[l], primary)
    <2>1. Opened(l) = stores
      BY <1>1, <1>2 DEF Opened
    <2> QED
      BY <1>1, <1>2, <2>1 DEF StoreInv
  <1>3. CASE ~Contains(stores[l], primary)
    <2> DEFINE grown == Append(stores[l], primary)
    <2>1. grown \in Seq(Types) /\ Len(grown) = Len(stores[l]) + 1 /\ grown[Len(grown)] = primary
      BY <1>1
    <2>2. Contains(grown, primary) /\ \A y : Contains(stores[l], y) => Contains(grown, y)
      <3>1. \A i \in 1..Len(stores[l]) : i \in 1..Len(grown) /\ grown[i] = stores[l][i]
        BY <1>1
      <3>2. Len(grown) \in 1..Len(grown)
        BY <1>1, <2>1
      <3> HIDE DEF grown
      <3> QED
        BY <2>1, <3>1, <3>2 DEF Contains
    <2>3. Opened(l) = [stores EXCEPT ![l] = Sorted(grown, primary)]
      BY <1>1, <1>3 DEF Opened, Added
    <2> HIDE DEF grown
    <2>4. /\ Sorted(grown, primary) \in Seq(Types)
          /\ \A y : Contains(grown, y) => Contains(Sorted(grown, primary), y)
          /\ Contains(Sorted(grown, primary), primary) => Head(Sorted(grown, primary)) = primary
      BY <1>1, <2>1, SortedParts
    <2>5. /\ Opened(l) \in [Layers -> Seq(Types)] /\ Opened(l)[l] = Sorted(grown, primary)
          /\ \A k \in Layers \ {l} : Opened(l)[k] = stores[k]
      BY <1>1, <2>3, <2>4
    <2> QED
      BY <2>2, <2>4, <2>5 DEF StoreInv
  <1> QED
    BY <1>2, <1>3

LEMMA WriteTypes ==
    ASSUME StoreTypeOK, NEW y \in Types, NEW id \in Ids, Write(y, id)
    PROVE  /\ held' \in [Types -> [Ids -> Copies]] /\ primary' = primary
           /\ held'[y][id] = "fresh"
           /\ \A t \in Types, i \in Ids : held[t][i] # "fresh" /\ held'[t][i] = "fresh" => t = y /\ i = id
  BY DEF StoreTypeOK, Write, Copies

\* A request that no late writer answers is there.
LEMMA WaitsIsAsked ==
    ASSUME AskedInv, NEW id \in Ids, Waits(id)
    PROVE  asked[id] > 0 /\ (storing[id] # None => asked[id] > 1)
  BY DEF AskedInv, Waits

\* A report is one of the messages, and the request is gone.
LEMMA ReportParts ==
    ASSUME InboxType, AskedInv, NEW id \in Ids, NEW kind \in {"success", "fatal", "retry"},
           Report(id, kind), asked[id] > 0
    PROVE  /\ InboxType' /\ asked' \in [Ids -> Nat] /\ asked'[id] = asked[id] - 1
           /\ \A i \in Ids \ {id} : asked'[i] = asked[i]
  <1>1. [kind |-> kind, ids |-> {id}, ok |-> {}] \in Messages
    BY DEF Messages
  <1>2. InboxType'
    BY <1>1 DEF InboxType, Report
  <1>3. asked \in [Ids -> Nat] /\ asked' = [asked EXCEPT ![id] = @ - 1]
    BY DEF AskedInv, Report
  <1> QED
    BY <1>2, <1>3

\* What the actions of the download touch.
StoreSide == CheckTypes /\ InboxType /\ AskedInv /\ StoreInv

LEMMA AskedLess ==
    ASSUME AskedInv, NEW id \in Ids, Waits(id), UNCHANGED storing, asked' \in [Ids -> Nat],
           asked'[id] = asked[id] - 1, \A i \in Ids \ {id} : asked'[i] = asked[i]
    PROVE  AskedInv'
  <1>1. storing' = storing /\ asked[id] \in Nat /\ (storing[id] # None => asked[id] > 1)
    BY WaitsIsAsked DEF AskedInv
  <1>2. ASSUME NEW i \in Ids, storing'[i] # None
        PROVE  asked'[i] > 0
    <2>1. CASE i = id
      BY <1>1, <1>2, <2>1
    <2>2. CASE i # id
      BY <1>1, <1>2, <2>2 DEF AskedInv
    <2> QED
      BY <2>1, <2>2
  <1> QED
    BY <1>1, <1>2 DEF AskedInv

LEMMA FindLocallyStep ==
    ASSUME StoreSide, NEW id \in Ids, FindLocally(id)
    PROVE  StoreSide'
  <1>1. Waits(id) /\ Report(id, "success") /\ asked[id] > 0
    BY WaitsIsAsked DEF FindLocally, StoreSide
  <1>2. InboxType' /\ AskedInv'
    BY <1>1, ReportParts, AskedLess DEF FindLocally, StoreSide
  <1>3. CheckTypes' /\ StoreInv'
    BY DEF FindLocally, StoreSide, storeVars, pythonVars, CheckTypes, StoreInv, StoreTypeOK
  <1> QED
    BY <1>2, <1>3 DEF StoreSide

\* The id of a tile begins with its layer.
LEMMA LayerOfId == \A id \in Ids : id[1] \in Layers
  BY StoreAssumption

LEMMA StoreStep ==
    ASSUME StoreSide, NEW id \in Ids, Store(id)
    PROVE  StoreSide'
  <1>1. Waits(id) /\ Report(id, "success") /\ asked[id] > 0
    BY WaitsIsAsked DEF Store, StoreSide
  <1>2. InboxType' /\ AskedInv'
    BY <1>1, ReportParts, AskedLess DEF Store, StoreSide
  <1>3. CheckTypes'
    BY DEF Store, StoreSide, pythonVars, CheckTypes
  <1>4. id[1] \in Layers /\ primary \in Types /\ StoreTypeOK
    BY LayerOfId DEF StoreSide, StoreInv, StoreTypeOK
  <1>5. stores' = Opened(id[1]) /\ Write(primary, id) /\ storing' = storing
    BY DEF Store
  <1>6. primary' = primary /\ held' \in [Types -> [Ids -> Copies]]
    BY <1>4, <1>5, WriteTypes
  <1>7. StoreInv'
    <2>1. StoreTypeOK'
      BY <1>4, <1>5, <1>6, OpenedParts DEF StoreTypeOK, StoreSide
    <2>2. \A l \in Layers : Contains(stores'[l], primary') => Head(stores'[l]) = primary'
      BY <1>4, <1>5, <1>6, OpenedParts DEF StoreSide
    <2>3. \A i \in Ids : storing'[i] # None => Contains(stores'[i[1]], storing'[i])
      BY <1>4, <1>5, OpenedParts, LayerOfId DEF StoreSide, StoreInv
    <2> QED
      BY <2>1, <2>2, <2>3 DEF StoreInv
  <1> QED
    BY <1>2, <1>3, <1>7 DEF StoreSide

LEMMA StoreLateStep ==
    ASSUME StoreSide, NEW id \in Ids, StoreLate(id)
    PROVE  StoreSide'
  <1>1. /\ storing[id] # None /\ Write(storing[id], id) /\ Report(id, "success")
        /\ stores' = stores /\ storing' = [storing EXCEPT ![id] = None]
    BY DEF StoreLate
  <1>2. asked[id] > 0 /\ storing[id] \in Types /\ StoreTypeOK
    BY <1>1 DEF StoreSide, AskedInv, StoreInv
  <1>3. /\ InboxType' /\ asked' \in [Ids -> Nat]
        /\ \A i \in Ids \ {id} : asked'[i] = asked[i]
    BY <1>1, <1>2, ReportParts DEF StoreSide
  <1>4. /\ storing' \in [Ids -> Types \cup {None}] /\ storing'[id] = None
        /\ \A i \in Ids \ {id} : storing'[i] = storing[i]
    BY <1>1 DEF StoreSide, AskedInv
  <1>5. AskedInv'
    BY <1>3, <1>4 DEF StoreSide, AskedInv
  <1>6. primary' = primary /\ held' \in [Types -> [Ids -> Copies]]
    BY <1>1, <1>2, WriteTypes
  <1>7. StoreInv'
    BY <1>1, <1>2, <1>4, <1>6 DEF StoreSide, StoreInv, StoreTypeOK
  <1>8. CheckTypes'
    BY DEF StoreLate, StoreSide, pythonVars, CheckTypes
  <1> QED
    BY <1>3, <1>5, <1>7, <1>8 DEF StoreSide

LEMMA DownloadFailsStep ==
    ASSUME StoreSide, NEW id \in Ids, DownloadFails(id)
    PROVE  StoreSide'
  <1>1. PICK kind \in {"fatal", "retry"} : Report(id, kind)
    BY DEF DownloadFails
  <1>2. Waits(id) /\ asked[id] > 0 /\ storing' = storing
    BY WaitsIsAsked DEF DownloadFails, StoreSide
  <1>3. InboxType' /\ AskedInv'
    BY <1>1, <1>2, ReportParts, AskedLess DEF StoreSide
  <1>4. CheckTypes' /\ StoreInv'
    BY DEF DownloadFails, StoreSide, storeVars, pythonVars, CheckTypes, StoreInv, StoreTypeOK
  <1> QED
    BY <1>3, <1>4 DEF StoreSide

LEMMA LoseStep ==
    ASSUME StoreSide, NEW id \in Ids, Lose(id)
    PROVE  StoreSide'
  <1>1. Waits(id) /\ asked[id] > 0 /\ storing' = storing /\ asked' = [asked EXCEPT ![id] = @ - 1]
    BY WaitsIsAsked DEF Lose, StoreSide
  <1>2. /\ asked' \in [Ids -> Nat] /\ asked'[id] = asked[id] - 1
        /\ \A i \in Ids \ {id} : asked'[i] = asked[i]
    BY <1>1 DEF StoreSide, AskedInv
  <1>3. AskedInv'
    BY <1>1, <1>2, AskedLess DEF StoreSide
  <1>4. CheckTypes' /\ StoreInv' /\ InboxType'
    BY DEF Lose, StoreSide, storeVars, pythonVars, CheckTypes, StoreInv, StoreTypeOK, InboxType
  <1> QED
    BY <1>3, <1>4 DEF StoreSide

\* The new primary type comes to the front; what late writers have chosen stays open.
LEMMA SwitchStorageStep ==
    ASSUME StoreSide, SwitchStorage
    PROVE  StoreSide'
  <1>1. PICK y \in Types \ {primary}, late \in SUBSET {id \in Ids : Waits(id)} :
          /\ primary' = y
          /\ stores' = Resorted([l \in Layers |-> IF \E id \in late : id[1] = l
                                                  THEN Opened(l)[l] ELSE stores[l]], y)
          /\ storing' = [id \in Ids |-> IF id \in late THEN primary ELSE storing[id]]
    BY DEF SwitchStorage
  <1>2. held' = held /\ asked' = asked /\ CheckTypes' /\ InboxType'
    BY DEF SwitchStorage, StoreSide, pythonVars, CheckTypes, InboxType
  <1>3. primary \in Types /\ stores \in [Layers -> Seq(Types)] /\ StoreTypeOK /\ StoreInv
    BY DEF StoreSide, StoreInv, StoreTypeOK
  <1> DEFINE opened(l) == IF \E id \in late : id[1] = l THEN Opened(l)[l] ELSE stores[l]
  <1>4. ASSUME NEW l \in Layers
        PROVE  /\ opened(l) \in Seq(Types)
               /\ \A t : Contains(stores[l], t) => Contains(opened(l), t)
               /\ (\E id \in late : id[1] = l) => Contains(opened(l), primary)
    BY <1>3, OpenedParts
  <1>5. \A l \in Layers : stores'[l] = Sorted(opened(l), y)
    BY <1>1 DEF Resorted
  <1> HIDE DEF opened
  <1>6. stores' = [l \in Layers |-> stores'[l]]
    BY <1>1 DEF Resorted
  <1>7. ASSUME NEW l \in Layers
        PROVE  /\ stores'[l] \in Seq(Types)
               /\ \A t : Contains(opened(l), t) => Contains(stores'[l], t)
               /\ Contains(stores'[l], y) => Head(stores'[l]) = y
    BY <1>4, <1>5, SortedParts
  <1>8. StoreTypeOK'
    BY <1>1, <1>2, <1>3, <1>6, <1>7 DEF StoreTypeOK
  <1>9. ASSUME NEW id \in Ids, storing'[id] # None
        PROVE  Contains(stores'[id[1]], storing'[id])
    <2>1. id[1] \in Layers
      BY LayerOfId
    <2>2. CASE id \in late
      BY <1>1, <1>4, <1>7, <2>1, <2>2
    <2>3. CASE id \notin late
      <3>1. storing'[id] = storing[id] /\ Contains(stores[id[1]], storing[id])
        BY <1>1, <1>3, <1>9, <2>3 DEF StoreInv
      <3> QED
        BY <1>4, <1>7, <2>1, <3>1
    <2> QED
      BY <2>2, <2>3
  <1>10. StoreInv'
    BY <1>1, <1>7, <1>8, <1>9 DEF StoreInv
  <1>11. AskedInv'
    <2>1. storing' \in [Ids -> Types \cup {None}]
      BY <1>1, <1>3 DEF StoreSide, AskedInv
    <2>2. ASSUME NEW id \in Ids, storing'[id] # None
          PROVE  asked[id] > 0
      BY <1>1, <2>2, WaitsIsAsked DEF StoreSide, AskedInv
    <2> QED
      BY <1>2, <2>1, <2>2 DEF StoreSide, AskedInv
  <1> QED
    BY <1>2, <1>10, <1>11 DEF StoreSide

LEMMA AgeStep ==
    ASSUME StoreSide, Age
    PROVE  StoreSide'
  <1>1. PICK y \in Types, id \in Ids : GrowOld(y, id)
    BY DEF Age
  <1>2. held' \in [Types -> [Ids -> Copies]] /\ primary' = primary /\ stores' = stores
    BY <1>1 DEF GrowOld, StoreSide, StoreInv, StoreTypeOK, Copies
  <1> QED
    BY <1>2 DEF Age, StoreSide, pythonVars, downloadVars, CheckTypes, StoreInv, StoreTypeOK, InboxType,
                AskedInv

-----------------------------------------------------------------------------
(* The screen.                                                             *)

ScreenSide == ScreenTypes /\ TileTypes /\ RegisterInv /\ ModelInv

\* What nothing but the screen's own actions touches.
LEMMA StoreSideSame ==
    ASSUME StoreSide, UNCHANGED <<storeVars, pythonVars, inbox, asked, storing>>
    PROVE  StoreSide'
  BY DEF StoreSide, storeVars, pythonVars, CheckTypes, InboxType, AskedInv, StoreInv, StoreTypeOK

LEMMA RegisterSame ==
    ASSUME RegisterInv, UNCHANGED <<layer, zoom, model, current, twins>>
    PROVE  RegisterInv'
  BY DEF RegisterInv, TwinsKnown, RegisteredShows, OthersRegistered, OnScreen, TileId

LEMMA ModelSame ==
    ASSUME ModelInv, UNCHANGED <<window, covered, should, running, again, update, model>>
    PROVE  ModelInv'
  BY DEF ModelInv, EachOnce, UpdateInv, Held

LEMMA ScreenSideSame ==
    ASSUME ScreenSide, UNCHANGED <<modelVars, tileVars>>
    PROVE  ScreenSide'
  BY RegisterSame, ModelSame DEF ScreenSide, modelVars, tileVars, ScreenTypes, TileTypes

\* An update that is asked for covers the window of that moment, or another
\* will follow the one that runs.
LEMMA UpdateAsked ==
    ASSUME ModelInv, NEW w \in Windows, window' = w, covered' = w,
           UpdateTilesModel(w), UNCHANGED <<should, model>>
    PROVE  ModelInv'
  <1>1. EachOnce' /\ Held' = Held /\ {window', covered'} \subseteq Windows /\ should' \subseteq Places
    BY DEF ModelInv, EachOnce, Held
  <1>2. CASE running
    <2>1. again' /\ running' = running /\ update' = update
      BY <1>2 DEF UpdateTilesModel
    <2> QED
      BY <1>1, <1>2, <2>1 DEF ModelInv, UpdateInv
  <1>3. CASE ~running
    <2>1. running' /\ update' = [kind |-> "to-do", window |-> w, should |-> should]
      BY <1>3 DEF UpdateTilesModel
    <2>2. Held = should
      BY <1>3 DEF ModelInv, UpdateInv
    <2> QED
      BY <1>1, <2>1, <2>2 DEF ModelInv, UpdateInv
  <1> QED
    BY <1>2, <1>3

LEMMA MoveStep ==
    ASSUME ScreenSide, StoreSide, Move
    PROVE  ScreenSide' /\ StoreSide'
  <1>1. /\ window' \in Windows /\ covered' = window' /\ UpdateTilesModel(window')
        /\ UNCHANGED <<storeVars, zoom, layer, model, should, tileVars, pythonVars, inbox, downloadVars>>
    BY DEF Move
  <1>2. ModelInv'
    BY <1>1, UpdateAsked DEF ScreenSide
  <1>3. ScreenTypes' /\ TileTypes' /\ RegisterInv'
    BY <1>1, RegisterSame DEF ScreenSide, tileVars, ScreenTypes, TileTypes
  <1>4. StoreSide'
    BY <1>1, StoreSideSame DEF downloadVars
  <1> QED
    BY <1>2, <1>3, <1>4 DEF ScreenSide

\* A new scale is seen by nothing but the next update.
LEMMA RescaleStep ==
    ASSUME ScreenSide, StoreSide, Rescale
    PROVE  ScreenSide' /\ StoreSide'
  <1>1. /\ window' \in Windows
        /\ UNCHANGED <<storeVars, covered, zoom, layer, model, should, running, again, update,
                       tileVars, pythonVars, inbox, downloadVars>>
    BY DEF Rescale
  <1>2. ModelInv'
    BY <1>1 DEF ScreenSide, ModelInv, EachOnce, UpdateInv, Held
  <1>3. ScreenTypes' /\ TileTypes' /\ RegisterInv'
    BY <1>1, RegisterSame DEF ScreenSide, tileVars, ScreenTypes, TileTypes
  <1>4. StoreSide'
    BY <1>1, StoreSideSame DEF downloadVars
  <1> QED
    BY <1>2, <1>3, <1>4 DEF ScreenSide

LEMMA ChangeZoomStep ==
    ASSUME ScreenSide, StoreSide, ChangeZoom
    PROVE  ScreenSide' /\ StoreSide'
  <1>1. PICK z \in Zooms \ {zoom} : Retile(layer, z, model)
    BY DEF ChangeZoom
  <1>2. /\ window' \in Windows /\ covered' = window' /\ UpdateTilesModel(window')
        /\ UNCHANGED <<storeVars, should, pythonVars, inbox, downloadVars>>
    BY DEF ChangeZoom
  <1>3. model' = model
    BY <1>1 DEF Retile
  <1>4. ModelInv'
    BY <1>2, <1>3, UpdateAsked DEF ScreenSide
  <1>5. ScreenTypes' /\ TileTypes' /\ RegisterInv'
    <2>1. /\ layer \in [Rows -> Layers \cup {None}] /\ layer[Base] # None
          /\ model \in [Slots -> Places \cup {None}]
      BY DEF ScreenSide, ScreenTypes
    <2> QED
      BY <1>1, <2>1, RetileRegisters, RetileTypes DEF ScreenSide
  <1>6. StoreSide'
    BY <1>2, StoreSideSame DEF downloadVars
  <1> QED
    BY <1>4, <1>5, <1>6 DEF ScreenSide

\* A change of the layers.
LEMMA LayersChanged ==
    ASSUME ScreenSide, StoreSide,
           NEW lay \in [Rows -> Layers \cup {None}], lay[Base] # None, Retile(lay, zoom, model),
           UNCHANGED <<storeVars, window, covered, should, running, again, update, pythonVars, inbox,
                       downloadVars>>
    PROVE  ScreenSide' /\ StoreSide'
  <1>1. model' = model
    BY DEF Retile
  <1>2. ModelInv'
    BY <1>1, ModelSame DEF ScreenSide
  <1>3. ScreenTypes' /\ TileTypes' /\ RegisterInv'
    <2>1. zoom \in Zooms /\ model \in [Slots -> Places \cup {None}]
      BY DEF ScreenSide, ScreenTypes
    <2> QED
      BY <2>1, RetileRegisters, RetileTypes DEF ScreenSide
  <1>4. StoreSide'
    BY StoreSideSame DEF downloadVars
  <1> QED
    BY <1>2, <1>3, <1>4 DEF ScreenSide

LEMMA SetLayerStep ==
    ASSUME ScreenSide, StoreSide, SetLayer
    PROVE  ScreenSide' /\ StoreSide'
  <1>1. PICK r \in Rows, l \in Layers : Retile([layer EXCEPT ![r] = l], zoom, model)
    BY DEF SetLayer
  <1> DEFINE lay == [layer EXCEPT ![r] = l]
  <1>2. lay \in [Rows -> Layers \cup {None}] /\ lay[Base] # None
    BY NoneIsNothing, ViewAssumption DEF ScreenSide, ScreenTypes
  <1> QED
    BY <1>1, <1>2, LayersChanged DEF SetLayer

LEMMA RemoveLayerStep ==
    ASSUME ScreenSide, StoreSide, RemoveLayer
    PROVE  ScreenSide' /\ StoreSide'
  <1>1. PICK r \in Rows \ {Base} : Retile([layer EXCEPT ![r] = None], zoom, model)
    BY DEF RemoveLayer
  <1> DEFINE lay == [layer EXCEPT ![r] = None]
  <1>2. lay \in [Rows -> Layers \cup {None}] /\ lay[Base] # None
    BY <1>1 DEF ScreenSide, ScreenTypes
  <1> QED
    BY <1>1, <1>2, LayersChanged DEF RemoveLayer

\* The worker finds places for all that is new, so that the model holds the
\* window the update was for.
LEMMA UpdateModelStep ==
    ASSUME ScreenSide, StoreSide, UpdateModel
    PROVE  ScreenSide' /\ StoreSide'
  <1> DEFINE m == CHOOSE m \in [Slots -> Places \cup {None}] : Recycled(m)
  <1>1. /\ update.kind = "to-do" /\ Retile(layer, zoom, m)
        /\ update' = [kind |-> "done", should |-> update.window]
        /\ UNCHANGED <<storeVars, window, covered, should, running, again, pythonVars, inbox,
                        downloadVars>>
    BY DEF UpdateModel
  <1>2. /\ update \in [kind : {"to-do"}, window : Windows, should : SUBSET Places]
        /\ running /\ Held = update.should /\ (again \/ update.window = covered)
    BY <1>1 DEF ScreenSide, ModelInv, UpdateInv, NoUpdate
  <1>3. /\ layer \in [Rows -> Layers \cup {None}] /\ layer[Base] # None /\ zoom \in Zooms
        /\ model \in [Slots -> Places \cup {None}] /\ EachOnce /\ update.window \in Windows
    BY <1>2 DEF ScreenSide, ScreenTypes, ModelInv
  <1>4. m \in [Slots -> Places \cup {None}] /\ Recycled(m)
    BY <1>2, <1>3, RecycledThere
  <1> HIDE DEF m
  <1>5. /\ {m[s] : s \in Slots} \ {None} = update.window
        /\ \A s, t \in Slots : m[s] = m[t] /\ s # t => m[s] = None
    BY <1>2, <1>3, <1>4, RecycledHolds
  <1>6. model' = m
    BY <1>1 DEF Retile
  <1>7. EachOnce' /\ Held' = update.window
    BY <1>5, <1>6 DEF EachOnce, Held
  <1>8. ModelInv'
    BY <1>1, <1>2, <1>3, <1>7 DEF ModelInv, UpdateInv, ScreenSide
  <1>9. ScreenTypes' /\ TileTypes' /\ RegisterInv'
    BY <1>1, <1>3, <1>4, RetileRegisters, RetileTypes DEF ScreenSide
  <1>10. StoreSide'
    BY <1>1, StoreSideSame DEF downloadVars
  <1> QED
    BY <1>8, <1>9, <1>10 DEF ScreenSide

LEMMA UpdateDoneStep ==
    ASSUME ScreenSide, StoreSide, UpdateDone
    PROVE  ScreenSide' /\ StoreSide'
  <1>1. /\ update.kind = "done" /\ should' = update.should /\ again' = FALSE
        /\ covered' \in {covered, window}
        /\ UNCHANGED <<storeVars, window, zoom, layer, model, tileVars, pythonVars, inbox, downloadVars>>
    BY DEF UpdateDone
  <1>2. /\ update \in [kind : {"done"}, should : Windows]
        /\ running /\ Held = update.should /\ (again \/ update.should = covered)
    BY <1>1 DEF ScreenSide, ModelInv, UpdateInv, NoUpdate
  <1>3. /\ EachOnce' /\ Held' = Held /\ {window', covered'} \subseteq Windows
        /\ should' \subseteq Places
    BY <1>1, <1>2, ViewAssumption DEF ScreenSide, ModelInv, EachOnce, Held
  <1>4. ModelInv'
    <2>1. CASE again
      <3>1. /\ update' = [kind |-> "to-do", window |-> window, should |-> update.should]
            /\ running' = running /\ covered' = window
        BY <2>1 DEF UpdateDone
      <3> QED
        BY <1>1, <1>2, <1>3, <3>1 DEF ModelInv, UpdateInv
    <2>2. CASE ~again
      <3>1. update' = NoUpdate /\ running' = FALSE /\ covered' = covered
        BY <2>2 DEF UpdateDone
      <3> QED
        BY <1>1, <1>2, <1>3, <2>2, <3>1 DEF ModelInv, UpdateInv, NoUpdate
    <2> QED
      BY <2>1, <2>2
  <1>5. ScreenTypes' /\ TileTypes' /\ RegisterInv'
    BY <1>1, RegisterSame DEF ScreenSide, tileVars, ScreenTypes, TileTypes
  <1>6. StoreSide'
    BY <1>1, StoreSideSame DEF downloadVars
  <1> QED
    BY <1>4, <1>5, <1>6 DEF ScreenSide

-----------------------------------------------------------------------------
(* Requests and answers.                                                   *)

LEMMA TimerFiresStep ==
    ASSUME ScreenSide, StoreSide, TimerFires
    PROVE  ScreenSide' /\ StoreSide'
  <1>1. /\ checks' = IF requests = <<>> THEN checks ELSE Append(checks, requests)
        /\ requests' = <<>>
        /\ UNCHANGED <<storeVars, modelVars, current, tile, twins, looked, answer, inbox, downloadVars>>
    BY DEF TimerFires
  <1>2. requests \in Seq(Ids) /\ checks \in Seq(Seq(Ids))
    BY DEF ScreenSide, TileTypes, StoreSide, CheckTypes
  <1>3. checks' \in Seq(Seq(Ids)) /\ (checks # <<>> => checks' # <<>>)
    BY <1>1, <1>2
  <1>4. StoreSide'
    BY <1>1, <1>3 DEF StoreSide, storeVars, downloadVars, CheckTypes, InboxType, AskedInv, StoreInv,
        StoreTypeOK
  <1>5. ScreenTypes' /\ TileTypes'
    BY <1>1 DEF ScreenSide, ScreenTypes, TileTypes, modelVars
  <1>6. RegisterInv' /\ ModelInv'
    BY <1>1, RegisterSame, ModelSame DEF ScreenSide, modelVars
  <1> QED
    BY <1>4, <1>5, <1>6 DEF ScreenSide

LEMMA LookUpStep ==
    ASSUME ScreenSide, StoreSide, LookUp
    PROVE  ScreenSide' /\ StoreSide'
  <1>1. checks # <<>> /\ checks \in Seq(Seq(Ids)) /\ asked \in [Ids -> Nat]
    BY DEF LookUp, StoreSide, CheckTypes, AskedInv
  <1> DEFINE batch == Head(checks)
             times(id) == {i \in DOMAIN batch : batch[i] = id}
  <1>2. batch \in Seq(Ids)
    BY <1>1
  <1> HIDE DEF batch
  <1>3. ASSUME NEW id \in Ids
        PROVE  Cardinality(times(id)) \in Nat
    <2>1. DOMAIN batch = 1..Len(batch) /\ Len(batch) \in Nat
      BY <1>2
    <2>2. IsFiniteSet(DOMAIN batch)
      BY <2>1, FS_Interval
    <2>3. IsFiniteSet(times(id))
      BY <2>2, FS_Subset
    <2> QED
      BY <2>3, FS_CardinalityType
  <1>4. asked' = [id \in Ids |-> IF Found(id) THEN asked[id] ELSE asked[id] + Cardinality(times(id))]
    BY DEF LookUp, batch
  <1> HIDE DEF times
  <1>5. asked' \in [Ids -> Nat] /\ \A id \in Ids : asked'[id] >= asked[id]
    BY <1>1, <1>3, <1>4
  <1>6. AskedInv'
    BY <1>5 DEF LookUp, StoreSide, AskedInv
  <1>7. answer' \subseteq Ids
    <2>1. answer' \subseteq ToSet(batch)
      BY DEF LookUp, batch
    <2> QED
      BY <1>2, <2>1 DEF ToSet
  <1>8. CheckTypes' /\ InboxType' /\ StoreInv'
    BY <1>1, <1>7 DEF LookUp, StoreSide, CheckTypes, InboxType, storeVars, StoreInv, StoreTypeOK
  <1>9. ScreenSide'
    BY ScreenSideSame DEF LookUp
  <1> QED
    BY <1>6, <1>8, <1>9 DEF StoreSide

LEMMA ReturnStep ==
    ASSUME ScreenSide, StoreSide, Return
    PROVE  ScreenSide' /\ StoreSide'
  <1>1. checks # <<>> /\ checks \in Seq(Seq(Ids)) /\ inbox \in Seq(Messages)
    BY DEF Return, StoreSide, CheckTypes, InboxType
  <1>2. Head(checks) \in Seq(Ids) /\ Tail(checks) \in Seq(Seq(Ids))
    BY <1>1
  <1>3. ToSet(Head(checks)) \subseteq Ids
    BY <1>2 DEF ToSet
  <1>4. [kind |-> "checked", ids |-> ToSet(Head(checks)), ok |-> answer] \in Messages
    BY <1>3 DEF Messages, StoreSide, CheckTypes
  <1>5. InboxType'
    BY <1>1, <1>4 DEF Return, InboxType
  <1>6. CheckTypes'
    BY <1>2 DEF Return, CheckTypes
  <1>7. AskedInv' /\ StoreInv'
    BY DEF Return, StoreSide, downloadVars, storeVars, AskedInv, StoreInv, StoreTypeOK
  <1>8. ScreenSide'
    BY ScreenSideSame DEF Return
  <1> QED
    BY <1>5, <1>6, <1>7, <1>8 DEF StoreSide

\* What Python sends names tiles.
LEMMA MessageParts ==
    ASSUME NEW m \in Messages
    PROVE  /\ m.ids \subseteq Ids
           /\ m.kind # "checked" => /\ m.kind \in {"success", "fatal", "retry"}
                                    /\ \E id \in Ids : m.ids = {id}
  BY DEF Messages

LEMMA HeadOfInbox ==
    ASSUME InboxType, inbox # <<>>
    PROVE  /\ Head(inbox) \in Messages /\ Tail(inbox) \in Seq(Messages)
           /\ Head(inbox) = inbox[1] /\ 1 \in DOMAIN inbox
  BY DEF InboxType

\* Tiles that are told something stay tiles.
LEMMA AvailableType ==
    ASSUME NEW p \in TileStates
    PROVE  Available(p) \in TileStates
  BY DEF Available, TileStates

LEMMA DownloadedType ==
    ASSUME NEW p \in TileStates, NEW kind
    PROVE  Downloaded(p, kind) \in TileStates
  <1>1. CASE kind = "success"
    BY <1>1, AvailableType DEF Downloaded
  <1>2. CASE kind = "fatal"
    BY <1>2 DEF Downloaded, TileStates
  <1>3. CASE kind # "success" /\ kind # "fatal"
    <2>1. Downloaded(p, kind) = [p EXCEPT !.retries = @ + 1, !.error = @ \/ ~Retries(p)]
      BY <1>3 DEF Downloaded
    <2> DEFINE error == p.error \/ ~Retries(p)
    <2>2. error \in BOOLEAN
      BY Zenon
    <2>3. Downloaded(p, kind) = [p EXCEPT !.retries = @ + 1, !.error = error]
      BY <2>1, Zenon
    <2> HIDE DEF error
    <2>4. [p EXCEPT !.retries = @ + 1] \in TileStates
      BY DEF TileStates
    <2> QED
      BY <2>2, <2>3, <2>4 DEF TileStates
  <1> QED
    BY <1>1, <1>2, <1>3

\* What an answer does not touch.
LEMMA AnswerStep ==
    ASSUME ScreenSide, StoreSide, tile' \in [Tiles -> TileStates], requests' \in Seq(Ids), InboxType',
           UNCHANGED <<storeVars, modelVars, current, twins, pythonVars, downloadVars>>
    PROVE  ScreenSide' /\ StoreSide'
  <1>1. StoreSide'
    BY DEF StoreSide, storeVars, pythonVars, downloadVars, CheckTypes, AskedInv, StoreInv, StoreTypeOK
  <1>2. ScreenTypes' /\ TileTypes'
    BY DEF ScreenSide, modelVars, ScreenTypes, TileTypes
  <1>3. RegisterInv' /\ ModelInv'
    BY RegisterSame, ModelSame DEF ScreenSide, modelVars
  <1> QED
    BY <1>1, <1>2, <1>3 DEF ScreenSide

LEMMA TilesAvailabilityStep ==
    ASSUME ScreenSide, StoreSide, TilesAvailabilityCB
    PROVE  ScreenSide' /\ StoreSide'
  <1> DEFINE New(p, id) == IF id \in Head(inbox).ok THEN Available(p)
                           ELSE [p EXCEPT !.available = FALSE]
  <1>1. /\ inbox # <<>> /\ inbox' = Tail(inbox) /\ tile' = Told(Head(inbox).ids, New)
        /\ UNCHANGED <<storeVars, modelVars, current, requests, twins, pythonVars, downloadVars>>
    BY DEF TilesAvailabilityCB
  <1>2. ASSUME NEW p \in TileStates, NEW id
        PROVE  New(p, id) \in TileStates
    BY AvailableType DEF TileStates
  <1>3. tile \in [Tiles -> TileStates] /\ requests \in Seq(Ids)
    BY DEF ScreenSide, TileTypes
  <1>4. tile' \in [Tiles -> TileStates]
    BY <1>1, <1>2, <1>3 DEF Told
  <1>5. InboxType'
    BY <1>1, HeadOfInbox DEF StoreSide, InboxType
  <1> QED
    BY <1>1, <1>3, <1>4, <1>5, AnswerStep

LEMMA TileDownloadedStep ==
    ASSUME ScreenSide, StoreSide, TileDownloadedCB
    PROVE  ScreenSide' /\ StoreSide'
  <1> DEFINE kind == Head(inbox).kind
             New(p, id) == Downloaded(p, kind)
             ids == Head(inbox).ids
  <1>1. /\ inbox # <<>> /\ kind # "checked" /\ inbox' = Tail(inbox) /\ tile' = Told(ids, New)
        /\ requests' = requests \o SetToSeq(ids) \/ requests' = requests
        /\ UNCHANGED <<storeVars, modelVars, current, twins, pythonVars, downloadVars>>
    BY DEF TileDownloadedCB
  <1>2. tile \in [Tiles -> TileStates] /\ requests \in Seq(Ids)
    BY DEF ScreenSide, TileTypes
  <1>3. tile' \in [Tiles -> TileStates]
    BY <1>1, <1>2, DownloadedType DEF Told
  <1>4. InboxType' /\ Head(inbox) \in Messages
    BY <1>1, HeadOfInbox DEF StoreSide, InboxType
  <1>5. requests' \in Seq(Ids)
    <2>1. PICK id \in Ids : ids = {id}
      BY <1>1, <1>4, MessageParts
    <2>2. SetToSeq(ids) \in Seq({id})
      BY <2>1, FS_Singleton, SetToSeqType
    <2>3. SetToSeq(ids) \in Seq(Ids)
      BY <2>2
    <2> HIDE DEF ids
    <2> QED
      BY <1>1, <1>2, <2>3, ConcatProperties
  <1> QED
    BY <1>1, <1>3, <1>4, <1>5, AnswerStep

LEMMA LoadImageStep ==
    ASSUME ScreenSide, StoreSide, NEW t \in Tiles, LoadImage(t)
    PROVE  ScreenSide' /\ StoreSide'
  <1>1. tile \in [Tiles -> TileStates] /\ requests \in Seq(Ids)
    BY DEF ScreenSide, TileTypes
  <1>2. tile' \in [Tiles -> TileStates]
    <2>1. PICK p \in {"image", "blank"} : tile' = [tile EXCEPT ![t].picture = p]
      BY DEF LoadImage
    <2> QED
      BY <1>1, <2>1 DEF TileStates
  <1>3. InboxType' /\ UNCHANGED <<storeVars, modelVars, current, requests, twins, pythonVars, downloadVars>>
    BY DEF LoadImage, StoreSide, InboxType
  <1> QED
    BY <1>1, <1>2, <1>3, AnswerStep

-----------------------------------------------------------------------------
(* The invariant of the map and the properties.                            *)

\* The stores of earlier sessions are opened, the primary one in front.
LEMMA StoresOpened ==
    ASSUME StoreInit
    PROVE  /\ StoreTypeOK
           /\ \A l \in Layers : Contains(stores[l], primary) => Head(stores[l]) = primary
  <1>1. PICK existing \in [Layers -> SUBSET Types] :
          stores = [l \in Layers |-> Sorted(SetToSeq(existing[l]), primary)]
    BY DEF StoreInit
  <1>2. primary \in Types /\ held \in [Types -> [Ids -> Copies]]
    BY StoreAssumption DEF StoreInit
  <1>3. ASSUME NEW l \in Layers
        PROVE  SetToSeq(existing[l]) \in Seq(Types)
    <2>1. IsFiniteSet(existing[l])
      BY StoreAssumption, FS_Subset
    <2>2. SetToSeq(existing[l]) \in Seq(existing[l])
      BY <2>1, SetToSeqType
    <2> QED
      BY <2>2
  <1>4. \A l \in Layers :
          /\ stores[l] \in Seq(Types)
          /\ Contains(stores[l], primary) => Head(stores[l]) = primary
    BY <1>1, <1>2, <1>3, SortedParts
  <1>5. stores \in [Layers -> Seq(Types)]
    BY <1>1, <1>4
  <1> QED
    BY <1>2, <1>4, <1>5 DEF StoreTypeOK

LEMMA ViewStarts ==
    ASSUME ViewInit
    PROVE  ViewInv
  <1>1. /\ StoreInit /\ window = FirstWindow /\ covered = window /\ zoom = FirstZoom
        /\ layer = [r \in Rows |-> IF r = Base THEN FirstLayer ELSE None]
        /\ model = [s \in Slots |-> None] /\ should = {} /\ running = TRUE /\ again = FALSE
        /\ update = [kind |-> "to-do", window |-> window, should |-> {}]
        /\ requests = <<>> /\ current = [id \in Ids |-> None] /\ tile = [t \in Tiles |-> Clear]
        /\ checks = <<>> /\ looked = FALSE /\ answer = {} /\ inbox = <<>>
        /\ asked = [id \in Ids |-> 0] /\ storing = [id \in Ids |-> None] /\ twins = {}
    BY DEF ViewInit
  <1>2. ScreenTypes
    BY <1>1, ViewAssumption, NoneIsNothing DEF ScreenTypes
  <1>3. TileTypes /\ CheckTypes /\ InboxType
    <2>1. Clear \in TileStates
      BY DEF Clear, TileStates
    <2>2. TileTypes
      BY <1>1, <2>1 DEF TileTypes
    <2>3. <<>> \in Seq(Seq(Ids)) /\ <<>> \in Seq(Messages)
      OBVIOUS
    <2>4. CheckTypes /\ InboxType
      <3>1. checks = <<>> /\ looked = FALSE /\ answer = {} /\ inbox = <<>>
        BY <1>1
      <3> QED
        BY <2>3, <3>1 DEF CheckTypes, InboxType
    <2> QED
      BY <2>2, <2>4
  <1>4. AskedInv /\ StoreInv
    BY <1>1, StoresOpened DEF AskedInv, StoreInv
  <1>5. OnScreen = {}
    BY <1>1 DEF OnScreen, Shown, Tiles
  <1>6. RegisterInv
    BY <1>1, <1>5 DEF RegisterInv, TwinsKnown, RegisteredShows, OthersRegistered
  <1>7. Held = {} /\ EachOnce
    BY <1>1 DEF Held, EachOnce
  <1>8. ModelInv
    BY <1>1, <1>7, ViewAssumption DEF ModelInv, UpdateInv
  <1> QED
    BY <1>2, <1>3, <1>4, <1>6, <1>8 DEF ViewInv

\* The download and the storage leave the screen alone.
LEMMA BehindStep ==
    ASSUME ScreenSide, StoreSide,
           (\E id \in Ids : DownloadNext(id)) \/ SwitchStorage \/ Age
    PROVE  ScreenSide' /\ StoreSide'
  <1>1. ASSUME NEW id \in Ids, DownloadNext(id)
        PROVE  StoreSide' /\ UNCHANGED <<modelVars, tileVars>>
    <2>1. CASE FindLocally(id)
      BY <2>1, FindLocallyStep DEF FindLocally
    <2>2. CASE Store(id)
      BY <2>2, StoreStep DEF Store
    <2>3. CASE StoreLate(id)
      BY <2>3, StoreLateStep DEF StoreLate
    <2>4. CASE DownloadFails(id)
      BY <2>4, DownloadFailsStep DEF DownloadFails
    <2>5. CASE Lose(id)
      BY <2>5, LoseStep DEF Lose
    <2> QED
      BY <1>1, <2>1, <2>2, <2>3, <2>4, <2>5 DEF DownloadNext
  <1>2. CASE SwitchStorage
    BY <1>2, SwitchStorageStep, ScreenSideSame DEF SwitchStorage
  <1>3. CASE Age
    BY <1>3, AgeStep, ScreenSideSame DEF Age
  <1> QED
    BY <1>1, <1>2, <1>3, ScreenSideSame

LEMMA NothingStep ==
    ASSUME ScreenSide, StoreSide, UNCHANGED vars
    PROVE  ScreenSide' /\ StoreSide'
  BY ScreenSideSame, StoreSideSame DEF vars, downloadVars

LEMMA ViewStep ==
    ASSUME ViewInv, [ViewNext]_vars
    PROVE  ViewInv'
  <1>1. ScreenSide /\ StoreSide
    BY DEF ViewInv, ScreenSide, StoreSide
  <1>2. ScreenSide' /\ StoreSide'
    <2>1. CASE UserNext
      BY <1>1, <2>1, MoveStep, RescaleStep, ChangeZoomStep, SetLayerStep, RemoveLayerStep DEF UserNext
    <2>2. CASE GuiNext
      BY <1>1, <2>2, UpdateModelStep, UpdateDoneStep, TimerFiresStep, TilesAvailabilityStep,
         TileDownloadedStep, LoadImageStep DEF GuiNext
    <2>3. CASE CheckNext
      BY <1>1, <2>3, LookUpStep, ReturnStep DEF CheckNext
    <2>4. CASE (\E id \in Ids : DownloadNext(id)) \/ SwitchStorage \/ Age
      BY <1>1, <2>4, BehindStep
    <2>5. CASE AtRest \/ UNCHANGED vars
      BY <1>1, <2>5, NothingStep DEF AtRest
    <2> QED
      BY <2>1, <2>2, <2>3, <2>4, <2>5 DEF ViewNext
  <1> QED
    BY <1>2 DEF ViewInv, ScreenSide, StoreSide

\* The invariant of the map: the types, the registration of the tiles, what an
\* update of the tiles model works from and covers, the order of the stores.
THEOREM ViewInvariant == ViewSpec => []ViewInv
  <1>1. ViewInit => ViewInv
    BY ViewStarts
  <1>2. ViewInv /\ [ViewNext]_vars => ViewInv'
    BY ViewStep
  <1> QED
    BY <1>1, <1>2, PTL DEF ViewSpec

\* An answer reaches the tile that shows its id, however tiles are recycled and
\* layers or the zoom level changed while it was under way (PinchMap.qml,
\* currentTiles; Tile.qml, onTileIdChanged).
THEOREM AnswersReach == ViewSpec => []AnswersReachTheTile
  <1>1. ASSUME ViewInv
        PROVE  AnswersReachTheTile
    <2>1. ViewTypeOK
      BY <1>1 DEF ViewInv, ViewTypeOK, StoreInv, ModelInv, ScreenTypes, TileTypes, TileStates, AskedInv
    <2> QED
      BY <1>1, <2>1 DEF AnswersReachTheTile, ViewInv, RegisterInv, RegisteredShows, OthersRegistered
  <1>2. ViewInv => AnswersReachTheTile
    BY <1>1
  <1> QED
    BY <1>2, ViewInvariant, PTL

\* When no update runs the model shows what the map covered when an update was
\* last called for, each place once: the slots suffice, and a move during an
\* update is made up for (update_tiles_model.js; PinchMap.qml, updateTilesModel()).
THEOREM ModelShows == ViewSpec => []ModelShowsWindow
  <1>1. ViewInv => ModelShowsWindow
    BY DEF ViewInv, ModelInv, UpdateInv, EachOnce, Held, ModelShowsWindow, NoUpdate
  <1> QED
    BY <1>1, ViewInvariant, PTL

\* Only a write makes a copy fresh.
LEMMA OnlyWritesAreFresh ==
    ASSUME ViewInv, [ViewNext]_vars, NEW id \in Ids,
           held[primary][id] # "fresh", held'[primary][id] = "fresh"
    PROVE  Store(id) \/ (StoreLate(id) /\ storing[id] = primary)
  <1>1. StoreTypeOK /\ primary \in Types /\ storing \in [Ids -> Types \cup {None}]
    BY DEF ViewInv, StoreInv, StoreTypeOK, AskedInv
  <1>2. held' # held
    OBVIOUS
  <1>3. ASSUME NEW y \in Types, NEW i \in Ids, GrowOld(y, i)
        PROVE  FALSE
    <2>1. held' = [held EXCEPT ![y][i] = "timed-out"]
      BY <1>3 DEF GrowOld
    <2> QED
      BY <1>1, <2>1 DEF StoreTypeOK
  <1>4. ~Age
    BY <1>3 DEF Age
  <1>5. ASSUME NEW i \in Ids, Store(i)
        PROVE  i = id
    BY <1>1, <1>5, WriteTypes DEF Store
  <1>6. ASSUME NEW i \in Ids, StoreLate(i)
        PROVE  i = id /\ storing[i] = primary
    <2>1. Write(storing[i], i) /\ storing[i] \in Types
      BY <1>1, <1>6 DEF StoreLate
    <2> QED
      BY <1>1, <2>1, WriteTypes
  <1>7. ~SwitchStorage /\ ~UserNext /\ ~GuiNext /\ ~CheckNext /\ ~AtRest /\ vars' # vars
    <2>1. ~SwitchStorage
      BY <1>2 DEF SwitchStorage
    <2>2. ~UserNext
      BY <1>2 DEF UserNext, Move, Rescale, ChangeZoom, SetLayer, RemoveLayer, storeVars
    <2>3. ~GuiNext
      BY <1>2 DEF GuiNext, UpdateModel, UpdateDone, TimerFires, TilesAvailabilityCB, TileDownloadedCB,
                  LoadImage, storeVars
    <2>4. ~CheckNext
      BY <1>2 DEF CheckNext, LookUp, Return, storeVars
    <2>5. ~AtRest /\ vars' # vars
      BY <1>2 DEF AtRest, vars, storeVars
    <2> QED
      BY <2>1, <2>2, <2>3, <2>4, <2>5
  <1>8. PICK i \in Ids : DownloadNext(i)
    BY <1>4, <1>7 DEF ViewNext
  <1>9. ~FindLocally(i) /\ ~DownloadFails(i) /\ ~Lose(i)
    BY <1>2 DEF FindLocally, DownloadFails, Lose, storeVars
  <1>10. Store(i) \/ StoreLate(i)
    BY <1>8, <1>9 DEF DownloadNext
  <1> QED
    BY <1>5, <1>6, <1>10

\* A tile that is written to the primary store is found from then on, whatever
\* older copies the other stores of its layer hold, and also when the handler
\* had chosen the store before the primary type was changed to another and back
\* (mod_storeTiles.py, _get_store_for_writing()).
THEOREM StoredFound == ViewSpec => StoredIsFound
  <1>1. ASSUME ViewInv, [ViewNext]_vars, NEW id \in Ids,
               held[primary][id] # "fresh", held'[primary][id] = "fresh"
        PROVE  Found(id)'
    <2>1. StoreInv /\ StoreInv' /\ id[1] \in Layers
      BY <1>1, ViewStep, LayerOfId DEF ViewInv
    <2>2. primary' = primary /\ Contains(stores'[id[1]], primary)
      <3>1. CASE Store(id)
        BY <2>1, <3>1, OpenedParts DEF Store, Write
      <3>2. CASE StoreLate(id) /\ storing[id] = primary
        BY <2>1, <3>2 DEF StoreLate, Write, StoreInv
      <3> QED
        BY <1>1, <3>1, <3>2, OnlyWritesAreFresh
    <2> DEFINE order == stores'[id[1]]
    <2>3. order \in Seq(Types) /\ order # <<>> /\ Head(order) = primary
      BY <2>1, <2>2 DEF StoreInv, StoreTypeOK, Contains
    <2>4. 1 \in DOMAIN order /\ order[1] = primary
      BY <2>3
    <2>5. 1..(1 - 1) = {}
      OBVIOUS
    <2> QED
      BY <1>1, <2>4, <2>5 DEF Found, Valid
  <1>2. ViewInv /\ [ViewNext]_vars
          => [\A id \in Ids : held[primary][id] # "fresh" /\ held'[primary][id] = "fresh" => Found(id)']_vars
    BY <1>1
  <1> QED
    BY <1>2, ViewInvariant, PTL DEF ViewSpec, StoredIsFound

-----------------------------------------------------------------------------
(* Why the order in which the tiles of a change run their handlers is not  *)
(* told apart: a tile that leaves an id takes it out of currentTiles,      *)
(* whoever is registered there; none of those who enter one is hit.        *)

\* The tile shows another id than before, or none was shown before.
Enters(u) == u \in OnScreen' /\ (u \in OnScreen => TileId(u)' # TileId(u))
Leaves(t) == t \in OnScreen /\ (t \in OnScreen' => TileId(t)' # TileId(t))
NobodyTakesOver == \A t, u \in Tiles : Leaves(t) /\ Enters(u) => TileId(u)' # TileId(t)

LEMMA NobodyMoves ==
    ASSUME UNCHANGED <<layer, zoom, model>>
    PROVE  NobodyTakesOver
  BY DEF NobodyTakesOver, Leaves, Enters, OnScreen, TileId, IdOf

LEMMA WorkerTakesNothingOver ==
    ASSUME ScreenSide, UpdateModel
    PROVE  NobodyTakesOver
  <1> DEFINE m == CHOOSE m \in [Slots -> Places \cup {None}] : Recycled(m)
  <1>1. update.kind = "to-do" /\ Retile(layer, zoom, m)
    BY DEF UpdateModel
  <1>2. /\ update.window \in Windows /\ Held = update.should
        /\ model \in [Slots -> Places \cup {None}] /\ EachOnce
    BY <1>1 DEF ScreenSide, ScreenTypes, ModelInv, UpdateInv, NoUpdate
  <1>3. Recycled(m)
    BY <1>2, RecycledThere
  <1> HIDE DEF m
  <1>4. model' = m /\ layer' = layer /\ zoom' = zoom
    BY <1>1 DEF Retile
  <1>5. ASSUME NEW t \in Tiles, NEW u \in Tiles, Leaves(t), Enters(u)
        PROVE  TileId(u)' # TileId(t)
    <2>1. t[1] \in Slots /\ u[1] \in Slots
      BY DEF Tiles
    <2>2. model[t[1]] \in Held
      BY <1>5, <2>1 DEF Leaves, OnScreen, Shown, Held
    <2>3. m[u[1]] # None /\ m[u[1]] # model[u[1]]
      BY <1>4, <1>5 DEF Enters, OnScreen, Shown, TileId, IdOf
    <2>4. m[u[1]] \in NewPlaces
      BY <1>3, <2>1, <2>3 DEF Recycled
    <2>5. m[u[1]] # model[t[1]]
      BY <1>2, <2>2, <2>4 DEF NewPlaces
    <2> QED
      BY <1>4, <2>5 DEF TileId, IdOf
  <1> QED
    BY <1>5 DEF NobodyTakesOver

\* No tile enters an id that another one leaves by the same change: a change of
\* the zoom level or of a row's layer gives ids of another level or layer, and
\* the worker places that the model does not hold.  So it makes no difference in
\* which order the tiles put themselves into currentTiles and take themselves
\* out (Tile.qml, onTileIdChanged and Component.onDestruction).
THEOREM NoIdChangesHands == ViewSpec => [][NobodyTakesOver]_vars
  <1>1. ASSUME ViewInv, [ViewNext]_vars
        PROVE  NobodyTakesOver
    <2>1. ScreenSide
      BY <1>1 DEF ViewInv, ScreenSide
    <2>2. CASE ChangeZoom
      <3>1. PICK z \in Zooms \ {zoom} : Retile(layer, z, model)
        BY <2>2 DEF ChangeZoom
      <3>2. zoom' # zoom
        BY <3>1 DEF Retile
      <3> QED
        BY <3>2 DEF NobodyTakesOver, TileId, IdOf
    <2>3. ASSUME NEW r \in Rows, NEW l, l # layer[r], Retile([layer EXCEPT ![r] = l], zoom, model)
          PROVE  NobodyTakesOver
      <3>1. /\ layer \in [Rows -> Layers \cup {None}]
            /\ layer' = [layer EXCEPT ![r] = l] /\ zoom' = zoom /\ model' = model
        BY <2>1, <2>3 DEF Retile, ScreenSide, ScreenTypes
      <3>2. ASSUME NEW t \in Tiles, NEW u \in Tiles, Leaves(t), Enters(u)
            PROVE  TileId(u)' # TileId(t)
        <4>1. t[2] \in Rows /\ u[2] \in Rows
          BY DEF Tiles
        <4>2. layer'[t[2]] # layer[t[2]]
          BY <3>1, <3>2 DEF Leaves, OnScreen, Shown, TileId, IdOf
        <4>3. layer'[u[2]] # layer[u[2]]
          BY <3>1, <3>2 DEF Enters, OnScreen, Shown, TileId, IdOf
        <4>4. t[2] = r /\ u[2] = r
          BY <3>1, <4>1, <4>2, <4>3
        <4>5. layer'[u[2]] # layer[t[2]]
          BY <2>3, <3>1, <4>4
        <4> QED
          BY <4>5 DEF TileId, IdOf
      <3> QED
        BY <3>2 DEF NobodyTakesOver
    <2>4. CASE SetLayer
      BY <2>3, <2>4 DEF SetLayer
    <2>5. CASE RemoveLayer
      BY <2>3, <2>5 DEF RemoveLayer
    <2>6. CASE UpdateModel
      BY <2>1, <2>6, WorkerTakesNothingOver
    <2>7. CASE Move \/ Rescale
      BY <2>7, NobodyMoves DEF Move, Rescale
    <2>8. CASE UpdateDone
      BY <2>8, NobodyMoves DEF UpdateDone
    <2>9. CASE TimerFires \/ TilesAvailabilityCB \/ TileDownloadedCB \/ \E t \in Tiles : LoadImage(t)
      BY <2>9, NobodyMoves DEF TimerFires, TilesAvailabilityCB, TileDownloadedCB, LoadImage, modelVars
    <2>10. CASE CheckNext
      BY <2>10, NobodyMoves DEF CheckNext, LookUp, Return, modelVars
    <2>11. CASE \E id \in Ids : DownloadNext(id)
      BY <2>11, NobodyMoves DEF DownloadNext, FindLocally, Store, StoreLate, DownloadFails, Lose,
                                modelVars
    <2>12. CASE SwitchStorage \/ Age \/ AtRest \/ UNCHANGED vars
      BY <2>12, NobodyMoves DEF SwitchStorage, Age, AtRest, vars, modelVars
    <2> QED
      BY <1>1, <2>2, <2>4, <2>5, <2>6, <2>7, <2>8, <2>9, <2>10, <2>11, <2>12
         DEF ViewNext, UserNext, GuiNext
  <1>2. ViewInv /\ [ViewNext]_vars => [NobodyTakesOver]_vars
    BY <1>1
  <1> QED
    BY <1>2, ViewInvariant, PTL DEF ViewSpec

-----------------------------------------------------------------------------
(* What is at rest is settled.                                             *)

\* The requests of a tile are under way: staged, in a batch that is not looked up
\* yet or has found it, with the download, or answered.
Coming(id) ==
    \/ id \in ToSet(requests)
    \/ \E i \in DOMAIN checks : id \in ToSet(checks[i]) /\ (i = 1 /\ looked => id \in answer)
    \/ asked[id] > 0
    \/ \E i \in DOMAIN inbox : id \in inbox[i].ids /\ (inbox[i].kind = "checked" => id \in inbox[i].ok)

\* A tile without a picture has its data coming, unless its request was lost.
Empty(t) == tile[t].picture = "none" /\ ~tile[t].error
EmptyIsAwaited ==
    \A t \in OnScreen \ twins : Empty(t) => Coming(TileId(t)) \/ TileId(t) \in lost
AvailableLoads == \A t \in Tiles : tile[t].available => tile[t].picture # "none"

\* Staged requests are let go: by the timer, or once the update is done.
TimerInv == /\ timer \in BOOLEAN /\ paused = running
            /\ requests # <<>> => timer \/ running

\* What a store holds is asked for.
HeldIsOpen ==
    \A y \in Types, id \in Ids : held[y][id] # "none" => Contains(stores[id[1]], y)

\* What was said to be there can be loaded, or was found a moment ago.
Gettable(id) == id \in memory \/ Found(id) \/ id \in hidden
Honest(m) ==
    /\ m.kind = "checked" => \A id \in m.ok : Gettable(id)
    /\ m.kind = "success" => \A id \in m.ids : Gettable(id)
PromisesKept ==
    (\A id \in answer : Gettable(id)) /\ (\A i \in DOMAIN inbox : Honest(inbox[i]))
LoadsWhatIsThere ==
    \A t \in OnScreen : tile[t].picture = "loading" => Gettable(TileId(t))
BlankIsHidden == \A t \in OnScreen : tile[t].picture = "blank" => TileId(t) \in hidden

TilesRest == AvailableLoads /\ EmptyIsAwaited /\ LoadsWhatIsThere /\ BlankIsHidden
RestInv == TilesRest /\ PromisesKept /\ TimerInv /\ HeldIsOpen

\* Nothing is under way.
Quiet ==
    /\ update = NoUpdate /\ ~timer /\ checks = <<>> /\ inbox = <<>>
    /\ \A id \in Ids : asked[id] = 0
    /\ \A t \in Tiles : tile[t].picture # "loading"
RestIsSettled == Quiet => \A t \in OnScreen : Settled(t)

\* A step that writes to a store, or is of the storage itself, or leaves it alone.
LEMMA StorageSteps ==
    ASSUME [ViewNext]_vars
    PROVE  \/ \E id \in Ids : Store(id) \/ StoreLate(id)
           \/ SwitchStorage \/ Age
           \/ UNCHANGED storeVars /\ hidden' = hidden /\ memory \subseteq memory'
  <1>1. CASE UserNext
    BY <1>1 DEF UserNext, Move, Rescale, ChangeZoom, SetLayer, RemoveLayer, downloadVars
  <1>2. CASE GuiNext
    BY <1>2 DEF GuiNext, UpdateModel, UpdateDone, TimerFires, TilesAvailabilityCB, TileDownloadedCB,
                LoadImage, downloadVars
  <1>3. CASE CheckNext
    BY <1>3 DEF CheckNext, LookUp, Return, downloadVars
  <1>4. ASSUME NEW id \in Ids, FindLocally(id) \/ DownloadFails(id) \/ Lose(id)
        PROVE  UNCHANGED storeVars /\ hidden' = hidden /\ memory \subseteq memory'
    BY <1>4 DEF FindLocally, DownloadFails, Lose
  <1>5. CASE AtRest \/ UNCHANGED vars
    BY <1>5 DEF AtRest, vars, downloadVars
  <1> QED
    BY <1>1, <1>2, <1>3, <1>4, <1>5 DEF ViewNext, DownloadNext

LEMMA OpenStarts ==
    ASSUME ViewInit
    PROVE  HeldIsOpen
  <1>1. PICK existing \in [Layers -> SUBSET Types] :
          /\ \A l \in Layers, y \in Types :
                y \in existing[l] <=> \E id \in Ids : id[1] = l /\ held[y][id] # "none"
          /\ stores = [l \in Layers |-> Sorted(SetToSeq(existing[l]), primary)]
    BY DEF ViewInit, StoreInit
  <1>2. ASSUME NEW y \in Types, NEW id \in Ids, held[y][id] # "none"
        PROVE  Contains(stores[id[1]], y)
    <2> DEFINE l == id[1]
               opened == SetToSeq(existing[l])
    <2>1. l \in Layers /\ y \in existing[l] /\ primary \in Types
      BY <1>1, <1>2, LayerOfId, StoreAssumption DEF ViewInit, StoreInit
    <2>2. IsFiniteSet(existing[l])
      BY <2>1, StoreAssumption, FS_Subset
    <2>3. opened \in Seq(existing[l]) /\ ToSet(opened) = existing[l]
      BY <2>2, SetToSeqType
    <2> HIDE DEF opened
    <2>4. opened \in Seq(Types) /\ Contains(opened, y)
      BY <2>1, <2>3 DEF ToSet, Contains
    <2>5. stores[l] = Sorted(opened, primary)
      BY <1>1, <2>1 DEF opened
    <2> QED
      BY <2>1, <2>4, <2>5, SortedParts
  <1> QED
    BY <1>2 DEF HeldIsOpen

\* A write only makes copies out of copies, but for the one it writes.
LEMMA WriteHolds ==
    ASSUME StoreTypeOK, NEW y \in Types, NEW id \in Ids, Write(y, id)
    PROVE  \A t \in Types, i \in Ids :
              /\ held'[t][i] # "none" => held[t][i] # "none" \/ (t = y /\ i = id)
              /\ i # id => held'[t][i] = held[t][i]
  BY DEF StoreTypeOK, Write, Copies

LEMMA HeldStep ==
    ASSUME ViewInv, HeldIsOpen, [ViewNext]_vars
    PROVE  HeldIsOpen'
  <1>1. StoreInv /\ StoreTypeOK /\ primary \in Types /\ storing \in [Ids -> Types \cup {None}]
    BY DEF ViewInv, StoreInv, StoreTypeOK, AskedInv
  <1>2. ASSUME NEW i \in Ids, Store(i)
        PROVE  HeldIsOpen'
    <2>1. i[1] \in Layers /\ stores' = Opened(i[1]) /\ Write(primary, i)
      BY <1>2, LayerOfId DEF Store
    <2>2. ASSUME NEW y \in Types, NEW id \in Ids, held'[y][id] # "none"
          PROVE  Contains(stores'[id[1]], y)
      <3>1. CASE y = primary /\ id = i
        BY <1>1, <2>1, <3>1, OpenedParts
      <3>2. CASE ~(y = primary /\ id = i)
        <4>1. held[y][id] # "none"
          BY <1>1, <2>1, <2>2, <3>2, WriteHolds
        <4>2. Contains(stores[id[1]], y) /\ id[1] \in Layers
          BY <4>1, LayerOfId DEF HeldIsOpen
        <4> QED
          BY <1>1, <2>1, <4>2, OpenedParts
      <3> QED
        BY <3>1, <3>2
    <2> QED
      BY <2>2 DEF HeldIsOpen
  <1>3. ASSUME NEW i \in Ids, StoreLate(i)
        PROVE  HeldIsOpen'
    <2>1. /\ storing[i] \in Types /\ Write(storing[i], i) /\ stores' = stores
          /\ Contains(stores[i[1]], storing[i])
      BY <1>1, <1>3 DEF StoreLate, StoreInv
    <2> QED
      BY <1>1, <2>1, WriteHolds DEF HeldIsOpen
  <1>4. CASE SwitchStorage
    <2>1. PICK y \in Types, late \in SUBSET Ids :
            stores' = Resorted([l \in Layers |-> IF \E id \in late : id[1] = l
                                                 THEN Opened(l)[l] ELSE stores[l]], y)
      BY <1>4 DEF SwitchStorage
    <2> DEFINE opened(l) == IF \E id \in late : id[1] = l THEN Opened(l)[l] ELSE stores[l]
    <2>2. ASSUME NEW l \in Layers
          PROVE  opened(l) \in Seq(Types) /\ \A t : Contains(stores[l], t) => Contains(opened(l), t)
      BY <1>1, OpenedParts DEF StoreTypeOK
    <2>3. \A l \in Layers : stores'[l] = Sorted(opened(l), y)
      BY <2>1 DEF Resorted
    <2> HIDE DEF opened
    <2>4. ASSUME NEW l \in Layers
          PROVE  \A t : Contains(stores[l], t) => Contains(stores'[l], t)
      BY <2>2, <2>3, SortedParts
    <2>5. held' = held
      BY <1>4 DEF SwitchStorage
    <2> QED
      BY <2>4, <2>5, LayerOfId DEF HeldIsOpen
  <1>5. CASE Age
    <2>1. PICK y \in Types, i \in Ids : GrowOld(y, i)
      BY <1>5 DEF Age
    <2>2. /\ held' = [held EXCEPT ![y][i] = "timed-out"] /\ stores' = stores
          /\ held[y][i] # "none"
      BY <2>1 DEF GrowOld, Valid
    <2>3. \A t \in Types, j \in Ids : held'[t][j] # "none" => held[t][j] # "none"
      BY <1>1, <2>2 DEF StoreTypeOK
    <2> QED
      BY <2>2, <2>3 DEF HeldIsOpen
  <1>6. CASE UNCHANGED storeVars
    BY <1>6 DEF HeldIsOpen, storeVars
  <1> QED
    BY <1>2, <1>3, <1>4, <1>5, <1>6, StorageSteps

\* A tile whose newest copy is in the primary store is found there.
LEMMA NewestIsFound ==
    ASSUME StoreInv', NEW id \in Ids, Contains(stores'[id[1]], primary'), held'[primary'][id] = "fresh"
    PROVE  Found(id)'
  <1> DEFINE order == stores'[id[1]]
  <1>1. order \in Seq(Types) /\ order # <<>> /\ Head(order) = primary'
    BY LayerOfId DEF StoreInv, StoreTypeOK, Contains
  <1>2. 1 \in DOMAIN order /\ order[1] = primary'
    BY <1>1
  <1>3. 1..(1 - 1) = {}
    OBVIOUS
  <1> QED
    BY <1>2, <1>3 DEF Found, Valid

\* A store that is opened in front holds nothing yet, and nothing is lost to sight.
LEMMA OpenedFinds ==
    ASSUME StoreInv, HeldIsOpen, NEW l \in Layers, NEW id \in Ids, Found(id),
           stores' = Opened(l), \A t \in Types : held'[t][id] = held[t][id]
    PROVE  Found(id)'
  <1> DEFINE k == id[1]
             old == stores[k]
             new == stores'[k]
  <1>1. /\ stores \in [Layers -> Seq(Types)] /\ primary \in Types /\ k \in Layers
        /\ old \in Seq(Types)
    BY LayerOfId DEF StoreInv, StoreTypeOK
  <1>2. PICK i \in DOMAIN old :
          held[old[i]][id] \in Valid /\ \A j \in 1..(i - 1) : held[old[j]][id] = "none"
    BY DEF Found
  <1>3. CASE new = old
    <2>1. \A j \in DOMAIN old : held'[old[j]][id] = held[old[j]][id]
      BY <1>1
    <2>2. \A j \in 1..(i - 1) : j \in DOMAIN old
      BY <1>1
    <2> QED
      BY <1>2, <1>3, <2>1, <2>2 DEF Found
  <1>4. CASE new # old
    <2>1. k = l /\ ~Contains(old, primary) /\ new = Sorted(Append(old, primary), primary)
      BY <1>1, <1>4 DEF Opened, Added
    <2>2. new = <<primary>> \o old
      <3> DEFINE grown == Append(old, primary)
                 n == Len(old) + 1
      <3>1. /\ grown \in Seq(Types) /\ Len(grown) = n /\ n \in 1..Len(grown) /\ grown[n] = primary
            /\ \A j \in 1..Len(old) : grown[j] = old[j]
        BY <1>1
      <3>2. \A j \in DOMAIN grown : grown[j] = primary => j = n
        BY <1>1, <2>1, <3>1 DEF Contains
      <3>3. Contains(grown, primary) /\ (CHOOSE j \in DOMAIN grown : grown[j] = primary) = n
        BY <3>1, <3>2 DEF Contains
      <3>4. RemoveAt(grown, n) = old
        <4>1. SubSeq(grown, 1, n - 1) = old
          BY <1>1
        <4>2. SubSeq(grown, n + 1, Len(grown)) = <<>>
          BY <1>1, <3>1
        <4>3. old \o <<>> = old
          BY <1>1
        <4> QED
          BY <4>1, <4>2, <4>3 DEF RemoveAt
      <3> HIDE DEF grown, n
      <3> QED
        BY <2>1, <3>3, <3>4 DEF Sorted, grown
    <2>3. /\ DOMAIN new = 1..(Len(old) + 1) /\ new[1] = primary
          /\ \A j \in 2..(Len(old) + 1) : new[j] = old[j - 1]
      BY <1>1, <2>2
    <2>4. held[primary][id] = "none"
      BY <1>1, <2>1 DEF HeldIsOpen
    <2> DEFINE Copy(j) == held'[new[j]][id]
    <2>5. i + 1 \in DOMAIN new /\ Copy(i + 1) \in Valid
      <3>1. i + 1 \in 2..(Len(old) + 1) /\ (i + 1) - 1 = i /\ old[i] \in Types
        BY <1>1
      <3>2. new[i + 1] = old[i] /\ i + 1 \in DOMAIN new
        BY <1>1, <2>3, <3>1
      <3> QED
        BY <1>2, <3>1, <3>2
    <2>6. ASSUME NEW j \in 1..i
          PROVE  Copy(j) = "none"
      <3>1. CASE j = 1
        BY <1>1, <2>3, <2>4, <3>1
      <3>2. CASE j # 1
        <4>1. j - 1 \in 1..(i - 1) /\ j \in 2..(Len(old) + 1) /\ j - 1 \in 1..Len(old)
          BY <1>1, <3>2
        <4> QED
          BY <1>1, <1>2, <2>3, <4>1
      <3> QED
        BY <3>1, <3>2
    <2>7. \E n \in DOMAIN new : Copy(n) \in Valid /\ \A j \in 1..(n - 1) : Copy(j) = "none"
      <3>1. (i + 1) - 1 = i
        BY <1>1
      <3> HIDE DEF Copy, new
      <3> QED
        BY <2>5, <2>6, <3>1
    <2> QED
      BY <2>7 DEF Found
  <1> QED
    BY <1>3, <1>4

\* What can be loaded can be loaded later, or is known as hidden.
LEMMA GettableStep ==
    ASSUME ViewInv, HeldIsOpen, [ViewNext]_vars, NEW id \in Ids, Gettable(id)
    PROVE  Gettable(id)'
  <1>1. StoreInv /\ StoreInv' /\ primary \in Types /\ storing \in [Ids -> Types \cup {None}]
    BY ViewStep DEF ViewInv, StoreInv, StoreTypeOK, AskedInv
  <1>2. StoreTypeOK
    BY <1>1 DEF StoreInv
  <1>3. ASSUME NEW i \in Ids, Store(i)
        PROVE  Gettable(id)'
    <2>1. /\ i[1] \in Layers /\ stores' = Opened(i[1]) /\ Write(primary, i)
          /\ memory' = memory /\ hidden' = hidden
      BY <1>3, LayerOfId DEF Store
    <2>2. primary' = primary /\ held'[primary][i] = "fresh"
      BY <1>1, <1>2, <2>1, WriteTypes
    <2>3. CASE i = id
      <3>1. Contains(stores'[id[1]], primary')
        BY <1>1, <2>1, <2>2, <2>3, OpenedParts
      <3> QED
        BY <1>1, <2>2, <2>3, <3>1, NewestIsFound DEF Gettable
    <2>4. CASE i # id
      <3>1. \A t \in Types : held'[t][id] = held[t][id]
        BY <1>1, <1>2, <2>1, <2>4, WriteHolds
      <3> QED
        BY <1>1, <2>1, <3>1, OpenedFinds DEF Gettable
    <2> QED
      BY <2>3, <2>4
  <1>4. ASSUME NEW i \in Ids, StoreLate(i)
        PROVE  Gettable(id)'
    <2>1. /\ storing[i] \in Types /\ Write(storing[i], i) /\ stores' = stores /\ memory' = memory
          /\ hidden' = IF storing[i] = primary THEN hidden ELSE hidden \cup {i}
          /\ Contains(stores[i[1]], storing[i])
      BY <1>1, <1>4 DEF StoreLate, StoreInv
    <2>2. primary' = primary /\ held'[storing[i]][i] = "fresh"
      BY <1>2, <2>1, WriteTypes
    <2>3. CASE i = id
      BY <1>1, <2>1, <2>2, <2>3, NewestIsFound DEF Gettable
    <2>4. CASE i # id
      <3>1. \A t \in Types : held'[t][id] = held[t][id]
        BY <1>2, <2>1, <2>4, WriteHolds
      <3>2. \A j \in DOMAIN stores[id[1]] : stores[id[1]][j] \in Types
        BY <1>2, LayerOfId DEF StoreTypeOK
      <3>3. \A j \in DOMAIN stores[id[1]] : \A n \in 1..(j - 1) : n \in DOMAIN stores[id[1]]
        BY <1>2, LayerOfId DEF StoreTypeOK
      <3>4. Found(id) => Found(id)'
        BY <2>1, <3>1, <3>2, <3>3 DEF Found
      <3> QED
        BY <2>1, <3>4 DEF Gettable
    <2> QED
      BY <2>3, <2>4
  <1>5. CASE SwitchStorage \/ Age
    <2>1. memory' = memory /\ Hide
      BY <1>5 DEF SwitchStorage, Age, downloadVars
    <2> QED
      BY <2>1 DEF Hide, Gettable
  <1>6. CASE UNCHANGED storeVars /\ hidden' = hidden /\ memory \subseteq memory'
    BY <1>6 DEF Gettable, Found, storeVars
  <1> QED
    BY <1>3, <1>4, <1>5, <1>6, StorageSteps

LEMMA ToSetOfConcat ==
    ASSUME NEW S, NEW a \in Seq(S), NEW b \in Seq(S)
    PROVE  ToSet(a) \cup ToSet(b) = ToSet(a \o b)
  <1>1. /\ Len(a) \in Nat /\ Len(b) \in Nat /\ Len(a \o b) = Len(a) + Len(b)
        /\ DOMAIN a = 1..Len(a) /\ DOMAIN b = 1..Len(b) /\ DOMAIN (a \o b) = 1..(Len(a) + Len(b))
        /\ \A i \in 1..(Len(a) + Len(b)) : (a \o b)[i] = IF i <= Len(a) THEN a[i] ELSE b[i - Len(a)]
    BY ConcatProperties
  <1> DEFINE c == a \o b
  <1> HIDE DEF c
  <1>2. \A i \in 1..Len(a) : i \in DOMAIN c /\ c[i] = a[i]
    BY <1>1 DEF c
  <1>3. ASSUME NEW i \in 1..Len(b)
        PROVE  \E j \in DOMAIN c : c[j] = b[i]
    <2>1. Len(a) + i \in 1..(Len(a) + Len(b)) /\ ~(Len(a) + i <= Len(a)) /\ (Len(a) + i) - Len(a) = i
      BY <1>1
    <2> QED
      BY <1>1, <2>1 DEF c
  <1>4. ASSUME NEW j \in DOMAIN c
        PROVE  c[j] \in ToSet(a) \cup ToSet(b)
    <2>1. CASE j <= Len(a)
      <3>1. j \in DOMAIN a /\ c[j] = a[j]
        BY <1>1, <1>4, <2>1 DEF c
      <3> QED
        BY <3>1 DEF ToSet
    <2>2. CASE ~(j <= Len(a))
      <3>1. j - Len(a) \in DOMAIN b /\ c[j] = b[j - Len(a)]
        BY <1>1, <1>4, <2>2 DEF c
      <3> QED
        BY <3>1 DEF ToSet
    <2> QED
      BY <2>1, <2>2
  <1>5. ToSet(c) \subseteq ToSet(a) \cup ToSet(b)
    BY <1>4 DEF ToSet
  <1>6. ToSet(a) \subseteq ToSet(c) /\ ToSet(b) \subseteq ToSet(c)
    BY <1>1, <1>2, <1>3 DEF ToSet
  <1> QED
    BY <1>5, <1>6 DEF c

\* Every tile that gets an id asks for it, and nobody else does.
LEMMA RetileAsks ==
    ASSUME ScreenTypes, TileTypes,
           NEW lay \in [Rows -> Layers \cup {None}], NEW z \in Zooms,
           NEW mod \in [Slots -> Places \cup {None}], Retile(lay, z, mod)
    PROVE  /\ ToSet(requests) \subseteq ToSet(requests')
           /\ \A t \in Changed(lay, z, mod) : IdOf(t, lay, z, mod) \in ToSet(requests')
           /\ Changed(lay, z, mod) = {} => requests' = requests
  <1> DEFINE New(t) == IdOf(t, lay, z, mod)
             changed == Changed(lay, z, mod)
             asks == SetToSeq(changed)
             ids == [i \in DOMAIN asks |-> New(asks[i])]
  <1>1. changed \subseteq Tiles /\ IsFiniteSet(changed) /\ \A t \in changed : New(t) \in Ids
    <2>1. \A t \in changed : t \in Tiles /\ New(t) \in Ids
      BY ShownHasId DEF Changed
    <2> QED
      BY <2>1, TilesFinite, FS_Subset
  <1>2. asks \in Seq(changed) /\ ToSet(asks) = changed
    BY <1>1, SetToSeqType
  <1>3. requests' = requests \o ids /\ requests \in Seq(Ids)
    BY DEF Retile, TileTypes
  <1> HIDE DEF asks
  <1>4. DOMAIN asks = 1..Len(asks) /\ Len(asks) \in Nat /\ \A i \in 1..Len(asks) : asks[i] \in changed
    BY <1>2
  <1>5. ids \in Seq(Ids) /\ DOMAIN ids = DOMAIN asks
    <2>1. ids \in [1..Len(asks) -> Ids]
      BY <1>1, <1>4
    <2> QED
      BY <1>4, <2>1, IsASeq
  <1>6. \A t \in changed : New(t) \in ToSet(ids)
    BY <1>2 DEF ToSet
  <1>7. ToSet(requests) \cup ToSet(ids) = ToSet(requests')
    BY <1>3, <1>5, ToSetOfConcat
  <1>8. CASE changed = {}
    <2>1. Len(asks) = 0
      BY <1>4, <1>8
    <2>2. ids = <<>>
      BY <1>4, <1>5, <2>1
    <2> HIDE DEF ids
    <2> QED
      BY <1>3, <1>6, <1>7, <1>8, <2>2
  <1> QED
    BY <1>6, <1>7, <1>8

\* What was found a moment ago stays known.
LEMMA HiddenGrows == ASSUME [ViewNext]_vars PROVE hidden \subseteq hidden'
  <1>1. ASSUME NEW id \in Ids, Store(id) \/ StoreLate(id)
        PROVE  hidden \subseteq hidden'
    BY <1>1 DEF Store, StoreLate
  <1>2. CASE SwitchStorage \/ Age
    BY <1>2 DEF SwitchStorage, Age, Hide
  <1> QED
    BY <1>1, <1>2, StorageSteps

LEMMA OnScreenHasId ==
    ASSUME ViewInv, NEW t \in OnScreen
    PROVE  t \in Tiles /\ TileId(t) \in Ids
  BY ShownHasId DEF ViewInv, ScreenTypes, OnScreen, TileId

\* Tiles that keep their ids and their state.
LEMMA TilesKeep ==
    ASSUME ViewInv, RestInv, [ViewNext]_vars, UNCHANGED <<layer, zoom, model, tile, twins>>,
           lost \subseteq lost', \A id \in Ids : Coming(id) => Coming(id)' \/ id \in lost'
    PROVE  TilesRest'
  <1>1. OnScreen' = OnScreen /\ \A t : TileId(t)' = TileId(t)
    BY DEF OnScreen, TileId
  <1>2. \A t \in OnScreen : TileId(t) \in Ids
    BY OnScreenHasId
  <1>3. \A id \in Ids : Gettable(id) => Gettable(id)'
    BY GettableStep DEF RestInv
  <1>4. AvailableLoads'
    BY DEF RestInv, TilesRest, AvailableLoads
  <1>5. EmptyIsAwaited'
    <2> SUFFICES ASSUME NEW t \in OnScreen \ twins, Empty(t), NEW id, id = TileId(t)
                 PROVE  Coming(id)' \/ id \in lost'
      BY <1>1 DEF EmptyIsAwaited, Empty
    <2> QED
      BY <1>2 DEF RestInv, TilesRest, EmptyIsAwaited
  <1>6. LoadsWhatIsThere'
    BY <1>1, <1>2, <1>3 DEF RestInv, TilesRest, LoadsWhatIsThere
  <1>7. BlankIsHidden'
    BY <1>1, HiddenGrows DEF RestInv, TilesRest, BlankIsHidden
  <1> QED
    BY <1>4, <1>5, <1>6, <1>7 DEF TilesRest

\* Tiles that change their ids.
LEMMA RetileKeeps ==
    ASSUME ViewInv, RestInv, [ViewNext]_vars,
           NEW lay \in [Rows -> Layers \cup {None}], NEW z \in Zooms,
           NEW mod \in [Slots -> Places \cup {None}], Retile(lay, z, mod),
           UNCHANGED <<pythonVars, inbox, downloadVars>>
    PROVE  TilesRest'
  <1> DEFINE changed == Changed(lay, z, mod)
             New(t) == IdOf(t, lay, z, mod)
  <1>1. ScreenTypes /\ TileTypes
    BY DEF ViewInv
  <1>2. OnScreen' = Shown(lay, mod) /\ \A t : TileId(t)' = New(t)
    BY DEF Retile, OnScreen, TileId
  <1>3. /\ \A t \in Shown(lay, mod) \ changed : t \in OnScreen /\ New(t) = TileId(t) /\ t \notin Gone(lay, mod)
        /\ \A t \in Shown(lay, mod) : t \in Tiles
    BY DEF Changed, Gone, Shown
  <1>4. \A t \in Tiles : tile'[t] = IF t \in changed \cup Gone(lay, mod) THEN Clear ELSE tile[t]
    BY DEF Retile
  <1>5. \A t \in Shown(lay, mod) \ changed : t \notin twins' => t \notin twins
    BY DEF Retile
  <1>6. \A id \in Ids : (Gettable(id) => Gettable(id)') /\ (Coming(id) => Coming(id)')
    <2>1. \A id \in Ids : Gettable(id) => Gettable(id)'
      BY GettableStep DEF RestInv
    <2>2. ToSet(requests) \subseteq ToSet(requests')
      BY <1>1, RetileAsks
    <2>3. \A id \in Ids : Coming(id) => Coming(id)'
      BY <2>2 DEF Coming, pythonVars, downloadVars
    <2> QED
      BY <2>1, <2>3
  <1>7. \A t \in OnScreen : TileId(t) \in Ids
    BY OnScreenHasId
  <1> HIDE DEF changed, New
  <1>8. Clear.picture = "none" /\ Clear.available = FALSE
    BY DEF Clear
  <1>9. AvailableLoads'
    BY <1>4, <1>8 DEF RestInv, TilesRest, AvailableLoads
  <1>10. EmptyIsAwaited'
    <2> SUFFICES ASSUME NEW t \in Shown(lay, mod), t \notin twins', Empty(t)'
                 PROVE  Coming(New(t))' \/ New(t) \in lost'
      BY <1>2 DEF EmptyIsAwaited
    <2>1. CASE t \in changed
      <3>1. New(t) \in ToSet(requests')
        BY <1>1, <2>1, RetileAsks DEF changed, New
      <3> QED
        BY <3>1 DEF Coming
    <2>2. CASE t \notin changed
      <3>1. t \in OnScreen \ twins /\ New(t) = TileId(t) /\ tile'[t] = tile[t]
        BY <1>3, <1>4, <1>5, <2>2
      <3>2. Coming(TileId(t)) \/ TileId(t) \in lost
        BY <3>1 DEF Empty, RestInv, TilesRest, EmptyIsAwaited
      <3>3. lost' = lost
        BY DEF downloadVars
      <3> QED
        BY <1>6, <1>7, <3>1, <3>2, <3>3
    <2> QED
      BY <2>1, <2>2
  <1>11. LoadsWhatIsThere'
    BY <1>2, <1>3, <1>4, <1>6, <1>7, <1>8 DEF RestInv, TilesRest, LoadsWhatIsThere
  <1>12. BlankIsHidden'
    BY <1>2, <1>3, <1>4, <1>8, HiddenGrows DEF RestInv, TilesRest, BlankIsHidden
  <1> QED
    BY <1>9, <1>10, <1>11, <1>12 DEF TilesRest

\* What is coming stays so while none of it is touched.
LEMMA ComingSame ==
    ASSUME UNCHANGED <<requests, checks, looked, answer, asked, inbox>>
    PROVE  \A id : Coming(id) => Coming(id)'
  BY DEF Coming

LEMMA TimerKeepsComing ==
    ASSUME ViewInv, TimerFires, NEW id \in Ids, Coming(id)
    PROVE  Coming(id)'
  <1>1. /\ checks' = IF requests = <<>> THEN checks ELSE Append(checks, requests)
        /\ UNCHANGED <<looked, answer, asked, inbox>>
    BY DEF TimerFires, downloadVars
  <1>2. checks \in Seq(Seq(Ids)) /\ requests \in Seq(Ids) /\ (looked => checks # <<>>)
    BY DEF ViewInv, CheckTypes, TileTypes
  <1>3. CASE id \in ToSet(requests)
    <2>1. requests # <<>>
      BY <1>3 DEF ToSet
    <2> DEFINE n == Len(checks) + 1
    <2>2. n \in DOMAIN checks' /\ checks'[n] = requests /\ (n = 1 => checks = <<>>)
      BY <1>1, <1>2, <2>1
    <2> QED
      BY <1>1, <1>2, <1>3, <2>2 DEF Coming
  <1>4. ASSUME NEW i \in DOMAIN checks, id \in ToSet(checks[i]), i = 1 /\ looked => id \in answer
        PROVE  Coming(id)'
    <2>1. i \in DOMAIN checks' /\ checks'[i] = checks[i]
      BY <1>1, <1>2
    <2> QED
      BY <1>1, <1>4, <2>1 DEF Coming
  <1>5. CASE asked[id] > 0 \/ \E i \in DOMAIN inbox :
               id \in inbox[i].ids /\ (inbox[i].kind = "checked" => id \in inbox[i].ok)
    BY <1>1, <1>5 DEF Coming
  <1> QED
    BY <1>3, <1>4, <1>5 DEF Coming

LEMMA LookUpKeepsComing ==
    ASSUME ViewInv, LookUp, NEW id \in Ids, Coming(id)
    PROVE  Coming(id)'
  <1> DEFINE batch == Head(checks)
             times == {i \in DOMAIN batch : batch[i] = id}
  <1>1. /\ checks # <<>> /\ ~looked /\ looked' = TRUE
        /\ answer' = {i \in ToSet(batch) : Found(i)}
        /\ asked'[id] = IF Found(id) THEN asked[id] ELSE asked[id] + Cardinality(times)
        /\ UNCHANGED <<requests, checks, inbox>>
    BY DEF LookUp, tileVars
  <1>2. checks \in Seq(Seq(Ids)) /\ asked[id] \in Nat
    BY DEF ViewInv, CheckTypes, AskedInv
  <1>3. batch \in Seq(Ids) /\ batch = checks[1] /\ 1 \in DOMAIN checks
    BY <1>1, <1>2
  <1> HIDE DEF batch
  <1>4. IsFiniteSet(times) /\ Cardinality(times) \in Nat /\ (times # {} => Cardinality(times) > 0)
    <2>1. DOMAIN batch = 1..Len(batch) /\ Len(batch) \in Nat
      BY <1>3
    <2>2. IsFiniteSet(times)
      <3>1. IsFiniteSet(DOMAIN batch) /\ times \in SUBSET DOMAIN batch
        BY <2>1, FS_Interval
      <3> QED
        BY <3>1, FS_Subset
    <2> HIDE DEF times
    <2>3. Cardinality(times) \in Nat /\ (Cardinality(times) = 0 <=> times = {})
      BY <2>2, FS_CardinalityType, FS_EmptySet
    <2> QED
      BY <2>2, <2>3
  <1>5. CASE id \in ToSet(batch)
    <2>1. CASE Found(id)
      <3>1. id \in answer'
        BY <1>1, <1>5, <2>1
      <3> QED
        BY <1>1, <1>3, <1>5, <3>1 DEF Coming
    <2>2. CASE ~Found(id)
      <3>1. times # {}
        BY <1>5 DEF ToSet
      <3> HIDE DEF times
      <3>2. asked'[id] > 0
        BY <1>1, <1>2, <1>4, <2>2, <3>1
      <3> QED
        BY <3>2 DEF Coming
    <2> QED
      BY <2>1, <2>2
  <1>6. CASE id \notin ToSet(batch)
    <2> HIDE DEF times
    <2>1. asked[id] > 0 => asked'[id] > 0
      BY <1>1, <1>2, <1>4
    <2> QED
      BY <1>1, <1>3, <1>6, <2>1 DEF Coming
  <1> QED
    BY <1>5, <1>6

LEMMA ReturnKeepsComing ==
    ASSUME ViewInv, Return, NEW id \in Ids, Coming(id)
    PROVE  Coming(id)'
  <1> DEFINE message == [kind |-> "checked", ids |-> ToSet(Head(checks)), ok |-> answer]
  <1>1. /\ looked /\ inbox' = Append(inbox, message) /\ checks' = Tail(checks) /\ looked' = FALSE
        /\ UNCHANGED <<requests, asked>>
    BY DEF Return, tileVars, downloadVars
  <1>2. checks \in Seq(Seq(Ids)) /\ checks # <<>> /\ inbox \in Seq(Messages)
    BY <1>1 DEF ViewInv, CheckTypes, InboxType
  <1>3. ASSUME NEW i \in DOMAIN checks, id \in ToSet(checks[i]), i = 1 => id \in answer
        PROVE  Coming(id)'
    <2>1. CASE i = 1
      <3>1. /\ Len(inbox) + 1 \in DOMAIN inbox' /\ inbox'[Len(inbox) + 1] = message
            /\ checks[1] = Head(checks)
        BY <1>1, <1>2
      <3>2. id \in message.ids /\ id \in message.ok
        BY <1>3, <2>1, <3>1
      <3> QED
        BY <3>1, <3>2 DEF Coming
    <2>2. CASE i # 1
      <3>1. i - 1 \in DOMAIN checks' /\ checks'[i - 1] = checks[i]
        BY <1>1, <1>2, <2>2
      <3> QED
        BY <1>1, <1>3, <3>1 DEF Coming
    <2> QED
      BY <2>1, <2>2
  <1>4. ASSUME NEW i \in DOMAIN inbox, id \in inbox[i].ids, inbox[i].kind = "checked" => id \in inbox[i].ok
        PROVE  Coming(id)'
    <2>1. i \in DOMAIN inbox' /\ inbox'[i] = inbox[i]
      BY <1>1, <1>2
    <2> QED
      BY <1>4, <2>1 DEF Coming
  <1>5. CASE id \in ToSet(requests) \/ asked[id] > 0
    BY <1>1, <1>5 DEF Coming
  <1> QED
    BY <1>1, <1>3, <1>4, <1>5 DEF Coming

\* A request that is reported has its report coming.
LEMMA ReportKeepsComing ==
    ASSUME ViewInv, NEW i \in Ids, NEW kind \in {"success", "fatal", "retry"}, Report(i, kind),
           UNCHANGED <<requests, pythonVars>>, NEW id \in Ids, Coming(id)
    PROVE  Coming(id)'
  <1> DEFINE message == [kind |-> kind, ids |-> {i}, ok |-> {}]
  <1>1. inbox \in Seq(Messages) /\ asked \in [Ids -> Nat]
    BY DEF ViewInv, InboxType, AskedInv
  <1>2. inbox' = Append(inbox, message) /\ asked' = [asked EXCEPT ![i] = @ - 1]
    BY DEF Report
  <1>3. /\ Len(inbox) + 1 \in DOMAIN inbox' /\ inbox'[Len(inbox) + 1] = message
        /\ \A n \in DOMAIN inbox : n \in DOMAIN inbox' /\ inbox'[n] = inbox[n]
    BY <1>1, <1>2
  <1>4. CASE id = i
    <2>1. id \in message.ids /\ message.kind # "checked"
      BY <1>4
    <2> QED
      BY <1>3, <2>1 DEF Coming
  <1>5. CASE id # i
    <2>1. asked'[id] = asked[id]
      BY <1>1, <1>2, <1>5
    <2> HIDE DEF message
    <2> QED
      BY <1>3, <2>1 DEF Coming, pythonVars
  <1> QED
    BY <1>4, <1>5

\* The actions behind the map leave its tiles as they are, and what is coming
\* for them comes, is answered, or is lost.
LEMMA BehindKeeps ==
    ASSUME ViewInv, RestInv, [ViewNext]_vars,
           TimerFires \/ CheckNext \/ (\E id \in Ids : DownloadNext(id)) \/ SwitchStorage \/ Age
              \/ Move \/ Rescale \/ UpdateDone \/ UNCHANGED vars
    PROVE  TilesRest'
  <1>1. CASE TimerFires
    BY <1>1, TimerKeepsComing, TilesKeep DEF TimerFires, modelVars, downloadVars
  <1>2. CASE LookUp
    BY <1>2, LookUpKeepsComing, TilesKeep DEF LookUp, modelVars, tileVars
  <1>3. CASE Return
    BY <1>3, ReturnKeepsComing, TilesKeep DEF Return, modelVars, tileVars, downloadVars
  <1>4. ASSUME NEW i \in Ids, FindLocally(i) \/ Store(i) \/ StoreLate(i) \/ DownloadFails(i)
        PROVE  TilesRest'
    <2>1. /\ \E kind \in {"success", "fatal", "retry"} : Report(i, kind)
          /\ UNCHANGED <<modelVars, tileVars, pythonVars, lost>>
      BY <1>4 DEF FindLocally, Store, StoreLate, DownloadFails
    <2>2. \A id \in Ids : Coming(id) => Coming(id)'
      BY <2>1, ReportKeepsComing DEF tileVars
    <2> QED
      BY <2>1, <2>2, TilesKeep DEF modelVars, tileVars
  <1>5. ASSUME NEW i \in Ids, Lose(i)
        PROVE  TilesRest'
    <2>1. /\ asked' = [asked EXCEPT ![i] = @ - 1] /\ lost' = lost \cup {i}
          /\ UNCHANGED <<modelVars, tileVars, pythonVars, inbox>>
      BY <1>5 DEF Lose
    <2>2. \A id \in Ids \ {i} : asked'[id] = asked[id]
      BY <2>1 DEF ViewInv, AskedInv
    <2>3. \A id \in Ids : Coming(id) => Coming(id)' \/ id \in lost'
      BY <2>1, <2>2 DEF Coming, tileVars, pythonVars
    <2> QED
      BY <2>1, <2>3, TilesKeep DEF modelVars, tileVars
  <1>6. CASE SwitchStorage \/ Age \/ Move \/ Rescale \/ UpdateDone \/ UNCHANGED vars
    <2>1. /\ UNCHANGED <<layer, zoom, model, tile, twins, lost>>
          /\ UNCHANGED <<requests, checks, looked, answer, asked, inbox>>
      BY <1>6 DEF SwitchStorage, Age, Move, Rescale, UpdateDone, vars, modelVars, tileVars, pythonVars,
                 downloadVars
    <2> QED
      BY <2>1, ComingSame, TilesKeep
  <1> QED
    BY <1>1, <1>2, <1>3, <1>4, <1>5, <1>6 DEF CheckNext, DownloadNext

\* An answer changes the tile that shows the id, and no other.
LEMMA ListenerShows ==
    ASSUME ViewInv, NEW t \in Tiles, NEW id \in Ids, current[id] = t
    PROVE  t \in OnScreen /\ TileId(t) = id
  BY NoneIsNothing DEF ViewInv, RegisterInv, RegisteredShows

\* What the head of the inbox leaves behind.
LEMMA HeadTaken ==
    ASSUME InboxType, inbox # <<>>, inbox' = Tail(inbox),
           UNCHANGED <<checks, looked, answer, asked>>, ToSet(requests) \subseteq ToSet(requests'),
           NEW id, Coming(id)
    PROVE  \/ Coming(id)'
           \/ id \in Head(inbox).ids /\ (Head(inbox).kind = "checked" => id \in Head(inbox).ok)
  <1>1. inbox \in Seq(Messages) /\ Head(inbox) = inbox[1]
    BY DEF InboxType
  <1>2. ASSUME NEW i \in DOMAIN inbox, i # 1
        PROVE  i - 1 \in DOMAIN inbox' /\ inbox'[i - 1] = inbox[i]
    BY <1>1, <1>2
  <1>3. ASSUME NEW i \in DOMAIN inbox, id \in inbox[i].ids, inbox[i].kind = "checked" => id \in inbox[i].ok
        PROVE  \/ Coming(id)'
               \/ id \in Head(inbox).ids /\ (Head(inbox).kind = "checked" => id \in Head(inbox).ok)
    BY <1>1, <1>2, <1>3 DEF Coming
  <1> QED
    BY <1>3 DEF Coming

\* An answer: every tile stays, or is told what it is about.
LEMMA ToldKeeps ==
    ASSUME ViewInv, RestInv, [ViewNext]_vars, inbox # <<>>, inbox' = Tail(inbox),
           UNCHANGED <<layer, zoom, model, twins, current, checks, looked, answer, asked, lost>>,
           ToSet(requests) \subseteq ToSet(requests'),
           \A t \in Tiles : (~\E id \in Head(inbox).ids : current[id] = t) => tile'[t] = tile[t],
           \A t \in OnScreen : TileId(t) \in Head(inbox).ids /\ current[TileId(t)] = t =>
              /\ tile'[t].available => tile'[t].picture # "none"
              /\ tile'[t].picture = "loading" => tile[t].picture = "loading" \/ Gettable(TileId(t))
              /\ tile'[t].picture = "blank" => tile[t].picture = "blank"
              /\ Empty(t)' =>
                    /\ Empty(t)
                    /\ \/ TileId(t) \in ToSet(requests')
                       \/ Head(inbox).kind = "checked" /\ TileId(t) \notin Head(inbox).ok
    PROVE  TilesRest'
  <1> DEFINE m == Head(inbox)
             Told1(t) == TileId(t) \in m.ids /\ current[TileId(t)] = t
  <1>1. OnScreen' = OnScreen /\ \A t : TileId(t)' = TileId(t)
    BY DEF OnScreen, TileId
  <1>2. \A t \in OnScreen : t \in Tiles /\ TileId(t) \in Ids
    BY OnScreenHasId
  <1>3. \A id \in Ids : Gettable(id) => Gettable(id)'
    BY GettableStep DEF RestInv
  <1>4. m \in Messages /\ m.ids \subseteq Ids
    BY HeadOfInbox, MessageParts DEF ViewInv
  <1>5. ASSUME NEW t \in Tiles
        PROVE  tile'[t] = tile[t] \/ (t \in OnScreen /\ Told1(t))
    <2>1. CASE \E id \in m.ids : current[id] = t
      BY <1>4, <2>1, ListenerShows
    <2>2. CASE ~\E id \in m.ids : current[id] = t
      BY <2>2
    <2> QED
      BY <2>1, <2>2
  <1>6. AvailableLoads'
    BY <1>5 DEF AvailableLoads, RestInv, TilesRest
  <1>7. EmptyIsAwaited'
    <2> SUFFICES ASSUME NEW t \in OnScreen \ twins, Empty(t)', NEW id, id = TileId(t)
                 PROVE  Coming(id)' \/ id \in lost'
      BY <1>1 DEF EmptyIsAwaited
    <2>1. current[id] = t /\ t \in Tiles
      BY <1>2 DEF ViewInv, RegisterInv, OthersRegistered
    <2>2. Empty(t)
      BY <1>5, <2>1 DEF Empty
    <2>3. CASE id \in lost
      BY <2>3
    <2>4. CASE Coming(id)
      <3>1. Coming(id)' \/ (id \in m.ids /\ (m.kind = "checked" => id \in m.ok))
        BY <2>4, HeadTaken DEF ViewInv
      <3>2. CASE id \in m.ids /\ (m.kind = "checked" => id \in m.ok)
        <4>1. id \in ToSet(requests')
          BY <2>1, <3>2
        <4> QED
          BY <4>1 DEF Coming
      <3> QED
        BY <3>1, <3>2
    <2> QED
      BY <2>2, <2>3, <2>4 DEF RestInv, TilesRest, EmptyIsAwaited
  <1>8. LoadsWhatIsThere'
    <2> SUFFICES ASSUME NEW t \in OnScreen, tile'[t].picture = "loading", NEW id, id = TileId(t)
                 PROVE  Gettable(id)'
      BY <1>1 DEF LoadsWhatIsThere
    <2>1. Gettable(id)
      BY <1>2, <1>5 DEF RestInv, TilesRest, LoadsWhatIsThere
    <2> QED
      BY <1>2, <1>3, <2>1
  <1>9. BlankIsHidden'
    <2> SUFFICES ASSUME NEW t \in OnScreen, tile'[t].picture = "blank"
                 PROVE  TileId(t) \in hidden'
      BY <1>1 DEF BlankIsHidden
    <2>1. tile[t].picture = "blank"
      BY <1>2, <1>5
    <2> QED
      BY <2>1, HiddenGrows DEF RestInv, TilesRest, BlankIsHidden
  <1> QED
    BY <1>6, <1>7, <1>8, <1>9 DEF TilesRest

\* The tile told is told about its id.
LEMMA ChosenId ==
    ASSUME ViewInv, NEW t \in OnScreen, TileId(t) \in Head(inbox).ids, current[TileId(t)] = t,
           Head(inbox).ids \subseteq Ids
    PROVE  /\ \E id \in Head(inbox).ids : current[id] = t
           /\ (CHOOSE id \in Head(inbox).ids : current[id] = t) = TileId(t)
  <1>1. \A id \in Head(inbox).ids : current[id] = t => id = TileId(t)
    BY ListenerShows, OnScreenHasId
  <1> QED
    BY <1>1

LEMMA AvailabilityKeeps ==
    ASSUME ViewInv, RestInv, [ViewNext]_vars, TilesAvailabilityCB
    PROVE  TilesRest'
  <1> DEFINE m == Head(inbox)
             New(p, id) == IF id \in m.ok THEN Available(p) ELSE [p EXCEPT !.available = FALSE]
  <1>1. /\ inbox # <<>> /\ m.kind = "checked" /\ inbox' = Tail(inbox) /\ tile' = Told(m.ids, New)
        /\ UNCHANGED <<layer, zoom, model, twins, current, checks, looked, answer, asked, lost, requests>>
    BY DEF TilesAvailabilityCB, modelVars, pythonVars, downloadVars
  <1>2. m \in Messages /\ m.ids \subseteq Ids /\ m = inbox[1] /\ 1 \in DOMAIN inbox
    <2>1. m \in Messages /\ m = inbox[1] /\ 1 \in DOMAIN inbox
      BY <1>1, HeadOfInbox DEF ViewInv
    <2> HIDE DEF m
    <2> QED
      BY <2>1, MessageParts
  <1>3. \A t \in Tiles : (~\E id \in m.ids : current[id] = t) => tile'[t] = tile[t]
    BY <1>1 DEF Told
  <1>4. ASSUME NEW t \in OnScreen, TileId(t) \in m.ids, current[TileId(t)] = t
        PROVE  /\ tile'[t].available => tile'[t].picture # "none"
               /\ tile'[t].picture = "loading" => tile[t].picture = "loading" \/ Gettable(TileId(t))
               /\ tile'[t].picture = "blank" => tile[t].picture = "blank"
               /\ Empty(t)' => Empty(t) /\ TileId(t) \notin m.ok
    <2> DEFINE id == TileId(t)
               p == tile[t]
    <2>1. t \in Tiles /\ p \in TileStates /\ (p.available => p.picture # "none")
      BY OnScreenHasId DEF ViewInv, TileTypes, RestInv, TilesRest, AvailableLoads
    <2>2. tile'[t] = New(p, id)
      BY <1>1, <1>2, <1>4, <2>1, ChosenId DEF Told
    <2> HIDE DEF p, id
    <2>3. CASE id \in m.ok
      <3>1. tile'[t] = Available(p) /\ Gettable(id)
        BY <1>1, <1>2, <2>2, <2>3 DEF RestInv, PromisesKept, Honest
      <3> QED
        BY <2>1, <3>1 DEF Available, TileStates, Empty, p, id
    <2>4. CASE id \notin m.ok
      <3>1. tile'[t] = [p EXCEPT !.available = FALSE]
        BY <2>2, <2>4
      <3> QED
        BY <2>1, <2>4, <3>1 DEF TileStates, Empty, p, id
    <2> QED
      BY <2>3, <2>4
  <1> QED
    BY <1>1, <1>3, <1>4, ToldKeeps

LEMMA DownloadedKeeps ==
    ASSUME ViewInv, RestInv, [ViewNext]_vars, TileDownloadedCB
    PROVE  TilesRest'
  <1> DEFINE m == Head(inbox)
             kind == m.kind
             New(p, id) == Downloaded(p, kind)
             asks == kind = "retry" /\ \E t \in Listeners(m.ids) : Retries(tile[t])
  <1>1. /\ inbox # <<>> /\ kind # "checked" /\ inbox' = Tail(inbox) /\ tile' = Told(m.ids, New)
        /\ requests' = IF asks THEN requests \o SetToSeq(m.ids) ELSE requests
        /\ UNCHANGED <<layer, zoom, model, twins, current, checks, looked, answer, asked, lost>>
    BY DEF TileDownloadedCB, modelVars, pythonVars, downloadVars
  <1>2. /\ m \in Messages /\ m.ids \subseteq Ids /\ m = inbox[1] /\ 1 \in DOMAIN inbox
        /\ kind \in {"success", "fatal", "retry"}
    <2>1. m \in Messages /\ m = inbox[1] /\ 1 \in DOMAIN inbox
      BY <1>1, HeadOfInbox DEF ViewInv
    <2> HIDE DEF m
    <2> QED
      BY <1>1, <2>1, MessageParts
  <1>3. ToSet(requests) \subseteq ToSet(requests') /\ (asks => m.ids \subseteq ToSet(requests'))
    <2>1. PICK id \in Ids : m.ids = {id}
      BY <1>1, <1>2, MessageParts
    <2>2. SetToSeq(m.ids) \in Seq({id}) /\ ToSet(SetToSeq(m.ids)) = m.ids
      BY <2>1, FS_Singleton, SetToSeqType
    <2>3. SetToSeq(m.ids) \in Seq(Ids) /\ requests \in Seq(Ids)
      BY <2>2 DEF ViewInv, TileTypes
    <2>4. ToSet(requests) \cup m.ids = ToSet(requests \o SetToSeq(m.ids))
      BY <2>2, <2>3, ToSetOfConcat
    <2> HIDE DEF m, asks
    <2> QED
      BY <1>1, <2>4
  <1>4. \A t \in Tiles : (~\E id \in m.ids : current[id] = t) => tile'[t] = tile[t]
    BY <1>1 DEF Told
  <1>5. ASSUME NEW t \in OnScreen, TileId(t) \in m.ids, current[TileId(t)] = t
        PROVE  /\ tile'[t].available => tile'[t].picture # "none"
               /\ tile'[t].picture = "loading" => tile[t].picture = "loading" \/ Gettable(TileId(t))
               /\ tile'[t].picture = "blank" => tile[t].picture = "blank"
               /\ Empty(t)' => Empty(t) /\ TileId(t) \in ToSet(requests')
    <2> DEFINE id == TileId(t)
               p == tile[t]
    <2>1. t \in Tiles /\ p \in TileStates /\ (p.available => p.picture # "none")
      BY OnScreenHasId DEF ViewInv, TileTypes, RestInv, TilesRest, AvailableLoads
    <2>2. tile'[t] = Downloaded(p, kind)
      BY <1>1, <1>2, <1>5, <2>1, ChosenId DEF Told
    <2>3. kind = "retry" /\ Retries(p) => id \in ToSet(requests')
      <3>1. t \in Listeners(m.ids)
        BY <1>5, <2>1, NoneIsNothing DEF Listeners
      <3>2. kind = "retry" /\ Retries(p) => asks
        BY <3>1
      <3> QED
        BY <1>3, <1>5, <3>2
    <2>4. kind = "success" => Gettable(id)
      BY <1>2, <1>5 DEF RestInv, PromisesKept, Honest
    <2> HIDE DEF p, id, asks
    <2>5. CASE kind = "success"
      <3>1. tile'[t] = Available(p)
        BY <2>2, <2>5 DEF Downloaded
      <3> QED
        BY <2>1, <2>4, <2>5, <3>1 DEF Available, TileStates, Empty, p, id
    <2>6. CASE kind = "fatal"
      <3>1. tile'[t] = [p EXCEPT !.error = TRUE]
        BY <2>2, <2>6 DEF Downloaded
      <3> QED
        BY <2>1, <3>1 DEF TileStates, Empty, p, id
    <2>7. CASE kind = "retry"
      <3> DEFINE error == p.error \/ ~Retries(p)
      <3>1. tile'[t] = [p EXCEPT !.retries = @ + 1, !.error = error]
        BY <2>2, <2>7, Zenon DEF Downloaded
      <3> HIDE DEF error
      <3>2. /\ tile'[t].picture = p.picture /\ tile'[t].available = p.available
            /\ tile'[t].error = error
        BY <2>1, <3>1 DEF TileStates
      <3>3. ~error => ~p.error /\ id \in ToSet(requests')
        BY <2>3, <2>7 DEF error
      <3> QED
        BY <2>1, <3>2, <3>3 DEF Empty, p, id
    <2> QED
      BY <1>2, <2>5, <2>6, <2>7
  <1> QED
    BY <1>1, <1>3, <1>4, <1>5, ToldKeeps

LEMMA LoadKeeps ==
    ASSUME ViewInv, RestInv, [ViewNext]_vars, NEW u \in Tiles, LoadImage(u)
    PROVE  TilesRest'
  <1>1. /\ tile[u].picture = "loading"
        /\ tile' = [tile EXCEPT ![u].picture =
                       IF TileId(u) \in memory \/ Found(TileId(u)) THEN "image" ELSE "blank"]
        /\ UNCHANGED <<layer, zoom, model, twins, lost, hidden>>
        /\ UNCHANGED <<requests, checks, looked, answer, asked, inbox>>
    BY DEF LoadImage, modelVars, pythonVars, downloadVars
  <1>2. tile \in [Tiles -> TileStates]
    BY DEF ViewInv, TileTypes
  <1>3. OnScreen' = OnScreen /\ \A t : TileId(t)' = TileId(t)
    BY <1>1 DEF OnScreen, TileId
  <1>4. \A t \in OnScreen : t \in Tiles /\ TileId(t) \in Ids
    BY OnScreenHasId
  <1>5. /\ \A t \in Tiles \ {u} : tile'[t] = tile[t]
        /\ tile'[u].picture = IF TileId(u) \in memory \/ Found(TileId(u)) THEN "image" ELSE "blank"
    BY <1>1, <1>2 DEF TileStates
  <1>6. AvailableLoads'
    BY <1>5 DEF AvailableLoads, RestInv, TilesRest
  <1>7. EmptyIsAwaited'
    <2> SUFFICES ASSUME NEW t \in OnScreen \ twins, Empty(t)', NEW id, id = TileId(t)
                 PROVE  Coming(id)' \/ id \in lost'
      BY <1>1, <1>3 DEF EmptyIsAwaited
    <2>1. t # u /\ Empty(t)
      BY <1>4, <1>5 DEF Empty
    <2>2. Coming(id) \/ id \in lost
      BY <2>1 DEF RestInv, TilesRest, EmptyIsAwaited
    <2> QED
      BY <1>1, <2>2, ComingSame
  <1>8. LoadsWhatIsThere'
    <2> SUFFICES ASSUME NEW t \in OnScreen, tile'[t].picture = "loading", NEW id, id = TileId(t)
                 PROVE  Gettable(id)'
      BY <1>3 DEF LoadsWhatIsThere
    <2>1. tile[t].picture = "loading"
      BY <1>4, <1>5
    <2> QED
      BY <1>4, <2>1, GettableStep DEF RestInv, TilesRest, LoadsWhatIsThere
  <1>9. BlankIsHidden'
    <2> SUFFICES ASSUME NEW t \in OnScreen, tile'[t].picture = "blank"
                 PROVE  TileId(t) \in hidden
      BY <1>1, <1>3 DEF BlankIsHidden
    <2>1. CASE t = u
      <3>1. Gettable(TileId(u)) /\ ~(TileId(u) \in memory \/ Found(TileId(u)))
        BY <1>1, <1>5, <2>1 DEF RestInv, TilesRest, LoadsWhatIsThere
      <3> QED
        BY <2>1, <3>1 DEF Gettable
    <2>2. CASE t # u
      BY <1>4, <1>5, <2>2 DEF RestInv, TilesRest, BlankIsHidden
    <2> QED
      BY <2>1, <2>2
  <1> QED
    BY <1>6, <1>7, <1>8, <1>9 DEF TilesRest

LEMMA HonestStays ==
    ASSUME ViewInv, RestInv, [ViewNext]_vars, NEW m \in Messages, Honest(m)
    PROVE  Honest(m)'
  <1>1. m.ids \subseteq Ids /\ m.ok \subseteq Ids
    BY DEF Messages
  <1>2. \A id \in Ids : Gettable(id) => Gettable(id)'
    BY GettableStep DEF RestInv
  <1> QED
    BY <1>1, <1>2 DEF Honest

\* What was promised holds, and so does what is promised now.
LEMMA PromisesStay ==
    ASSUME ViewInv, RestInv, [ViewNext]_vars, UNCHANGED answer,
           \/ inbox' = inbox
           \/ inbox # <<>> /\ inbox' = Tail(inbox)
           \/ \E m \in Messages : inbox' = Append(inbox, m) /\ Honest(m)'
    PROVE  PromisesKept'
  <1>1. inbox \in Seq(Messages) /\ answer \subseteq Ids
    BY DEF ViewInv, InboxType, CheckTypes
  <1>2. \A id \in answer' : Gettable(id)'
    BY <1>1, GettableStep DEF RestInv, PromisesKept
  <1>3. \A i \in DOMAIN inbox : inbox[i] \in Messages
    BY <1>1
  <1>4. ASSUME NEW i \in DOMAIN inbox, NEW m, m = inbox[i]
        PROVE  Honest(m)'
    BY <1>3, <1>4, HonestStays DEF RestInv, PromisesKept
  <1>5. ASSUME NEW j \in DOMAIN inbox', NEW m, m = inbox'[j]
        PROVE  Honest(m)'
    <2>1. CASE inbox' = inbox
      BY <1>4, <1>5, <2>1
    <2>2. CASE inbox # <<>> /\ inbox' = Tail(inbox)
      <3>1. j + 1 \in DOMAIN inbox /\ inbox'[j] = inbox[j + 1]
        BY <1>1, <2>2
      <3> QED
        BY <1>4, <1>5, <3>1
    <2>3. ASSUME NEW n \in Messages, inbox' = Append(inbox, n), Honest(n)'
          PROVE  Honest(m)'
      <3>1. CASE j = Len(inbox) + 1
        <4>1. m = n
          BY <1>1, <1>5, <2>3, <3>1
        <4> QED
          BY <2>3, <4>1
      <3>2. CASE j # Len(inbox) + 1
        <4>1. j \in DOMAIN inbox /\ m = inbox[j]
          BY <1>1, <1>5, <2>3, <3>2
        <4> QED
          BY <1>4, <4>1
      <3> QED
        BY <3>1, <3>2
    <2> QED
      BY <2>1, <2>2, <2>3
  <1> QED
    BY <1>2, <1>5 DEF PromisesKept

LEMMA PromisesStep ==
    ASSUME ViewInv, RestInv, [ViewNext]_vars
    PROVE  PromisesKept'
  <1>1. CASE UNCHANGED <<answer, inbox>>
    BY <1>1, PromisesStay
  <1>2. CASE TilesAvailabilityCB \/ TileDownloadedCB
    BY <1>2, PromisesStay DEF TilesAvailabilityCB, TileDownloadedCB, pythonVars
  <1>3. CASE LookUp
    <2>1. /\ \A id \in answer' : Found(id)
          /\ UNCHANGED <<storeVars, inbox>> /\ answer' \subseteq Ids
      BY <1>3, ViewStep DEF LookUp, ViewInv, CheckTypes
    <2>2. \A id \in answer' : Gettable(id)'
      BY <2>1 DEF Gettable, Found, storeVars
    <2>3. ASSUME NEW i \in DOMAIN inbox, NEW m, m = inbox[i]
          PROVE  Honest(m)'
      <3>1. m \in Messages
        BY <2>3 DEF ViewInv, InboxType
      <3> QED
        BY <2>3, <3>1, HonestStays DEF RestInv, PromisesKept
    <2> QED
      BY <2>1, <2>2, <2>3 DEF PromisesKept
  <1>4. CASE Return
    <2> DEFINE m == [kind |-> "checked", ids |-> ToSet(Head(checks)), ok |-> answer]
    <2>1. inbox' = Append(inbox, m) /\ answer' = {}
      BY <1>4 DEF Return
    <2>2. inbox \in Seq(Messages) /\ inbox' \in Seq(Messages)
      BY <1>4, ViewStep DEF ViewInv, InboxType
    <2>3. \A id \in answer : Gettable(id) /\ id \in Ids
      BY DEF RestInv, PromisesKept, ViewInv, CheckTypes
    <2>4. \A id \in answer : Gettable(id)'
      BY <2>3, GettableStep DEF RestInv
    <2>5. ASSUME NEW j \in DOMAIN inbox', NEW n, n = inbox'[j]
          PROVE  Honest(n)'
      <3>1. CASE j = Len(inbox) + 1
        <4>1. n.kind = "checked" /\ n.ok = answer
          BY <2>1, <2>2, <2>5, <3>1
        <4> QED
          BY <2>4, <4>1 DEF Honest
      <3>2. CASE j # Len(inbox) + 1
        <4>1. j \in DOMAIN inbox /\ n = inbox[j] /\ n \in Messages
          BY <2>1, <2>2, <2>5, <3>2
        <4> QED
          BY <4>1, HonestStays DEF RestInv, PromisesKept
      <3> QED
        BY <3>1, <3>2
    <2> QED
      BY <2>1, <2>5 DEF PromisesKept
  <1>5. ASSUME NEW i \in Ids, NEW kind \in {"success", "fatal", "retry"}, Report(i, kind),
               UNCHANGED answer, kind = "success" => Gettable(i)'
        PROVE  PromisesKept'
    <2> DEFINE m == [kind |-> kind, ids |-> {i}, ok |-> {}]
    <2>1. m \in Messages /\ inbox' = Append(inbox, m)
      BY <1>5 DEF Messages, Report
    <2>2. m.kind = kind /\ m.ids = {i} /\ kind # "checked"
      OBVIOUS
    <2> HIDE DEF m
    <2>3. \A n : n.kind = kind /\ n.ids = {i} => Honest(n)'
      BY <1>5, <2>2 DEF Honest
    <2> QED
      BY <1>5, <2>1, <2>2, <2>3, PromisesStay
  <1>6. ASSUME NEW i \in Ids, Store(i)
        PROVE  PromisesKept'
    <2>1. StoreInv /\ StoreInv' /\ StoreTypeOK /\ primary \in Types /\ i[1] \in Layers
      BY ViewStep, LayerOfId DEF ViewInv, StoreInv, StoreTypeOK
    <2>2. stores' = Opened(i[1]) /\ Write(primary, i) /\ Report(i, "success") /\ UNCHANGED answer
      BY <1>6 DEF Store, pythonVars
    <2>3. primary' = primary /\ held'[primary][i] = "fresh"
      BY <2>1, <2>2, WriteTypes
    <2>4. Found(i)'
      BY <2>1, <2>2, <2>3, OpenedParts, NewestIsFound
    <2> QED
      BY <1>5, <2>2, <2>4 DEF Gettable
  <1>7. ASSUME NEW i \in Ids, StoreLate(i)
        PROVE  PromisesKept'
    <2>1. StoreInv /\ StoreInv' /\ StoreTypeOK /\ storing \in [Ids -> Types \cup {None}]
      BY ViewStep DEF ViewInv, StoreInv, AskedInv
    <2>2. /\ storing[i] \in Types /\ stores' = stores /\ Write(storing[i], i) /\ Report(i, "success")
          /\ UNCHANGED answer /\ Contains(stores[i[1]], storing[i])
          /\ hidden' = IF storing[i] = primary THEN hidden ELSE hidden \cup {i}
      BY <1>7, <2>1 DEF StoreLate, StoreInv, pythonVars
    <2>3. primary' = primary /\ held'[storing[i]][i] = "fresh"
      BY <2>1, <2>2, WriteTypes
    <2>4. Gettable(i)'
      BY <2>1, <2>2, <2>3, NewestIsFound DEF Gettable
    <2> QED
      BY <1>5, <2>2, <2>4
  <1>8. ASSUME NEW i \in Ids, FindLocally(i)
        PROVE  PromisesKept'
    <2>1. Report(i, "success") /\ UNCHANGED answer /\ i \in memory'
      BY <1>8 DEF FindLocally, pythonVars
    <2> QED
      BY <1>5, <2>1 DEF Gettable
  <1>9. ASSUME NEW i \in Ids, DownloadFails(i)
        PROVE  PromisesKept'
    BY <1>5, <1>9 DEF DownloadFails, pythonVars
  <1>10. CASE UserNext
    BY <1>1, <1>10 DEF UserNext, Move, Rescale, ChangeZoom, SetLayer, RemoveLayer, pythonVars
  <1>11. CASE GuiNext
    BY <1>1, <1>2, <1>11 DEF GuiNext, UpdateModel, UpdateDone, TimerFires, LoadImage, pythonVars
  <1>12. CASE SwitchStorage \/ Age \/ AtRest \/ UNCHANGED vars \/ \E i \in Ids : Lose(i)
    BY <1>1, <1>12 DEF SwitchStorage, Age, AtRest, Lose, vars, pythonVars
  <1> QED
    BY <1>3, <1>4, <1>6, <1>7, <1>8, <1>9, <1>10, <1>11, <1>12 DEF ViewNext, CheckNext, DownloadNext

\* Requests that are staged are let go some day: the timer runs, or an update
\* does, at whose end it is started.
LEMMA TimerStep ==
    ASSUME ViewInv, RestInv, [ViewNext]_vars
    PROVE  TimerInv'
  <1>1. timer \in BOOLEAN /\ paused = running /\ (requests # <<>> => timer \/ running)
    BY DEF RestInv, TimerInv
  <1>2. /\ ScreenTypes /\ TileTypes
        /\ update.kind # "none" => running
    <2>1. ScreenTypes /\ TileTypes /\ UpdateInv
      BY DEF ViewInv, ModelInv
    <2>2. update = NoUpdate => update.kind = "none"
      BY DEF NoUpdate
    <2> QED
      BY <2>1, <2>2 DEF UpdateInv
  <1>3. CASE UNCHANGED <<timer, paused, running, requests>>
    BY <1>1, <1>3 DEF TimerInv
  <1>4. ASSUME NEW w, UpdateTilesModel(w)
        PROVE  running' /\ timer' \in BOOLEAN /\ paused' = running'
    BY <1>1, <1>2, <1>4 DEF UpdateTilesModel
  <1>5. CASE Move
    BY <1>4, <1>5 DEF Move, TimerInv
  <1>6. CASE ChangeZoom
    BY <1>4, <1>6 DEF ChangeZoom, TimerInv
  <1>7. CASE SetLayer
    <2>1. PICK r \in Rows, l \in Layers : Retile([layer EXCEPT ![r] = l], zoom, model)
      BY <1>7 DEF SetLayer
    <2> DEFINE lay == [layer EXCEPT ![r] = l]
               asks == model # [s \in Slots |-> None]
    <2>2. lay \in [Rows -> Layers \cup {None}] /\ zoom \in Zooms /\ model \in [Slots -> Places \cup {None}]
      BY <1>2 DEF ScreenTypes
    <2>3. Changed(lay, zoom, model) = {} => requests' = requests
      BY <1>2, <2>1, <2>2, RetileAsks
    <2>4. ~asks => Changed(lay, zoom, model) = {}
      BY DEF Changed, Shown, Tiles
    <2>5. timer' = (timer \/ (asks /\ ~paused)) /\ paused' = paused /\ running' = running
      BY <1>7 DEF SetLayer, Restart
    <2> HIDE DEF asks, lay
    <2> QED
      BY <1>1, <1>2, <2>3, <2>4, <2>5 DEF TimerInv
  <1>8. CASE RemoveLayer
    <2>1. PICK r \in Rows : Retile([layer EXCEPT ![r] = None], zoom, model)
      BY <1>8 DEF RemoveLayer
    <2> DEFINE lay == [layer EXCEPT ![r] = None]
    <2>2. /\ layer \in [Rows -> Layers \cup {None}] /\ zoom \in Zooms
          /\ model \in [Slots -> Places \cup {None}]
      BY <1>2 DEF ScreenTypes
    <2>3. Changed(lay, zoom, model) = {}
      <3>1. \A q \in Rows : lay[q] # None => lay[q] = layer[q]
        BY <2>2
      <3>2. \A t \in Shown(lay, model) : t \in OnScreen /\ IdOf(t, lay, zoom, model) = TileId(t)
        BY <3>1 DEF Shown, OnScreen, Tiles, IdOf, TileId
      <3> QED
        BY <3>2 DEF Changed
    <2>4. requests' = requests
      BY <1>2, <2>1, <2>2, <2>3, RetileAsks
    <2> QED
      BY <1>3, <1>8, <2>4 DEF RemoveLayer, timerVars
  <1>9. CASE UpdateModel
    BY <1>1, <1>2, <1>9 DEF UpdateModel, timerVars, TimerInv
  <1>10. CASE UpdateDone
    BY <1>1, <1>2, <1>10 DEF UpdateDone, tileVars, TimerInv
  <1>11. CASE TimerFires
    BY <1>1, <1>11 DEF TimerFires, modelVars, TimerInv
  <1>12. CASE TileDownloadedCB
    <2>1. PICK asks \in BOOLEAN : Restart(asks) /\ (~asks => requests' = requests) /\ running' = running
      <3>1. running' = running
        BY <1>12 DEF TileDownloadedCB, modelVars
      <3> DEFINE asks == /\ Head(inbox).kind = "retry"
                         /\ \E t \in Listeners(Head(inbox).ids) : Retries(tile[t])
      <3>2. Restart(asks) /\ (~asks => requests' = requests)
        BY <1>12 DEF TileDownloadedCB
      <3>3. asks \in BOOLEAN
        OBVIOUS
      <3> HIDE DEF asks
      <3> QED
        BY <3>1, <3>2, <3>3
    <2>2. timer' = (timer \/ (asks /\ ~paused)) /\ paused' = paused
      BY <2>1 DEF Restart
    <2> QED
      BY <1>1, <1>2, <2>1, <2>2 DEF TimerInv
  <1>13. CASE TilesAvailabilityCB \/ \E t \in Tiles : LoadImage(t)
    BY <1>3, <1>13 DEF TilesAvailabilityCB, LoadImage, modelVars, timerVars
  <1>14. CASE CheckNext
    BY <1>3, <1>14 DEF CheckNext, LookUp, Return, modelVars, tileVars, timerVars
  <1>15. ASSUME NEW id \in Ids, DownloadNext(id)
         PROVE  TimerInv'
    BY <1>3, <1>15 DEF DownloadNext, FindLocally, Store, StoreLate, DownloadFails, Lose,
                       modelVars, tileVars, timerVars
  <1>16. CASE SwitchStorage \/ Age \/ AtRest \/ UNCHANGED vars
    BY <1>3, <1>16 DEF SwitchStorage, Age, AtRest, vars, modelVars, tileVars, timerVars
  <1>17. CASE Rescale
    BY <1>3, <1>17 DEF Rescale, tileVars, timerVars
  <1> QED
    BY <1>5, <1>6, <1>7, <1>8, <1>9, <1>10, <1>11, <1>12, <1>13, <1>14, <1>15, <1>16,
       <1>17
       DEF ViewNext, UserNext, GuiNext

LEMMA RestStarts ==
    ASSUME ViewInit
    PROVE  RestInv
  <1>1. /\ model = [s \in Slots |-> None] /\ running = TRUE /\ paused = TRUE /\ timer = FALSE
        /\ requests = <<>> /\ tile = [t \in Tiles |-> Clear] /\ answer = {} /\ inbox = <<>>
    BY DEF ViewInit
  <1>2. OnScreen = {}
    BY <1>1 DEF OnScreen, Shown, Tiles
  <1>3. TilesRest
    BY <1>1, <1>2 DEF TilesRest, AvailableLoads, EmptyIsAwaited, LoadsWhatIsThere, BlankIsHidden, Clear
  <1>4. PromisesKept
    BY <1>1 DEF PromisesKept
  <1>5. TimerInv
    BY <1>1 DEF TimerInv
  <1> QED
    BY <1>3, <1>4, <1>5, OpenStarts DEF RestInv

LEMMA RestStep ==
    ASSUME ViewInv, RestInv, [ViewNext]_vars
    PROVE  RestInv'
  <1>1. /\ layer \in [Rows -> Layers \cup {None}] /\ zoom \in Zooms
        /\ model \in [Slots -> Places \cup {None}]
    BY DEF ViewInv, ScreenTypes
  <1>2. CASE ChangeZoom
    <2>1. PICK z \in Zooms : Retile(layer, z, model)
      BY <1>2 DEF ChangeZoom
    <2> QED
      BY <1>1, <1>2, <2>1, RetileKeeps, PromisesStep, TimerStep, HeldStep DEF ChangeZoom, RestInv
  <1>3. CASE SetLayer
    <2>1. PICK r \in Rows, l \in Layers : Retile([layer EXCEPT ![r] = l], zoom, model)
      BY <1>3 DEF SetLayer
    <2>2. [layer EXCEPT ![r] = l] \in [Rows -> Layers \cup {None}]
      BY <1>1
    <2> QED
      BY <1>1, <1>3, <2>1, <2>2, RetileKeeps, PromisesStep, TimerStep, HeldStep DEF SetLayer, RestInv
  <1>4. CASE RemoveLayer
    <2>1. PICK r \in Rows : Retile([layer EXCEPT ![r] = None], zoom, model)
      BY <1>4 DEF RemoveLayer
    <2>2. [layer EXCEPT ![r] = None] \in [Rows -> Layers \cup {None}]
      BY <1>1
    <2> QED
      BY <1>1, <1>4, <2>1, <2>2, RetileKeeps, PromisesStep, TimerStep, HeldStep DEF RemoveLayer, RestInv
  <1>5. CASE UpdateModel
    <2> DEFINE m == CHOOSE m \in [Slots -> Places \cup {None}] : Recycled(m)
    <2>1. update.kind = "to-do" /\ Retile(layer, zoom, m) /\ UNCHANGED <<pythonVars, inbox, downloadVars>>
      BY <1>5 DEF UpdateModel
    <2>2. m \in [Slots -> Places \cup {None}]
      BY <1>1, <2>1, RecycledThere DEF ViewInv, ModelInv, UpdateInv, NoUpdate
    <2> HIDE DEF m
    <2> QED
      BY <1>1, <2>1, <2>2, RetileKeeps, PromisesStep, TimerStep, HeldStep DEF RestInv
  <1>6. CASE TilesAvailabilityCB \/ TileDownloadedCB \/ \E t \in Tiles : LoadImage(t)
    BY <1>6, AvailabilityKeeps, DownloadedKeeps, LoadKeeps, PromisesStep, TimerStep, HeldStep DEF RestInv
  <1>7. CASE TimerFires \/ CheckNext \/ (\E id \in Ids : DownloadNext(id)) \/ SwitchStorage \/ Age
                \/ Move \/ Rescale \/ UpdateDone \/ UNCHANGED vars
    BY <1>7, BehindKeeps, PromisesStep, TimerStep, HeldStep DEF RestInv
  <1> QED
    BY <1>2, <1>3, <1>4, <1>5, <1>6, <1>7 DEF ViewNext, UserNext, GuiNext, AtRest

\* When nothing is under way, every tile on the screen shows its picture or its
\* error, but for the ones TilesSettle excepts: no request is forgotten on its way
\* through the staging of the map, the batches of areTilesAvailable(), the download and
\* the callbacks, however these interleave (PinchMap.qml, Tile.qml, gui_qt5.py).
THEOREM RestSettles == ViewSpec => []RestIsSettled
  <1>1. ViewInit => ViewInv /\ RestInv
    BY ViewStarts, RestStarts
  <1>2. (ViewInv /\ RestInv) /\ [ViewNext]_vars => (ViewInv /\ RestInv)'
    BY ViewStep, RestStep
  <1>3. ASSUME ViewInv, RestInv, Quiet
        PROVE  \A t \in OnScreen : Settled(t)
    <2>1. requests = <<>> /\ checks = <<>> /\ inbox = <<>>
      BY <1>3 DEF Quiet, ViewInv, ModelInv, UpdateInv, NoUpdate, RestInv, TimerInv
    <2>2. \A id \in Ids : ~Coming(id)
      BY <1>3, <2>1 DEF Quiet, Coming, ToSet
    <2> SUFFICES ASSUME NEW t \in OnScreen, ~Settled(t)
                 PROVE  FALSE
      OBVIOUS
    <2>3. t \in Tiles /\ TileId(t) \in Ids
      BY <1>3, OnScreenHasId
    <2>4. tile[t].picture \in {"none", "loading", "image", "blank"}
      BY <1>3, <2>3 DEF ViewInv, TileTypes, TileStates
    <2>5. tile[t].picture # "image" /\ tile[t].picture # "loading"
      BY <1>3, <2>3 DEF Settled, Quiet
    <2>6. tile[t].picture # "blank"
      BY <1>3 DEF Settled, RestInv, TilesRest, BlankIsHidden
    <2>7. Empty(t) /\ t \notin twins /\ TileId(t) \notin lost
      BY <2>4, <2>5, <2>6 DEF Empty, Settled
    <2> QED
      BY <1>3, <2>2, <2>3, <2>7 DEF RestInv, TilesRest, EmptyIsAwaited
  <1>4. ViewInv /\ RestInv => RestIsSettled
    BY <1>3 DEF RestIsSettled
  <1> QED
    BY <1>1, <1>2, <1>4, PTL DEF ViewSpec

=============================================================================
