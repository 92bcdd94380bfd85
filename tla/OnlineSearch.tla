---------------------------- MODULE OnlineSearch ----------------------------
(***************************************************************************)
(* An online search from the search page of the Qt 5 GUI to its results:   *)
(* the page sends its calls to Python, which serves them one by one in one *)
(* thread; Search.search() lets a provider start a thread and then notes   *)
(* its id; the thread's callback sends the results; and results and        *)
(* replies reach the page in the order they are sent.  The threads are     *)
(* those of ThreadManager.                                                 *)
(*                                                                         *)
(* A provider returns the name its threads are created with, which is the  *)
(* id the page gets: Id(k).  Search kinds stand for the thread names of    *)
(* their providers.  Left out: the progress messages of the threads.       *)
(***************************************************************************)
EXTENDS ThreadManager, Sequences, FiniteSets

CONSTANT MaxCalls       \* calls and events under way when the user acts, at most

ASSUME OnlineSearchAssumption == MaxCalls \in Nat

VARIABLES calls,        \* the calls of the pages that are not served yet
          serving,      \* how far the Python thread is with the first of them
          tracked,      \* the keys of _threadsInProgress
          deleting,     \* callbacks that found their name tracked
          events,       \* results and replies on their way to the pages
          busy,         \* _searchInProgress of the page of every kind
          sent,         \* threads whose results were sent (history)
          overtaken     \* kinds whose results overtook the reply (history)

pageVars == <<calls, serving, tracked, deleting, events, busy, sent, overtaken>>
searchVars == <<managerVars, pageVars>>

Id(k) == <<k, 0>>

Kind(t) == name[t][1]

Call(op, k) == [op |-> op, kind |-> k]

Event(type, k) == [type |-> type, kind |-> k]

SearchInit ==
    /\ Init
    /\ calls = <<>>
    /\ serving = "idle"
    /\ tracked = {}
    /\ deleting = {}
    /\ events = <<>>
    /\ busy = [k \in Bases |-> FALSE]
    /\ sent = {}
    /\ overtaken = {}

-----------------------------------------------------------------------------
(* The pages.                                                              *)

IsSearch(k) == serving = "idle" /\ calls # <<>> /\ Head(calls) = Call("search", k)

IsCancel(k) == serving = "idle" /\ calls # <<>> /\ Head(calls) = Call("cancel", k)

\* Searches the Python thread has yet to start; each needs a thread object.
Waiting(k) ==
    Cardinality({i \in 1..Len(calls) : /\ calls[i] = Call("search", k)
                                       /\ i = 1 => serving = "idle"})

\* The return key: search.
AskSearch(k) ==
    /\ Len(calls) + Len(events) < MaxCalls
    /\ Waiting(k) < Cardinality({t \in Threads : state[t] = "new" /\ Kind(t) = k})
    /\ calls' = Append(calls, Call("search", k))
    /\ UNCHANGED <<managerVars, serving, tracked, deleting, events, busy, sent, overtaken>>

\* The cancel button, which is shown while the page is busy.
ClickCancel(k) ==
    /\ Len(calls) + Len(events) < MaxCalls
    /\ busy[k]
    /\ calls' = Append(calls, Call("cancel", k))
    /\ UNCHANGED <<managerVars, serving, tracked, deleting, events, busy, sent, overtaken>>

\* The page handles a result, or the reply to one of its calls.
Handle ==
    /\ events # <<>>
    /\ busy' = [busy EXCEPT ![Head(events).kind] = Head(events).type = "searching"]
    /\ events' = Tail(events)
    /\ UNCHANGED <<managerVars, calls, serving, tracked, deleting, sent, overtaken>>

-----------------------------------------------------------------------------
(* The Python thread: Search.search() and Search.cancelSearch().           *)

Reply(type, k) ==
    /\ events' = Append(events, Event(type, k))
    /\ calls' = Tail(calls)
    /\ serving' = "idle"

\* searchAsync() creates a thread, and add() settles its name ...
BeginSearch(c, k) ==
    /\ IsSearch(k)
    /\ \E t \in Threads : Kind(t) = k /\ ChooseName(c, t)
    /\ serving' = "entering"
    /\ UNCHANGED <<calls, tracked, deleting, events, busy, sent, overtaken>>

\* ... and enters and starts it.
StartSearch(c) ==
    /\ serving = "entering"
    /\ Enter(c)
    /\ serving' = "tracking"
    /\ UNCHANGED <<calls, tracked, deleting, events, busy, sent, overtaken>>

\* The id that the provider returned is noted, and the page gets it.
TrackSearch ==
    LET k == Head(calls).kind IN
    /\ serving = "tracking"
    /\ tracked' = tracked \cup {Id(k)}
    /\ Reply("searching", k)
    /\ UNCHANGED <<managerVars, deleting, busy, sent, overtaken>>

\* cancelSearch(): cancel_thread(), then the test whether the id is tracked.
CancelSearch(k) ==
    /\ IsCancel(k)
    /\ IF objs[Id(k)] # NoThread THEN CancelThread(Id(k)) ELSE UNCHANGED managerVars
    /\ IF Id(k) \in tracked
       THEN serving' = "untracking" /\ UNCHANGED <<calls, events>>
       ELSE Reply("cancelled", k)
    /\ UNCHANGED <<tracked, deleting, busy, sent, overtaken>>

\* Mutant: the page is not told that the search was cancelled.
UntrackSilently ==
    LET k == Head(calls).kind IN
    /\ serving = "untracking"
    /\ tracked' = tracked \ {Id(k)}
    /\ calls' = Tail(calls)
    /\ serving' = "idle"
    /\ UNCHANGED <<managerVars, deleting, events, busy, sent, overtaken>>

\* The deletion.  If a callback was faster it raises KeyError, and the call
\* returns without a value.
Untrack ==
    LET k == Head(calls).kind IN
    /\ serving = "untracking"
    /\ tracked' = tracked \ {Id(k)}
    /\ Reply("cancelled", k)
    /\ UNCHANGED <<managerVars, deleting, busy, sent, overtaken>>

PythonStep ==
    \/ \E c \in Callers : StartSearch(c) \/ \E k \in Bases : BeginSearch(c, k)
    \/ TrackSearch
    \/ \E k \in Bases : CancelSearch(k)
    \/ Untrack

-----------------------------------------------------------------------------
(* The search threads.                                                     *)

\* The provider found something, nothing, or raised.
Search(t) ==
    /\ state[t] = "running"
    /\ TargetReturns(t) \/ Fail(t)
    /\ UNCHANGED pageVars

\* _searchCB(): the results are sent, and the thread's name is looked for.
SendResults(t) ==
    /\ state[t] = "calling"
    /\ t \notin deleting
    /\ events' = Append(events, Event("result", Kind(t)))
    /\ sent' = sent \cup {t}
    /\ overtaken' = IF serving = "tracking" /\ Head(calls).kind = Kind(t)
                    THEN overtaken \cup {Kind(t)} ELSE overtaken
    /\ IF name[t] \in tracked
       THEN deleting' = deleting \cup {t} /\ UNCHANGED managerVars
       ELSE CallbackReturns(t) /\ UNCHANGED deleting
    /\ UNCHANGED <<calls, serving, tracked, busy>>

\* The deletion; if cancelSearch() was faster it raises KeyError.
StopTracking(t) ==
    /\ t \in deleting
    /\ IF name[t] \in tracked THEN CallbackReturns(t) ELSE Fail(t)
    /\ tracked' = tracked \ {name[t]}
    /\ deleting' = deleting \ {t}
    /\ UNCHANGED <<calls, serving, events, busy, sent, overtaken>>

\* A search that failed hands None to _searchCB(), which raises.
NoResults(t) ==
    /\ state[t] = "calling"
    /\ t \notin deleting \cup sent
    /\ Fail(t)
    /\ UNCHANGED pageVars

Leave(t) == RemoveThread(t) /\ UNCHANGED pageVars

SearchStep(t) ==
    \/ Search(t)
    \/ SendResults(t)
    \/ StopTracking(t)
    \/ NoResults(t)
    \/ Leave(t)

\* Some other thread waits for one in the table, as a pool that shuts down
\* waits for its workers.
WaitStep(w) == Joined(w) /\ UNCHANGED pageVars

SearchNext ==
    \/ \E k \in Bases : AskSearch(k) \/ ClickCancel(k)
    \/ Handle
    \/ PythonStep
    \/ \E t \in Threads : SearchStep(t)
    \/ \E w \in Waiters : WaitStep(w) \/ \E n \in Name : Wait(w, n) /\ UNCHANGED pageVars

\* The Python thread, the search threads and the GUI's event loop go on.
SearchSpec ==
    /\ SearchInit
    /\ [][SearchNext]_searchVars
    /\ WF_searchVars(Handle)
    /\ WF_searchVars(PythonStep)
    /\ \A t \in Threads : WF_searchVars(SearchStep(t))
    /\ \A w \in Waiters : WF_searchVars(WaitStep(w))

-----------------------------------------------------------------------------
(* Properties.                                                             *)

SearchTypeOK ==
    /\ TypeOK
    /\ calls \in Seq([op : {"search", "cancel"}, kind : Bases])
    /\ serving \in {"idle", "entering", "tracking", "untracking"}
    /\ tracked \subseteq Name
    /\ deleting \subseteq Threads
    /\ events \in Seq([type : {"searching", "cancelled", "result"}, kind : Bases])
    /\ busy \in [Bases -> BOOLEAN]
    /\ sent \subseteq Threads
    /\ overtaken \subseteq Bases

\* A search went wrong in a way the page does not hear of: it raised or found
\* None, or its results came before the reply that starts the indicator.
Unheard(k) ==
    k \in overtaken \/ \E t \in Threads : failed[t] /\ Kind(t) = k

\* A page that shows a search in progress when no call and no event is under
\* way has a search thread at work, unless a search went unheard: cancels of
\* shared names, double cancels and late results leave no page busy for ever.
\* The types come with it.
BusyMeansWork ==
    /\ SearchTypeOK
    /\ calls = <<>> /\ events = <<>> =>
          \A k \in Bases : busy[k] =>
              \/ Unheard(k)
              \/ \E t \in Threads : Kind(t) = k /\ state[t] \in {"running", "calling"}

\* The indicator goes out in the end, unless a search went unheard.
PageSettles ==
    \A k \in Bases : busy[k] ~> (~busy[k] \/ Unheard(k))

\* Nothing waits for ever: the page for its search, wait() for its thread.
SearchesSettle == PageSettles /\ WaitReturns

=============================================================================
