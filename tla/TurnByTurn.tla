----------------------------- MODULE TurnByTurn -----------------------------
(***************************************************************************)
(* Turn by turn navigation as the Qt 5 GUI uses it:                        *)
(* modules/mod_turnByTurn/mod_turnByTurn.py, with the buttons and events   *)
(* of BaseMapPage.qml and the asynchronous route look-up around it.        *)
(*                                                                         *)
(* PyOtherSide runs all calls of the GUI, positions included, one after    *)
(* the other in one thread.  What that thread has still to do is the       *)
(* sequence todo, its next step first: the handlers call each other and    *)
(* themselves (setting the current step updates the navigation, an update  *)
(* can switch steps or start navigation anew), and between two of these    *)
(* steps the worker threads, which look for a divergence from the route,   *)
(* can run.                                                                *)
(*                                                                         *)
(* A position is known and rerouting is enabled in the options, which is   *)
(* the default.  Voice messages are left out, and counting a divergence is *)
(* one step.  Four counts saturate at a bound: more watches than           *)
(* MaxWatches, look-ups than MaxLookups and threads than Workers, and      *)
(* divergences beyond TriggerCount, are not told apart.  The GUI's queues  *)
(* are bounded by MaxCalls and MaxEvents.                                  *)
(***************************************************************************)
EXTENDS Integers, Sequences, FiniteSets

CONSTANTS Workers,       \* identities for the threads that run _tbt_worker()
          LastStep,      \* the index of the last message point of a route
          TriggerCount,  \* REROUTING_TRIGGER_COUNT
          MaxReroutes,   \* MAX_CONSECUTIVE_AUTOMATIC_REROUTES
          MaxWatches, MaxLookups, MaxCalls, MaxEvents

ASSUME NavigationAssumption ==
    /\ {LastStep, TriggerCount, MaxReroutes} \subseteq Nat
    /\ {MaxWatches, MaxLookups, MaxCalls, MaxEvents} \subseteq Nat \ {0}
    /\ TriggerCount > 0

VARIABLES
    route,      \* _route: none, the route of mod_route, or one it has replaced
    step,       \* _current_step_index
    watches,    \* the watches on locationUpdated
    watchId,    \* whether _location_watch_id holds the newest of them
    onRoute,    \* _on_route
    reached,    \* _route_reached
    crossed,    \* _rerouting_threshold_crossed_counter
    override,   \* _override_route_reached
    reroutes,   \* _automatic_reroute_counter
    enabled,    \* _tbt_worker_enabled
    todo,       \* what the thread of the GUI's calls has still to do
    walk,       \* how many watches _notify_watcher() has called
    pc,         \* how far a worker has come
    saw,        \* what its _following_route() has returned
    tries,      \* the passes of its loop of quick updates
    asleep,     \* the workers that have gone to sleep during the present call
    following,  \* whether the position is near the route
    near,       \* the steps still ahead that the position is near enough to
    moving,     \* whether the speed is known and not zero
    available,  \* mod_route has a route
    lookups,    \* route look-ups under way
    events,     \* routeReceived events the GUI has not handled
    navigating, \* navigationEnabled of the GUI
    shown,      \* routeAvailable of the GUI
    calls       \* calls of the GUI that Python has not run

tripVars == <<route, step>>
watchVars == <<watches, watchId, walk>>
divergence == <<onRoute, reached, crossed>>
limitVars == <<override, reroutes>>
workerVars == <<pc, saw, tries, asleep>>
placeVars == <<following, near, moving>>
routeVars == <<available, lookups>>
guiVars == <<events, navigating, shown, calls>>
vars == <<tripVars, watchVars, divergence, limitVars, enabled, todo, workerVars,
          placeVars, routeVars, guiVars>>

Steps == 0..LastStep
Ahead(s) == s..LastStep
Least(a, b) == IF a < b THEN a ELSE b

\* What the thread of the calls may have to do.
Operations == {"reset", "run", "update", "watch", "unwatch", "halt", "pause",
               "look-up", "notify", "switch", "reach", "judge"}

\* start_tbt(), step by step.
Start == <<"reset", "run", "update", "watch">>

\* _reroute(): it sleeps, asks for a route and then starts navigation.
Restart == <<"pause", "look-up", "reset", "run", "update", "watch">>

Init ==
    /\ route = "none" /\ step = 0
    /\ watches = 0 /\ watchId = FALSE /\ walk = 0
    /\ onRoute = FALSE /\ reached = FALSE /\ crossed = 0
    /\ override = FALSE /\ reroutes = 0
    /\ enabled = FALSE
    /\ todo = <<>>
    /\ pc = [w \in Workers |-> "ended"]
    /\ saw = [w \in Workers |-> FALSE]
    /\ tries = [w \in Workers |-> 0]
    /\ asleep = {}
    /\ following = FALSE /\ near = {} /\ moving = FALSE
    /\ available = FALSE /\ lookups = 0
    /\ events = 0 /\ navigating = FALSE /\ shown = FALSE /\ calls = <<>>

-----------------------------------------------------------------------------
(* The GUI and the route look-up.                                          *)

CanCall == Len(calls) < MaxCalls

AskForRoute ==
    /\ CanCall
    /\ calls' = Append(calls, "route")
    /\ UNCHANGED <<tripVars, watchVars, divergence, limitVars, enabled, todo, workerVars,
                   placeVars, routeVars, events, navigating, shown>>

\* The button "navigate", there as soon as a route is shown.
Click ==
    /\ CanCall
    /\ shown
    /\ calls' = Append(calls, IF navigating THEN "stop" ELSE "start")
    /\ navigating' = ~navigating
    /\ UNCHANGED <<tripVars, watchVars, divergence, limitVars, enabled, todo, workerVars,
                   placeVars, routeVars, events, shown>>

\* A look-up ends.  A route that has been found replaces the one of mod_route,
\* and the GUI is told.
Answer ==
    /\ lookups > 0
    /\ lookups' = lookups - 1
    /\ \/ UNCHANGED <<available, route, events>>
       \/ /\ events < MaxEvents
          /\ available' = TRUE
          /\ route' = IF route = "current" THEN "replaced" ELSE route
          /\ events' = events + 1
    /\ UNCHANGED <<step, watchVars, divergence, limitVars, enabled, todo, workerVars,
                   placeVars, navigating, shown, calls>>

\* Mutant: a new route is shown only.
RouteShown ==
    /\ events > 0 /\ CanCall
    /\ events' = events - 1
    /\ shown' = TRUE
    /\ UNCHANGED <<tripVars, watchVars, divergence, limitVars, enabled, todo, workerVars,
                   placeVars, routeVars, navigating, calls>>

\* The handler of routeReceived.
RouteReceived ==
    /\ events > 0 /\ CanCall
    /\ events' = events - 1
    /\ shown' = TRUE
    /\ calls' = IF navigating THEN Append(calls, "start") ELSE calls
    /\ UNCHANGED <<tripVars, watchVars, divergence, limitVars, enabled, todo, workerVars,
                   placeVars, routeVars, navigating>>

-----------------------------------------------------------------------------
(* The thread that runs the calls.                                         *)

Idle == todo = <<>>
Doing(name) == ~Idle /\ Head(todo) = name
Then(names) == todo' = names \o Tail(todo)
Done == Then(<<>>)

\* The next call of the queue is started.
Serve ==
    /\ Idle
    /\ calls # <<>>
    /\ calls' = Tail(calls)
    /\ todo' = CASE Head(calls) = "route" -> <<"look-up">>
                 [] Head(calls) = "start" -> Start
                 [] Head(calls) = "stop"  -> <<"unwatch", "reset", "halt">>
    /\ asleep' = {}
    /\ UNCHANGED <<tripVars, watchVars, divergence, limitVars, enabled, pc, saw, tries,
                   placeVars, routeVars, events, navigating, shown>>

\* setPosition(): a new position, then all the watches are notified.
Location ==
    /\ Idle
    /\ moving' \in BOOLEAN
    /\ following' \in BOOLEAN
    /\ near' \in (IF moving' THEN SUBSET Ahead(step) ELSE {{}})
    /\ todo' = <<"notify">>
    /\ asleep' = {}
    /\ UNCHANGED <<tripVars, watchVars, divergence, limitVars, enabled, pc, saw, tries,
                   routeVars, guiVars>>

\* _notify_watcher() walks the list of watches, those added meanwhile included.
Notify ==
    /\ Doing("notify")
    /\ IF walk < watches
       THEN walk' = walk + 1 /\ Then(<<"update", "notify">>)
       ELSE walk' = 0 /\ Done
    /\ UNCHANGED <<tripVars, watches, watchId, divergence, limitVars, enabled, workerVars,
                   placeVars, routeVars, guiVars>>

\* _reroute() has slept for two seconds.
Pause ==
    /\ Doing("pause")
    /\ Done
    /\ asleep' = {}
    /\ UNCHANGED <<tripVars, watchVars, divergence, limitVars, enabled, pc, saw, tries,
                   placeVars, routeVars, guiVars>>

\* mod_route is asked for a route, by the GUI or by _reroute().
LookUp ==
    /\ Doing("look-up")
    /\ lookups' = Least(lookups + 1, MaxLookups)
    /\ Done
    /\ UNCHANGED <<tripVars, watchVars, divergence, limitVars, enabled, workerVars,
                   placeVars, available, guiVars>>

\* _go_to_initial_state(): the id of the watch is forgotten, the watch stays.
Reset ==
    /\ Doing("reset")
    /\ route' = "none" /\ step' = 0 /\ near' = {}
    /\ watchId' = FALSE
    /\ onRoute' = FALSE /\ reached' = FALSE /\ crossed' = 0
    /\ Done
    /\ UNCHANGED <<watches, walk, limitVars, enabled, workerVars, following, moving,
                   routeVars, guiVars>>

\* _start_tbt_worker(): a worker is started unless one is enabled.
StartWorker ==
    /\ enabled' = TRUE
    /\ LET free == {w \in Workers : pc[w] = "ended"} IN
       IF enabled \/ free = {}
       THEN UNCHANGED workerVars
       ELSE \E w \in free : /\ pc' = [pc EXCEPT ![w] = "top"]
                            /\ UNCHANGED <<saw, tries, asleep>>

\* The rest of start_tbt() on the route of mod_route: the step to begin with
\* is the closest or the next one, and setting it is followed by an update.
Run ==
    /\ Doing("run")
    /\ IF available
       THEN /\ route' = "current"
            /\ StartWorker
            /\ step' \in Steps
            /\ following' \in BOOLEAN
            /\ near' \in (IF moving THEN SUBSET Ahead(step') ELSE {{}})
            /\ Then(<<"update">>)
       ELSE Done /\ UNCHANGED <<route, enabled, workerVars, step, following, near>>
    /\ UNCHANGED <<watchVars, divergence, limitVars, moving, routeVars, guiVars>>

\* Mutant: a second watch is not added.
WatchOnce ==
    /\ Doing("watch")
    /\ watches' = 1
    /\ watchId' = (watches = 0)
    /\ Done
    /\ UNCHANGED <<tripVars, walk, divergence, limitVars, enabled, workerVars,
                   placeVars, routeVars, guiVars>>

\* The watch of this start is added, whether or not there is an earlier one.
Watch ==
    /\ Doing("watch")
    /\ watches' = Least(watches + 1, MaxWatches)
    /\ watchId' = TRUE
    /\ Done
    /\ UNCHANGED <<tripVars, walk, divergence, limitVars, enabled, workerVars,
                   placeVars, routeVars, guiVars>>

\* stop_tbt() begins: the watch whose id is known is removed.
Unwatch ==
    /\ Doing("unwatch")
    /\ watches' = IF watchId THEN watches - 1 ELSE watches
    /\ Done
    /\ UNCHANGED <<tripVars, watchId, walk, divergence, limitVars, enabled, workerVars,
                   placeVars, routeVars, guiVars>>

\* _stop_tbt_worker().
Halt ==
    /\ Doing("halt")
    /\ enabled' = FALSE
    /\ Done
    /\ UNCHANGED <<tripVars, watchVars, divergence, limitVars, workerVars,
                   placeVars, routeVars, guiVars>>

\* _do_navigation_update(): nothing without a route or a speed, otherwise the
\* step is left if it has been reached, and then a divergence looked for.
Update ==
    /\ Doing("update")
    /\ Then(IF route = "none" \/ ~moving THEN <<>>
            ELSE IF step \in near THEN <<"switch", "reach", "judge">>
            ELSE <<"reach", "judge">>)
    /\ UNCHANGED <<tripVars, watchVars, divergence, limitVars, enabled, workerVars,
                   placeVars, routeVars, guiVars>>

\* switch_to_next_step(), which updates the navigation again; at the last step
\* the destination is reached and the worker told to stop.
Switch ==
    /\ Doing("switch")
    /\ IF step < LastStep
       THEN /\ step' = step + 1
            /\ near' = near \ {step}
            /\ Then(<<"update">>)
            /\ UNCHANGED enabled
       ELSE enabled' = FALSE /\ Done /\ UNCHANGED <<step, near>>
    /\ UNCHANGED <<route, watchVars, divergence, limitVars, workerVars,
                   following, moving, routeVars, guiVars>>

\* The route is reached for the first time.
Reach ==
    /\ Doing("reach")
    /\ IF onRoute /\ ~reached
       THEN reached' = TRUE /\ reroutes' = 0
       ELSE UNCHANGED <<reached, reroutes>>
    /\ Done
    /\ UNCHANGED <<tripVars, watchVars, onRoute, crossed, override, enabled, workerVars,
                   placeVars, routeVars, guiVars>>

ConditionsMet == (reached \/ override) /\ ~onRoute

\* Mutant: one reroute more is allowed.
RerouteAutoOnce(n) ==
    /\ override' = (n <= MaxReroutes)
    /\ reroutes' = n + 1
    /\ Then(Restart)

\* _reroute_auto(), n being the counter after it may have expired: the route
\* counts as reached MaxReroutes times.  After two seconds _reroute() asks for
\* a route and, not waiting for the answer, starts navigation.
RerouteAuto(n) ==
    /\ override' = (n < MaxReroutes)
    /\ reroutes' = n + 1
    /\ Then(Restart)

\* Has the worker counted enough divergences?
Judge ==
    /\ Doing("judge")
    /\ IF ConditionsMet
       THEN /\ IF crossed >= TriggerCount
               THEN \E n \in {0, reroutes} : RerouteAuto(n)
               ELSE Done /\ UNCHANGED limitVars
            /\ UNCHANGED crossed
       ELSE crossed' = 0 /\ Done /\ UNCHANGED limitVars
    /\ UNCHANGED <<tripVars, watchVars, onRoute, reached, enabled, workerVars,
                   placeVars, routeVars, guiVars>>

MainStep ==
    \/ Serve \/ Notify \/ Pause \/ LookUp \/ Reset \/ Run \/ Watch \/ Unwatch \/ Halt
    \/ Update \/ Switch \/ Reach \/ Judge

-----------------------------------------------------------------------------
(* A worker thread, _tbt_worker().                                         *)

Goto(w, there) == pc' = [pc EXCEPT ![w] = there]

Look(w) == saw' = [saw EXCEPT ![w] = following]

\* A second goes by between two looks of a worker, which a call of the GUI does
\* not last, except for the sleep of _reroute().
Unhurried == Idle \/ Doing("pause")
Awake(w) == w \notin asleep \/ Unhurried
Sleep(w, there) ==
    /\ pc' = [pc EXCEPT ![w] = there]
    /\ asleep' = IF Unhurried THEN {} ELSE asleep \cup {w}

\* Mutant: the worker looks for a route only.
TopRouteOnly(w) ==
    /\ pc[w] = "top" /\ Awake(w)
    /\ IF route = "none"
       THEN pc' = [pc EXCEPT ![w] = "ended"] /\ UNCHANGED saw
       ELSE pc' = [pc EXCEPT ![w] = "looked"] /\ saw' = [saw EXCEPT ![w] = following]
    /\ UNCHANGED <<tripVars, watchVars, divergence, limitVars, enabled, todo, tries, asleep,
                   placeVars, routeVars, guiVars>>

\* Under the lock the worker sees whether it is still needed, then it looks
\* where the position is.  A worker that ends does not clear the flag.
Top(w) ==
    /\ pc[w] = "top" /\ Awake(w)
    /\ IF route = "none" \/ ~enabled
       THEN pc' = [pc EXCEPT ![w] = "ended"] /\ UNCHANGED saw
       ELSE pc' = [pc EXCEPT ![w] = "looked"] /\ saw' = [saw EXCEPT ![w] = following]
    /\ UNCHANGED <<tripVars, watchVars, divergence, limitVars, enabled, todo, tries, asleep,
                   placeVars, routeVars, guiVars>>

\* What it has seen is written.  A divergence is followed by quick updates,
\* otherwise by a long sleep.
Looked(w) ==
    /\ pc[w] = "looked"
    /\ onRoute' = saw[w]
    /\ saw' = [saw EXCEPT ![w] = FALSE]
    /\ Sleep(w, IF (reached \/ override) /\ ~saw[w] THEN "quick" ELSE "top")
    /\ UNCHANGED <<tripVars, watchVars, reached, crossed, limitVars, enabled, todo,
                   tries, placeVars, routeVars, guiVars>>

Quick(w) ==
    /\ pc[w] = "quick" /\ Awake(w)
    /\ pc' = [pc EXCEPT ![w] = "quick-looked"]
    /\ saw' = [saw EXCEPT ![w] = following]
    /\ UNCHANGED <<tripVars, watchVars, divergence, limitVars, enabled, todo, tries, asleep,
                   placeVars, routeVars, guiVars>>

\* Mutant: the divergence is not counted.
QuickNotCounted(w) ==
    /\ pc[w] = "quick-looked"
    /\ onRoute' = saw[w]
    /\ saw' = [saw EXCEPT ![w] = FALSE]
    /\ IF saw[w] \/ tries[w] = TriggerCount
       THEN Sleep(w, "top") /\ tries' = [tries EXCEPT ![w] = 0]
       ELSE Sleep(w, "quick") /\ tries' = [tries EXCEPT ![w] = @ + 1]
    /\ UNCHANGED <<tripVars, watchVars, reached, crossed, limitVars, enabled, todo,
                   placeVars, routeVars, guiVars>>

\* A false alarm, or one divergence more; the loop has TriggerCount + 1 passes.
QuickLooked(w) ==
    /\ pc[w] = "quick-looked"
    /\ onRoute' = saw[w]
    /\ saw' = [saw EXCEPT ![w] = FALSE]
    /\ crossed' = IF saw[w] THEN crossed ELSE Least(crossed + 1, TriggerCount)
    /\ IF saw[w] \/ tries[w] = TriggerCount
       THEN Sleep(w, "top") /\ tries' = [tries EXCEPT ![w] = 0]
       ELSE Sleep(w, "quick") /\ tries' = [tries EXCEPT ![w] = @ + 1]
    /\ UNCHANGED <<tripVars, watchVars, reached, limitVars, enabled, todo,
                   placeVars, routeVars, guiVars>>

WorkerStep(w) == Top(w) \/ Looked(w) \/ Quick(w) \/ QuickLooked(w)

Next ==
    \/ AskForRoute \/ Click \/ Answer \/ RouteReceived
    \/ Location
    \/ MainStep
    \/ \E w \in Workers : WorkerStep(w)

Spec == Init /\ [][Next]_vars

\* Threads run; positions keep coming, and their calls are served in turn.
Fairness ==
    /\ WF_vars(MainStep)
    /\ \A w \in Workers : WF_vars(WorkerStep(w))
    /\ SF_vars(Location)

FairSpec == Spec /\ Fairness

-----------------------------------------------------------------------------
(* Properties.                                                             *)

TypeOK ==
    /\ route \in {"none", "current", "replaced"}
    /\ step \in Steps
    /\ watches \in 0..MaxWatches
    /\ watchId \in BOOLEAN
    /\ walk \in 0..MaxWatches
    /\ onRoute \in BOOLEAN /\ reached \in BOOLEAN /\ override \in BOOLEAN
    /\ crossed \in 0..TriggerCount
    /\ reroutes \in Nat
    /\ enabled \in BOOLEAN
    /\ todo \in Seq(Operations)
    /\ pc \in [Workers -> {"ended", "top", "looked", "quick", "quick-looked"}]
    /\ saw \in [Workers -> BOOLEAN]
    /\ tries \in [Workers -> 0..TriggerCount]
    /\ asleep \subseteq Workers
    /\ following \in BOOLEAN /\ near \subseteq Steps /\ moving \in BOOLEAN
    /\ available \in BOOLEAN
    /\ lookups \in 0..MaxLookups
    /\ events \in 0..MaxEvents
    /\ navigating \in BOOLEAN /\ shown \in BOOLEAN
    /\ calls \in Seq({"route", "start", "stop"}) /\ Len(calls) <= MaxCalls

\* "do this only a limited number of times": however the handlers nest and the
\* workers interfere, automatic reroutes that are not followed by reaching the
\* route end after the one that the last override has allowed.
RerouteLimit ==
    /\ reroutes <= MaxReroutes + 1
    /\ override => reroutes <= MaxReroutes

\* When all calls are served, navigation runs on the newest route if the
\* GUI shows it as running, and does not run otherwise, whatever reroutes and
\* late answers of the route look-up came in between.
GuiAgrees ==
    Idle /\ calls = <<>> /\ events = 0 =>
        route = IF navigating THEN "current" ELSE "none"

\* Navigation that runs is told of new positions, whatever starts came one
\* inside the other, and stop_tbt() knows a watch that it can remove.
Watched ==
    /\ TypeOK
    /\ Idle /\ route # "none" => watchId /\ watches > 0

\* A worker that is told to stop ends, unless navigation starts again before.
Alive == {w \in Workers : pc[w] # "ended"}
WorkersEnd == ~enabled ~> enabled \/ Alive = {}

\* A divergence from a route that was reached (or counts as reached) does not
\* last for ever while there is a worker: it is rerouted in the end.
Diverged == /\ route # "none" /\ moving /\ ~following
            /\ reached \/ override
            /\ Alive # {}
DivergenceEnds == []<>~Diverged

=============================================================================
