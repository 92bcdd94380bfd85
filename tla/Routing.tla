------------------------------ MODULE Routing ------------------------------
(***************************************************************************)
(* Routes in the Qt 5 GUI: from the request of the map page through        *)
(* mod_route and the thread of a provider back to the map and to           *)
(* navigation, and the reroutes of navigation.                             *)
(*                                                                         *)
(* PyOtherSide serves the calls of the page one by one in one thread, on   *)
(* which navigation reroutes, too; every look-up is a thread of its own,   *)
(* whose callback stores the route and sends it.  request_route() asks for *)
(* a route after each waypoint it appends to one list: two look-ups share  *)
(* the list, and the first may find one waypoint in it or two.             *)
(*                                                                         *)
(* A route is the number of the list it was found for.  Navigation is the  *)
(* route it runs on; its steps are those of TurnByTurn.  The names of the  *)
(* threads are left out: nothing looks a routing thread up.                *)
(***************************************************************************)
EXTENDS Integers, Sequences, FiniteSets

CONSTANTS MaxRequests,  \* requests of the page, at most
          MaxReroutes,  \* reroutes, at most
          MaxCalls      \* calls under way when the user acts, at most

ASSUME RoutingAssumption ==
    MaxRequests \in Nat /\ MaxReroutes \in Nat /\ MaxCalls \in Nat

VARIABLES
    requested,    \* how many requests the page has made
    shown,        \* the route in routePoints
    navigating,   \* navigationEnabled
    calls,        \* the calls of the page that are not served yet
    events,       \* the look-ups whose routes are on their way to the page
    python,       \* what the Python thread is in the middle of
    served,       \* the last request the Python thread took up (history)
    lists,        \* the waypoint lists in the order of their creation
    lookups,      \* the look-ups, likewise
    destination,  \* _destination of mod_route
    directions,   \* _directions of mod_route
    route,        \* _route of navigation
    owed,         \* look-ups with an answer the page has not seen (history)
    interleaved   \* were answers to two lists stored before they were sent? (history)

pageVars == <<requested, shown, navigating>>
queueVars == <<calls, events>>
routeVars == <<lists, destination, directions>>
historyVars == <<served, owed, interleaved>>
vars == <<pageVars, queueVars, python, routeVars, lookups, route, historyVars>>

NoRoute == 0

\* The points a look-up can be about.
NoPoint == <<"none", 0>>
Position == <<"position", 0>>
Start(r) == <<"start", r>>
End(r) == <<"end", r>>

Call(op, r) == [op |-> op, request |-> r]

Init ==
    /\ requested = 0
    /\ shown = NoRoute
    /\ navigating = FALSE
    /\ calls = <<>>
    /\ events = <<>>
    /\ python = "idle"
    /\ served = 0
    /\ lists = <<>>
    /\ lookups = <<>>
    /\ destination = NoPoint
    /\ directions = NoRoute
    /\ route = NoRoute
    /\ owed = {}
    /\ interleaved = FALSE

-----------------------------------------------------------------------------
(* The page.                                                               *)

\* Start and destination are set, by taps or by "Route here", and a route
\* asked for.
RequestRoute ==
    /\ requested < MaxRequests
    /\ Len(calls) < MaxCalls
    /\ requested' = requested + 1
    /\ calls' = Append(calls, Call("request", requested + 1))
    /\ UNCHANGED <<shown, navigating, events, python, routeVars, lookups, route,
                   historyVars>>

\* The navigate button, which is there once there is a route.
ClickNavigate ==
    /\ shown # NoRoute
    /\ Len(calls) < MaxCalls
    /\ calls' = Append(calls, Call(IF navigating THEN "stop" ELSE "start", 0))
    /\ navigating' = ~navigating
    /\ UNCHANGED <<requested, shown, events, python, routeVars, lookups,
                   route, historyVars>>

\* Mutant: navigation goes on along the route it has.
RouteShownOnly ==
    /\ events # <<>>
    /\ shown' = lookups[Head(events)].list
    /\ owed' = owed \ {Head(events)}
    /\ events' = Tail(events)
    /\ UNCHANGED <<requested, navigating, calls, python, served, routeVars,
                   lookups, route, interleaved>>

\* A route comes: it replaces the one shown, and navigation is started on it.
RouteReceived ==
    /\ events # <<>>
    /\ shown' = lookups[Head(events)].list
    /\ owed' = owed \ {Head(events)}
    /\ events' = Tail(events)
    /\ calls' = IF navigating THEN Append(calls, Call("start", 0)) ELSE calls
    /\ UNCHANGED <<requested, navigating, python, served, routeVars,
                   lookups, route, interleaved>>

-----------------------------------------------------------------------------
(* The Python thread.                                                      *)

Serves(op) == python = "idle" /\ calls # <<>> /\ Head(calls).op = op

\* routeAsync(): a thread looks for a route through the list.
LookUp(l) == lookups' = Append(lookups, [list |-> l, state |-> "searching"])

NewList(points) == lists' = Append(lists, [points |-> points, for |-> served'])

\* request_route() takes the first waypoint, and asks for a route at once.
FirstWaypoint ==
    /\ Serves("request")
    /\ served' = Head(calls).request
    /\ NewList(<<Start(served')>>)
    /\ destination' = Start(served')
    /\ LookUp(Len(lists'))
    /\ python' = "between-waypoints"
    /\ UNCHANGED <<pageVars, queueVars, directions, route, owed, interleaved>>

\* The second is appended to the same list, and a route asked for again.
SecondWaypoint ==
    /\ python = "between-waypoints"
    /\ lists' = [lists EXCEPT ![Len(lists)].points = Append(@, End(served))]
    /\ destination' = End(served)
    /\ LookUp(Len(lists))
    /\ python' = "idle"
    /\ calls' = Tail(calls)
    /\ UNCHANGED <<pageVars, events, directions, route, historyVars>>

\* start_tbt() runs on the route mod_route has by now, if it has one.
StartNavigation ==
    /\ Serves("start")
    /\ route' = directions
    /\ calls' = Tail(calls)
    /\ UNCHANGED <<pageVars, events, python, routeVars, lookups, historyVars>>

StopNavigation ==
    /\ Serves("stop")
    /\ route' = NoRoute
    /\ calls' = Tail(calls)
    /\ UNCHANGED <<pageVars, events, python, routeVars, lookups, historyVars>>

IsReroute(l) == lists[l].points[1] = Position

Reroutes == {l \in DOMAIN lists : IsReroute(l)}

\* A position off the route: a route from it to the last destination is asked
\* for, ...
Reroute ==
    /\ python = "idle"
    /\ route # NoRoute
    /\ Cardinality(Reroutes) < MaxReroutes
    /\ destination # NoPoint
    /\ UNCHANGED served
    /\ NewList(<<Position, destination>>)
    /\ LookUp(Len(lists'))
    /\ python' = "rerouting"
    /\ UNCHANGED <<pageVars, queueVars, destination, directions, route, owed,
                   interleaved>>

\* ... and navigation started anew, on the route there is meanwhile.
Restart ==
    /\ python = "rerouting"
    /\ route' = directions
    /\ python' = "idle"
    /\ UNCHANGED <<pageVars, queueVars, routeVars, lookups, historyVars>>

PythonStep ==
    \/ FirstWaypoint \/ SecondWaypoint \/ StartNavigation \/ StopNavigation
    \/ Restart

-----------------------------------------------------------------------------
(* A look-up, in a thread of its own.                                      *)

In(n, state) == lookups[n].state = state

Goto(n, state) == lookups' = [lookups EXCEPT ![n].state = state]

\* The provider has a route, the list having two waypoints by now, and the
\* callback of the GUI has mod_route store it, ...
Save(n) ==
    /\ In(n, "searching")
    /\ Len(lists[lookups[n].list].points) >= 2
    /\ directions' = lookups[n].list
    /\ owed' = owed \cup {n}
    /\ interleaved' = \/ interleaved
                      \/ \E m \in DOMAIN lookups : /\ In(m, "saved")
                                                   /\ lookups[m].list # lookups[n].list
    /\ Goto(n, "saved")
    /\ UNCHANGED <<pageVars, queueVars, python, lists, destination, route, served>>

LastPoint(l) == lists[l].points[Len(lists[l].points)]

\* Mutant: the destination is that of the route that came.
SendWithDestination(n) ==
    /\ In(n, "saved")
    /\ events' = Append(events, n)
    /\ destination' = LastPoint(lookups[n].list)
    /\ Goto(n, "ended")
    /\ UNCHANGED <<pageVars, calls, python, lists, directions, route, historyVars>>

\* ... and sends it.  mod_route's own callback goes on: without a destination
\* the end of the route would become the destination, and a look-up always has
\* set one, so that no step can come between.
Send(n) ==
    /\ In(n, "saved")
    /\ events' = Append(events, n)
    /\ destination' = IF destination = NoPoint THEN LastPoint(lookups[n].list)
                      ELSE destination
    /\ Goto(n, "ended")
    /\ UNCHANGED <<pageVars, calls, python, lists, directions, route, historyVars>>

\* The provider has a result without a route, ...
Refused(n) ==
    /\ In(n, "searching")
    /\ owed' = owed \cup {n}
    /\ Goto(n, "refused")
    /\ UNCHANGED <<pageVars, queueVars, python, routeVars, route, served, interleaved>>

\* Mutant: the user is told nothing.
LogOnly(n) ==
    /\ In(n, "refused")
    /\ Goto(n, "ended")
    /\ UNCHANGED <<pageVars, queueVars, python, routeVars, route, historyVars>>

\* ... of which the user is notified.
Notify(n) ==
    /\ In(n, "refused")
    /\ owed' = owed \ {n}
    /\ Goto(n, "ended")
    /\ UNCHANGED <<pageVars, queueVars, python, routeVars, route, served, interleaved>>

\* The search raises, or the callback does, given no result or a success
\* without a route.  The exception is kept for whoever asks for it.
Failed(n) ==
    /\ In(n, "searching")
    /\ Goto(n, "ended")
    /\ UNCHANGED <<pageVars, queueVars, python, routeVars, route, historyVars>>

Deliver(n) == n \in DOMAIN lookups /\ (Send(n) \/ Notify(n))

-----------------------------------------------------------------------------

MaxLookups == 2 * MaxRequests + MaxReroutes

Next ==
    \/ RequestRoute \/ ClickNavigate \/ RouteReceived
    \/ PythonStep \/ Reroute
    \/ \E n \in DOMAIN lookups : Save(n) \/ Refused(n) \/ Failed(n)
    \/ \E n \in 1..MaxLookups : Deliver(n)

Spec == Init /\ [][Next]_vars

\* The page and the Python thread handle what they are sent, and a thread that
\* has an answer goes on.  Nobody has to ask, and a provider need not answer.
Fairness ==
    /\ WF_vars(RouteReceived)
    /\ WF_vars(PythonStep)
    /\ \A n \in 1..MaxLookups : WF_vars(Deliver(n))

FairSpec == Spec /\ Fairness

-----------------------------------------------------------------------------
(* Properties.                                                             *)

Points == {NoPoint, Position} \cup {Start(r) : r \in 1..MaxRequests}
                              \cup {End(r) : r \in 1..MaxRequests}

Calls == [op : {"request", "start", "stop"}, request : 0..MaxRequests]

CallsTypeOK ==
    /\ requested \in 0..MaxRequests
    /\ served \in 0..MaxRequests
    /\ calls \in Seq(Calls)
    /\ python \in {"idle", "between-waypoints", "rerouting"}

RoutesTypeOK ==
    /\ lists \in Seq([points : Seq(Points), for : 1..MaxRequests])
    /\ lookups \in Seq([list : DOMAIN lists,
                        state : {"searching", "saved", "refused", "ended"}])
    /\ Len(lookups) <= MaxLookups
    /\ events \in Seq(DOMAIN lookups)
    /\ owed \subseteq DOMAIN lookups
    /\ {shown, directions, route} \subseteq 0..Len(lists)
    /\ destination \in Points

TypeOK ==
    /\ CallsTypeOK
    /\ RoutesTypeOK
    /\ navigating \in BOOLEAN /\ interleaved \in BOOLEAN

\* Nothing is on its way between the page, the Python thread and an answer
\* that is stored but not sent.
Settled ==
    /\ calls = <<>> /\ events = <<>>
    /\ python = "idle"
    /\ \A n \in DOMAIN lookups : ~In(n, "saved")

\* Whatever answers come late, twice or never: once all is served, the map
\* shows the route mod_route has, and navigation runs on it exactly if the
\* page says so.  Only two answers stored one after the other and then sent
\* the other way round leave the map with one route and navigation with the
\* other: _routing_done_cb() runs in the look-up's thread without a lock.
ShownIsNavigated ==
    /\ TypeOK
    /\ Settled /\ ~interleaved =>
           /\ shown = directions
           /\ route = IF navigating THEN directions ELSE NoRoute

\* Every reroute leads to the destination of the newest request, however late
\* the answer to an earlier one comes and whichever route is shown.
RerouteToDestination ==
    \A l \in Reroutes : lists[l].points[2] = End(lists[l].for)

\* Whatever a provider answers reaches the user, as a route or as a
\* notification.
AnswersReachUser == []<>(owed = {})

=============================================================================
