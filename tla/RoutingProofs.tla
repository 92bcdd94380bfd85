---------------------------- MODULE RoutingProofs ----------------------------
(***************************************************************************)
(* Proofs about Routing, for any number of requests, reroutes and calls:   *)
(* reroutes lead to the newest destination, and map and navigation come to *)
(* rest on one route.                                                      *)
(***************************************************************************)
EXTENDS Routing, FiniteSetTheorems, TLAPS

-----------------------------------------------------------------------------
(* The calls of the page.                                                  *)

\* Each has a number of its own, ...
Numbered ==
    \A i \in 1..Len(calls) : calls[i].op = "request" =>
        /\ calls[i].request \in 1..requested
        /\ served < calls[i].request \/ (python = "between-waypoints" /\ i = 1)

\* ... requests wait in the order in which they were made, ...
Ascending ==
    \A i, j \in 1..Len(calls) :
        i < j /\ calls[i].op = "request" /\ calls[j].op = "request" => calls[i].request < calls[j].request

\* ... and the one that is being served is in front.
FrontServed ==
    python = "between-waypoints" =>
        calls # <<>> /\ calls[1].op = "request" /\ calls[1].request = served

InOrder == served <= requested /\ Numbered /\ Ascending /\ FrontServed

CallsInv == CallsTypeOK /\ InOrder

USE RoutingAssumption

LEMMA CallsInit == Init => CallsInv
  BY DEF Init, CallsInv, CallsTypeOK, InOrder, Numbered, Ascending, FrontServed

\* The steps that leave the calls and the Python thread alone.
LEMMA CallsKept ==
    ASSUME CallsInv, UNCHANGED <<requested, calls, python, served>>
    PROVE  CallsInv'
  BY DEF CallsInv, CallsTypeOK, InOrder, Numbered, Ascending, FrontServed

LEMMA CallType ==
    ASSUME NEW op \in {"request", "start", "stop"}, NEW r \in 0..MaxRequests
    PROVE  Call(op, r) \in Calls /\ Call(op, r).op = op /\ Call(op, r).request = r
  BY DEF Call, Calls

LEMMA NotEmpty ==
    ASSUME NEW S, NEW s \in Seq(S), s # <<>>
    PROVE  Len(s) \in Nat /\ Len(s) # 0 /\ 1 \in 1..Len(s) /\ Head(s) = s[1]
  <1>1. Len(s) \in Nat /\ Len(s) # 0
    OBVIOUS
  <1>2. 1 \in 1..Len(s)
    BY <1>1
  <1>3. Head(s) = s[1]
    OBVIOUS
  <1> QED
    BY <1>1, <1>2, <1>3

LEMMA AppendNotEmpty ==
    ASSUME NEW S, NEW s \in Seq(S), NEW x \in S
    PROVE  Append(s, x) # <<>>
  <1>1. Len(Append(s, x)) = Len(s) + 1 /\ Len(s) \in Nat
    OBVIOUS
  <1>2. Len(<<>>) = 0
    OBVIOUS
  <1> QED
    BY <1>1, <1>2

LEMMA Appended ==
    ASSUME NEW c \in Calls, calls \in Seq(Calls), calls' = Append(calls, c)
    PROVE  /\ calls' \in Seq(Calls)
           /\ Len(calls') = Len(calls) + 1
           /\ \A i \in 1..Len(calls) : calls'[i] = calls[i]
           /\ calls'[Len(calls) + 1] = c
           /\ Len(calls) \in Nat
  OBVIOUS

LEMMA TookFirst ==
    ASSUME calls \in Seq(Calls), calls # <<>>, calls' = Tail(calls)
    PROVE  /\ calls' \in Seq(Calls)
           /\ Len(calls') = Len(calls) - 1
           /\ \A i \in 1..Len(calls') : calls'[i] = calls[i + 1]
           /\ Len(calls) \in Nat \ {0}
  OBVIOUS

\* A call that does not ask for a route may come at any time.
LEMMA OtherCall ==
    ASSUME CallsInv, NEW op \in {"start", "stop"}, calls' = Append(calls, Call(op, 0)),
           UNCHANGED <<requested, python, served>>
    PROVE  CallsInv'
  <1>0. CallsTypeOK /\ served <= requested /\ Numbered /\ Ascending /\ FrontServed
    BY DEF CallsInv, InOrder
  <1>1. calls \in Seq(Calls)
    BY <1>0 DEF CallsTypeOK
  <1>2. 0 \in 0..MaxRequests /\ op \in {"request", "start", "stop"}
    BY SMT
  <1>3. Call(op, 0) \in Calls /\ Call(op, 0).op = op
    BY <1>2, CallType
  <1>4. /\ calls' \in Seq(Calls)
        /\ Len(calls') = Len(calls) + 1
        /\ \A i \in 1..Len(calls) : calls'[i] = calls[i]
        /\ calls'[Len(calls) + 1] = Call(op, 0)
        /\ Len(calls) \in Nat
    BY <1>1, <1>3, Appended
  <1>5. calls'[Len(calls) + 1].op # "request"
    BY <1>3, <1>4
  <1>6. \A i \in 1..Len(calls') : calls'[i].op = "request" =>
            /\ i \in 1..Len(calls) /\ calls[i].op = "request"
            /\ calls'[i] = calls[i]
    BY <1>4, <1>5
  <1>7. CallsTypeOK'
    BY <1>0, <1>4 DEF CallsTypeOK
  <1>8. Numbered'
    BY <1>0, <1>6 DEF Numbered
  <1>9. Ascending'
    BY <1>0, <1>6 DEF Ascending
  <1>10. FrontServed'
    <2> SUFFICES ASSUME python = "between-waypoints"
                 PROVE  (calls # <<>> /\ calls[1].op = "request" /\ calls[1].request = served)'
      BY DEF FrontServed
    <2>1. calls # <<>> /\ calls[1].op = "request" /\ calls[1].request = served
      BY <1>0 DEF FrontServed
    <2>2. 1 \in 1..Len(calls)
      BY <1>1, <2>1, NotEmpty
    <2>3. calls'[1] = calls[1]
      BY <1>4, <2>2
    <2>4. calls' # <<>>
      BY <1>1, <1>3, AppendNotEmpty
    <2> QED
      BY <2>1, <2>3, <2>4
  <1> QED
    BY <1>0, <1>7, <1>8, <1>9, <1>10 DEF CallsInv, InOrder

\* The call in front has been served.
LEMMA CallServed ==
    ASSUME CallsInv, calls # <<>>, calls' = Tail(calls), python' = "idle",
           UNCHANGED <<requested, served>>
    PROVE  CallsInv'
  <1>0. CallsTypeOK /\ served <= requested /\ Numbered /\ Ascending /\ FrontServed
    BY DEF CallsInv, InOrder
  <1>1. calls \in Seq(Calls)
    BY <1>0 DEF CallsTypeOK
  <1>2. /\ calls' \in Seq(Calls)
        /\ Len(calls') = Len(calls) - 1
        /\ \A i \in 1..Len(calls') : calls'[i] = calls[i + 1]
        /\ Len(calls) \in Nat \ {0}
    BY <1>1, TookFirst
  <1>3. \A i \in 1..Len(calls') : calls'[i].op = "request" =>
            /\ i + 1 \in 1..Len(calls) /\ calls[i + 1].op = "request" /\ i + 1 # 1
            /\ calls'[i] = calls[i + 1]
    BY <1>2
  <1>4. CallsTypeOK'
    BY <1>0, <1>2 DEF CallsTypeOK
  <1>5. Numbered'
    BY <1>0, <1>3 DEF Numbered
  <1>6. Ascending'
    <2> SUFFICES ASSUME NEW i \in 1..Len(calls'), NEW j \in 1..Len(calls'),
                        i < j, calls'[i].op = "request", calls'[j].op = "request"
                 PROVE  calls'[i].request < calls'[j].request
      BY DEF Ascending
    <2>1. /\ i + 1 \in 1..Len(calls) /\ j + 1 \in 1..Len(calls) /\ i + 1 < j + 1
          /\ calls[i + 1].op = "request" /\ calls[j + 1].op = "request"
          /\ calls'[i] = calls[i + 1] /\ calls'[j] = calls[j + 1]
      BY <1>2, <1>3
    <2> QED
      BY <1>0, <2>1 DEF Ascending
  <1>7. FrontServed'
    BY DEF FrontServed
  <1> QED
    BY <1>0, <1>4, <1>5, <1>6, <1>7 DEF CallsInv, InOrder

LEMMA CallsStep == CallsInv /\ [Next]_vars => CallsInv'
  <1> SUFFICES ASSUME CallsInv, [Next]_vars PROVE CallsInv'
    OBVIOUS
  <1>0. CallsTypeOK /\ served <= requested /\ Numbered /\ Ascending /\ FrontServed
    BY DEF CallsInv, InOrder
  <1>1. CASE RequestRoute
    <2>1. /\ calls' = Append(calls, Call("request", requested + 1))
          /\ requested < MaxRequests
          /\ requested' = requested + 1
          /\ python' = python /\ served' = served
      BY <1>1 DEF RequestRoute, historyVars
    <2>2. requested \in 0..MaxRequests /\ served \in 0..MaxRequests
      BY <1>0 DEF CallsTypeOK
    <2>3. calls \in Seq(Calls)
      BY <1>0 DEF CallsTypeOK
    <2>4. requested' \in 0..MaxRequests /\ requested + 1 \in 0..MaxRequests
      BY <2>1, <2>2
    <2>5. /\ Call("request", requested + 1) \in Calls
          /\ Call("request", requested + 1).request = requested'
      BY <2>1, <2>4, CallType
    <2>6. /\ calls' \in Seq(Calls)
          /\ Len(calls') = Len(calls) + 1
          /\ \A i \in 1..Len(calls) : calls'[i] = calls[i]
          /\ calls'[Len(calls) + 1] = Call("request", requested + 1)
          /\ Len(calls) \in Nat
      BY <2>1, <2>3, <2>5, Appended
    <2>7. calls'[Len(calls')].request = requested'
      BY <2>5, <2>6
    <2>8. \A i \in 1..Len(calls) : (calls'[i].op = "request") <=> (calls[i].op = "request")
      BY <2>6
    <2>9. CallsTypeOK'
      BY <1>0, <2>1, <2>4, <2>6 DEF CallsTypeOK
    <2>10. (served <= requested)'
      BY <1>0, <2>1, <2>2
    <2>11. Numbered'
      <3> SUFFICES ASSUME NEW i \in 1..Len(calls'), calls'[i].op = "request"
                   PROVE  /\ calls'[i].request \in 1..requested'
                          /\ served < calls'[i].request \/ (python = "between-waypoints" /\ i = 1)
        BY <2>1 DEF Numbered
      <3>1. CASE i \in 1..Len(calls)
        <4>1. calls[i].op = "request" /\ calls'[i] = calls[i]
          BY <2>6, <2>8, <3>1
        <4>2. /\ calls[i].request \in 1..requested
              /\ served < calls[i].request \/ (python = "between-waypoints" /\ i = 1)
          BY <1>0, <3>1, <4>1 DEF Numbered
        <4>3. 1..requested \subseteq 1..requested'
          BY <2>1, <2>2
        <4> QED
          BY <4>1, <4>2, <4>3, Zenon
      <3>2. CASE i = Len(calls')
        <4>1. calls'[i].request = requested + 1
          BY <2>1, <2>7, <3>2
        <4>2. requested + 1 \in 1..requested' /\ served < requested + 1
          BY <1>0, <2>1, <2>2
        <4> QED
          BY <4>1, <4>2
      <3>3. i \in 1..Len(calls) \/ i = Len(calls')
        BY <2>6
      <3> QED
        BY <3>1, <3>2, <3>3
    <2>12. Ascending'
      <3> SUFFICES ASSUME NEW i \in 1..Len(calls'), NEW j \in 1..Len(calls'),
                          i < j, calls'[i].op = "request", calls'[j].op = "request"
                   PROVE  calls'[i].request < calls'[j].request
        BY DEF Ascending
      <3>1. i \in 1..Len(calls) /\ calls[i].op = "request" /\ calls'[i] = calls[i]
        BY <2>6, <2>8
      <3>2. CASE j \in 1..Len(calls)
        <4>1. calls[j].op = "request" /\ calls'[j] = calls[j]
          BY <2>6, <2>8, <3>2
        <4> QED
          BY <1>0, <3>1, <3>2, <4>1 DEF Ascending
      <3>3. CASE j = Len(calls')
        <4>1. calls[i].request \in 1..requested
          BY <1>0, <3>1 DEF Numbered
        <4> QED
          BY <2>1, <2>2, <2>7, <3>1, <3>3, <4>1
      <3> QED
        BY <2>6, <3>2, <3>3
    <2>13. FrontServed'
      <3> SUFFICES ASSUME python = "between-waypoints"
                   PROVE  (calls # <<>> /\ calls[1].op = "request" /\ calls[1].request = served)'
        BY <2>1 DEF FrontServed
      <3>1. calls # <<>> /\ calls[1].op = "request" /\ calls[1].request = served
        BY <1>0 DEF FrontServed
      <3>2. 1 \in 1..Len(calls)
        BY <2>3, <3>1, NotEmpty
      <3>3. calls'[1] = calls[1]
        BY <2>6, <3>2
      <3>4. calls' # <<>>
        BY <2>1, <2>3, <2>5, AppendNotEmpty
      <3> QED
        BY <2>1, <3>1, <3>3, <3>4
    <2> QED
      BY <2>9, <2>10, <2>11, <2>12, <2>13 DEF CallsInv, InOrder
  <1>2. CASE ClickNavigate
    <2>1. PICK op \in {"start", "stop"} : calls' = Append(calls, Call(op, 0))
      BY <1>2 DEF ClickNavigate
    <2>2. UNCHANGED <<requested, python, served>>
      BY <1>2 DEF ClickNavigate, historyVars
    <2> QED
      BY <2>1, <2>2, OtherCall
  <1>3. CASE RouteReceived
    <2>1. UNCHANGED <<requested, python, served>>
      BY <1>3 DEF RouteReceived
    <2>2. CASE navigating
      <3>1. calls' = Append(calls, Call("start", 0))
        BY <1>3, <2>2 DEF RouteReceived
      <3> QED
        BY <2>1, <3>1, OtherCall
    <2>3. CASE ~navigating
      <3>1. calls' = calls
        BY <1>3, <2>3 DEF RouteReceived
      <3> QED
        BY <2>1, <3>1, CallsKept
    <2> QED
      BY <2>2, <2>3
  <1>4. CASE FirstWaypoint
    <2>1. /\ calls # <<>> /\ Head(calls).op = "request"
          /\ served' = Head(calls).request
          /\ python = "idle" /\ python' = "between-waypoints"
          /\ requested' = requested /\ calls' = calls
      BY <1>4 DEF FirstWaypoint, Serves, pageVars, queueVars
    <2>2. calls \in Seq(Calls) /\ requested \in 0..MaxRequests /\ served \in 0..MaxRequests
      BY <1>0 DEF CallsTypeOK
    <2>3. 1 \in 1..Len(calls) /\ Head(calls) = calls[1] /\ Len(calls) \in Nat
      BY <2>1, <2>2, NotEmpty
    <2>4. calls[1].op = "request" /\ served' = calls[1].request
      BY <2>1, <2>3
    <2>5. served' \in 1..requested
      BY <1>0, <2>3, <2>4 DEF Numbered
    <2>6. CallsTypeOK'
      <3>1. served' \in 0..MaxRequests
        BY <2>2, <2>5
      <3>2. python' \in {"idle", "between-waypoints", "rerouting"}
        BY <2>1
      <3> QED
        BY <2>1, <2>2, <3>1, <3>2 DEF CallsTypeOK
    <2>7. Numbered'
      <3> SUFFICES ASSUME NEW i \in 1..Len(calls), calls[i].op = "request"
                   PROVE  /\ calls[i].request \in 1..requested
                          /\ served' < calls[i].request \/ i = 1
        BY <2>1 DEF Numbered
      <3>1. calls[i].request \in 1..requested
        BY <1>0 DEF Numbered
      <3>2. i = 1 \/ 1 < i
        BY <2>3
      <3>3. 1 < i => calls[1].request < calls[i].request
        BY <1>0, <2>3, <2>4 DEF Ascending
      <3>4. CASE i = 1
        BY <3>1, <3>4
      <3>5. CASE 1 < i
        <4>1. served' < calls[i].request
          BY <2>4, <3>3, <3>5
        <4> QED
          BY <3>1, <4>1
      <3> QED
        BY <3>2, <3>4, <3>5, Zenon
    <2>8. Ascending'
      BY <1>0, <2>1 DEF Ascending
    <2>9. FrontServed'
      BY <2>1, <2>4 DEF FrontServed
    <2> QED
      <3>0. served' <= requested
        BY <2>2, <2>5
      <3>1. (served <= requested)'
        BY <2>1, <3>0
      <3> QED
        BY <2>6, <2>7, <2>8, <2>9, <3>1 DEF CallsInv, InOrder
  <1>5. CASE SecondWaypoint
    <2>1. /\ python = "between-waypoints" /\ python' = "idle" /\ calls' = Tail(calls)
          /\ UNCHANGED <<requested, served>>
      BY <1>5 DEF SecondWaypoint, pageVars, historyVars
    <2>2. calls # <<>>
      BY <1>0, <2>1 DEF FrontServed
    <2> QED
      BY <2>1, <2>2, CallServed
  <1>6. CASE StartNavigation \/ StopNavigation
    <2>1. /\ calls # <<>> /\ calls' = Tail(calls) /\ python' = "idle"
          /\ UNCHANGED <<requested, served>>
      BY <1>6 DEF StartNavigation, StopNavigation, Serves, pageVars, historyVars
    <2> QED
      BY <2>1, CallServed
  <1>7. CASE Reroute \/ Restart
    <2>1. /\ calls' = calls /\ requested' = requested /\ served' = served
          /\ python # "between-waypoints" /\ python' \in {"idle", "rerouting"}
      BY <1>7 DEF Reroute, Restart, pageVars, queueVars, historyVars
    <2>2. CallsTypeOK'
      BY <1>0, <2>1 DEF CallsTypeOK
    <2>3. Numbered' /\ Ascending'
      BY <1>0, <2>1 DEF Numbered, Ascending
    <2>4. FrontServed'
      BY <2>1 DEF FrontServed
    <2> QED
      BY <1>0, <2>1, <2>2, <2>3, <2>4 DEF CallsInv, InOrder
  <1>8. ASSUME NEW n \in DOMAIN lookups,
               Save(n) \/ Refused(n) \/ Failed(n) \/ Send(n) \/ Notify(n)
        PROVE  CallsInv'
    BY <1>8, CallsKept DEF Save, Refused, Failed, Send, Notify, pageVars, queueVars, historyVars
  <1>9. CASE UNCHANGED vars
    BY <1>9, CallsKept DEF vars, pageVars, queueVars, historyVars
  <1> QED
    BY <1>1, <1>2, <1>3, <1>4, <1>5, <1>6, <1>7, <1>8, <1>9 DEF Next, PythonStep, Deliver

-----------------------------------------------------------------------------
(* The destination.                                                        *)

List == [points : Seq(Points), for : 1..MaxRequests]

\* The destination is the end of the last request, but while only the first
\* of its waypoints is there; the list of the last request is then the last
\* list.
DestinationKnown ==
    /\ served = 0 => lookups = <<>> /\ destination = NoPoint
    /\ served # 0 => destination = IF python = "between-waypoints" THEN Start(served)
                                   ELSE End(served)

HalfList ==
    python = "between-waypoints" =>
        lists # <<>> /\ lists[Len(lists)].points = <<Start(served)>>

\* A list that begins with a position was made for a reroute.
ReroutesWhole ==
    \A l \in 1..Len(lists) : lists[l].points[1] = Position =>
        lists[l].points[2] = End(lists[l].for)

DestinationInv ==
    lists \in Seq(List) /\ DestinationKnown /\ HalfList /\ ReroutesWhole

LEMMA PointsDiffer ==
    \A r : /\ Start(r) # Position /\ Start(r) # NoPoint
           /\ End(r) # Position /\ End(r) # NoPoint
  BY DEF Start, End, Position, NoPoint

LEMMA PointTypes ==
    /\ \A r \in 1..MaxRequests : Start(r) \in Points /\ End(r) \in Points
    /\ Position \in Points
  BY DEF Points

LEMMA DestinationInit == Init => DestinationInv
  BY DEF Init, DestinationInv, DestinationKnown, HalfList, ReroutesWhole

\* Steps of the page, of navigation and of the answers.
LEMMA DestinationKept ==
    ASSUME DestinationInv, UNCHANGED <<lists, destination, served>>,
           python' = python \/ (python # "between-waypoints" /\ python' # "between-waypoints"),
           lookups = <<>> => lookups' = <<>>
    PROVE  DestinationInv'
  <1>1. lists \in Seq(List) /\ DestinationKnown /\ HalfList /\ ReroutesWhole
    BY DEF DestinationInv
  <1>2. (lists \in Seq(List))'
    BY <1>1
  <1>3. DestinationKnown'
    BY <1>1 DEF DestinationKnown
  <1>4. HalfList'
    BY <1>1 DEF HalfList
  <1>5. ReroutesWhole'
    BY <1>1 DEF ReroutesWhole
  <1> QED
    BY <1>2, <1>3, <1>4, <1>5 DEF DestinationInv

LEMMA Listed ==
    ASSUME NEW l \in List, lists \in Seq(List), lists' = Append(lists, l)
    PROVE  /\ lists' \in Seq(List)
           /\ Len(lists') = Len(lists) + 1
           /\ \A k \in 1..Len(lists) : lists'[k] = lists[k]
           /\ lists'[Len(lists')] = l
           /\ lists' # <<>>
           /\ Len(lists) \in Nat
  <1>1. /\ lists' \in Seq(List)
        /\ Len(lists') = Len(lists) + 1
        /\ \A k \in 1..Len(lists) : lists'[k] = lists[k]
        /\ lists'[Len(lists')] = l
        /\ Len(lists) \in Nat
    OBVIOUS
  <1>2. lists' # <<>>
    BY AppendNotEmpty
  <1> QED
    BY <1>1, <1>2

LEMMA DestinationStep == CallsInv /\ CallsInv' /\ DestinationInv /\ [Next]_vars => DestinationInv'
  <1> SUFFICES ASSUME CallsInv, CallsInv', DestinationInv, [Next]_vars PROVE DestinationInv'
    OBVIOUS
  <1>0. lists \in Seq(List) /\ DestinationKnown /\ HalfList /\ ReroutesWhole
    BY DEF DestinationInv
  <1>1. CASE RequestRoute \/ ClickNavigate \/ RouteReceived
    BY <1>1, DestinationKept DEF RequestRoute, ClickNavigate, RouteReceived, routeVars,
                                 historyVars
  <1>2. CASE FirstWaypoint
    <2>1. /\ calls # <<>> /\ Head(calls).op = "request" /\ served' = Head(calls).request
          /\ python' = "between-waypoints"
          /\ lists' = Append(lists, [points |-> <<Start(served')>>, for |-> served'])
          /\ destination' = Start(served')
      BY <1>2 DEF FirstWaypoint, Serves, NewList
    <2>2. calls \in Seq(Calls) /\ requested \in 0..MaxRequests
      BY DEF CallsInv, CallsTypeOK
    <2>3. 1 \in 1..Len(calls) /\ Head(calls) = calls[1]
      BY <2>1, <2>2, NotEmpty
    <2>4. served' \in 1..requested
      BY <2>1, <2>3 DEF CallsInv, InOrder, Numbered
    <2>5. served' \in 1..MaxRequests /\ served' # 0
      BY <2>2, <2>4
    <2> DEFINE l == [points |-> <<Start(served')>>, for |-> served']
    <2>6. <<Start(served')>> \in Seq(Points)
      BY <2>5, PointTypes
    <2>7. l \in List /\ l.points = <<Start(served')>>
      BY <2>5, <2>6 DEF List
    <2>8. lists' = Append(lists, l)
      BY <2>1
    <2> HIDE DEF l
    <2>9. /\ lists' \in Seq(List)
          /\ Len(lists') = Len(lists) + 1
          /\ \A k \in 1..Len(lists) : lists'[k] = lists[k]
          /\ lists'[Len(lists')] = l
          /\ lists' # <<>>
          /\ Len(lists) \in Nat
      BY <1>0, <2>7, <2>8, Listed
    <2>10. DestinationKnown'
      BY <2>1, <2>5 DEF DestinationKnown
    <2>11. HalfList'
      BY <2>7, <2>9 DEF HalfList
    <2>12. ReroutesWhole'
      <3> SUFFICES ASSUME NEW k \in 1..Len(lists'), lists'[k].points[1] = Position
                   PROVE  lists'[k].points[2] = End(lists'[k].for)
        BY DEF ReroutesWhole
      <3>1. lists'[Len(lists')].points[1] = Start(served')
        BY <2>7, <2>9
      <3>2. k # Len(lists')
        BY <3>1, PointsDiffer
      <3>3. k \in 1..Len(lists) /\ lists'[k] = lists[k]
        BY <2>9, <3>2
      <3> QED
        BY <1>0, <3>3 DEF ReroutesWhole
    <2> QED
      BY <2>9, <2>10, <2>11, <2>12 DEF DestinationInv
  <1>3. CASE SecondWaypoint
    <2>1. /\ python = "between-waypoints" /\ python' = "idle"
          /\ lists' = [lists EXCEPT ![Len(lists)].points = Append(@, End(served))]
          /\ destination' = End(served)
          /\ served' = served
      BY <1>3 DEF SecondWaypoint, historyVars
    <2>2. calls \in Seq(Calls) /\ requested \in 0..MaxRequests
      BY DEF CallsInv, CallsTypeOK
    <2>3. calls # <<>> /\ calls[1].op = "request" /\ calls[1].request = served
      BY <2>1 DEF CallsInv, InOrder, FrontServed
    <2>4. 1 \in 1..Len(calls)
      BY <2>2, <2>3, NotEmpty
    <2>5. served \in 1..requested
      BY <2>3, <2>4 DEF CallsInv, InOrder, Numbered
    <2>6. served \in 1..MaxRequests /\ served # 0
      BY <2>2, <2>5
    <2>7. lists # <<>> /\ lists[Len(lists)].points = <<Start(served)>>
      BY <1>0, <2>1 DEF HalfList
    <2>8. Len(lists) \in Nat /\ Len(lists) # 0
      BY <1>0, <2>7, NotEmpty
    <2>9. Len(lists) \in 1..Len(lists)
      BY <2>8
    <2>10. lists[Len(lists)] \in List
      BY <1>0, <2>9
    <2>11. Start(served) \in Points /\ End(served) \in Points
      BY <2>6, PointTypes
    <2> DEFINE points == Append(<<Start(served)>>, End(served))
    <2>12. points \in Seq(Points) /\ points[1] = Start(served)
      BY <2>11
    <2> HIDE DEF points
    <2> DEFINE l == [lists[Len(lists)] EXCEPT !.points = points]
    <2>13. l \in List /\ l.points = points
      BY <2>10, <2>12 DEF List
    <2>14. lists' = [lists EXCEPT ![Len(lists)] = l]
      BY <2>1, <2>7 DEF points
    <2> HIDE DEF l
    <2>15. /\ lists' \in Seq(List) /\ Len(lists') = Len(lists)
           /\ \A k \in 1..Len(lists) : k # Len(lists) => lists'[k] = lists[k]
           /\ lists'[Len(lists)] = l
      BY <1>0, <2>9, <2>13, <2>14
    <2>16. DestinationKnown'
      BY <2>1, <2>6 DEF DestinationKnown
    <2>17. HalfList'
      BY <2>1 DEF HalfList
    <2>18. ReroutesWhole'
      <3> SUFFICES ASSUME NEW k \in 1..Len(lists'), lists'[k].points[1] = Position
                   PROVE  lists'[k].points[2] = End(lists'[k].for)
        BY DEF ReroutesWhole
      <3>1. lists'[Len(lists)].points[1] = Start(served)
        BY <2>12, <2>13, <2>15
      <3>2. k # Len(lists)
        BY <3>1, PointsDiffer
      <3>3. k \in 1..Len(lists) /\ lists'[k] = lists[k]
        BY <2>15, <3>2
      <3> QED
        BY <1>0, <3>3 DEF ReroutesWhole
    <2> QED
      BY <2>15, <2>16, <2>17, <2>18 DEF DestinationInv
  <1>4. CASE StartNavigation \/ StopNavigation \/ Restart
    <2>1. UNCHANGED <<lists, destination, served, lookups>>
      BY <1>4 DEF StartNavigation, StopNavigation, Restart, routeVars, historyVars
    <2>2. python' = python \/ (python # "between-waypoints" /\ python' # "between-waypoints")
      BY <1>4 DEF StartNavigation, StopNavigation, Restart
    <2> QED
      BY <2>1, <2>2, DestinationKept
  <1>5. CASE Reroute
    <2>1. /\ python = "idle" /\ python' = "rerouting" /\ destination # NoPoint
          /\ lists' = Append(lists, [points |-> <<Position, destination>>, for |-> served'])
          /\ destination' = destination /\ served' = served
      BY <1>5 DEF Reroute, NewList
    <2>2. served # 0
      BY <1>0, <2>1 DEF DestinationKnown
    <2>3. destination = End(served)
      BY <1>0, <2>1, <2>2 DEF DestinationKnown
    <2>4. served \in 0..MaxRequests
      BY DEF CallsInv, CallsTypeOK
    <2>5. served \in 1..MaxRequests
      BY <2>2, <2>4
    <2> DEFINE l == [points |-> <<Position, End(served)>>, for |-> served]
    <2>6. <<Position, End(served)>> \in Seq(Points)
      BY <2>5, PointTypes
    <2>7. l \in List /\ l.points[2] = End(l.for)
      BY <2>5, <2>6 DEF List
    <2>8. lists' = Append(lists, l)
      BY <2>1, <2>3
    <2> HIDE DEF l
    <2>9. /\ lists' \in Seq(List)
          /\ Len(lists') = Len(lists) + 1
          /\ \A k \in 1..Len(lists) : lists'[k] = lists[k]
          /\ lists'[Len(lists')] = l
          /\ Len(lists) \in Nat
      BY <1>0, <2>7, <2>8, Listed
    <2>10. DestinationKnown'
      BY <2>1, <2>2, <2>3 DEF DestinationKnown
    <2>11. HalfList'
      BY <2>1 DEF HalfList
    <2>12. ReroutesWhole'
      <3> SUFFICES ASSUME NEW k \in 1..Len(lists'), lists'[k].points[1] = Position
                   PROVE  lists'[k].points[2] = End(lists'[k].for)
        BY DEF ReroutesWhole
      <3>1. CASE k = Len(lists')
        BY <2>7, <2>9, <3>1
      <3>2. CASE k # Len(lists')
        <4>1. k \in 1..Len(lists) /\ lists'[k] = lists[k]
          BY <2>9, <3>2
        <4> QED
          BY <1>0, <4>1 DEF ReroutesWhole
      <3> QED
        BY <3>1, <3>2
    <2> QED
      BY <2>9, <2>10, <2>11, <2>12 DEF DestinationInv
  <1>6. ASSUME NEW n \in DOMAIN lookups,
               Save(n) \/ Refused(n) \/ Failed(n) \/ Send(n) \/ Notify(n)
        PROVE  DestinationInv'
    <2>1. lookups # <<>>
      <3> SUFFICES ASSUME lookups = <<>> PROVE FALSE
        OBVIOUS
      <3>1. DOMAIN lookups = {}
        OBVIOUS
      <3> QED
        BY <3>1
    <2>2. served # 0
      BY <1>0, <2>1 DEF DestinationKnown
    <2>3. destination # NoPoint
      BY <1>0, <2>2, PointsDiffer DEF DestinationKnown
    <2>4. UNCHANGED <<lists, destination, served, python>>
      BY <1>6, <2>3 DEF Save, Refused, Failed, Send, Notify, routeVars, historyVars
    <2> QED
      BY <2>1, <2>4, DestinationKept
  <1>7. CASE UNCHANGED vars
    BY <1>7, DestinationKept DEF vars, routeVars, historyVars
  <1> QED
    BY <1>1, <1>2, <1>3, <1>4, <1>5, <1>6, <1>7 DEF Next, PythonStep, Deliver

-----------------------------------------------------------------------------
(* The look-ups and their answers.                                         *)

States == {"searching", "saved", "refused", "ended"}

Lookup == [list : 1..Len(lists), state : States]

RouteTypes ==
    /\ lists \in Seq(List)
    /\ lookups \in Seq(Lookup)
    /\ events \in Seq(1..Len(lookups))
    /\ owed \subseteq 1..Len(lookups)
    /\ shown \in 0..Len(lists) /\ directions \in 0..Len(lists) /\ route \in 0..Len(lists)
    /\ navigating \in BOOLEAN /\ interleaved \in BOOLEAN

NoneSaved == \A n \in 1..Len(lookups) : lookups[n].state # "saved"

\* All answers that are stored but not sent are to the list stored last, ...
SavedLast ==
    \A n \in 1..Len(lookups) : lookups[n].state = "saved" => lookups[n].list = directions

\* ... so that the last route sent is on that list, ...
SentLast ==
    NoneSaved /\ events # <<>> => lookups[events[Len(events)]].list = directions

\* ... and the last one that came.
ShownLast == NoneSaved /\ events = <<>> => shown = directions

AnswersInv == ~interleaved => SavedLast /\ SentLast /\ ShownLast

LEMMA SeqWider ==
    ASSUME NEW S, NEW T, S \subseteq T, NEW s \in Seq(S)
    PROVE  s \in Seq(T)
  OBVIOUS

LEMMA RoutesInit == Init => RouteTypes /\ AnswersInv
  <1> SUFFICES ASSUME Init PROVE RouteTypes /\ AnswersInv
    OBVIOUS
  <1>1. /\ lists = <<>> /\ lookups = <<>> /\ events = <<>> /\ owed = {}
        /\ shown = 0 /\ directions = 0 /\ route = 0
        /\ navigating = FALSE /\ interleaved = FALSE
    BY DEF Init, NoRoute
  <1>2. Len(lists) = 0 /\ Len(lookups) = 0 /\ 0 \in 0..0 /\ 1..0 = {}
    BY <1>1
  <1>3. lists \in Seq(List) /\ lookups \in Seq(Lookup) /\ events \in Seq(1..Len(lookups))
    BY <1>1
  <1>4. RouteTypes
    BY <1>1, <1>2, <1>3 DEF RouteTypes
  <1>5. SavedLast /\ SentLast /\ ShownLast
    BY <1>1, <1>2 DEF SavedLast, SentLast, ShownLast
  <1> QED
    BY <1>4, <1>5 DEF AnswersInv

\* The list of way points never gets shorter.
LEMMA ListsGrow ==
    ASSUME DestinationInv, CallsInv, [Next]_vars
    PROVE  Len(lists) \in Nat /\ (Len(lists') = Len(lists) \/ Len(lists') = Len(lists) + 1)
  <1>1. lists \in Seq(List)
    BY DEF DestinationInv
  <1>2. Len(lists) \in Nat
    BY <1>1
  <1>3. ASSUME NEW l, lists' = Append(lists, l)
        PROVE  Len(lists') = Len(lists) + 1
    BY <1>1, <1>3
  <1>4. CASE FirstWaypoint \/ Reroute
    BY <1>2, <1>3, <1>4 DEF FirstWaypoint, Reroute, NewList
  <1>5. CASE SecondWaypoint
    BY <1>1, <1>2, <1>5 DEF SecondWaypoint
  <1>6. CASE lists' = lists
    BY <1>2, <1>6
  <1>7. lists' = lists \/ FirstWaypoint \/ Reroute \/ SecondWaypoint
    BY DEF Next, RequestRoute, ClickNavigate, RouteReceived, PythonStep, StartNavigation,
           StopNavigation, Restart, Save, Refused, Failed, Deliver, Send, Notify, routeVars, vars
  <1> QED
    BY <1>4, <1>5, <1>6, <1>7

\* A thread begins to look for a route.
LEMMA LookupBegun ==
    ASSUME RouteTypes, (lists \in Seq(List))',
           Len(lists') = Len(lists) \/ Len(lists') = Len(lists) + 1,
           NEW l \in 1..Len(lists'), LookUp(l),
           UNCHANGED <<events, owed, shown, directions, route, navigating, interleaved>>
    PROVE  /\ RouteTypes'
           /\ Len(lookups) \in Nat /\ Len(lookups') = Len(lookups) + 1
           /\ \A n \in 1..Len(lookups) : lookups'[n] = lookups[n]
           /\ lookups'[Len(lookups')].state = "searching"
  <1>1. Len(lists) \in Nat /\ 1..Len(lists) \subseteq 1..Len(lists')
                          /\ 0..Len(lists) \subseteq 0..Len(lists')
    BY DEF RouteTypes
  <1> DEFINE new == [list |-> l, state |-> "searching"]
  <1>2. Lookup \subseteq Lookup' /\ new \in Lookup' /\ new.state = "searching"
    BY <1>1 DEF Lookup, States
  <1>3. lookups \in Seq(Lookup')
    BY <1>2 DEF RouteTypes
  <1>4. lookups' = Append(lookups, new)
    BY DEF LookUp
  <1> HIDE DEF new
  <1>5. /\ lookups' \in Seq(Lookup')
        /\ Len(lookups) \in Nat /\ Len(lookups') = Len(lookups) + 1
        /\ \A n \in 1..Len(lookups) : lookups'[n] = lookups[n]
        /\ lookups'[Len(lookups')] = new
    BY <1>2, <1>3, <1>4
  <1>6. 1..Len(lookups) \subseteq 1..Len(lookups')
    BY <1>5
  <1>7. events' \in Seq(1..Len(lookups')) /\ owed' \subseteq 1..Len(lookups')
    <2>1. events \in Seq(1..Len(lookups')) /\ owed \subseteq 1..Len(lookups')
      BY <1>6, SeqWider DEF RouteTypes
    <2> QED
      BY <2>1
  <1>8. RouteTypes'
    BY <1>1, <1>5, <1>7 DEF RouteTypes
  <1> QED
    BY <1>2, <1>5, <1>8

\* A look-up goes on.
LEMMA LookupMoved ==
    ASSUME RouteTypes, lists' = lists, NEW n \in 1..Len(lookups), NEW s \in States, Goto(n, s)
    PROVE  /\ (lookups \in Seq(Lookup))'
           /\ Len(lookups') = Len(lookups)
           /\ \A m \in 1..Len(lookups) : m # n => lookups'[m] = lookups[m]
           /\ lookups'[n].list = lookups[n].list /\ lookups'[n].state = s
           /\ \A m \in 1..Len(lookups) : lookups[m].list \in 1..Len(lists)
  <1>1. lookups \in Seq(Lookup) /\ Lookup' = Lookup
    BY DEF RouteTypes, Lookup
  <1>2. lookups[n] \in Lookup
    BY <1>1
  <1> DEFINE moved == [lookups[n] EXCEPT !.state = s]
  <1>3. moved \in Lookup /\ moved.list = lookups[n].list /\ moved.state = s
    BY <1>2 DEF Lookup
  <1>4. lookups' = [lookups EXCEPT ![n] = moved]
    BY DEF Goto
  <1> HIDE DEF moved
  <1>5. /\ lookups' \in Seq(Lookup) /\ Len(lookups') = Len(lookups)
        /\ \A m \in 1..Len(lookups) : m # n => lookups'[m] = lookups[m]
        /\ lookups'[n] = moved
    BY <1>1, <1>3, <1>4
  <1>6. \A m \in 1..Len(lookups) : lookups[m].list \in 1..Len(lists)
    <2>1. \A m \in 1..Len(lookups) : lookups[m] \in Lookup
      BY <1>1
    <2> QED
      BY <2>1 DEF Lookup
  <1> QED
    BY <1>1, <1>3, <1>5, <1>6

\* The route that comes is one that was looked up.
LEMMA Received ==
    ASSUME RouteTypes, events # <<>>, events' = Tail(events)
    PROVE  /\ events' \in Seq(1..Len(lookups))
           /\ Head(events) = events[1] /\ Head(events) \in 1..Len(lookups)
           /\ lookups[Head(events)].list \in 1..Len(lists)
           /\ events' # <<>> => /\ events'[Len(events')] = events[Len(events)]
           /\ events' = <<>> => Len(events) = 1
  <1>1. events \in Seq(1..Len(lookups))
    BY DEF RouteTypes
  <1>2. 1 \in 1..Len(events) /\ Head(events) = events[1] /\ Len(events) \in Nat \ {0}
    BY <1>1, NotEmpty
  <1>3. /\ events' \in Seq(1..Len(lookups)) /\ Len(events') = Len(events) - 1
        /\ \A i \in 1..Len(events') : events'[i] = events[i + 1]
    BY <1>1, <1>2
  <1>4. Head(events) \in 1..Len(lookups)
    BY <1>1, <1>2
  <1>5. lookups[Head(events)] \in Lookup
    BY <1>4 DEF RouteTypes
  <1>6. lookups[Head(events)].list \in 1..Len(lists)
    BY <1>5 DEF Lookup
  <1>7. events' = <<>> => Len(events') = 0
    OBVIOUS
  <1>8. events' # <<>> => Len(events') \in 1..Len(events')
    BY <1>3, NotEmpty
  <1>9. Len(events') + 1 = Len(events)
    BY <1>2, <1>3
  <1> QED
    BY <1>2, <1>3, <1>4, <1>6, <1>7, <1>8, <1>9

LEMMA RouteTypesStep ==
    ASSUME CallsInv, DestinationInv, DestinationInv', RouteTypes, [Next]_vars
    PROVE  RouteTypes'
  <1>1. (lists \in Seq(List))'
    BY DEF DestinationInv
  <1>2. Len(lists) \in Nat /\ (Len(lists') = Len(lists) \/ Len(lists') = Len(lists) + 1)
    BY ListsGrow
  <1>3. ASSUME UNCHANGED <<lists, lookups, events, owed, interleaved>>,
               shown' = shown, navigating' \in BOOLEAN, directions' = directions,
               route' \in {route, directions, NoRoute}
        PROVE  RouteTypes'
    BY <1>1, <1>2, <1>3 DEF RouteTypes, Lookup, NoRoute
  <1>4. CASE RequestRoute \/ ClickNavigate
    BY <1>3, <1>4 DEF RequestRoute, ClickNavigate, routeVars, historyVars, RouteTypes
  <1>5. CASE RouteReceived
    <2>1. /\ shown' = lookups[Head(events)].list
          /\ owed' \subseteq owed
          /\ events # <<>> /\ events' = Tail(events)
          /\ UNCHANGED <<navigating, lists, directions, lookups, route, interleaved>>
      BY <1>5 DEF RouteReceived, routeVars
    <2>2. /\ events' \in Seq(1..Len(lookups))
          /\ lookups[Head(events)].list \in 1..Len(lists)
      BY <2>1, Received
    <2>3. lookups' \in Seq(Lookup') /\ Len(lookups') = Len(lookups)
      BY <2>1 DEF RouteTypes, Lookup
    <2>4. shown' \in 0..Len(lists)
      BY <1>2, <2>1, <2>2
    <2> QED
      BY <1>2, <2>1, <2>2, <2>3, <2>4 DEF RouteTypes
  <1>6. CASE FirstWaypoint \/ Reroute
    <2>1. /\ LookUp(Len(lists')) /\ \E l : lists' = Append(lists, l)
          /\ UNCHANGED <<events, owed, shown, directions, route, navigating, interleaved>>
      BY <1>6 DEF FirstWaypoint, Reroute, NewList, pageVars, queueVars
    <2>2. Len(lists') \in 1..Len(lists')
      BY <1>2, <2>1 DEF RouteTypes
    <2> QED
      BY <1>1, <1>2, <2>1, <2>2, LookupBegun
  <1>7. CASE SecondWaypoint
    <2>1. /\ LookUp(Len(lists)) /\ python = "between-waypoints"
          /\ lists' = [lists EXCEPT ![Len(lists)].points = Append(@, End(served))]
          /\ UNCHANGED <<events, owed, shown, directions, route, navigating, interleaved>>
      BY <1>7 DEF SecondWaypoint, pageVars, historyVars
    <2>2. lists # <<>>
      BY <2>1 DEF DestinationInv, HalfList
    <2>3. Len(lists) \in 1..Len(lists) /\ Len(lists') = Len(lists)
      BY <2>1, <2>2 DEF RouteTypes
    <2> QED
      BY <1>1, <1>2, <2>1, <2>3, LookupBegun
  <1>8. CASE StartNavigation \/ StopNavigation \/ Restart
    BY <1>3, <1>8 DEF StartNavigation, StopNavigation, Restart, pageVars, queueVars, routeVars,
                      historyVars, RouteTypes
  <1>9. ASSUME NEW n \in DOMAIN lookups,
               Save(n) \/ Refused(n) \/ Failed(n) \/ Send(n) \/ Notify(n)
        PROVE  RouteTypes'
    <2>1. n \in 1..Len(lookups)
      BY DEF RouteTypes
    <2>2. PICK s \in States : Goto(n, s)
      BY <1>9 DEF Save, Refused, Failed, Send, Notify, States
    <2>3. lists' = lists
      BY <1>9 DEF Save, Refused, Failed, Send, Notify, routeVars
    <2>4. /\ (lookups \in Seq(Lookup))' /\ Len(lookups') = Len(lookups)
          /\ lookups[n].list \in 1..Len(lists)
      BY <2>1, <2>2, <2>3, LookupMoved
    <2>5. events' = events \/ events' = Append(events, n)
      BY <1>9 DEF Save, Refused, Failed, Send, Notify, queueVars
    <2>6. events' \in Seq(1..Len(lookups))
      BY <2>1, <2>5 DEF RouteTypes
    <2>7. owed' \subseteq 1..Len(lookups)
      BY <1>9, <2>1 DEF Save, Refused, Failed, Send, Notify, historyVars, RouteTypes
    <2>8. directions' \in {directions, lookups[n].list}
      BY <1>9 DEF Save, Refused, Failed, Send, Notify, routeVars
    <2>9. directions' \in 0..Len(lists)
      BY <1>2, <2>4, <2>8 DEF RouteTypes
    <2>10. UNCHANGED <<shown, navigating, route>> /\ interleaved' \in BOOLEAN
      BY <1>9 DEF Save, Refused, Failed, Send, Notify, pageVars, historyVars, RouteTypes
    <2> QED
      BY <1>1, <2>3, <2>4, <2>6, <2>7, <2>9, <2>10 DEF RouteTypes
  <1>10. CASE UNCHANGED vars
    BY <1>3, <1>10 DEF vars, pageVars, queueVars, routeVars, historyVars, RouteTypes
  <1> QED
    BY <1>4, <1>5, <1>6, <1>7, <1>8, <1>9, <1>10 DEF Next, PythonStep, Deliver

\* Whatever leaves the stored answers, the routes sent and the route shown.
LEMMA AnswersKept ==
    ASSUME RouteTypes, AnswersInv,
           UNCHANGED <<events, shown, directions, interleaved>>,
           Len(lookups') \in Nat, Len(lookups) <= Len(lookups'),
           \A n \in 1..Len(lookups) :
               /\ lookups'[n].list = lookups[n].list
               /\ lookups'[n].state = "saved" <=> lookups[n].state = "saved",
           \A n \in 1..Len(lookups') : n > Len(lookups) => lookups'[n].state # "saved"
    PROVE  AnswersInv'
  <1>0. Len(lookups) \in Nat /\ events \in Seq(1..Len(lookups))
    BY DEF RouteTypes
  <1>1. \A n \in 1..Len(lookups') :
            lookups'[n].state = "saved" => n \in 1..Len(lookups) /\ lookups[n].state = "saved"
    BY <1>0
  <1>2. NoneSaved' <=> NoneSaved
    <2>1. NoneSaved => NoneSaved'
      BY <1>1 DEF NoneSaved
    <2>2. NoneSaved' => NoneSaved
      BY <1>0 DEF NoneSaved
    <2> QED
      BY <2>1, <2>2
  <1>3. events # <<>> => events[Len(events)] \in 1..Len(lookups)
    <2> SUFFICES ASSUME events # <<>> PROVE events[Len(events)] \in 1..Len(lookups)
      OBVIOUS
    <2>1. Len(events) \in 1..Len(events)
      BY <1>0, NotEmpty
    <2> QED
      BY <1>0, <2>1
  <1>4. SavedLast => SavedLast'
    BY <1>1 DEF SavedLast
  <1>5. SentLast => SentLast'
    BY <1>2, <1>3 DEF SentLast
  <1>6. ShownLast => ShownLast'
    BY <1>2 DEF ShownLast
  <1> QED
    BY <1>4, <1>5, <1>6 DEF AnswersInv

LEMMA AnswersStep ==
    ASSUME CallsInv, DestinationInv, DestinationInv', RouteTypes, AnswersInv, [Next]_vars
    PROVE  AnswersInv'
  <1>0. Len(lookups) \in Nat /\ events \in Seq(1..Len(lookups))
    BY DEF RouteTypes
  <1>1. CASE RequestRoute \/ ClickNavigate \/ StartNavigation \/ StopNavigation \/ Restart
             \/ UNCHANGED vars
    <2>1. UNCHANGED <<lookups, events, shown, directions, interleaved>>
      BY <1>1 DEF RequestRoute, ClickNavigate, StartNavigation, StopNavigation, Restart,
                  pageVars, queueVars, routeVars, historyVars, vars
    <2> QED
      BY <1>0, <2>1, AnswersKept
  <1>2. CASE FirstWaypoint \/ SecondWaypoint \/ Reroute
    <2>1. /\ \E l : LookUp(l)
          /\ UNCHANGED <<events, shown, directions, interleaved>>
      BY <1>2 DEF FirstWaypoint, SecondWaypoint, Reroute, pageVars, queueVars, historyVars
    <2>2. PICK l : lookups' = Append(lookups, [list |-> l, state |-> "searching"])
      BY <2>1 DEF LookUp
    <2>3. /\ Len(lookups') = Len(lookups) + 1
          /\ \A n \in 1..Len(lookups) : lookups'[n] = lookups[n]
          /\ lookups'[Len(lookups) + 1].state = "searching"
      BY <2>2 DEF RouteTypes
    <2>4. \A n \in 1..Len(lookups') : n > Len(lookups) => lookups'[n].state # "saved"
      BY <1>0, <2>3
    <2> QED
      BY <1>0, <2>1, <2>3, <2>4, AnswersKept
  <1>3. CASE RouteReceived
    <2>1. /\ shown' = lookups[Head(events)].list
          /\ events # <<>> /\ events' = Tail(events)
          /\ UNCHANGED <<directions, lookups, interleaved>>
      BY <1>3 DEF RouteReceived, routeVars
    <2>2. /\ Head(events) = events[1]
          /\ events' # <<>> => events'[Len(events')] = events[Len(events)]
          /\ events' = <<>> => Len(events) = 1
      BY <2>1, Received
    <2>3. SavedLast => SavedLast'
      BY <2>1 DEF SavedLast
    <2>4. SentLast => SentLast'
      BY <2>1, <2>2 DEF SentLast, NoneSaved
    <2>5. SentLast => ShownLast'
      BY <2>1, <2>2 DEF SentLast, ShownLast, NoneSaved
    <2> QED
      BY <2>1, <2>3, <2>4, <2>5 DEF AnswersInv
  <1>4. ASSUME NEW n \in DOMAIN lookups, Refused(n) \/ Failed(n) \/ Notify(n)
        PROVE  AnswersInv'
    <2>1. n \in 1..Len(lookups)
      BY DEF RouteTypes
    <2>2. PICK s \in {"refused", "ended"} : Goto(n, s)
      BY <1>4 DEF Refused, Failed, Notify
    <2>3. /\ lists' = lists /\ lookups[n].state # "saved"
          /\ UNCHANGED <<events, shown, directions, interleaved>>
      BY <1>4 DEF Refused, Failed, Notify, In, pageVars, queueVars, routeVars, historyVars
    <2>4. /\ Len(lookups') = Len(lookups)
          /\ \A m \in 1..Len(lookups) : m # n => lookups'[m] = lookups[m]
          /\ lookups'[n].list = lookups[n].list /\ lookups'[n].state = s
      BY <2>1, <2>2, <2>3, LookupMoved DEF States
    <2>5. \A m \in 1..Len(lookups) :
              /\ lookups'[m].list = lookups[m].list
              /\ lookups'[m].state = "saved" <=> lookups[m].state = "saved"
      BY <2>2, <2>3, <2>4
    <2> QED
      BY <1>0, <2>3, <2>4, <2>5, AnswersKept
  <1>5. ASSUME NEW n \in DOMAIN lookups, Save(n)
        PROVE  AnswersInv'
    <2>1. n \in 1..Len(lookups) /\ Goto(n, "saved") /\ lists' = lists
      BY <1>5 DEF Save, RouteTypes
    <2>2. /\ Len(lookups') = Len(lookups)
          /\ \A m \in 1..Len(lookups) : m # n => lookups'[m] = lookups[m]
          /\ lookups'[n].list = lookups[n].list /\ lookups'[n].state = "saved"
      BY <2>1, LookupMoved DEF States
    <2>3. ~NoneSaved'
      BY <2>1, <2>2 DEF NoneSaved
    <2>4. ASSUME ~interleaved', NEW m \in 1..Len(lookups'), lookups'[m].state = "saved"
          PROVE  lookups'[m].list = directions'
      <3>1. directions' = lookups[n].list
        BY <1>5 DEF Save
      <3>2. CASE m = n
        BY <2>2, <3>1, <3>2
      <3>3. CASE m # n
        <4>1. m \in DOMAIN lookups /\ In(m, "saved") /\ lookups'[m] = lookups[m]
          BY <2>2, <2>4, <3>3 DEF In, RouteTypes
        <4>2. lookups[m].list = lookups[n].list
          BY <1>5, <2>4, <4>1 DEF Save
        <4> QED
          BY <3>1, <4>1, <4>2
      <3> QED
        BY <3>2, <3>3
    <2>5. ~interleaved' => SavedLast'
      BY <2>4 DEF SavedLast
    <2> QED
      BY <2>3, <2>5 DEF AnswersInv, SentLast, ShownLast
  <1>6. ASSUME NEW n \in DOMAIN lookups, Send(n)
        PROVE  AnswersInv'
    <2>1. /\ n \in 1..Len(lookups) /\ Goto(n, "ended") /\ lists' = lists
          /\ lookups[n].state = "saved" /\ events' = Append(events, n)
          /\ UNCHANGED <<directions, interleaved>>
      BY <1>6 DEF Send, RouteTypes, In, historyVars
    <2>2. /\ Len(lookups') = Len(lookups)
          /\ \A m \in 1..Len(lookups) : m # n => lookups'[m] = lookups[m]
          /\ lookups'[n].list = lookups[n].list /\ lookups'[n].state = "ended"
      BY <2>1, LookupMoved DEF States
    <2>3. events' # <<>> /\ events'[Len(events')] = n
      BY <1>0, <2>1, AppendNotEmpty
    <2>4. ASSUME SavedLast PROVE SavedLast' /\ SentLast'
      <3>1. SavedLast'
        BY <2>1, <2>2, <2>4 DEF SavedLast
      <3>2. lookups[n].list = directions
        BY <2>1, <2>4 DEF SavedLast
      <3> QED
        BY <2>1, <2>2, <2>3, <3>1, <3>2 DEF SentLast
    <2> QED
      BY <2>1, <2>3, <2>4 DEF AnswersInv, ShownLast
  <1> QED
    BY <1>1, <1>2, <1>3, <1>4, <1>5, <1>6 DEF Next, PythonStep, Deliver

-----------------------------------------------------------------------------
(* Navigation.                                                             *)

\* The last call about navigation on its way is the one the page wants, ...
LastCallTells ==
    \A i \in 1..Len(calls) :
        /\ calls[i].op # "request"
        /\ \A j \in 1..Len(calls) : i < j => calls[j].op = "request"
        => (calls[i].op = "start" <=> navigating)

\* ... and when there is none, navigation does as the page says.
Quiet == \A i \in 1..Len(calls) : calls[i].op = "request"

StopsQuietly == Quiet /\ ~navigating => route = NoRoute

RunsQuietly == Quiet /\ navigating /\ NoneSaved /\ events = <<>> => route = directions

Rerouting == python = "rerouting" => route # NoRoute

NavigationInv == LastCallTells /\ StopsQuietly /\ RunsQuietly /\ Rerouting

LEMMA NavigationInit == Init => NavigationInv
  BY DEF Init, NavigationInv, LastCallTells, StopsQuietly, RunsQuietly, Rerouting

\* The page calls for navigation, or ends it.
LEMMA NavigationCalled ==
    ASSUME CallsInv, NavigationInv, NEW op \in {"start", "stop"},
           calls' = Append(calls, Call(op, 0)), op = "start" <=> navigating',
           UNCHANGED <<python, route>>
    PROVE  NavigationInv'
  <1>1. Call(op, 0) \in Calls /\ Call(op, 0).op = op
    BY CallType DEF CallsInv, CallsTypeOK
  <1>2. /\ Len(calls') = Len(calls) + 1 /\ Len(calls) \in Nat
        /\ calls'[Len(calls) + 1] = Call(op, 0)
    BY <1>1, Appended DEF CallsInv, CallsTypeOK
  <1>3. Len(calls) + 1 \in 1..Len(calls')
    BY <1>2
  <1>4. ~Quiet'
    BY <1>1, <1>2, <1>3 DEF Quiet
  <1>5. LastCallTells'
    <2> SUFFICES ASSUME NEW i \in 1..Len(calls'), i # Len(calls) + 1,
                        \A j \in 1..Len(calls') : i < j => calls'[j].op = "request"
                 PROVE  FALSE
      BY <1>1, <1>2 DEF LastCallTells
    <2>1. i < Len(calls) + 1
      BY <1>2
    <2> QED
      BY <1>1, <1>2, <1>3, <2>1
  <1> QED
    BY <1>4, <1>5 DEF NavigationInv, StopsQuietly, RunsQuietly, Rerouting

\* The first call is served.
LEMMA NavigationServed ==
    ASSUME CallsInv, NavigationInv, calls # <<>>, calls' = Tail(calls),
           navigating' = navigating
    PROVE  /\ LastCallTells'
           /\ Quiet' => \/ Head(calls).op = "request" /\ Quiet
                        \/ Head(calls).op # "request" /\ (Head(calls).op = "start" <=> navigating)
  <1>1. calls \in Seq(Calls)
    BY DEF CallsInv, CallsTypeOK
  <1>2. /\ Len(calls') = Len(calls) - 1 /\ Len(calls) \in Nat \ {0}
        /\ \A i \in 1..Len(calls') : calls'[i] = calls[i + 1]
    BY <1>1, TookFirst
  <1>3. 1 \in 1..Len(calls) /\ Head(calls) = calls[1]
    BY <1>1, NotEmpty
  <1>4. \A j \in 1..Len(calls) : j > 1 => j - 1 \in 1..Len(calls') /\ calls[j] = calls'[j - 1]
    BY <1>2
  <1>5. LastCallTells'
    <2> SUFFICES ASSUME NEW i \in 1..Len(calls'), calls'[i].op # "request",
                        \A j \in 1..Len(calls') : i < j => calls'[j].op = "request"
                 PROVE  calls'[i].op = "start" <=> navigating
      BY DEF LastCallTells
    <2>1. i + 1 \in 1..Len(calls) /\ calls'[i] = calls[i + 1]
      BY <1>2
    <2>2. \A j \in 1..Len(calls) : i + 1 < j => calls[j].op = "request"
      <3> SUFFICES ASSUME NEW j \in 1..Len(calls), i + 1 < j PROVE calls[j].op = "request"
        OBVIOUS
      <3>1. j > 1 /\ i < j - 1
        BY <1>2
      <3> QED
        BY <1>4, <3>1
    <2> QED
      BY <2>1, <2>2 DEF NavigationInv, LastCallTells
  <1>6. ASSUME Quiet' PROVE \A j \in 1..Len(calls) : 1 < j => calls[j].op = "request"
    BY <1>4, <1>6 DEF Quiet
  <1>7. \A j \in 1..Len(calls) : j = 1 \/ 1 < j
    BY <1>2
  <1>8. ASSUME Quiet', calls[1].op = "request" PROVE Quiet
    BY <1>6, <1>7, <1>8 DEF Quiet
  <1>9. ASSUME Quiet', calls[1].op # "request" PROVE calls[1].op = "start" <=> navigating
    BY <1>3, <1>6, <1>9 DEF NavigationInv, LastCallTells
  <1> QED
    BY <1>3, <1>5, <1>8, <1>9

\* Steps in which neither a call nor a route comes.
LEMMA NavigationKept ==
    ASSUME NavigationInv, UNCHANGED <<calls, navigating, route>>,
           python' = "rerouting" => route # NoRoute,
           NoneSaved' /\ events' = <<>> => NoneSaved /\ events = <<>> /\ directions' = directions
    PROVE  NavigationInv'
  <1>1. LastCallTells' /\ (Quiet' <=> Quiet)
    BY DEF NavigationInv, LastCallTells, Quiet
  <1> QED
    BY <1>1 DEF NavigationInv, StopsQuietly, RunsQuietly, Rerouting

LEMMA NavigationStep ==
    ASSUME CallsInv, DestinationInv, DestinationInv', RouteTypes, NavigationInv, [Next]_vars
    PROVE  NavigationInv'
  <1>0. Len(lookups) \in Nat /\ navigating \in BOOLEAN /\ Rerouting
    BY DEF RouteTypes, NavigationInv
  <1>1. CASE RequestRoute
    <2>1. /\ calls' = Append(calls, Call("request", requested + 1))
          /\ UNCHANGED <<navigating, route, python, events, lookups, directions>>
          /\ requested + 1 \in 0..MaxRequests
      BY <1>1 DEF RequestRoute, routeVars, CallsInv, CallsTypeOK
    <2>2. Call("request", requested + 1) \in Calls /\ Call("request", requested + 1).op = "request"
      BY <2>1, CallType
    <2>3. /\ Len(calls') = Len(calls) + 1 /\ Len(calls) \in Nat
          /\ \A i \in 1..Len(calls) : calls'[i] = calls[i]
          /\ calls'[Len(calls) + 1].op = "request"
      BY <2>1, <2>2, Appended DEF CallsInv, CallsTypeOK
    <2>4. Quiet' => Quiet
      BY <2>3 DEF Quiet
    <2>5. LastCallTells'
      <3> SUFFICES ASSUME NEW i \in 1..Len(calls'), calls'[i].op # "request",
                          \A j \in 1..Len(calls') : i < j => calls'[j].op = "request"
                   PROVE  calls'[i].op = "start" <=> navigating
        BY <2>1 DEF LastCallTells
      <3>1. i \in 1..Len(calls) /\ calls'[i] = calls[i]
        BY <2>3
      <3>2. \A j \in 1..Len(calls) : i < j => calls[j].op = "request"
        BY <2>3
      <3> QED
        BY <3>1, <3>2 DEF NavigationInv, LastCallTells
    <2> QED
      BY <2>1, <2>4, <2>5 DEF NavigationInv, StopsQuietly, RunsQuietly, Rerouting, NoneSaved
  <1>2. CASE ClickNavigate
    <2>1. /\ calls' = Append(calls, Call(IF navigating THEN "stop" ELSE "start", 0))
          /\ navigating' = ~navigating
          /\ UNCHANGED <<python, route>>
      BY <1>2 DEF ClickNavigate
    <2> QED
      BY <1>0, <2>1, NavigationCalled
  <1>3. CASE RouteReceived /\ navigating
    <2>1. /\ calls' = Append(calls, Call("start", 0))
          /\ navigating'
          /\ UNCHANGED <<python, route>>
      BY <1>3 DEF RouteReceived
    <2> QED
      BY <2>1, NavigationCalled
  <1>4. CASE RouteReceived /\ ~navigating
    <2>1. UNCHANGED <<calls, navigating, python, route>>
      BY <1>4 DEF RouteReceived
    <2> QED
      BY <1>4, <2>1
      DEF NavigationInv, LastCallTells, Quiet, StopsQuietly, RunsQuietly, Rerouting
  <1>5. CASE FirstWaypoint \/ Reroute
    <2>1. /\ \E l : LookUp(l)
          /\ UNCHANGED <<calls, navigating, route, events, directions>>
          /\ python' = "rerouting" => route # NoRoute
      BY <1>5 DEF FirstWaypoint, Reroute, pageVars, queueVars
    <2>2. NoneSaved' => NoneSaved
      BY <1>0, <2>1 DEF LookUp, NoneSaved, RouteTypes
    <2> QED
      BY <2>1, <2>2, NavigationKept
  <1>6. CASE SecondWaypoint
    <2>1. /\ python = "between-waypoints" /\ python' = "idle"
          /\ LookUp(Len(lists)) /\ calls' = Tail(calls)
          /\ UNCHANGED <<navigating, route, events, directions>>
      BY <1>6 DEF SecondWaypoint, pageVars
    <2>2. calls # <<>> /\ Head(calls).op = "request"
      <3>1. calls # <<>> /\ calls[1].op = "request" /\ calls \in Seq(Calls)
        BY <2>1 DEF CallsInv, CallsTypeOK, InOrder, FrontServed
      <3> QED
        BY <3>1, NotEmpty
    <2>3. LastCallTells' /\ (Quiet' => Quiet)
      BY <2>1, <2>2, NavigationServed
    <2>4. NoneSaved' => NoneSaved
      BY <1>0, <2>1 DEF LookUp, NoneSaved, RouteTypes
    <2> QED
      BY <2>1, <2>3, <2>4 DEF NavigationInv, StopsQuietly, RunsQuietly, Rerouting
  <1>7. CASE StartNavigation \/ StopNavigation
    <2>1. /\ python = "idle" /\ python' = python
          /\ calls # <<>> /\ calls' = Tail(calls) /\ Head(calls).op # "request"
          /\ UNCHANGED <<navigating, events, lookups, directions>>
          /\ Head(calls).op = "start" => route' = directions
          /\ Head(calls).op # "start" => route' = NoRoute
      BY <1>7 DEF StartNavigation, StopNavigation, Serves, pageVars, routeVars
    <2>2. LastCallTells' /\ (Quiet' => (Head(calls).op = "start" <=> navigating))
      BY <2>1, NavigationServed
    <2> QED
      BY <2>1, <2>2 DEF NavigationInv, StopsQuietly, RunsQuietly, Rerouting
  <1>8. CASE Restart
    <2>1. /\ python = "rerouting" /\ python' = "idle" /\ route' = directions
          /\ UNCHANGED <<calls, navigating, events, lookups, directions>>
      BY <1>8 DEF Restart, pageVars, queueVars, routeVars
    <2>2. ~(Quiet /\ ~navigating)
      BY <2>1 DEF NavigationInv, StopsQuietly, Rerouting
    <2>3. LastCallTells'
      BY <2>1 DEF NavigationInv, LastCallTells
    <2>4. Quiet' <=> Quiet
      BY <2>1 DEF Quiet
    <2>5. StopsQuietly'
      BY <2>1, <2>2, <2>4 DEF StopsQuietly
    <2>6. RunsQuietly' /\ Rerouting'
      BY <2>1 DEF RunsQuietly, Rerouting
    <2> QED
      BY <2>3, <2>5, <2>6 DEF NavigationInv
  <1>9. ASSUME NEW n \in DOMAIN lookups,
               Save(n) \/ Refused(n) \/ Failed(n) \/ Send(n) \/ Notify(n)
        PROVE  NavigationInv'
    <2>0. /\ lists' = lists
          /\ UNCHANGED <<calls, navigating, python, route>>
      BY <1>9 DEF Save, Refused, Failed, Send, Notify, pageVars, queueVars, routeVars
    <2>1. /\ n \in 1..Len(lookups) /\ lists' = lists
          /\ UNCHANGED <<calls, navigating, python, route>>
      BY <2>0 DEF RouteTypes
    <2>2. CASE Send(n)
      <3>1. events' # <<>>
        BY <2>1, <2>2, AppendNotEmpty DEF Send, RouteTypes
      <3> QED
        BY <1>0, <2>1, <3>1, NavigationKept DEF Rerouting
    <2>3. CASE Save(n)
      <3>1. Goto(n, "saved")
        BY <2>3 DEF Save
      <3>2. lookups'[n].state = "saved" /\ Len(lookups') = Len(lookups)
        BY <2>1, <3>1, LookupMoved DEF States
      <3>3. ~NoneSaved'
        BY <2>1, <3>2 DEF NoneSaved
      <3> QED
        BY <1>0, <2>1, <3>3, NavigationKept DEF Rerouting
    <2>4. CASE Refused(n) \/ Failed(n) \/ Notify(n)
      <3>1. PICK s \in {"refused", "ended"} : Goto(n, s)
        BY <2>4 DEF Refused, Failed, Notify
      <3>2. lookups[n].state # "saved" /\ UNCHANGED <<events, directions>>
        BY <2>4 DEF Refused, Failed, Notify, In, queueVars, routeVars
      <3>3. /\ Len(lookups') = Len(lookups)
            /\ \A m \in 1..Len(lookups) : m # n => lookups'[m] = lookups[m]
        BY <2>1, <3>1, LookupMoved DEF States
      <3>4. NoneSaved' => NoneSaved
        BY <3>2, <3>3 DEF NoneSaved
      <3> QED
        BY <1>0, <2>1, <3>2, <3>4, NavigationKept DEF Rerouting
    <2> QED
      BY <1>9, <2>2, <2>3, <2>4
  <1>10. CASE UNCHANGED vars
    <2>1. UNCHANGED <<calls, navigating, python, route, lookups, events, directions>>
      BY <1>10 DEF vars, pageVars, queueVars, routeVars
    <2> QED
      BY <1>0, <2>1, NavigationKept DEF Rerouting, NoneSaved
  <1> QED
    BY <1>1, <1>2, <1>3, <1>4, <1>5, <1>6, <1>7, <1>8, <1>9, <1>10 DEF Next, PythonStep, Deliver


-----------------------------------------------------------------------------
(* The number of look-ups.                                                 *)

\* Every request that was taken up has begun two, the one being taken up one
\* so far, and every reroute one.
Begun == 2 * served - (IF python = "between-waypoints" THEN 1 ELSE 0)

Bounded ==
    /\ IsFiniteSet(Reroutes)
    /\ Cardinality(Reroutes) <= MaxReroutes
    /\ Len(lookups) <= Begun + Cardinality(Reroutes)

LEMMA BoundedInit == Init => Bounded
  <1> SUFFICES ASSUME Init PROVE Bounded
    OBVIOUS
  <1>1. Reroutes = {}
    BY DEF Init, Reroutes
  <1>2. Len(lookups) = 0 /\ Begun = 0
    BY DEF Init, Begun
  <1> QED
    BY <1>1, <1>2, FS_EmptySet DEF Bounded

LEMMA BoundedKept ==
    ASSUME Bounded, lists' = lists, served' = served, Len(lookups') = Len(lookups),
           python' = python \/ (python # "between-waypoints" /\ python' # "between-waypoints")
    PROVE  Bounded'
  <1>1. Reroutes' = Reroutes
    BY DEF Reroutes, IsReroute
  <1> QED
    BY <1>1 DEF Bounded, Begun

\* Of the lists there were, none becomes or ceases to be that of a reroute.
LEMMA ReroutesSame ==
    ASSUME RouteTypes, RouteTypes', Len(lists') = Len(lists) \/ Len(lists') = Len(lists) + 1,
           \A l \in 1..Len(lists) : lists'[l].points[1] = lists[l].points[1]
    PROVE  /\ Len(lists') = Len(lists) => Reroutes' = Reroutes
           /\ Len(lists') # Len(lists) =>
                Reroutes' = IF lists'[Len(lists')].points[1] = Position
                            THEN Reroutes \cup {Len(lists')} ELSE Reroutes
  <1>1. DOMAIN lists = 1..Len(lists) /\ DOMAIN lists' = 1..Len(lists') /\ Len(lists) \in Nat
    BY DEF RouteTypes
  <1>2. Reroutes = {l \in 1..Len(lists) : lists[l].points[1] = Position}
    BY <1>1 DEF Reroutes, IsReroute
  <1>3. Reroutes' = {l \in 1..Len(lists') : lists'[l].points[1] = Position}
    BY <1>1 DEF Reroutes, IsReroute
  <1>4. CASE Len(lists') = Len(lists)
    BY <1>1, <1>2, <1>3, <1>4
  <1>5. CASE Len(lists') = Len(lists) + 1
    <2>1. Len(lists') \in 1..Len(lists') /\ Len(lists') # Len(lists)
      <3>1. \A n \in Nat : n + 1 \in 1..(n + 1) /\ n + 1 # n
        OBVIOUS
      <3> QED
        BY <1>1, <1>5, <3>1, Zenon
    <2>2. \A l \in 1..Len(lists') : l \in 1..Len(lists) \/ l = Len(lists')
      BY <1>1, <1>5
    <2>3. \A l \in 1..Len(lists) : l \in 1..Len(lists')
      BY <1>1, <1>5
    <2> QED
      BY <1>2, <1>3, <2>1, <2>2, <2>3
  <1> QED
    BY <1>4, <1>5

LEMMA BoundedStep ==
    ASSUME CallsInv, CallsInv', DestinationInv, RouteTypes, RouteTypes', Bounded, [Next]_vars
    PROVE  Bounded'
  <1>0. /\ Len(lookups) \in Nat /\ served \in Nat /\ served' \in Nat
        /\ lists \in Seq(List) /\ Len(lists) \in Nat
        /\ IsFiniteSet(Reroutes) /\ Cardinality(Reroutes) \in Nat
        /\ Len(lookups) <= Begun + Cardinality(Reroutes)
    <2>1. IsFiniteSet(Reroutes) /\ Len(lookups) <= Begun + Cardinality(Reroutes)
      BY DEF Bounded
    <2>2. Cardinality(Reroutes) \in Nat
      BY <2>1, FS_CardinalityType
    <2>3. served \in Nat /\ served' \in Nat
      BY DEF CallsInv, CallsTypeOK
    <2> QED
      BY <2>1, <2>2, <2>3 DEF RouteTypes
  <1>1. ASSUME NEW l, LookUp(l) PROVE Len(lookups') = Len(lookups) + 1
    BY <1>1 DEF LookUp, RouteTypes
  <1>2. CASE FirstWaypoint
    <2>1. /\ python = "idle" /\ python' = "between-waypoints" /\ served' = Head(calls).request
          /\ calls # <<>> /\ Head(calls).op = "request"
          /\ lists' = Append(lists, [points |-> <<Start(served')>>, for |-> served'])
      BY <1>2 DEF FirstWaypoint, Serves, NewList
    <2>2. 1 \in 1..Len(calls) /\ Head(calls) = calls[1]
      BY <2>1, NotEmpty DEF CallsInv, CallsTypeOK
    <2>3. served < served'
      BY <2>1, <2>2 DEF CallsInv, InOrder, Numbered
    <2>4. /\ Len(lists') = Len(lists) + 1
          /\ \A k \in 1..Len(lists) : lists'[k] = lists[k]
          /\ lists'[Len(lists')].points[1] = Start(served')
      BY <1>0, <2>1
    <2>5. lists'[Len(lists')].points[1] # Position /\ Len(lists') # Len(lists)
      BY <1>0, <2>4, PointsDiffer
    <2>6. Reroutes' = Reroutes
      BY <2>4, <2>5, ReroutesSame
    <2>7. Len(lookups') = Len(lookups) + 1
      BY <1>1, <1>2 DEF FirstWaypoint
    <2>8. Begun \in Int /\ Begun' \in Int /\ Begun + 1 <= Begun'
      BY <1>0, <2>1, <2>3 DEF Begun
    <2>9. Len(lookups') <= Begun' + Cardinality(Reroutes')
      BY <1>0, <2>6, <2>7, <2>8
    <2> QED
      BY <2>6, <2>9 DEF Bounded
  <1>3. CASE SecondWaypoint
    <2>1. /\ python = "between-waypoints" /\ python' = "idle" /\ served' = served
          /\ lists' = [lists EXCEPT ![Len(lists)].points = Append(@, End(served))]
      BY <1>3 DEF SecondWaypoint, historyVars
    <2>2. lists # <<>> /\ lists[Len(lists)].points = <<Start(served)>>
      BY <2>1 DEF DestinationInv, HalfList
    <2>3. Append(<<Start(served)>>, End(served))[1] = Start(served)
      OBVIOUS
    <2>4. Len(lists) \in 1..Len(lists) /\ Len(lists') = Len(lists)
      BY <1>0, <2>1, <2>2, NotEmpty
    <2>5. \A l \in 1..Len(lists) : lists'[l].points[1] = lists[l].points[1]
      BY <1>0, <2>1, <2>2, <2>3, <2>4 DEF List
    <2>6. Reroutes' = Reroutes
      BY <1>0, <2>4, <2>5, ReroutesSame
    <2>7. Len(lookups') = Len(lookups) + 1
      BY <1>1, <1>3 DEF SecondWaypoint
    <2>8. Begun \in Int /\ Begun' = Begun + 1
      BY <1>0, <2>1 DEF Begun
    <2>9. Len(lookups') <= Begun' + Cardinality(Reroutes')
      BY <1>0, <2>6, <2>7, <2>8
    <2> QED
      BY <2>6, <2>9 DEF Bounded
  <1>4. CASE Reroute
    <2>1. /\ python = "idle" /\ python' = "rerouting" /\ served' = served
          /\ Cardinality(Reroutes) < MaxReroutes
          /\ lists' = Append(lists, [points |-> <<Position, destination>>, for |-> served'])
      BY <1>4 DEF Reroute, NewList
    <2>2. /\ Len(lists') = Len(lists) + 1
          /\ \A k \in 1..Len(lists) : lists'[k] = lists[k]
          /\ lists'[Len(lists')].points[1] = Position
      BY <1>0, <2>1
    <2>3. Len(lists') # Len(lists)
      BY <1>0, <2>2
    <2>4. Reroutes' = Reroutes \cup {Len(lists) + 1}
      BY <2>2, <2>3, ReroutesSame
    <2>5. Len(lists) + 1 \notin Reroutes
      BY <1>0 DEF Reroutes
    <2>6. IsFiniteSet(Reroutes') /\ Cardinality(Reroutes') = Cardinality(Reroutes) + 1
      BY <1>0, <2>4, <2>5, FS_AddElement
    <2>7. Len(lookups') = Len(lookups) + 1
      BY <1>1, <1>4 DEF Reroute
    <2>8. Begun' = Begun
      BY <2>1 DEF Begun
    <2>9. Begun \in Int
      BY <1>0 DEF Begun
    <2>10. Cardinality(Reroutes') <= MaxReroutes
      BY <1>0, <2>1, <2>6
    <2>11. Len(lookups') <= Begun' + Cardinality(Reroutes')
      BY <1>0, <2>6, <2>7, <2>8, <2>9
    <2> QED
      BY <2>6, <2>10, <2>11 DEF Bounded
  <1>5. CASE RequestRoute \/ ClickNavigate \/ RouteReceived \/ UNCHANGED vars
             \/ StartNavigation \/ StopNavigation \/ Restart
    <2>1. UNCHANGED <<lists, served, lookups>>
      BY <1>5 DEF RequestRoute, ClickNavigate, RouteReceived, StartNavigation, StopNavigation,
                  Restart, routeVars, historyVars, vars
    <2>2. python' = python \/ (python # "between-waypoints" /\ python' # "between-waypoints")
      BY <1>5 DEF RequestRoute, ClickNavigate, RouteReceived, StartNavigation, StopNavigation,
                  Restart, vars
    <2> QED
      BY <2>1, <2>2, BoundedKept
  <1>6. ASSUME NEW n \in DOMAIN lookups,
               Save(n) \/ Refused(n) \/ Failed(n) \/ Send(n) \/ Notify(n)
        PROVE  Bounded'
    <2>1. n \in 1..Len(lookups)
      BY DEF RouteTypes
    <2>2. PICK s \in States : Goto(n, s)
      BY <1>6 DEF Save, Refused, Failed, Send, Notify, States
    <2>3. UNCHANGED <<lists, served, python>>
      BY <1>6 DEF Save, Refused, Failed, Send, Notify, routeVars, historyVars
    <2>4. Len(lookups') = Len(lookups)
      BY <2>1, <2>2, <2>3, LookupMoved
    <2> QED
      BY <2>3, <2>4, BoundedKept
  <1> QED
    BY <1>2, <1>3, <1>4, <1>5, <1>6 DEF Next, PythonStep, Deliver

RouteInv ==
    /\ CallsInv /\ DestinationInv
    /\ RouteTypes /\ AnswersInv /\ NavigationInv /\ Bounded

THEOREM RouteInvariant == Spec => []RouteInv
  <1>1. Init => RouteInv
    BY CallsInit, DestinationInit, RoutesInit, NavigationInit, BoundedInit DEF RouteInv
  <1>2. RouteInv /\ [Next]_vars => RouteInv'
    BY CallsStep, DestinationStep, RouteTypesStep, AnswersStep, NavigationStep, BoundedStep
    DEF RouteInv
  <1> QED
    BY <1>1, <1>2, PTL DEF Spec

\* A reroute goes to the destination of the newest request that was taken up,
\* whichever answers come late and in which order.
THEOREM ReroutesToDestination == Spec => []RerouteToDestination
  <1>1. DestinationInv => RerouteToDestination
    <2> SUFFICES ASSUME DestinationInv, NEW l \in Reroutes
                 PROVE  lists[l].points[2] = End(lists[l].for)
      BY DEF RerouteToDestination
    <2>1. l \in DOMAIN lists /\ lists[l].points[1] = Position
      BY DEF Reroutes, IsReroute
    <2>2. l \in 1..Len(lists)
      BY <2>1 DEF DestinationInv
    <2> QED
      BY <2>1, <2>2 DEF DestinationInv, ReroutesWhole
  <1> QED
    BY <1>1, RouteInvariant, PTL DEF RouteInv

\* However late the answers come, and whatever is pressed in between: once all
\* is served, the map shows the route that mod_route has, and navigation runs on
\* it if the page says so (ShownIsNavigated).
THEOREM MapAndNavigationAgree == Spec => []ShownIsNavigated
  <1> SUFFICES RouteInv => ShownIsNavigated
    BY RouteInvariant, PTL
  <1> SUFFICES ASSUME RouteInv PROVE ShownIsNavigated
    OBVIOUS
  <1>1. TypeOK
    <2>1. CallsTypeOK /\ navigating \in BOOLEAN /\ interleaved \in BOOLEAN
      BY DEF RouteInv, CallsInv, RouteTypes
    <2>2. /\ DOMAIN lists = 1..Len(lists) /\ DOMAIN lookups = 1..Len(lookups)
          /\ Len(lookups) \in Nat /\ served \in 0..MaxRequests
          /\ Cardinality(Reroutes) \in Nat /\ Cardinality(Reroutes) <= MaxReroutes
          /\ Len(lookups) <= Begun + Cardinality(Reroutes)
      BY FS_CardinalityType DEF RouteInv, RouteTypes, CallsInv, CallsTypeOK, Bounded
    <2>3. Len(lookups) <= MaxLookups
      BY <2>2 DEF Begun, MaxLookups
    <2>4. destination \in Points
      <3>1. CASE served = 0
        BY <3>1 DEF RouteInv, DestinationInv, DestinationKnown, Points
      <3>2. CASE served # 0
        <4>1. served \in 1..MaxRequests
          BY <2>2, <3>2
        <4> QED
          BY <3>2, <4>1, PointTypes DEF RouteInv, DestinationInv, DestinationKnown
      <3> QED
        BY <3>1, <3>2
    <2>5. RoutesTypeOK
      BY <2>2, <2>3, <2>4 DEF RouteInv, RouteTypes, RoutesTypeOK, List, Lookup, States
    <2> QED
      BY <2>1, <2>5 DEF TypeOK
  <1>2. ASSUME Settled, ~interleaved
        PROVE  shown = directions /\ route = IF navigating THEN directions ELSE NoRoute
    <2>1. NoneSaved /\ Quiet /\ events = <<>>
      BY <1>2 DEF Settled, In, NoneSaved, Quiet, RouteInv, RouteTypes
    <2>2. shown = directions
      BY <1>2, <2>1 DEF RouteInv, AnswersInv, ShownLast
    <2>3. navigating \in BOOLEAN
      BY DEF RouteInv, RouteTypes
    <2> QED
      BY <2>1, <2>2, <2>3 DEF RouteInv, NavigationInv, StopsQuietly, RunsQuietly
  <1> QED
    BY <1>1, <1>2 DEF ShownIsNavigated

-----------------------------------------------------------------------------
(* Answers on their way to the user.                                       *)

\* An answer the page has not seen is with its look-up or among the events.
OnTheWay(n) ==
    \/ lookups[n].state \in {"saved", "refused"}
    \/ \E i \in 1..Len(events) : events[i] = n
OwedComes == \A n \in owed : OnTheWay(n)

\* A look-up that is begun or fails moves no answer.
LEMMA OwedKept ==
    ASSUME RouteTypes, OwedComes, UNCHANGED <<events, owed>>,
           \A n \in owed : lookups'[n].state = lookups[n].state
    PROVE  OwedComes'
  BY DEF OwedComes, OnTheWay

LEMMA OwedStep ==
    ASSUME CallsInv, RouteTypes, RouteTypes', OwedComes, [Next]_vars
    PROVE  OwedComes'
  <1> USE DEF pageVars, queueVars, routeVars, historyVars
  <1>1. /\ lookups \in Seq(Lookup) /\ owed \subseteq 1..Len(lookups) /\ Len(lookups) \in Nat
        /\ events \in Seq(1..Len(lookups)) /\ Len(events) \in Nat
    BY DEF RouteTypes
  <1>2. CASE RouteReceived
    <2>1. /\ lookups' = lookups /\ owed' = owed \ {events[1]}
          /\ \A i \in 2..Len(events) : i-1 \in 1..Len(events') /\ events'[i-1] = events[i]
      BY <1>1, <1>2 DEF RouteReceived
    <2>2. ASSUME NEW n \in owed', NEW i \in 1..Len(events), events[i] = n
          PROVE  i \in 2..Len(events)
      BY <1>1, <2>1, <2>2
    <2> QED
      BY <2>1, <2>2 DEF OwedComes, OnTheWay
  <1>3. CASE FirstWaypoint \/ SecondWaypoint \/ Reroute
    <2>1. PICK l : LookUp(l) /\ UNCHANGED <<events, owed>>
      BY <1>3 DEF FirstWaypoint, SecondWaypoint, Reroute
    <2>2. \A n \in owed : lookups'[n] = lookups[n]
      BY <1>1, <2>1 DEF LookUp
    <2> QED
      BY <2>1, <2>2, OwedKept
  <1>4. ASSUME NEW n \in DOMAIN lookups,
               Save(n) \/ Refused(n) \/ Failed(n) \/ Send(n) \/ Notify(n)
        PROVE  OwedComes'
    <2>1. n \in 1..Len(lookups)
      BY <1>1
    <2>2. PICK s \in States : Goto(n, s) /\ UNCHANGED lists
      BY <1>4 DEF Save, Refused, Failed, Send, Notify, States
    <2>3. /\ \A m \in 1..Len(lookups) : m # n => lookups'[m] = lookups[m]
          /\ lookups'[n].state = s
      BY <2>1, <2>2, LookupMoved
    <2>4. CASE Save(n) \/ Refused(n)
      <3>1. owed' = owed \cup {n} /\ UNCHANGED events
        BY <2>4 DEF Save, Refused
      <3>2. PICK u \in {"saved", "refused"} : Goto(n, u)
        BY <2>4 DEF Save, Refused
      <3>3. u \in States
        BY DEF States
      <3>4. lookups'[n].state = u
        BY <2>1, <2>2, <3>2, <3>3, LookupMoved
      <3> QED
        BY <1>1, <2>3, <3>1, <3>4 DEF OwedComes, OnTheWay
    <2>5. CASE Failed(n)
      <3>1. lookups[n].state = "searching" /\ UNCHANGED <<owed, events>>
        BY <2>5 DEF Failed, In
      <3>2. \A m \in owed : m # n => lookups'[m] = lookups[m]
        BY <1>1, <2>3
      <3> QED
        BY <2>3, <3>1, <3>2 DEF OwedComes, OnTheWay
    <2>6. CASE Send(n)
      <3>1. owed' = owed /\ events' = Append(events, n)
        BY <2>6 DEF Send
      <3>2. \A i \in 1..Len(events) : i \in 1..Len(events') /\ events'[i] = events[i]
        BY <1>1, <2>1, <3>1
      <3>3. Len(events') \in 1..Len(events') /\ events'[Len(events')] = n
        BY <1>1, <2>1, <3>1
      <3> QED
        BY <1>1, <2>3, <3>1, <3>2, <3>3 DEF OwedComes, OnTheWay
    <2>7. CASE Notify(n)
      <3>1. owed' = owed \ {n} /\ UNCHANGED events
        BY <2>7 DEF Notify
      <3> QED
        BY <1>1, <2>3, <3>1 DEF OwedComes, OnTheWay
    <2> QED
      BY <1>4, <2>4, <2>5, <2>6, <2>7
  <1>5. CASE RequestRoute \/ ClickNavigate \/ StartNavigation \/ StopNavigation \/ Restart
             \/ UNCHANGED vars
    <2>1. UNCHANGED <<events, owed, lookups>>
      BY <1>5 DEF RequestRoute, ClickNavigate, StartNavigation, StopNavigation, Restart, vars
    <2> QED
      BY <2>1, OwedKept
  <1> QED
    BY <1>2, <1>3, <1>4, <1>5 DEF Next, PythonStep, Deliver

\* Nothing is under way and no look-up is about to notify the user.
AllSent == Settled /\ \A n \in DOMAIN lookups : ~In(n, "refused")
RestIsAnswered == AllSent => owed = {}

\* When nothing is under way, nothing that a provider has answered is owed to the
\* user: neither late answers nor reroutes and clicks in between take an answer away
\* (_routing_done_cb() of gui_qt5.py).
THEOREM RestAnswers == Spec => []RestIsAnswered
  <1>1. Init => OwedComes
    BY DEF Init, OwedComes
  <1>2. RouteInv /\ RouteInv' /\ OwedComes /\ [Next]_vars => OwedComes'
    BY OwedStep DEF RouteInv
  <1>3. RouteInv /\ OwedComes => RestIsAnswered
    <2> SUFFICES ASSUME RouteInv, OwedComes, AllSent, NEW n \in owed
                 PROVE  FALSE
      BY DEF RestIsAnswered
    <2>1. n \in DOMAIN lookups /\ events = <<>>
      BY DEF RouteInv, RouteTypes, AllSent, Settled
    <2> QED
      BY <2>1 DEF AllSent, Settled, In, OwedComes, OnTheWay
  <1> QED
    BY <1>1, <1>2, <1>3, RouteInvariant, PTL DEF Spec

=============================================================================
