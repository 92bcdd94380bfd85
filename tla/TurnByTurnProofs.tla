-------------------------- MODULE TurnByTurnProofs --------------------------
(***************************************************************************)
(* Proofs about TurnByTurn, for any number of workers and steps and any    *)
(* limits.  What the handlers do when they nest is in the sequence todo;   *)
(* the inductive invariants say in which order operations stand in it, and *)
(* how what waits in it, in the calls and in the events will make the GUI  *)
(* and navigation agree.                                                   *)
(***************************************************************************)
EXTENDS TurnByTurn, SequenceTheorems, TLAPS

\* A run is followed by its watch, and an unwatch by a reset at once.
WellFormed(s) ==
    \A i \in 1..Len(s) :
        /\ s[i] = "run" => \E j \in 1..Len(s) : i < j /\ s[j] = "watch"
        /\ s[i] = "unwatch" => i < Len(s) /\ s[i + 1] = "reset"

HasWatch(s) == \E i \in 1..Len(s) : s[i] = "watch"

\* A reroute has been decided on and the old navigation not yet reset.
Restarting(s) ==
    \/ Len(s) > 0 /\ s[1] = "reset"
    \/ Len(s) > 1 /\ s[1] = "look-up" /\ s[2] = "reset"
    \/ Len(s) > 2 /\ s[1] = "pause" /\ s[2] = "look-up" /\ s[3] = "reset"

\* Only a reroute that is about to start navigation anew has counted while
\* the route was reached.
CountedThenRestarts == reached /\ reroutes > 0 => Restarting(todo)

WatchComes == route # "none" => watchId \/ HasWatch(todo)

WatchThere == watchId /\ watches = 0 => Len(todo) > 0 /\ todo[1] = "reset"

OrderInv ==
    /\ RerouteLimit
    /\ WellFormed(todo)
    /\ CountedThenRestarts
    /\ WatchComes
    /\ WatchThere

TripInv == TypeOK /\ OrderInv

LEMMA Bounds ==
    /\ LastStep \in Nat /\ TriggerCount \in Nat /\ TriggerCount > 0 /\ MaxReroutes \in Nat
    /\ MaxWatches \in Nat /\ MaxWatches > 0 /\ MaxLookups \in Nat /\ MaxLookups > 0
    /\ MaxCalls \in Nat /\ MaxEvents \in Nat
  BY NavigationAssumption

-----------------------------------------------------------------------------
(* Facts about todo.                                                       *)

\* Replacing the first operation by others keeps the order of the rest.
LEMMA Replaced ==
    ASSUME NEW s \in Seq(Operations), s # <<>>, NEW names \in Seq(Operations)
    PROVE  LET t == names \o Tail(s)
               n == Len(names) IN
           /\ t \in Seq(Operations)
           /\ n \in Nat /\ Len(s) \in Nat /\ Len(s) > 0
           /\ Len(t) = (n + Len(s)) - 1
           /\ \A i \in 1..n : t[i] = names[i]
           /\ \A i \in 2..Len(s) : t[(n + i) - 1] = s[i]
           /\ \A i \in (n + 1)..Len(t) : t[i] = s[(i - n) + 1]
  <1>1. /\ Tail(s) \in Seq(Operations) /\ Len(Tail(s)) = Len(s) - 1
        /\ \A i \in 1..Len(s) - 1 : Tail(s)[i] = s[i + 1]
        /\ Len(s) \in Nat /\ Len(s) > 0
    OBVIOUS
  <1>2. /\ names \o Tail(s) \in Seq(Operations)
        /\ Len(names \o Tail(s)) = Len(names) + Len(Tail(s))
        /\ \A i \in 1..Len(names) + Len(Tail(s)) :
              (names \o Tail(s))[i] = IF i <= Len(names) THEN names[i]
                                      ELSE Tail(s)[i - Len(names)]
    BY <1>1
  <1>3. Len(names) \in Nat
    OBVIOUS
  <1>4. ASSUME NEW i \in 2..Len(s)
        PROVE  (names \o Tail(s))[(Len(names) + i) - 1] = s[i]
    <2>1. i - 1 \in 1..Len(s) - 1 /\ Tail(s)[i - 1] = s[(i - 1) + 1] /\ (i - 1) + 1 = i
      BY <1>1
    <2> QED
      BY <1>1, <1>2, <1>3, <2>1
  <1> QED
    BY <1>1, <1>2, <1>3, <1>4

LEMMA ReplacedWellFormed ==
    ASSUME NEW s \in Seq(Operations), s # <<>>, NEW names \in Seq(Operations),
           WellFormed(s), WellFormed(names)
    PROVE  WellFormed(names \o Tail(s))
  <1> DEFINE t == names \o Tail(s)
             n == Len(names)
  <1>1. /\ n \in Nat /\ Len(s) \in Nat /\ Len(s) > 0
        /\ Len(t) = (n + Len(s)) - 1
        /\ \A i \in 1..n : t[i] = names[i]
        /\ \A i \in 2..Len(s) : t[(n + i) - 1] = s[i]
        /\ \A i \in (n + 1)..Len(t) : t[i] = s[(i - n) + 1]
    BY Replaced
  <1> HIDE DEF t, n
  <1> SUFFICES ASSUME NEW i \in 1..Len(t)
               PROVE  /\ t[i] = "run" => \E j \in 1..Len(t) : i < j /\ t[j] = "watch"
                      /\ t[i] = "unwatch" => i < Len(t) /\ t[i + 1] = "reset"
    BY DEF WellFormed, t
  <1>2. CASE i <= n
    <2>1. i \in 1..n /\ t[i] = names[i]
      BY <1>1, <1>2
    <2>2. ASSUME t[i] = "run" PROVE \E j \in 1..Len(t) : i < j /\ t[j] = "watch"
      <3>1. PICK j \in 1..n : i < j /\ names[j] = "watch"
        BY <2>1, <2>2 DEF WellFormed, n
      <3>2. j \in 1..Len(t) /\ t[j] = "watch"
        BY <3>1, <1>1
      <3> QED
        BY <3>1, <3>2
    <2>3. ASSUME t[i] = "unwatch" PROVE i < Len(t) /\ t[i + 1] = "reset"
      <3>1. i < n /\ names[i + 1] = "reset"
        BY <2>1, <2>3 DEF WellFormed, n
      <3> QED
        BY <3>1, <1>1, <2>1
    <2> QED
      BY <2>2, <2>3
  <1>3. CASE i > n
    <2>1. PICK k \in 2..Len(s) : t[i] = s[k] /\ i = (n + k) - 1
      <3>1. i \in (n + 1)..Len(t) /\ (i - n) + 1 \in 2..Len(s)
        BY <1>1, <1>3
      <3>2. t[i] = s[(i - n) + 1] /\ i = (n + ((i - n) + 1)) - 1
        BY <3>1, <1>1
      <3> QED
        BY <3>1, <3>2
    <2>2. ASSUME t[i] = "run" PROVE \E j \in 1..Len(t) : i < j /\ t[j] = "watch"
      <3>1. PICK j \in 1..Len(s) : k < j /\ s[j] = "watch"
        BY <2>1, <2>2 DEF WellFormed
      <3>2. j \in 2..Len(s)
        BY <3>1, <2>1
      <3>3. t[(n + j) - 1] = "watch"
        BY <3>1, <3>2, <1>1
      <3>4. (n + j) - 1 \in 1..Len(t) /\ i < (n + j) - 1
        BY <3>1, <3>2, <2>1, <1>1
      <3> QED
        BY <3>3, <3>4
    <2>3. ASSUME t[i] = "unwatch" PROVE i < Len(t) /\ t[i + 1] = "reset"
      <3>1. k < Len(s) /\ s[k + 1] = "reset"
        BY <2>1, <2>3 DEF WellFormed
      <3>2. k + 1 \in 2..Len(s)
        BY <3>1, <2>1, <1>1
      <3>3. t[(n + (k + 1)) - 1] = "reset"
        BY <3>1, <3>2, <1>1
      <3>4. (n + (k + 1)) - 1 = i + 1 /\ i < Len(t)
        BY <3>1, <2>1, <1>1
      <3> QED
        BY <3>3, <3>4
    <2> QED
      BY <2>2, <2>3
  <1> QED
    BY <1>1, <1>2, <1>3

LEMMA ReplacedHasWatch ==
    ASSUME NEW s \in Seq(Operations), s # <<>>, NEW names \in Seq(Operations),
           HasWatch(s), s[1] # "watch"
    PROVE  HasWatch(names \o Tail(s))
  <1> DEFINE t == names \o Tail(s)
             n == Len(names)
  <1>1. /\ n \in Nat /\ Len(s) \in Nat /\ Len(s) > 0
        /\ Len(t) = (n + Len(s)) - 1
        /\ \A i \in 2..Len(s) : t[(n + i) - 1] = s[i]
    BY Replaced
  <1> HIDE DEF t, n
  <1>2. PICK i \in 1..Len(s) : s[i] = "watch"
    BY DEF HasWatch
  <1>3. i \in 2..Len(s)
    BY <1>1, <1>2
  <1>4. t[(n + i) - 1] = "watch" /\ (n + i) - 1 \in 1..Len(t)
    BY <1>1, <1>2, <1>3
  <1> QED
    BY <1>4 DEF HasWatch, t

\* What the actions put into todo is in order.
Ordered(names) == names \in Seq(Operations) /\ WellFormed(names)

LEMMA Single ==
    ASSUME NEW a \in Operations, a \notin {"run", "unwatch"}
    PROVE  Ordered(<<a>>)
  <1>1. <<a>> \in Seq(Operations) /\ Len(<<a>>) = 1 /\ <<a>>[1] = a
    OBVIOUS
  <1> QED
    BY <1>1 DEF WellFormed, Ordered

LEMMA Pair ==
    ASSUME NEW a \in Operations, NEW b \in Operations, {a, b} \cap {"run", "unwatch"} = {}
    PROVE  Ordered(<<a, b>>)
  <1> DEFINE names == <<a, b>>
  <1>1. names \in Seq(Operations) /\ Len(names) = 2 /\ names[1] = a /\ names[2] = b
    OBVIOUS
  <1> HIDE DEF names
  <1>2. names[1] # "run" /\ names[2] # "run" /\ names[1] # "unwatch" /\ names[2] # "unwatch"
    BY <1>1
  <1>3. Ordered(names)
    BY <1>1, <1>2 DEF WellFormed, Ordered
  <1> QED
    BY <1>3 DEF names

LEMMA Lists ==
    /\ Ordered(<<>>) /\ Ordered(<<"look-up">>) /\ Ordered(<<"notify">>)
    /\ Ordered(<<"update">>) /\ Ordered(<<"update", "notify">>)
    /\ Ordered(<<"reach", "judge">>) /\ Ordered(<<"switch", "reach", "judge">>)
    /\ Ordered(<<"unwatch", "reset", "halt">>)
    /\ Ordered(Start) /\ Ordered(Restart)
  <1>1. Ordered(<<>>)
    BY DEF Ordered, WellFormed
  <1>2. Ordered(<<"look-up">>) /\ Ordered(<<"notify">>) /\ Ordered(<<"update">>)
    BY Single DEF Operations
  <1>3. Ordered(<<"update", "notify">>) /\ Ordered(<<"reach", "judge">>)
    BY Pair DEF Operations
  <1>4. Ordered(<<"switch", "reach", "judge">>)
    BY DEF Ordered, WellFormed, Operations
  <1>5. Ordered(<<"unwatch", "reset", "halt">>)
    BY DEF Ordered, WellFormed, Operations
  <1>6. Ordered(Start)
    BY DEF Ordered, WellFormed, Operations, Start
  <1>7. Ordered(Restart)
    <2>1. Restart \in Seq(Operations)
      BY DEF Operations, Restart
    <2>2. /\ Restart[1] = "pause" /\ Restart[2] = "look-up" /\ Restart[3] = "reset"
          /\ Restart[4] = "run" /\ Restart[5] = "update" /\ Restart[6] = "watch"
      BY DEF Restart
    <2>5. Len(Restart) = 6
      BY DEF Restart
    <2>3. ASSUME NEW i \in 1..Len(Restart)
          PROVE  /\ Restart[i] = "run" => i < 6 /\ Restart[6] = "watch"
                 /\ Restart[i] # "unwatch"
      <3>1. i \in {1, 2, 3, 4, 5, 6}
        BY <2>5
      <3>2. Restart[i] \in {"pause", "look-up", "reset", "run", "update", "watch"}
        BY <3>1, <2>2, Zenon
      <3>3. Restart[i] = "run" => i # 6
        BY <2>2, Zenon
      <3>4. i # 6 => i < 6
        BY <3>1
      <3> QED
        BY <2>2, <3>2, <3>3, <3>4, Zenon
    <2>4. 6 \in 1..Len(Restart)
      BY <2>5
    <2> QED
      BY <2>1, <2>3, <2>4 DEF Ordered, WellFormed
  <1> QED
    BY <1>1, <1>2, <1>3, <1>4, <1>5, <1>6, <1>7

\* The thread that runs the calls replaces the operation it has done.
LEMMA ThenKeeps ==
    ASSUME TripInv, ~Idle, NEW names, Ordered(names), Then(names)
    PROVE  /\ todo' \in Seq(Operations)
           /\ WellFormed(todo')
           /\ HasWatch(todo) /\ Head(todo) # "watch" => HasWatch(todo')
           /\ todo \in Seq(Operations) /\ Len(todo) \in Nat \ {0} /\ Head(todo) = todo[1]
           /\ Len(todo') = (Len(names) + Len(todo)) - 1
           /\ Len(names) \in Nat
           /\ \A i \in 1..Len(names) : todo'[i] = names[i]
           /\ \A i \in 2..Len(todo) : todo'[(Len(names) + i) - 1] = todo[i]
  <1>1. /\ todo \in Seq(Operations) /\ todo # <<>> /\ WellFormed(todo)
        /\ names \in Seq(Operations) /\ WellFormed(names)
    BY DEF TripInv, TypeOK, OrderInv, Idle, Ordered
  <1>2. todo' = names \o Tail(todo)
    BY DEF Then
  <1>3. Head(todo) = todo[1]
    BY <1>1
  <1>4. WellFormed(todo')
    BY <1>1, <1>2, ReplacedWellFormed
  <1>5. HasWatch(todo) /\ Head(todo) # "watch" => HasWatch(todo')
    BY <1>1, <1>2, <1>3, ReplacedHasWatch
  <1> HIDE DEF WellFormed
  <1> QED
    BY <1>1, <1>2, <1>3, <1>4, <1>5, Replaced

\* A step that leaves alone what OrderInv speaks of, todo included.
LEMMA Elsewhere ==
    ASSUME OrderInv, UNCHANGED <<watches, watchId, reached, limitVars, todo>>,
           route' = route \/ (route' # "none" /\ route # "none")
    PROVE  OrderInv'
  BY DEF OrderInv, RerouteLimit, CountedThenRestarts, WatchComes, WatchThere, limitVars

\* The thread was idle and begins with a call.
LEMMA BeginKeeps ==
    ASSUME TripInv, Idle, NEW names, Ordered(names), todo' = names,
           UNCHANGED <<route, watches, watchId, reached, limitVars>>
    PROVE  OrderInv'
  <1>1. ~Restarting(todo) /\ ~HasWatch(todo) /\ Len(todo) = 0
    BY DEF Idle, Restarting, HasWatch
  <1> QED
    BY <1>1 DEF TripInv, OrderInv, RerouteLimit, CountedThenRestarts, WatchComes, WatchThere,
                limitVars, Ordered

\* The thread does an operation that OrderInv does not speak of.
LEMMA QuietKeeps ==
    ASSUME TripInv, ~Idle, Head(todo) \notin {"reset", "watch", "look-up", "pause"},
           NEW names, Ordered(names), Then(names),
           route' = route \/ (route' # "none" /\ route # "none"),
           UNCHANGED <<watches, watchId, reached, limitVars>>
    PROVE  OrderInv'
  <1>1. /\ WellFormed(todo') /\ Head(todo) = todo[1] /\ Len(todo) \in Nat \ {0}
        /\ HasWatch(todo) => HasWatch(todo')
    BY ThenKeeps
  <1>2. ~Restarting(todo) /\ todo[1] # "reset"
    BY <1>1 DEF Restarting
  <1> QED
    BY <1>1, <1>2 DEF TripInv, OrderInv, RerouteLimit, CountedThenRestarts, WatchComes,
                WatchThere, limitVars

-----------------------------------------------------------------------------
(* OrderInv after each step of the thread of the calls.                    *)

LEMMA DoneIsThen == Done <=> Then(<<>>)
  BY DEF Done

LEMMA OrderServe == TripInv /\ Serve => OrderInv'
  <1> SUFFICES ASSUME TripInv, Serve PROVE OrderInv'
    OBVIOUS
  <1>1. Idle /\ UNCHANGED <<route, watches, watchId, reached, limitVars>>
    BY DEF Serve, tripVars, watchVars, divergence
  <1>2. Head(calls) \in {"route", "start", "stop"}
    <2>1. calls # <<>> /\ calls \in Seq({"route", "start", "stop"})
      BY DEF Serve, TripInv, TypeOK
    <2> QED
      BY <2>1
  <1>3. todo' \in {<<"look-up">>, Start, <<"unwatch", "reset", "halt">>}
    BY <1>2, Zenon DEF Serve
  <1>4. Ordered(todo')
    BY <1>3, Lists, Zenon
  <1> QED
    BY <1>1, <1>4, BeginKeeps

LEMMA OrderLocation == TripInv /\ Location => OrderInv'
  <1> SUFFICES ASSUME TripInv, Location PROVE OrderInv'
    OBVIOUS
  <1>1. Idle /\ UNCHANGED <<route, watches, watchId, reached, limitVars>>
    BY DEF Location, tripVars, watchVars, divergence
  <1>2. Ordered(todo')
    BY Lists, Zenon DEF Location
  <1> QED
    BY <1>1, <1>2, BeginKeeps

LEMMA OrderQuiet == TripInv /\ (Notify \/ Halt \/ Update \/ Switch) => OrderInv'
  <1> SUFFICES ASSUME TripInv, Notify \/ Halt \/ Update \/ Switch PROVE OrderInv'
    OBVIOUS
  <1>1. /\ UNCHANGED <<route, watches, watchId, reached, limitVars>>
        /\ ~Idle /\ Head(todo) \in {"notify", "halt", "update", "switch"}
    BY DEF Notify, Halt, Update, Switch, Doing, tripVars, watchVars, divergence
  <1>2. PICK names \in {<<>>, <<"update", "notify">>, <<"update">>, <<"reach", "judge">>,
                        <<"switch", "reach", "judge">>} : Then(names)
    BY Zenon DEF Notify, Halt, Update, Switch, Done
  <1>3. Ordered(names)
    BY <1>2, Lists, Zenon
  <1> HIDE DEF Then
  <1>4. Head(todo) \notin {"reset", "watch", "look-up", "pause"}
    BY <1>1
  <1> QED
    BY <1>1, <1>2, <1>3, <1>4, QuietKeeps, Zenon

\* Removing the first operation brings the others one place forward.
LEMMA DoneKeeps ==
    ASSUME TripInv, ~Idle, Done
    PROVE  /\ WellFormed(todo')
           /\ HasWatch(todo) /\ Head(todo) # "watch" => HasWatch(todo')
           /\ Len(todo) \in Nat \ {0} /\ Head(todo) = todo[1]
           /\ Len(todo') = Len(todo) - 1
           /\ \A i \in 2..Len(todo) : todo'[i - 1] = todo[i]
  <1>1. Ordered(<<>>) /\ Then(<<>>) /\ Len(<<>>) = 0
    BY Lists DEF Done
  <1>2. /\ WellFormed(todo')
        /\ HasWatch(todo) /\ Head(todo) # "watch" => HasWatch(todo')
        /\ Len(todo) \in Nat \ {0} /\ Head(todo) = todo[1]
        /\ Len(todo') = (Len(<<>>) + Len(todo)) - 1
        /\ \A i \in 2..Len(todo) : todo'[(Len(<<>>) + i) - 1] = todo[i]
    BY <1>1, ThenKeeps, Zenon
  <1>3. ASSUME NEW i \in 2..Len(todo) PROVE todo'[i - 1] = todo[i]
    <2>1. (Len(<<>>) + i) - 1 = i - 1
      BY <1>1, <1>2
    <2> QED
      BY <1>2, <2>1, Zenon
  <1> QED
    BY <1>1, <1>2, <1>3

LEMMA OrderPause == TripInv /\ (Pause \/ LookUp) => OrderInv'
  <1> SUFFICES ASSUME TripInv, Pause \/ LookUp PROVE OrderInv'
    OBVIOUS
  <1>1. /\ UNCHANGED <<route, watches, watchId, reached, limitVars>>
        /\ ~Idle /\ Done /\ Head(todo) \in {"pause", "look-up"}
    BY DEF Pause, LookUp, Doing, tripVars, watchVars, divergence
  <1>2. /\ WellFormed(todo')
        /\ HasWatch(todo) /\ Head(todo) # "watch" => HasWatch(todo')
        /\ Len(todo) \in Nat \ {0} /\ Head(todo) = todo[1]
        /\ Len(todo') = Len(todo) - 1
        /\ \A i \in 2..Len(todo) : todo'[i - 1] = todo[i]
    BY <1>1, DoneKeeps
  <1>3. Restarting(todo) => Restarting(todo')
    <2>1. Len(todo) > 1 => Len(todo') > 0 /\ todo'[1] = todo[2]
      BY <1>2
    <2>2. Len(todo) > 2 => Len(todo') > 1 /\ todo'[2] = todo[3]
      BY <1>2
    <2>3. Len(todo) > 2 => Len(todo) > 1
      BY <1>2
    <2>4. todo[1] # "reset"
      BY <1>1, <1>2
    <2> QED
      BY <2>1, <2>2, <2>3, <2>4, Zenon DEF Restarting
  <1>4. HasWatch(todo) => HasWatch(todo')
    BY <1>1, <1>2
  <1>5. todo[1] # "reset"
    BY <1>1, <1>2
  <1> QED
    BY <1>1, <1>2, <1>3, <1>4, <1>5 DEF TripInv, OrderInv, RerouteLimit,
       CountedThenRestarts, WatchComes, WatchThere, limitVars

LEMMA OrderReset == TripInv /\ Reset => OrderInv'
  <1> SUFFICES ASSUME TripInv, Reset PROVE OrderInv'
    OBVIOUS
  <1>1. ~Idle /\ Done /\ route' = "none" /\ ~watchId' /\ ~reached' /\ UNCHANGED limitVars
    BY DEF Reset, Doing
  <1>2. WellFormed(todo')
    BY <1>1, DoneKeeps
  <1> QED
    BY <1>1, <1>2 DEF TripInv, OrderInv, RerouteLimit, CountedThenRestarts, WatchComes,
       WatchThere, limitVars

LEMMA OrderRun == TripInv /\ Run => OrderInv'
  <1> SUFFICES ASSUME TripInv, Run PROVE OrderInv'
    OBVIOUS
  <1>1. /\ UNCHANGED <<watches, watchId, reached, limitVars>>
        /\ ~Idle /\ Head(todo) = "run"
    BY DEF Run, Doing, watchVars, divergence
  <1>2. CASE Done /\ UNCHANGED route
    <2>1. Ordered(<<>>) /\ Then(<<>>)
      BY <1>2, Lists DEF Done
    <2> QED
      BY <1>1, <1>2, <2>1, QuietKeeps, Zenon
  <1>3. CASE Then(<<"update">>)
    <2>1. Ordered(<<"update">>)
      BY Lists
    <2>2. /\ WellFormed(todo') /\ Len(todo) \in Nat \ {0} /\ Head(todo) = todo[1]
          /\ HasWatch(todo) => HasWatch(todo')
      BY <1>1, <1>3, <2>1, ThenKeeps
    <2>3. HasWatch(todo)
      BY <1>1, <2>2 DEF TripInv, OrderInv, WellFormed, HasWatch
    <2>4. ~Restarting(todo) /\ todo[1] # "reset"
      BY <1>1, <2>2 DEF Restarting
    <2> QED
      BY <1>1, <2>2, <2>3, <2>4 DEF TripInv, OrderInv, RerouteLimit, CountedThenRestarts,
         WatchComes, WatchThere, limitVars
  <1> QED
    BY <1>2, <1>3 DEF Run

LEMMA OrderWatch == TripInv /\ Watch => OrderInv'
  <1> SUFFICES ASSUME TripInv, Watch PROVE OrderInv'
    OBVIOUS
  <1>1. ~Idle /\ Head(todo) = "watch" /\ Done /\ watchId' /\ UNCHANGED <<reached, limitVars>>
    BY DEF Watch, Doing, divergence
  <1>2. watches' # 0
    <2>1. watches \in 0..MaxWatches
      BY Zenon DEF TripInv, TypeOK
    <2>2. watches' = Least(watches + 1, MaxWatches)
      BY Zenon DEF Watch
    <2> QED
      BY <2>1, <2>2, Bounds DEF Least
  <1>3. WellFormed(todo') /\ Len(todo) \in Nat \ {0} /\ Head(todo) = todo[1]
    BY <1>1, DoneKeeps
  <1>4. ~Restarting(todo)
    BY <1>1, <1>3 DEF Restarting
  <1> QED
    BY <1>1, <1>2, <1>3, <1>4 DEF TripInv, OrderInv, RerouteLimit, CountedThenRestarts,
       WatchComes, WatchThere, limitVars

\* The watch that is removed is forgotten by the reset that follows at once.
LEMMA OrderUnwatch == TripInv /\ Unwatch => OrderInv'
  <1> SUFFICES ASSUME TripInv, Unwatch PROVE OrderInv'
    OBVIOUS
  <1>1. /\ ~Idle /\ Head(todo) = "unwatch" /\ Done
        /\ UNCHANGED <<route, watchId, reached, limitVars>>
    BY DEF Unwatch, Doing, divergence, tripVars
  <1>2. /\ WellFormed(todo') /\ Len(todo) \in Nat \ {0} /\ Head(todo) = todo[1]
        /\ HasWatch(todo) => HasWatch(todo')
        /\ Len(todo') = Len(todo) - 1
        /\ \A i \in 2..Len(todo) : todo'[i - 1] = todo[i]
    BY <1>1, DoneKeeps
  <1>3. 1 < Len(todo) /\ todo[2] = "reset"
    <2>1. 1 \in 1..Len(todo) /\ todo[1] = "unwatch" /\ WellFormed(todo)
      BY <1>1, <1>2 DEF TripInv, OrderInv
    <2>2. 1 < Len(todo) /\ todo[1 + 1] = "reset"
      BY <2>1, Zenon DEF WellFormed
    <2> QED
      BY <2>2
  <1>4. Len(todo') > 0 /\ todo'[1] = "reset"
    <2>1. 2 \in 2..Len(todo) /\ 2 - 1 = 1
      BY <1>2, <1>3
    <2> QED
      BY <1>2, <1>3, <2>1
  <1>5. ~Restarting(todo)
    BY <1>1, <1>2 DEF Restarting
  <1> QED
    BY <1>1, <1>2, <1>4, <1>5 DEF TripInv, OrderInv, RerouteLimit, CountedThenRestarts,
       WatchComes, WatchThere, limitVars

LEMMA OrderReach == TripInv /\ Reach => OrderInv'
  <1> SUFFICES ASSUME TripInv, Reach PROVE OrderInv'
    OBVIOUS
  <1>1. /\ ~Idle /\ Head(todo) = "reach" /\ Done
        /\ UNCHANGED <<route, watches, watchId, override>>
        /\ (reached' /\ reroutes' = 0) \/ (reached' = reached /\ reroutes' = reroutes)
    BY DEF Reach, Doing, watchVars, tripVars
  <1>2. /\ WellFormed(todo') /\ Len(todo) \in Nat \ {0} /\ Head(todo) = todo[1]
        /\ HasWatch(todo) => HasWatch(todo')
    BY <1>1, DoneKeeps
  <1>3. ~Restarting(todo) /\ todo[1] # "reset"
    BY <1>1, <1>2 DEF Restarting
  <1>4. RerouteLimit'
    BY <1>1, Bounds DEF TripInv, OrderInv, RerouteLimit
  <1> QED
    BY <1>1, <1>2, <1>3, <1>4 DEF TripInv, OrderInv, CountedThenRestarts, WatchComes,
       WatchThere

\* A reroute is decided on when the route has been reached, and then nothing
\* has been counted yet, or while the last one allows it.
LEMMA OrderJudge == TripInv /\ Judge => OrderInv'
  <1> SUFFICES ASSUME TripInv, Judge PROVE OrderInv'
    OBVIOUS
  <1>1. /\ ~Idle /\ Head(todo) = "judge"
        /\ UNCHANGED <<route, watches, watchId, reached>>
    BY DEF Judge, Doing, watchVars, tripVars
  <1>2. CASE Done /\ UNCHANGED limitVars
    <2>1. Ordered(<<>>) /\ Then(<<>>)
      BY <1>2, Lists DEF Done
    <2> QED
      BY <1>1, <1>2, <2>1, QuietKeeps, Zenon
  <1>3. CASE ConditionsMet /\ \E n \in {0, reroutes} : RerouteAuto(n)
    <2>1. PICK n \in {0, reroutes} : RerouteAuto(n)
      BY <1>3
    <2>2. /\ WellFormed(todo') /\ Len(todo) \in Nat \ {0} /\ Head(todo) = todo[1]
          /\ HasWatch(todo) => HasWatch(todo')
          /\ Len(todo') = (Len(Restart) + Len(todo)) - 1
          /\ \A i \in 1..Len(Restart) : todo'[i] = Restart[i]
      BY <1>1, <2>1, Lists, ThenKeeps DEF RerouteAuto
    <2>3. Len(Restart) = 6
      BY DEF Restart
    <2>4. Restart[1] = "pause" /\ Restart[2] = "look-up" /\ Restart[3] = "reset"
      BY DEF Restart
    <2>5. Len(todo') > 2 /\ {1, 2, 3} \subseteq 1..Len(Restart)
      BY <2>2, <2>3
    <2>6. Restarting(todo')
      BY <2>2, <2>4, <2>5, Zenon DEF Restarting
    <2>7. ~Restarting(todo) /\ todo[1] # "reset"
      BY <1>1, <2>2 DEF Restarting
    <2>8. reroutes \in Nat /\ n <= MaxReroutes /\ n \in Nat
      <3>1. reroutes \in Nat
        BY DEF TripInv, TypeOK
      <3>2. n = 0 \/ reroutes = 0 \/ override
        BY <1>3, <2>1, <2>7, <3>1 DEF TripInv, OrderInv, CountedThenRestarts, ConditionsMet
      <3> QED
        BY <2>1, <3>1, <3>2, Bounds DEF TripInv, OrderInv, RerouteLimit
    <2>9. RerouteLimit'
      <3>1. override' = (n < MaxReroutes) /\ reroutes' = n + 1
        BY <2>1, Zenon DEF RerouteAuto
      <3>2. reroutes' <= MaxReroutes + 1 /\ (n < MaxReroutes => reroutes' <= MaxReroutes)
        BY <3>1, <2>8, Bounds
      <3> QED
        BY <3>1, <3>2, Zenon DEF RerouteLimit
    <2>10. WatchThere'
      BY <1>1, <2>2, <2>7, Zenon DEF TripInv, OrderInv, WatchThere
    <2> QED
      BY <1>1, <2>2, <2>6, <2>9, <2>10, Zenon DEF TripInv, OrderInv, CountedThenRestarts,
         WatchComes
  <1> QED
    BY <1>2, <1>3 DEF Judge

\* The other steps do not touch todo.
LEMMA OrderOthers ==
    TripInv /\ (AskForRoute \/ Click \/ Answer \/ RouteReceived
                \/ \E w \in Workers : WorkerStep(w)) => OrderInv'
  <1> SUFFICES ASSUME TripInv,
                      AskForRoute \/ Click \/ Answer \/ RouteReceived
                      \/ \E w \in Workers : WorkerStep(w)
               PROVE OrderInv'
    OBVIOUS
  <1>1. UNCHANGED <<watches, watchId, reached, limitVars, todo>>
    BY DEF AskForRoute, Click, Answer, RouteReceived, WorkerStep, Top, Looked, Quick,
       QuickLooked, watchVars, divergence
  <1>2. route' = route \/ (route' # "none" /\ route # "none")
    BY DEF AskForRoute, Click, Answer, RouteReceived, WorkerStep, Top, Looked, Quick,
       QuickLooked, tripVars
  <1> QED
    BY <1>1, <1>2, Elsewhere DEF TripInv

LEMMA OrderStep == TripInv /\ [Next]_vars => OrderInv'
  <1>1. TripInv /\ UNCHANGED vars => OrderInv'
    BY Elsewhere DEF TripInv, vars, tripVars, watchVars, divergence
  <1>2. TripInv /\ MainStep => OrderInv'
    BY OrderServe, OrderQuiet, OrderPause, OrderReset, OrderRun, OrderWatch, OrderUnwatch,
       OrderReach, OrderJudge DEF MainStep
  <1> QED
    BY <1>1, <1>2, OrderLocation, OrderOthers DEF Next

-----------------------------------------------------------------------------
(* TypeOK after each step.                                                 *)

LEMMA TodoType == TripInv /\ [Next]_vars => todo' \in Seq(Operations)
  <1> SUFFICES ASSUME TripInv, [Next]_vars PROVE todo' \in Seq(Operations)
    OBVIOUS
  <1>1. CASE UNCHANGED todo
    BY <1>1 DEF TripInv, TypeOK
  <1>2. CASE Serve
    <2>1. calls # <<>> /\ calls \in Seq({"route", "start", "stop"})
      BY <1>2 DEF Serve, TripInv, TypeOK
    <2>2. Head(calls) \in {"route", "start", "stop"}
      BY <2>1
    <2>3. todo' \in {<<"look-up">>, Start, <<"unwatch", "reset", "halt">>}
      BY <1>2, <2>2, Zenon DEF Serve
    <2> QED
      BY <2>3, Lists, Zenon DEF Ordered
  <1>3. CASE Location
    BY <1>3, Lists, Zenon DEF Location, Ordered
  <1>4. CASE MainStep /\ ~Serve
    <2>1. ~Idle
      BY <1>4 DEF MainStep, Notify, Pause, LookUp, Reset, Run, Watch, Unwatch, Halt, Update,
         Switch, Reach, Judge, Doing
    <2>2. PICK names \in {<<>>, <<"update", "notify">>, <<"update">>, <<"reach", "judge">>,
                          <<"switch", "reach", "judge">>, Restart} : Then(names)
      BY <1>4, Zenon DEF MainStep, Notify, Pause, LookUp, Reset, Run, Watch, Unwatch, Halt,
         Update, Switch, Reach, Judge, RerouteAuto, Done
    <2>3. Ordered(names)
      BY <2>2, Lists, Zenon
    <2> QED
      BY <2>1, <2>2, <2>3, ThenKeeps, Zenon
  <1>5. CASE AskForRoute \/ Click \/ Answer \/ RouteReceived
             \/ \E w \in Workers : WorkerStep(w)
    <2>1. UNCHANGED todo
      BY <1>5 DEF AskForRoute, Click, Answer, RouteReceived, WorkerStep, Top, Looked, Quick,
         QuickLooked
    <2> QED
      BY <1>1, <2>1
  <1>6. UNCHANGED vars => UNCHANGED todo
    BY DEF vars
  <1> QED
    BY <1>1, <1>2, <1>3, <1>4, <1>5, <1>6 DEF Next

\* How a step can change the variables.
LEMMA Changes ==
    ASSUME Next \/ UNCHANGED vars
    PROVE  /\ route' \in {route, "none", "current", "replaced"}
           /\ \/ step' \in {step, 0} \cup Steps
              \/ step < LastStep /\ step' = step + 1
           /\ \/ watches' \in {watches, Least(watches + 1, MaxWatches)}
              \/ Unwatch /\ watchId /\ watches' = watches - 1
           /\ \/ walk' \in {walk, 0}
              \/ walk < watches /\ walk' = walk + 1
           /\ crossed' \in {crossed, 0, Least(crossed + 1, TriggerCount)}
           /\ \/ reroutes' \in {reroutes, 0}
              \/ \E n \in {0, reroutes} : reroutes' = n + 1
           /\ \/ tries' = tries
              \/ \E w \in Workers : \/ tries' = [tries EXCEPT ![w] = 0]
                                    \/ /\ tries[w] # TriggerCount
                                       /\ tries' = [tries EXCEPT ![w] = @ + 1]
           /\ \/ asleep' \in {asleep, {}}
              \/ \E w \in Workers : asleep' = asleep \cup {w}
           /\ \/ near' \subseteq near \/ near' = {}
              \/ near' \subseteq Ahead(step) \/ near' \subseteq Ahead(step')
           /\ \/ lookups' \in {lookups, Least(lookups + 1, MaxLookups)}
              \/ lookups > 0 /\ lookups' = lookups - 1
           /\ \/ events' = events
              \/ events < MaxEvents /\ events' = events + 1
              \/ events > 0 /\ events' = events - 1
           /\ \/ calls' = calls
              \/ calls # <<>> /\ calls' = Tail(calls)
              \/ /\ CanCall
                 /\ \E c \in {"route", "start", "stop"} : calls' = Append(calls, c)
  <1> USE DEF Next, AskForRoute, Click, Answer, RouteReceived, Location, MainStep, Serve,
      Notify, Pause, LookUp, Reset, Run, StartWorker, Watch, Unwatch, Halt, Update, Switch,
      Reach, Judge, RerouteAuto, WorkerStep, Top, Looked, Quick, QuickLooked, Sleep,
      vars, tripVars, watchVars, divergence, limitVars, workerVars, placeVars, routeVars,
      guiVars
  <1>1. /\ route' \in {route, "none", "current", "replaced"}
        /\ \/ step' \in {step, 0} \cup Steps
           \/ step < LastStep /\ step' = step + 1
    BY Zenon
  <1>2. /\ \/ watches' \in {watches, Least(watches + 1, MaxWatches)}
           \/ Unwatch /\ watchId /\ watches' = watches - 1
        /\ \/ walk' \in {walk, 0}
           \/ walk < watches /\ walk' = walk + 1
    BY Zenon
  <1>3. crossed' \in {crossed, 0, Least(crossed + 1, TriggerCount)}
    BY Zenon
  <1>4. \/ reroutes' \in {reroutes, 0}
        \/ \E n \in {0, reroutes} : reroutes' = n + 1
    BY Zenon
  <1>5. \/ tries' = tries
        \/ \E w \in Workers : \/ tries' = [tries EXCEPT ![w] = 0]
                              \/ /\ tries[w] # TriggerCount
                                 /\ tries' = [tries EXCEPT ![w] = @ + 1]
    BY Zenon
  <1>6. \/ asleep' \in {asleep, {}}
        \/ \E w \in Workers : asleep' = asleep \cup {w}
    BY Zenon
  <1>7. \/ near' \subseteq near \/ near' = {}
        \/ near' \subseteq Ahead(step) \/ near' \subseteq Ahead(step')
    BY Zenon
  <1>8. /\ \/ lookups' \in {lookups, Least(lookups + 1, MaxLookups)}
           \/ lookups > 0 /\ lookups' = lookups - 1
        /\ \/ events' = events
           \/ events < MaxEvents /\ events' = events + 1
           \/ events > 0 /\ events' = events - 1
    BY Zenon
  <1>9. \/ calls' = calls
        \/ calls # <<>> /\ calls' = Tail(calls)
        \/ /\ CanCall
           /\ \E c \in {"route", "start", "stop"} : calls' = Append(calls, c)
    BY Zenon
  <1> HIDE DEF Next, AskForRoute, Click, Answer, RouteReceived, Location, MainStep, Serve,
      Notify, Pause, LookUp, Reset, Run, StartWorker, Watch, Unwatch, Halt, Update, Switch,
      Reach, Judge, RerouteAuto, WorkerStep, Top, Looked, Quick, QuickLooked, Sleep,
      vars, tripVars, watchVars, divergence, limitVars, workerVars, placeVars, routeVars,
      guiVars
  <1> QED
    BY <1>1, <1>2, <1>3, <1>4, <1>5, <1>6, <1>7, <1>8, <1>9, Zenon

LEMMA LessIsBoolean == \A n \in {0} \cup Nat : (n < MaxReroutes) \in BOOLEAN
  BY Bounds

\* The flags, and what the workers hold.
LEMMA FlagTypes ==
    ASSUME TypeOK, Next \/ UNCHANGED vars
    PROVE  /\ watchId' \in BOOLEAN /\ onRoute' \in BOOLEAN /\ reached' \in BOOLEAN
           /\ override' \in BOOLEAN /\ enabled' \in BOOLEAN /\ following' \in BOOLEAN
           /\ moving' \in BOOLEAN /\ available' \in BOOLEAN /\ navigating' \in BOOLEAN
           /\ shown' \in BOOLEAN
           /\ pc' \in [Workers -> {"ended", "top", "looked", "quick", "quick-looked"}]
           /\ saw' \in [Workers -> BOOLEAN]
  <1> USE DEF Next, AskForRoute, Click, Answer, RouteReceived, Location, MainStep, Serve,
      Notify, Pause, LookUp, Reset, Run, StartWorker, Watch, Unwatch, Halt, Update, Switch,
      Reach, Judge, RerouteAuto, WorkerStep, Top, Looked, Quick, QuickLooked, Sleep,
      vars, tripVars, watchVars, divergence, limitVars, workerVars, placeVars, routeVars,
      guiVars
  <1>1. watchId' \in BOOLEAN /\ reached' \in BOOLEAN /\ enabled' \in BOOLEAN
    BY Zenon DEF TypeOK
  <1>2. onRoute' \in BOOLEAN
    <2>1. onRoute' \in {onRoute, FALSE} \/ \E w \in Workers : onRoute' = saw[w]
      BY Zenon
    <2>2. onRoute \in BOOLEAN /\ \A w \in Workers : saw[w] \in BOOLEAN
      BY Zenon DEF TypeOK
    <2> QED
      BY <2>1, <2>2, Zenon
  <1>3. override' \in BOOLEAN
    <2>1. override' = override \/ \E n \in {0, reroutes} : override' = (n < MaxReroutes)
      BY Zenon
    <2>2. override \in BOOLEAN /\ reroutes \in Nat
      BY Zenon DEF TypeOK
    <2> QED
      BY <2>1, <2>2, LessIsBoolean, Zenon
  <1>4. following' \in BOOLEAN /\ moving' \in BOOLEAN
    BY Zenon DEF TypeOK
  <1>5. available' \in BOOLEAN /\ navigating' \in BOOLEAN /\ shown' \in BOOLEAN
    BY Zenon DEF TypeOK
  <1>6. pc' \in [Workers -> {"ended", "top", "looked", "quick", "quick-looked"}]
    BY ZenonT(30) DEF TypeOK
  <1>7. saw' \in [Workers -> BOOLEAN]
    BY DEF TypeOK
  <1> HIDE DEF Next, AskForRoute, Click, Answer, RouteReceived, Location, MainStep, Serve,
      Notify, Pause, LookUp, Reset, Run, StartWorker, Watch, Unwatch, Halt, Update, Switch,
      Reach, Judge, RerouteAuto, WorkerStep, Top, Looked, Quick, QuickLooked, Sleep,
      vars, tripVars, watchVars, divergence, limitVars, workerVars, placeVars, routeVars,
      guiVars
  <1> QED
    BY <1>1, <1>2, <1>3, <1>4, <1>5, <1>6, <1>7, Zenon

LEMMA TypeStep == TripInv /\ [Next]_vars => TypeOK'
  <1> SUFFICES ASSUME TripInv, Next \/ UNCHANGED vars PROVE TypeOK'
    OBVIOUS
  <1>1. TypeOK
    BY DEF TripInv
  <1>2. route' \in {"none", "current", "replaced"}
    BY <1>1, Changes, Zenon DEF TypeOK
  <1>3. step' \in Steps
    <2>1. step \in Steps
      BY <1>1, Zenon DEF TypeOK
    <2>2. step' \in {step, 0} \cup Steps \/ (step < LastStep /\ step' = step + 1)
      BY Changes, Zenon
    <2> QED
      BY <2>1, <2>2, Bounds DEF Steps
  <1>4. watches' \in 0..MaxWatches
    <2>1. watches \in 0..MaxWatches
      BY <1>1, Zenon DEF TypeOK
    <2>2. \/ watches' \in {watches, Least(watches + 1, MaxWatches)}
          \/ Unwatch /\ watchId /\ watches' = watches - 1
      BY Changes, Zenon
    <2>3. Unwatch /\ watchId => watches # 0
      <3> SUFFICES ASSUME Unwatch, watchId PROVE watches # 0
        OBVIOUS
      <3>1. todo \in Seq(Operations)
        BY <1>1, Zenon DEF TypeOK
      <3>2. todo # <<>> /\ Head(todo) = "unwatch"
        BY Zenon DEF Unwatch, Doing, Idle
      <3>3. todo[1] = "unwatch"
        BY <3>1, <3>2
      <3> QED
        BY <3>3, Zenon DEF TripInv, OrderInv, WatchThere
    <2> QED
      BY <2>1, <2>2, <2>3, Bounds DEF Least
  <1>5. walk' \in 0..MaxWatches
    <2>1. walk \in 0..MaxWatches /\ watches \in 0..MaxWatches
      BY <1>1, Zenon DEF TypeOK
    <2>2. walk' \in {walk, 0} \/ (walk < watches /\ walk' = walk + 1)
      BY Changes, Zenon
    <2> QED
      BY <2>1, <2>2, Bounds
  <1>6. crossed' \in 0..TriggerCount
    <2>1. crossed \in 0..TriggerCount
      BY <1>1, Zenon DEF TypeOK
    <2>2. crossed' \in {crossed, 0, Least(crossed + 1, TriggerCount)}
      BY Changes, Zenon
    <2> QED
      BY <2>1, <2>2, Bounds DEF Least
  <1>7. reroutes' \in Nat
    <2>1. reroutes \in Nat
      BY <1>1, Zenon DEF TypeOK
    <2>2. reroutes' \in {reroutes, 0} \/ \E n \in {0, reroutes} : reroutes' = n + 1
      BY Changes, Zenon
    <2> QED
      BY <2>1, <2>2
  <1>8. tries' \in [Workers -> 0..TriggerCount]
    <2>1. tries \in [Workers -> 0..TriggerCount]
      BY <1>1, Zenon DEF TypeOK
    <2>2. CASE tries' = tries
      BY <2>1, <2>2
    <2>3. ASSUME NEW w \in Workers, tries' = [tries EXCEPT ![w] = 0]
          PROVE  tries' \in [Workers -> 0..TriggerCount]
      BY <2>1, <2>3, Bounds
    <2>4. ASSUME NEW w \in Workers, tries[w] # TriggerCount,
                 tries' = [tries EXCEPT ![w] = @ + 1]
          PROVE  tries' \in [Workers -> 0..TriggerCount]
      <3>1. tries[w] + 1 \in 0..TriggerCount
        BY <2>1, <2>4, Bounds
      <3> QED
        BY <2>1, <2>4, <3>1
    <2> QED
      BY <2>2, <2>3, <2>4, Changes, Zenon
  <1>9. asleep' \subseteq Workers
    <2>1. asleep \subseteq Workers
      BY <1>1, Zenon DEF TypeOK
    <2>2. asleep' \in {asleep, {}} \/ \E w \in Workers : asleep' = asleep \cup {w}
      BY Changes, Zenon
    <2> QED
      BY <2>1, <2>2
  <1>10. near' \subseteq Steps
    <2>1. near \subseteq Steps /\ step \in Steps
      BY <1>1, Zenon DEF TypeOK
    <2>2. \/ near' \subseteq near \/ near' = {}
          \/ near' \subseteq Ahead(step) \/ near' \subseteq Ahead(step')
      BY Changes, Zenon
    <2>3. Ahead(step) \subseteq Steps /\ Ahead(step') \subseteq Steps
      BY <1>3, <2>1, Bounds DEF Ahead, Steps
    <2> QED
      BY <2>1, <2>2, <2>3
  <1>11. lookups' \in 0..MaxLookups
    <2>1. lookups \in 0..MaxLookups
      BY <1>1, Zenon DEF TypeOK
    <2>2. \/ lookups' \in {lookups, Least(lookups + 1, MaxLookups)}
          \/ lookups > 0 /\ lookups' = lookups - 1
      BY Changes, Zenon
    <2> QED
      BY <2>1, <2>2, Bounds DEF Least
  <1>12. events' \in 0..MaxEvents
    <2>1. events \in 0..MaxEvents
      BY <1>1, Zenon DEF TypeOK
    <2>2. \/ events' = events
          \/ events < MaxEvents /\ events' = events + 1
          \/ events > 0 /\ events' = events - 1
      BY Changes, Zenon
    <2> QED
      BY <2>1, <2>2, Bounds
  <1>13. calls' \in Seq({"route", "start", "stop"}) /\ Len(calls') <= MaxCalls
    <2>1. calls \in Seq({"route", "start", "stop"}) /\ Len(calls) <= MaxCalls
      BY <1>1, Zenon DEF TypeOK
    <2>2. \/ calls' = calls
          \/ calls # <<>> /\ calls' = Tail(calls)
          \/ CanCall /\ \E c \in {"route", "start", "stop"} : calls' = Append(calls, c)
      BY Changes, Zenon
    <2> QED
      BY <2>1, <2>2, Bounds DEF CanCall
  <1>14. todo' \in Seq(Operations)
    BY TodoType
  <1> QED
    BY <1>1, <1>2, <1>3, <1>4, <1>5, <1>6, <1>7, <1>8, <1>9, <1>10, <1>11, <1>12, <1>13,
       <1>14, FlagTypes, Zenon DEF TypeOK

-----------------------------------------------------------------------------
(* The GUI and navigation agree.                                           *)

Has(s, name) == \E i \in 1..Len(s) : s[i] = name

\* Every reset is followed by a run.
ResetsRun(s) ==
    \A i \in 1..Len(s) : s[i] = "reset" => \E j \in 1..Len(s) : i < j /\ s[j] = "run"

\* Where navigation may run, mod_route has a route.
RouteThere ==
    \/ shown \/ navigating \/ events > 0 \/ route # "none"
    \/ Has(calls, "start") \/ Has(todo, "run") \/ Has(todo, "judge")
    => available

\* The last call about navigation on its way is the one that the GUI wants, ...
QuietCalls == \A i \in 1..Len(calls) : calls[i] = "route"

LastCallTells ==
    \A i \in 1..Len(calls) :
        /\ calls[i] # "route"
        /\ \A j \in 1..Len(calls) : i < j => calls[j] = "route"
        => (calls[i] = "start" <=> navigating)

\* ... and once it is served, navigation runs or is about to run, ...
RunsIfWanted ==
    QuietCalls /\ navigating =>
        /\ ResetsRun(todo)
        /\ ~Has(todo, "run") => route # "none" /\ (events = 0 => route = "current")

\* ... or has stopped or is about to, and whatever is still to be done does not
\* start it.
Harmless == {"halt", "notify", "update", "look-up"}

StopsIfWanted ==
    QuietCalls /\ ~navigating =>
        \/ todo = <<"unwatch", "reset", "halt">> \/ todo = <<"reset", "halt">>
        \/ route = "none" /\ \A i \in 1..Len(todo) : todo[i] \in Harmless

GuiInv == RouteThere /\ LastCallTells /\ RunsIfWanted /\ StopsIfWanted

LEMMA GuiInit == Init => GuiInv
  BY DEF Init, GuiInv, RouteThere, LastCallTells, RunsIfWanted, StopsIfWanted, Has

\* What there is to do is what the operation done leaves, and what it adds.
Later(name) == \E i \in 2..Len(todo) : todo[i] = name

LEMMA HasLater ==
    ASSUME TypeOK, ~Idle, NEW name
    PROVE  Has(todo, name) <=> Head(todo) = name \/ Later(name)
  <1>1. todo \in Seq(Operations) /\ todo # <<>>
    BY DEF TypeOK, Idle
  <1>2. Head(todo) = todo[1] /\ Len(todo) \in Nat \ {0}
    BY <1>1
  <1>3. \A i \in 1..Len(todo) : i = 1 \/ i \in 2..Len(todo)
    BY <1>2
  <1>4. 1 \in 1..Len(todo) /\ \A i \in 2..Len(todo) : i \in 1..Len(todo)
    BY <1>2
  <1> QED
    BY <1>2, <1>3, <1>4 DEF Has, Later

LEMMA ThenHas ==
    ASSUME TripInv, ~Idle, NEW names, Ordered(names), Then(names)
    PROVE  /\ \A name : Has(todo', name) <=> Has(names, name) \/ Later(name)
           /\ ResetsRun(todo) /\ ResetsRun(names) => ResetsRun(todo')
           /\ Len(todo) \in Nat \ {0} /\ Head(todo) = todo[1]
  <1> DEFINE n == Len(names)
             t == names \o Tail(todo)
  <1>1. /\ todo \in Seq(Operations) /\ todo # <<>> /\ names \in Seq(Operations)
        /\ todo' = t
    BY DEF TripInv, TypeOK, Idle, Ordered, Then
  <1>2. /\ n \in Nat /\ Len(todo) \in Nat /\ Len(todo) > 0
        /\ Len(t) = (n + Len(todo)) - 1
        /\ \A i \in 1..n : t[i] = names[i]
        /\ \A i \in 2..Len(todo) : t[(n + i) - 1] = todo[i]
        /\ \A i \in (n + 1)..Len(t) : t[i] = todo[(i - n) + 1]
    BY <1>1, Replaced
  <1> HIDE DEF n, t
  <1>3. \A i \in 1..Len(t) : \/ i \in 1..n /\ t[i] = names[i]
                             \/ /\ (i - n) + 1 \in 2..Len(todo)
                                /\ t[i] = todo[(i - n) + 1]
                                /\ (n + ((i - n) + 1)) - 1 = i
    BY <1>2
  <1>4. \A i \in 1..n : i \in 1..Len(t)
    BY <1>2
  <1>5. \A i \in 2..Len(todo) : (n + i) - 1 \in 1..Len(t) /\ (n + i) - 1 > n
    BY <1>2
  <1>6. ASSUME NEW name PROVE Has(t, name) <=> Has(names, name) \/ Later(name)
    <2>1. ASSUME NEW i \in 1..Len(t), t[i] = name
          PROVE  Has(names, name) \/ Later(name)
      BY <1>3, <2>1 DEF Has, Later, n
    <2>2. ASSUME NEW i \in 1..n, names[i] = name
          PROVE  Has(t, name)
      BY <1>2, <1>4, <2>2 DEF Has
    <2>3. ASSUME NEW i \in 2..Len(todo), todo[i] = name
          PROVE  Has(t, name)
      <3>1. (n + i) - 1 \in 1..Len(t) /\ t[(n + i) - 1] = name
        BY <1>2, <1>5, <2>3
      <3> QED
        BY <3>1 DEF Has
    <2> QED
      BY <2>1, <2>2, <2>3 DEF Has, Later, n
  <1>7. ASSUME ResetsRun(todo), ResetsRun(names) PROVE ResetsRun(t)
    <2> SUFFICES ASSUME NEW i \in 1..Len(t), t[i] = "reset"
                 PROVE  \E j \in 1..Len(t) : i < j /\ t[j] = "run"
      BY DEF ResetsRun
    <2>1. CASE i \in 1..n /\ names[i] = "reset"
      <3>1. PICK j \in 1..n : i < j /\ names[j] = "run"
        BY <1>7, <2>1 DEF ResetsRun, n
      <3> QED
        BY <1>2, <1>4, <3>1
    <2>2. CASE (i - n) + 1 \in 2..Len(todo) /\ todo[(i - n) + 1] = "reset"
      <3>1. (i - n) + 1 \in 1..Len(todo)
        BY <1>2, <2>2
      <3>2. PICK j \in 1..Len(todo) : (i - n) + 1 < j /\ todo[j] = "run"
        BY <1>7, <2>2, <3>1 DEF ResetsRun
      <3>3. j \in 2..Len(todo) /\ i < (n + j) - 1
        BY <1>2, <2>2, <3>2
      <3>4. (n + j) - 1 \in 1..Len(t) /\ t[(n + j) - 1] = "run"
        BY <1>2, <1>5, <3>2, <3>3
      <3> QED
        BY <3>3, <3>4
    <2> QED
      BY <1>3, <2>1, <2>2
  <1>8. Head(todo) = todo[1]
    BY <1>1
  <1> QED
    BY <1>1, <1>2, <1>6, <1>7, <1>8

\* What the actions put into todo.
LEMMA SingleHas == \A a, name : Has(<<a>>, name) <=> a = name
  BY DEF Has

LEMMA PairHas == \A a, b, name : Has(<<a, b>>, name) <=> name \in {a, b}
  <1> TAKE a, b, name
  <1>1. <<a, b>>[1] = a /\ <<a, b>>[2] = b /\ Len(<<a, b>>) = 2 /\ 1..2 = {1, 2}
    OBVIOUS
  <1> QED
    BY <1>1 DEF Has

LEMMA TripleHas == \A a, b, c, name : Has(<<a, b, c>>, name) <=> name \in {a, b, c}
  <1> TAKE a, b, c, name
  <1>1. /\ <<a, b, c>>[1] = a /\ <<a, b, c>>[2] = b /\ <<a, b, c>>[3] = c
        /\ Len(<<a, b, c>>) = 3 /\ 1..3 = {1, 2, 3}
    OBVIOUS
  <1> QED
    BY <1>1 DEF Has

LEMMA NoneHas == \A name : ~Has(<<>>, name)
  BY DEF Has

LEMMA NoReset ==
    ASSUME NEW s, ~Has(s, "reset")
    PROVE  ResetsRun(s)
  BY DEF Has, ResetsRun

LEMMA StartRuns == ResetsRun(Start) /\ Has(Start, "run")
  <1>1. /\ Len(Start) = 4 /\ Start[1] = "reset" /\ Start[2] = "run"
        /\ Start[3] = "update" /\ Start[4] = "watch"
    BY DEF Start
  <1>2. 1..4 = {1, 2, 3, 4} /\ 1 < 2
    OBVIOUS
  <1> QED
    BY <1>1, <1>2 DEF Has, ResetsRun

LEMMA RestartRuns == ResetsRun(Restart) /\ ~Has(Restart, "judge")
  <1>1. /\ Restart[1] = "pause" /\ Restart[2] = "look-up" /\ Restart[3] = "reset"
        /\ Restart[4] = "run" /\ Restart[5] = "update" /\ Restart[6] = "watch"
    BY DEF Restart
  <1>2. Len(Restart) = 6
    BY DEF Restart
  <1>3. \A i \in 1..6 : i \in {1, 2, 3, 4, 5, 6}
    OBVIOUS
  <1>4. 4 \in 1..6 /\ 3 < 4
    OBVIOUS
  <1>5. ASSUME NEW i \in 1..6, Restart[i] = "reset" PROVE i = 3
    <2>1. i \in {1, 2, 3, 4, 5, 6}
      BY <1>3
    <2> QED
      BY <1>1, <1>5, <2>1, Zenon
  <1>6. ASSUME NEW i \in 1..6 PROVE Restart[i] # "judge"
    <2>1. i \in {1, 2, 3, 4, 5, 6}
      BY <1>3
    <2> QED
      BY <1>1, <2>1, Zenon
  <1> QED
    BY <1>1, <1>2, <1>4, <1>5, <1>6, Zenon DEF Has, ResetsRun

\* The operations that add nothing or something harmless.
LEMMA QuietNames ==
    ASSUME NEW names \in {<<>>, <<"update", "notify">>, <<"update">>, <<"reach", "judge">>,
                          <<"switch", "reach", "judge">>}
    PROVE  /\ Ordered(names) /\ ResetsRun(names) /\ ~Has(names, "run")
           /\ Has(names, "judge") => names \in {<<"reach", "judge">>, <<"switch", "reach", "judge">>}
  <1>1. Ordered(names)
    BY Lists, Zenon
  <1>2. /\ ~Has(<<>>, "reset") /\ ~Has(<<>>, "run") /\ ~Has(<<>>, "judge")
    BY NoneHas, Zenon
  <1>3. /\ ~Has(<<"update">>, "reset") /\ ~Has(<<"update">>, "run")
        /\ ~Has(<<"update">>, "judge")
    BY SingleHas
  <1>4. /\ ~Has(<<"update", "notify">>, "reset") /\ ~Has(<<"update", "notify">>, "run")
        /\ ~Has(<<"update", "notify">>, "judge")
        /\ ~Has(<<"reach", "judge">>, "reset") /\ ~Has(<<"reach", "judge">>, "run")
    BY PairHas
  <1>5. /\ ~Has(<<"switch", "reach", "judge">>, "reset")
        /\ ~Has(<<"switch", "reach", "judge">>, "run")
    BY TripleHas
  <1>6. ~Has(names, "reset") /\ ~Has(names, "run")
    BY <1>2, <1>3, <1>4, <1>5, Zenon
  <1>7. Has(names, "judge") => names \in {<<"reach", "judge">>, <<"switch", "reach", "judge">>}
    BY <1>2, <1>3, <1>4, Zenon
  <1> QED
    BY <1>1, <1>6, <1>7, NoReset

-----------------------------------------------------------------------------
(* GuiInv after each step of the thread of the calls.                      *)

\* An operation that leaves the route and the GUI alone.
LEMMA RunsKept ==
    ASSUME TripInv, GuiInv, ~Idle, NEW names, Ordered(names), Then(names),
           ResetsRun(names), Head(todo) # "run",
           UNCHANGED <<route, calls, events, navigating>>
    PROVE  RunsIfWanted'
  <1> SUFFICES ASSUME QuietCalls, navigating
               PROVE  /\ ResetsRun(todo')
                      /\ ~Has(todo', "run") =>
                             route # "none" /\ (events = 0 => route = "current")
    BY DEF RunsIfWanted, QuietCalls
  <1>1. Has(todo, "run") => Has(todo', "run")
    BY HasLater, ThenHas DEF TripInv
  <1>2. ResetsRun(todo) => ResetsRun(todo')
    BY ThenHas
  <1> QED
    BY <1>1, <1>2 DEF GuiInv, RunsIfWanted

LEMMA ThereKept ==
    ASSUME TripInv, GuiInv, ~Idle, NEW names, Ordered(names), Then(names),
           Has(names, "run") \/ Has(names, "judge") => available,
           route' # "none" => route # "none" \/ available,
           UNCHANGED <<calls, events, navigating, shown, available>>
    PROVE  RouteThere'
  <1>1. Has(todo', "run") => Has(names, "run") \/ Has(todo, "run")
    BY HasLater, ThenHas DEF TripInv
  <1>2. Has(todo', "judge") => Has(names, "judge") \/ Has(todo, "judge")
    BY HasLater, ThenHas DEF TripInv
  <1> QED
    BY <1>1, <1>2 DEF GuiInv, RouteThere

\* What the thread does when navigation is to stop.
LEMMA StopsKept ==
    ASSUME TripInv, GuiInv, MainStep, ~Serve
    PROVE  StopsIfWanted'
  <1>1. ~Idle /\ UNCHANGED <<calls, navigating>>
    BY DEF MainStep, Notify, Pause, LookUp, Reset, Run, Watch, Unwatch, Halt, Update,
       Switch, Reach, Judge, Doing, guiVars
  <1> SUFFICES ASSUME QuietCalls, ~navigating
               PROVE  \/ todo' = <<"unwatch", "reset", "halt">> \/ todo' = <<"reset", "halt">>
                      \/ route' = "none" /\ \A i \in 1..Len(todo') : todo'[i] \in Harmless
    BY <1>1 DEF StopsIfWanted, QuietCalls
  <1>2. CASE todo = <<"unwatch", "reset", "halt">>
    <2>1. Head(todo) = "unwatch" /\ Tail(todo) = <<"reset", "halt">>
      BY <1>2
    <2>2. Unwatch
      BY <2>1 DEF MainStep, Notify, Pause, LookUp, Reset, Run, Watch, Halt, Update,
         Switch, Reach, Judge, Doing
    <2>3. todo' = <<>> \o Tail(todo)
      BY <2>2 DEF Unwatch, Done, Then
    <2> QED
      BY <2>1, <2>3
  <1>3. CASE todo = <<"reset", "halt">>
    <2>1. Head(todo) = "reset" /\ Tail(todo) = <<"halt">>
      BY <1>3
    <2>2. Reset
      BY <2>1 DEF MainStep, Notify, Pause, LookUp, Run, Watch, Unwatch, Halt, Update,
         Switch, Reach, Judge, Doing
    <2>3. todo' = <<>> \o Tail(todo) /\ route' = "none"
      BY <2>2 DEF Reset, Done, Then
    <2>4. todo' = <<"halt">>
      BY <2>1, <2>3
    <2>5. \A i \in 1..Len(todo') : todo'[i] \in Harmless
      <3> DEFINE t == <<"halt">>
      <3>1. Len(t) = 1 /\ t[1] = "halt"
        OBVIOUS
      <3> HIDE DEF t
      <3>2. \A i \in 1..Len(t) : t[i] \in Harmless
        BY <3>1 DEF Harmless
      <3> QED
        BY <2>4, <3>2 DEF t
    <2> QED
      BY <2>3, <2>5
  <1>4. CASE route = "none" /\ \A i \in 1..Len(todo) : todo[i] \in Harmless
    <2>1. todo \in Seq(Operations) /\ todo # <<>>
      BY <1>1 DEF TripInv, TypeOK, Idle
    <2>2. 1 \in 1..Len(todo) /\ Head(todo) = todo[1]
      BY <2>1
    <2>3. Head(todo) \in Harmless
      BY <1>4, <2>2
    <2>4. Halt \/ Notify \/ Update \/ LookUp
      BY <2>3 DEF MainStep, Pause, Reset, Run, Watch, Unwatch, Switch, Reach, Judge, Doing,
         Harmless
    <2>5. PICK names \in {<<>>, <<"update", "notify">>} : Then(names)
      BY <1>4, <2>4, Zenon DEF Halt, Notify, Update, LookUp, Done
    <2>6. route' = "none"
      BY <1>4, <2>4 DEF Halt, Notify, Update, LookUp, tripVars
    <2>7. Ordered(names)
      BY <2>5, Lists, Zenon
    <2>8. ASSUME NEW name, Has(names, name) PROVE name \in Harmless
      BY <2>5, <2>8, NoneHas, PairHas DEF Harmless
    <2>9. ASSUME NEW i \in 1..Len(todo') PROVE todo'[i] \in Harmless
      <3>1. Has(todo', todo'[i])
        BY DEF Has
      <3>2. Has(names, todo'[i]) \/ Later(todo'[i])
        BY <1>1, <2>5, <2>7, <3>1, ThenHas
      <3>3. Later(todo'[i]) => Has(todo, todo'[i])
        BY <1>1, HasLater DEF TripInv
      <3>4. Has(todo, todo'[i]) => todo'[i] \in Harmless
        BY <1>4 DEF Has
      <3> QED
        BY <2>8, <3>2, <3>3, <3>4
    <2> QED
      BY <2>6, <2>9
  <1> QED
    BY <1>2, <1>3, <1>4 DEF GuiInv, StopsIfWanted

LEMMA GuiMain == TripInv /\ GuiInv /\ MainStep /\ ~Serve => GuiInv'
  <1> SUFFICES ASSUME TripInv, GuiInv, MainStep, ~Serve PROVE GuiInv'
    OBVIOUS
  <1>1. ~Idle /\ UNCHANGED <<calls, events, navigating, shown, available>>
    BY DEF MainStep, Notify, Pause, LookUp, Reset, Run, Watch, Unwatch, Halt, Update,
       Switch, Reach, Judge, Doing, guiVars, routeVars
  <1>2. StopsIfWanted'
    BY StopsKept
  <1>3. LastCallTells'
    BY <1>1 DEF GuiInv, LastCallTells
  <1>4. Head(todo) = "judge" => available
    BY <1>1, HasLater DEF GuiInv, RouteThere, TripInv
  <1>5. Head(todo) = "run" => available
    BY <1>1, HasLater DEF GuiInv, RouteThere, TripInv
  <1>6. CASE Notify \/ Pause \/ LookUp \/ Watch \/ Unwatch \/ Halt \/ Update \/ Switch \/ Reach
    <2>1. Head(todo) # "run" /\ UNCHANGED route
      BY <1>6 DEF Notify, Pause, LookUp, Watch, Unwatch, Halt, Update, Switch, Reach, Doing,
         tripVars
    <2>2. PICK names \in {<<>>, <<"update", "notify">>, <<"update">>, <<"reach", "judge">>,
                          <<"switch", "reach", "judge">>} :
              /\ Then(names)
              /\ names \in {<<"reach", "judge">>, <<"switch", "reach", "judge">>}
                     => Update /\ route # "none"
      BY <1>6, Zenon
      DEF Notify, Pause, LookUp, Watch, Unwatch, Halt, Update, Switch, Reach, Done
    <2>3. /\ Ordered(names) /\ ResetsRun(names) /\ ~Has(names, "run")
          /\ Has(names, "judge") => route # "none"
      BY <2>2, QuietNames
    <2>4. route # "none" => available
      BY DEF GuiInv, RouteThere
    <2> HIDE DEF Then
    <2>5. RouteThere'
      BY <1>1, <2>1, <2>2, <2>3, <2>4, ThereKept, Zenon
    <2>6. RunsIfWanted'
      BY <1>1, <2>1, <2>2, <2>3, RunsKept
    <2> QED
      BY <1>2, <1>3, <2>5, <2>6 DEF GuiInv
  <1>7. CASE Judge
    <2>1. Head(todo) = "judge" /\ UNCHANGED route
      BY <1>7 DEF Judge, Doing, tripVars
    <2>2. PICK names \in {<<>>, Restart} : Then(names)
      BY <1>7, Zenon DEF Judge, RerouteAuto, Done
    <2>3. Ordered(names) /\ ResetsRun(names)
      BY <2>2, Lists, RestartRuns, NoneHas, NoReset, Zenon
    <2>4. RouteThere'
      BY <1>1, <1>4, <2>1, <2>2, <2>3, ThereKept
    <2>5. RunsIfWanted'
      BY <1>1, <2>1, <2>2, <2>3, RunsKept
    <2> QED
      BY <1>2, <1>3, <2>4, <2>5 DEF GuiInv
  <1>8. CASE Reset
    <2>1. Head(todo) = "reset" /\ Then(<<>>) /\ route' = "none"
      BY <1>8 DEF Reset, Doing, Done
    <2>2. Ordered(<<>>) /\ ~Has(<<>>, "run") /\ ~Has(<<>>, "judge") /\ ~Has(<<>>, "reset")
      BY Lists, NoneHas
    <2>3. RouteThere'
      BY <1>1, <2>1, <2>2, ThereKept
    <2>4. ASSUME ResetsRun(todo) PROVE ResetsRun(todo') /\ Has(todo', "run")
      <3>1. Len(todo) \in Nat \ {0} /\ todo[1] = "reset"
        BY <1>1, <2>1, <2>2, ThenHas
      <3>2. PICK j \in 1..Len(todo) : 1 < j /\ todo[j] = "run"
        BY <2>4, <3>1 DEF ResetsRun
      <3>3. j \in 2..Len(todo)
        BY <3>1, <3>2
      <3>4. Later("run")
        BY <3>2, <3>3 DEF Later
      <3> QED
        BY <1>1, <2>1, <2>2, <2>4, <3>4, ThenHas, NoReset
    <2>5. RunsIfWanted'
      BY <1>1, <2>4 DEF GuiInv, RunsIfWanted, QuietCalls
    <2> QED
      BY <1>2, <1>3, <2>3, <2>5 DEF GuiInv
  <1>9. CASE Run
    <2>1. Head(todo) = "run" /\ available
      BY <1>5, <1>9 DEF Run, Doing
    <2>2. Then(<<"update">>) /\ route' = "current"
      BY <1>9, <2>1 DEF Run
    <2>3. Ordered(<<"update">>) /\ ResetsRun(<<"update">>)
      BY QuietNames
    <2>4. RouteThere'
      BY <1>1, <2>1, <2>2, <2>3, ThereKept
    <2>5. ResetsRun(todo) => ResetsRun(todo')
      BY <1>1, <2>2, <2>3, ThenHas
    <2>6. RunsIfWanted'
      BY <1>1, <2>2, <2>5 DEF GuiInv, RunsIfWanted, QuietCalls
    <2> QED
      BY <1>2, <1>3, <2>4, <2>6 DEF GuiInv
  <1> QED
    BY <1>6, <1>7, <1>8, <1>9 DEF MainStep

\* The thread is idle, and begins with something else than a call.
LEMMA GuiLocation == TripInv /\ GuiInv /\ Location => GuiInv'
  <1> SUFFICES ASSUME TripInv, GuiInv, Location PROVE GuiInv'
    OBVIOUS
  <1>1. /\ todo = <<>> /\ todo' = <<"notify">>
        /\ UNCHANGED <<route, calls, events, navigating, shown, available>>
    BY DEF Location, Idle, tripVars, guiVars, routeVars
  <1>2. /\ ~Has(<<"notify">>, "run") /\ ~Has(<<"notify">>, "judge")
        /\ ~Has(<<"notify">>, "reset") /\ ~Has(<<>>, "run")
    BY SingleHas, NoneHas
  <1>3. RouteThere' /\ LastCallTells'
    BY <1>1, <1>2 DEF GuiInv, RouteThere, LastCallTells
  <1>4. RunsIfWanted'
    BY <1>1, <1>2, NoReset DEF GuiInv, RunsIfWanted, QuietCalls
  <1>5. StopsIfWanted'
    <2>1. QuietCalls /\ ~navigating => route = "none"
      BY <1>1 DEF GuiInv, StopsIfWanted
    <2>2. \A i \in 1..Len(<<"notify">>) : <<"notify">>[i] \in Harmless
      BY DEF Harmless
    <2> QED
      BY <1>1, <2>1, <2>2 DEF StopsIfWanted, QuietCalls
  <1> QED
    BY <1>3, <1>4, <1>5 DEF GuiInv

\* The first call is taken off the queue.
LEMMA CallTaken ==
    ASSUME TripInv, GuiInv, calls # <<>>, calls' = Tail(calls), navigating' = navigating
    PROVE  /\ LastCallTells'
           /\ QuietCalls' => \/ Head(calls) = "route" /\ QuietCalls
                             \/ Head(calls) # "route" /\ (Head(calls) = "start" <=> navigating)
           /\ Head(calls) \in {"route", "start", "stop"}
           /\ Head(calls) = "start" => available
           /\ Has(calls', "start") => Has(calls, "start")
  <1>1. calls \in Seq({"route", "start", "stop"})
    BY DEF TripInv, TypeOK
  <1>2. /\ Len(calls') = Len(calls) - 1 /\ Len(calls) \in Nat \ {0}
        /\ \A i \in 1..Len(calls') : calls'[i] = calls[i + 1] /\ i + 1 \in 1..Len(calls)
        /\ 1 \in 1..Len(calls) /\ Head(calls) = calls[1]
        /\ Head(calls) \in {"route", "start", "stop"}
    BY <1>1
  <1>3. \A j \in 1..Len(calls) : 1 < j => j - 1 \in 1..Len(calls') /\ calls[j] = calls'[j - 1]
    BY <1>2
  <1>4. LastCallTells'
    <2> SUFFICES ASSUME NEW i \in 1..Len(calls'), calls'[i] # "route",
                        \A j \in 1..Len(calls') : i < j => calls'[j] = "route"
                 PROVE  calls'[i] = "start" <=> navigating
      BY DEF LastCallTells
    <2>1. i + 1 \in 1..Len(calls) /\ calls'[i] = calls[i + 1]
      BY <1>2
    <2>2. \A j \in 1..Len(calls) : i + 1 < j => calls[j] = "route"
      <3> SUFFICES ASSUME NEW j \in 1..Len(calls), i + 1 < j PROVE calls[j] = "route"
        OBVIOUS
      <3>1. 1 < j /\ i < j - 1
        BY <1>2
      <3> QED
        BY <1>3, <3>1
    <2> QED
      BY <2>1, <2>2 DEF GuiInv, LastCallTells
  <1>5. ASSUME QuietCalls' PROVE \A j \in 1..Len(calls) : 1 < j => calls[j] = "route"
    BY <1>3, <1>5 DEF QuietCalls
  <1>6. \A j \in 1..Len(calls) : j = 1 \/ 1 < j
    BY <1>2
  <1>7. ASSUME QuietCalls', calls[1] = "route" PROVE QuietCalls
    BY <1>5, <1>6, <1>7 DEF QuietCalls
  <1>8. ASSUME QuietCalls', calls[1] # "route" PROVE calls[1] = "start" <=> navigating
    BY <1>2, <1>5, <1>8 DEF GuiInv, LastCallTells
  <1>9. Head(calls) = "start" => available
    BY <1>2 DEF GuiInv, RouteThere, Has
  <1>10. Has(calls', "start") => Has(calls, "start")
    BY <1>2 DEF Has
  <1> QED
    BY <1>2, <1>4, <1>7, <1>8, <1>9, <1>10

LEMMA GuiServe == TripInv /\ GuiInv /\ Serve => GuiInv'
  <1> SUFFICES ASSUME TripInv, GuiInv, Serve PROVE GuiInv'
    OBVIOUS
  <1>1. /\ todo = <<>> /\ calls # <<>> /\ calls' = Tail(calls)
        /\ UNCHANGED <<route, events, navigating, shown, available>>
    BY DEF Serve, Idle, tripVars, routeVars
  <1>2. /\ LastCallTells'
        /\ QuietCalls' => \/ Head(calls) = "route" /\ QuietCalls
                          \/ Head(calls) # "route" /\ (Head(calls) = "start" <=> navigating)
        /\ Head(calls) \in {"route", "start", "stop"}
        /\ Head(calls) = "start" => available
        /\ Has(calls', "start") => Has(calls, "start")
    BY <1>1, CallTaken
  <1>3. CASE Head(calls) = "route"
    <2>1. todo' = <<"look-up">>
      BY <1>3 DEF Serve
    <2>2. /\ ~Has(todo', "run") /\ ~Has(todo', "judge") /\ ~Has(todo', "reset")
          /\ ~Has(todo, "run")
      BY <1>1, <2>1, SingleHas, NoneHas
    <2>3. RouteThere'
      BY <1>1, <1>2, <2>2 DEF GuiInv, RouteThere
    <2>4. RunsIfWanted'
      BY <1>1, <1>2, <1>3, <2>2, NoReset DEF GuiInv, RunsIfWanted
    <2>5. QuietCalls /\ ~navigating => route = "none"
      BY <1>1 DEF GuiInv, StopsIfWanted
    <2>6. \A i \in 1..Len(todo') : todo'[i] \in Harmless
      BY <2>1 DEF Harmless
    <2>7. StopsIfWanted'
      BY <1>1, <1>2, <1>3, <2>5, <2>6 DEF StopsIfWanted
    <2> QED
      BY <1>2, <2>3, <2>4, <2>7 DEF GuiInv
  <1>4. CASE Head(calls) = "start"
    <2>1. todo' = Start
      BY <1>4 DEF Serve
    <2>2. RouteThere'
      BY <1>1, <1>2, <1>4 DEF RouteThere
    <2>3. RunsIfWanted'
      BY <2>1, StartRuns DEF RunsIfWanted
    <2>4. StopsIfWanted'
      BY <1>1, <1>2, <1>4 DEF StopsIfWanted
    <2> QED
      BY <1>2, <2>2, <2>3, <2>4 DEF GuiInv
  <1>5. CASE Head(calls) = "stop"
    <2>1. todo' = <<"unwatch", "reset", "halt">>
      BY <1>5 DEF Serve
    <2>2. ~Has(todo', "run") /\ ~Has(todo', "judge")
      BY <2>1, TripleHas
    <2>3. RouteThere'
      BY <1>1, <1>2, <2>2 DEF GuiInv, RouteThere
    <2>4. RunsIfWanted'
      BY <1>1, <1>2, <1>5 DEF RunsIfWanted
    <2>5. StopsIfWanted'
      BY <2>1 DEF StopsIfWanted
    <2> QED
      BY <1>2, <2>3, <2>4, <2>5 DEF GuiInv
  <1> QED
    BY <1>2, <1>3, <1>4, <1>5

-----------------------------------------------------------------------------
(* GuiInv after the other steps.                                           *)

\* A call that is about navigation is made.
LEMMA CallMade ==
    ASSUME TripInv, NEW c \in {"start", "stop"}, calls' = Append(calls, c),
           c = "start" <=> navigating'
    PROVE  LastCallTells' /\ ~QuietCalls'
  <1>1. calls \in Seq({"route", "start", "stop"})
    BY DEF TripInv, TypeOK
  <1>2. /\ Len(calls') = Len(calls) + 1 /\ Len(calls) \in Nat
        /\ Len(calls') \in 1..Len(calls')
        /\ calls'[Len(calls')] = c
    BY <1>1
  <1>3. \A i \in 1..Len(calls') : i = Len(calls') \/ i < Len(calls')
    BY <1>2
  <1>4. ~QuietCalls'
    BY <1>2 DEF QuietCalls
  <1>5. LastCallTells'
    <2> SUFFICES ASSUME NEW i \in 1..Len(calls'), i # Len(calls'),
                        \A j \in 1..Len(calls') : i < j => calls'[j] = "route"
                 PROVE  FALSE
      BY <1>2 DEF LastCallTells
    <2> QED
      BY <1>2, <1>3
  <1> QED
    BY <1>4, <1>5

LEMMA GuiOthers ==
    TripInv /\ GuiInv /\ (AskForRoute \/ Click \/ Answer \/ RouteReceived
                          \/ (\E w \in Workers : WorkerStep(w)) \/ UNCHANGED vars) => GuiInv'
  <1>1. ASSUME TripInv, GuiInv, AskForRoute PROVE GuiInv'
    <2>1. /\ calls' = Append(calls, "route")
          /\ UNCHANGED <<route, todo, events, navigating, shown, available>>
      BY <1>1 DEF AskForRoute, tripVars, routeVars
    <2>2. calls \in Seq({"route", "start", "stop"})
      BY <1>1 DEF TripInv, TypeOK
    <2>3. /\ Len(calls') = Len(calls) + 1 /\ Len(calls) \in Nat
          /\ \A i \in 1..Len(calls) : calls'[i] = calls[i] /\ i \in 1..Len(calls')
          /\ calls'[Len(calls')] = "route"
      BY <2>1, <2>2
    <2>4. \A i \in 1..Len(calls') : i \in 1..Len(calls) \/ i = Len(calls')
      BY <2>3
    <2>5. LastCallTells'
      <3> SUFFICES ASSUME NEW i \in 1..Len(calls'), calls'[i] # "route",
                          \A j \in 1..Len(calls') : i < j => calls'[j] = "route"
                   PROVE  calls'[i] = "start" <=> navigating
        BY <2>1 DEF LastCallTells
      <3>1. i \in 1..Len(calls) /\ calls'[i] = calls[i]
        BY <2>3, <2>4
      <3>2. \A j \in 1..Len(calls) : i < j => calls[j] = "route"
        BY <2>3
      <3> QED
        BY <1>1, <3>1, <3>2 DEF GuiInv, LastCallTells
    <2>6. QuietCalls' => QuietCalls
      BY <2>3 DEF QuietCalls
    <2>7. Has(calls', "start") => Has(calls, "start")
      BY <2>3, <2>4 DEF Has
    <2> QED
      BY <1>1, <2>1, <2>5, <2>6, <2>7 DEF GuiInv, RouteThere, RunsIfWanted, StopsIfWanted
  <1>2. ASSUME TripInv, GuiInv, Click PROVE GuiInv'
    <2>1. /\ shown
          /\ calls' = Append(calls, IF navigating THEN "stop" ELSE "start")
          /\ navigating' = ~navigating
          /\ UNCHANGED <<route, todo, events, shown, available>>
      BY <1>2 DEF Click, tripVars, routeVars
    <2>2. LastCallTells' /\ ~QuietCalls'
      <3>1. CASE navigating
        BY <1>2, <2>1, <3>1, CallMade
      <3>2. CASE ~navigating
        BY <1>2, <2>1, <3>2, CallMade
      <3> QED
        BY <3>1, <3>2
    <2>3. RouteThere'
      BY <1>2, <2>1 DEF GuiInv, RouteThere
    <2> QED
      BY <2>2, <2>3 DEF GuiInv, RunsIfWanted, StopsIfWanted
  <1>3. ASSUME TripInv, GuiInv, Answer PROVE GuiInv'
    <2>1. UNCHANGED <<todo, navigating, shown, calls>>
      BY <1>3 DEF Answer
    <2>2. \/ UNCHANGED <<available, route, events>>
          \/ available' /\ route' # "none" /\ route # "none" /\ events' = events + 1
          \/ available' /\ route' = route /\ route = "none" /\ events' = events + 1
      BY <1>3 DEF Answer
    <2>3. events \in 0..MaxEvents
      BY <1>3 DEF TripInv, TypeOK
    <2>4. events' = events \/ events' # 0
      BY <2>2, <2>3
    <2>5. RouteThere'
      BY <1>3, <2>1, <2>2 DEF GuiInv, RouteThere
    <2>6. RunsIfWanted'
      <3>1. route # "none" => route' # "none"
        BY <2>2
      <3>2. events' = 0 => events = 0 /\ route' = route
        BY <2>2, <2>3
      <3> QED
        BY <1>3, <2>1, <3>1, <3>2 DEF GuiInv, RunsIfWanted, QuietCalls
    <2>7. StopsIfWanted'
      BY <1>3, <2>1, <2>2 DEF GuiInv, StopsIfWanted, QuietCalls
    <2> QED
      BY <1>3, <2>1, <2>5, <2>6, <2>7 DEF GuiInv, LastCallTells
  <1>4. ASSUME TripInv, GuiInv, RouteReceived PROVE GuiInv'
    <2>1. /\ events > 0 /\ events' = events - 1
          /\ calls' = IF navigating THEN Append(calls, "start") ELSE calls
          /\ UNCHANGED <<route, todo, navigating, available>>
      BY <1>4 DEF RouteReceived, tripVars, routeVars
    <2>2. available
      BY <1>4, <2>1 DEF GuiInv, RouteThere
    <2>3. RouteThere'
      BY <2>1, <2>2 DEF RouteThere
    <2>4. CASE navigating
      <3>1. LastCallTells' /\ ~QuietCalls'
        BY <1>4, <2>1, <2>4, CallMade
      <3> QED
        BY <2>3, <3>1 DEF GuiInv, RunsIfWanted, StopsIfWanted
    <2>5. CASE ~navigating
      BY <1>4, <2>1, <2>3, <2>5
      DEF GuiInv, LastCallTells, RunsIfWanted, StopsIfWanted, QuietCalls
    <2> QED
      BY <2>4, <2>5
  <1>5. ASSUME GuiInv, UNCHANGED <<route, todo, calls, events, navigating, shown, available>>
        PROVE  GuiInv'
    BY <1>5
    DEF GuiInv, RouteThere, LastCallTells, RunsIfWanted, StopsIfWanted, QuietCalls
  <1>6. (\E w \in Workers : WorkerStep(w)) \/ UNCHANGED vars =>
            UNCHANGED <<route, todo, calls, events, navigating, shown, available>>
    BY DEF WorkerStep, Top, Looked, Quick, QuickLooked, vars, tripVars, guiVars, routeVars
  <1> QED
    BY <1>1, <1>2, <1>3, <1>4, <1>5, <1>6

LEMMA GuiStep == TripInv /\ GuiInv /\ [Next]_vars => GuiInv'
  BY GuiMain, GuiLocation, GuiServe, GuiOthers DEF Next


-----------------------------------------------------------------------------
(* The theorems.                                                           *)

LEMMA InitInv == Init => TripInv
  <1> SUFFICES ASSUME Init PROVE TripInv
    OBVIOUS
  <1>1. TypeOK
    <2>1. 0 \in Steps /\ 0 \in 0..MaxWatches /\ 0 \in 0..TriggerCount /\ 0 \in Nat
          /\ 0 \in 0..MaxLookups /\ 0 \in 0..MaxEvents
      BY Bounds DEF Steps
    <2>2. <<>> \in Seq(Operations) /\ <<>> \in Seq({"route", "start", "stop"})
          /\ Len(<<>>) <= MaxCalls
      BY Bounds
    <2>3. /\ pc \in [Workers -> {"ended", "top", "looked", "quick", "quick-looked"}]
          /\ saw \in [Workers -> BOOLEAN] /\ tries \in [Workers -> 0..TriggerCount]
      BY <2>1 DEF Init
    <2> QED
      BY <2>1, <2>2, <2>3, Zenon DEF Init, TypeOK
  <1>2. OrderInv
    BY Bounds DEF Init, OrderInv, RerouteLimit, WellFormed, CountedThenRestarts, WatchComes,
       WatchThere
  <1> QED
    BY <1>1, <1>2 DEF TripInv

\* The invariant is inductive.
THEOREM OrderKept == Spec => []TripInv
  <1>1. TripInv /\ [Next]_vars => TripInv'
    BY TypeStep, OrderStep DEF TripInv
  <1> QED
    BY InitInv, <1>1, PTL DEF Spec

\* The type invariant of mod_turnByTurn, its GUI and its workers.
THEOREM TypeCorrect == Spec => []TypeOK
  <1>1. TripInv => TypeOK
    BY DEF TripInv
  <1> QED
    BY OrderKept, <1>1, PTL

\* However many workers and nested handlers there are, _reroute_auto() reroutes
\* at most MaxReroutes + 1 times before the route is reached again.
THEOREM RerouteLimited == Spec => []RerouteLimit
  <1>1. TripInv => RerouteLimit
    BY DEF TripInv, OrderInv
  <1> QED
    BY OrderKept, <1>1, PTL

\* Navigation that runs has its watch on the position, and the id to remove it.
THEOREM NavigationWatched == Spec => []Watched
  <1>1. TripInv => Watched
    <2> SUFFICES ASSUME TripInv, Idle, route # "none" PROVE watchId /\ watches > 0
      BY DEF Watched, TripInv
    <2>1. Len(todo) = 0 /\ ~HasWatch(todo)
      BY DEF Idle, HasWatch
    <2>2. watchId /\ watches # 0
      BY <2>1 DEF TripInv, OrderInv, WatchComes, WatchThere
    <2>3. watches \in 0..MaxWatches
      BY Zenon DEF TripInv, TypeOK
    <2> QED
      BY <2>2, <2>3, Bounds
  <1> QED
    BY OrderKept, <1>1, PTL

\* Whatever is pressed, rerouted or answered in between: once the calls are
\* served, navigation runs on the newest route exactly if the GUI shows it as
\* running.
THEOREM GuiAndNavigationAgree == Spec => []GuiAgrees
  <1>1. GuiInv => GuiAgrees
    <2> SUFFICES ASSUME GuiInv, Idle, calls = <<>>, events = 0
                 PROVE  route = IF navigating THEN "current" ELSE "none"
      BY DEF GuiAgrees
    <2>1. QuietCalls /\ todo = <<>> /\ ~Has(todo, "run")
      BY NoneHas DEF QuietCalls, Idle
    <2>2. navigating => route = "current"
      BY <2>1 DEF GuiInv, RunsIfWanted
    <2>3. ~navigating => route = "none"
      BY <2>1 DEF GuiInv, StopsIfWanted
    <2> QED
      BY <2>2, <2>3
  <1>2. TripInv /\ GuiInv /\ [Next]_vars => GuiInv'
    BY GuiStep
  <1> QED
    BY <1>1, <1>2, GuiInit, OrderKept, PTL DEF Spec

=============================================================================
