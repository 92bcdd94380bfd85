------------------------------ MODULE TileView ------------------------------
(***************************************************************************)
(* The map of the Qt 5 GUI: which tiles are on the screen, how their data  *)
(* is asked for and how the answers reach them.                            *)
(*                                                                         *)
(*   qml/pinchmap/PinchMap.qml          the map, updateTilesModel(), the   *)
(*                                      staging of requests, callbacks     *)
(*   qml/pinchmap/Tile.qml              one image of one layer             *)
(*   qml/workers/update_tiles_model.js  the worker thread that recycles    *)
(*   gui_qt5.py                         areTilesAvailable(), image provider*)
(*   mod_storeTiles.py                  StoreTiles                         *)
(*                                                                         *)
(* The GUI thread, the worker thread, the thread of PyOtherSide, the image *)
(* loader and the threads of the download run side by side.  What Python   *)
(* sends arrives at the GUI thread in the order it was sent (inbox).       *)
(*                                                                         *)
(* A delegate of the tiles repeater is a slot, the row of a layer in the   *)
(* list of layers is a row; a Tile element is a slot and a row.  Its tile  *)
(* id names layer, zoom level and place.  The download is left at what     *)
(* TileDownload says of it: a request is reported once, or lost.           *)
(***************************************************************************)
EXTENDS Integers, FiniteSets, StoreTiles

CONSTANTS Slots, Rows, Base,  \* delegates; rows of the layer list, the base layer's
          FirstLayer, FirstWindow, FirstZoom, \* where the map begins
          Zooms, Places,      \* zoom levels; the x/y of tiles
          Windows,            \* what the map can cover: sets of places
          None,
          RetryLimit,         \* 5 in Tile.qml
          MaxEvents           \* bound: what the user does counts 2 (a change of the
                              \* zoom level 3), failures, time-outs and changes of
                              \* the storage 1

Tiles == Slots \X Rows

ASSUME ViewAssumption ==
    /\ IsFiniteSet(Slots) /\ IsFiniteSet(Rows) /\ Base \in Rows
    /\ Windows \subseteq SUBSET Places /\ Windows # {}
    /\ \A w \in Windows : IsFiniteSet(w) /\ Cardinality(w) <= Cardinality(Slots)
    /\ Ids = Layers \X Zooms \X Places
    /\ FirstLayer \in Layers /\ FirstWindow \in Windows /\ FirstZoom \in Zooms
    /\ None \notin Places \cup Layers \cup Tiles \cup Types
    /\ RetryLimit \in Nat

VARIABLES window, covered,        \* what the map covers; history: what it covered
                                  \* when updateTilesModel() last looked
          zoom, layer,            \* zoom level; layer of every row, or None
          model,                  \* tilesModel: the place of every slot, or None
          should,                 \* shouldBeOnScreen
          running, again,         \* tilesModelUpdateRunning, anotherTilesModelUpdateNeeded
          update,                 \* the message to the worker, or its answer
          paused, timer,          \* tileRequestTimerPause, tileRequestTimer is running
          requests,               \* tileRequests
          current,                \* currentTiles: the tile to be told about an id
          tile,                   \* the properties of the Tile elements
          checks, looked, answer, \* checks of areTilesAvailable(), whether the first has looked
          inbox,                  \* what Python has sent to the GUI thread
          asked, storing, memory, \* requests for downloads; stores being written; images[0]
          twins, lost, hidden,    \* history, see below
          happened                \* how much has happened, see the bound

storeVars == <<primary, stores, held>>
modelVars == <<window, covered, zoom, layer, model, should, running, again, update>>
tileVars == <<current, tile, requests, twins>>
timerVars == <<paused, timer>>
pythonVars == <<checks, looked, answer>>
downloadVars == <<asked, storing, memory, lost>>
vars == <<storeVars, modelVars, tileVars, timerVars, pythonVars, inbox,
          downloadVars, hidden, happened>>

NoUpdate == [kind |-> "none"]

\* A Tile after _clearTile().  picture: "none" as long as source is empty.
Clear == [available |-> FALSE, retries |-> 0, error |-> FALSE, picture |-> "none"]

Shown(lay, mod) == {t \in Tiles : mod[t[1]] # None /\ lay[t[2]] # None}
IdOf(t, lay, z, mod) == <<lay[t[2]], z, mod[t[1]]>>
OnScreen == Shown(layer, model)
TileId(t) == IdOf(t, layer, zoom, model)

ViewInit ==
    /\ StoreInit
    /\ window = FirstWindow
    /\ covered = window
    /\ zoom = FirstZoom
    /\ layer = [r \in Rows |-> IF r = Base THEN FirstLayer ELSE None]
    /\ model = [s \in Slots |-> None]
    /\ should = {}
    /\ running = TRUE                 \* updateTilesModel() of Component.onCompleted
    /\ again = FALSE
    /\ update = [kind |-> "to-do", window |-> window, should |-> {}]
    /\ paused = TRUE
    /\ timer = FALSE
    /\ requests = <<>>
    /\ current = [id \in Ids |-> None]
    /\ tile = [t \in Tiles |-> Clear]
    /\ checks = <<>>
    /\ looked = FALSE /\ answer = {}
    /\ inbox = <<>>
    /\ asked = [id \in Ids |-> 0]
    /\ storing = [id \in Ids |-> None]
    /\ memory = {}
    /\ twins = {}
    /\ lost = {}
    /\ hidden = {}
    /\ happened = 0

-----------------------------------------------------------------------------
(* Changes of tile ids.                                                    *)

\* The layers, the zoom level or the model become lay, z, mod.  A Tile that
\* has got another id takes the old one out of currentTiles (whosever it is),
\* puts itself in under the new one, clears itself and asks for its data
\* (onTileIdChanged); one that is destroyed only takes its id out.  Where tiles
\* get one id at once any may be the last to put itself in.
Changed(lay, z, mod) ==
    {t \in Shown(lay, mod) : t \in OnScreen => IdOf(t, lay, z, mod) # TileId(t)}
Gone(lay, mod) == OnScreen \ Shown(lay, mod)

Twin(t, lay, z, mod) ==
    \E u \in Shown(lay, mod) \ {t} : IdOf(u, lay, z, mod) = IdOf(t, lay, z, mod)

\* The tiles that come to be registered: of those that get an id, one.
Winners(lay, z, mod) ==
    LET Rivals(t) == {u \in Changed(lay, z, mod) : IdOf(u, lay, z, mod) = IdOf(t, lay, z, mod)}
    IN  Choices({Rivals(t) : t \in Changed(lay, z, mod)})

\* Mutant: a tile that changes its id leaves the old one behind.
LeftBehind(t, id) == TileId(t) = id /\ t \notin OnScreen

TakenOut(t, id) == TileId(t) = id

CurrentTiles(winners, lay, z, mod) ==
    [id \in Ids |->
        IF \E t \in winners : IdOf(t, lay, z, mod) = id
        THEN CHOOSE t \in winners : IdOf(t, lay, z, mod) = id
        ELSE IF \E t \in Gone(lay, mod) \cup (Changed(lay, z, mod) \cap OnScreen) :
                   TakenOut(t, id)
             THEN None
             ELSE current[id]]

Retile(lay, z, mod) ==
    LET changed == Changed(lay, z, mod)
    IN  /\ layer' = lay /\ zoom' = z /\ model' = mod
        /\ \E winners \in Winners(lay, z, mod) :
              current' = CurrentTiles(winners, lay, z, mod)
        /\ tile' = [t \in Tiles |->
                      IF t \in changed \cup Gone(lay, mod) THEN Clear ELSE tile[t]]
        /\ LET asks == SetToSeq(changed)
           IN  requests' = requests \o [i \in DOMAIN asks |-> IdOf(asks[i], lay, z, mod)]
        /\ twins' = {t \in Shown(lay, mod) :
                       Twin(t, lay, z, mod) \/ (t \in twins /\ t \notin changed)}

\* Mutant: only a timer that runs is restarted.
RestartRunning(asks) == timer' = timer /\ UNCHANGED paused

\* isTileAvailable() restarts the timer unless it is paused.
Restart(asks) == timer' = (timer \/ (asks /\ ~paused)) /\ UNCHANGED paused

Count(cost) == happened + cost <= MaxEvents /\ happened' = happened + cost

-----------------------------------------------------------------------------
(* The tiles model.                                                        *)

\* Mutant: a request made while an update runs is not remembered.
UpdateOnlyWhenIdle(w) ==
    /\ UNCHANGED again
    /\ IF running THEN UNCHANGED <<running, update, timer, paused>>
       ELSE /\ running' = TRUE /\ timer' = FALSE /\ paused' = TRUE
            /\ update' = [kind |-> "to-do", window |-> w, should |-> should]

\* updateTilesModel(), which sees the window w.
UpdateTilesModel(w) ==
    IF running
    THEN again' = TRUE /\ UNCHANGED <<running, update, timer, paused>>
    ELSE /\ running' = TRUE
         /\ timer' = FALSE
         /\ paused' = TRUE
         /\ update' = [kind |-> "to-do", window |-> w, should |-> should]
         /\ UNCHANGED again

\* The map is panned, centred or resized.  A move that changes both corner
\* coordinates is two of these, and one that changes none still updates.
Move ==
    /\ Count(2)
    /\ window' \in Windows
    /\ covered' = window'
    /\ UpdateTilesModel(window')
    /\ UNCHANGED <<storeVars, zoom, layer, model, should, tileVars, pythonVars, inbox,
                   downloadVars, hidden>>

\* A new map scale, or a new size while the map is not the page shown: numTilesX
\* and numTilesY change, and nothing calls updateTilesModel().
Rescale ==
    /\ Count(2)
    /\ window' \in Windows
    /\ UNCHANGED <<storeVars, covered, zoom, layer, model, should, running, again, update,
                   tileVars, timerVars, pythonVars, inbox, downloadVars, hidden>>

\* setZoomLevelPoint(): first all tiles change their id, then the map moves.
ChangeZoom ==
    /\ Count(3)
    /\ \E z \in Zooms \ {zoom} : Retile(layer, z, model)
    /\ window' \in Windows
    /\ covered' = window'
    /\ UpdateTilesModel(window')
    /\ UNCHANGED <<storeVars, should, pythonVars, inbox, downloadVars, hidden>>

\* setLayer(), setLayerById(), appendLayer() and the answer of loadLayers().
\* Nothing keeps the user from choosing one layer twice.
SetLayer ==
    /\ Count(2)
    /\ \E r \in Rows : \E l \in Layers \ {layer[r]} :
          Retile([layer EXCEPT ![r] = l], zoom, model)
    /\ Restart(model # [s \in Slots |-> None])
    /\ UNCHANGED <<storeVars, window, covered, should, running, again, update, pythonVars,
                   inbox, downloadVars, hidden>>

\* removeLayer(): never the base layer.
RemoveLayer ==
    /\ Count(2)
    /\ \E r \in Rows \ {Base} :
          /\ layer[r] # None
          /\ Retile([layer EXCEPT ![r] = None], zoom, model)
    /\ UNCHANGED <<storeVars, window, covered, should, running, again, update, timerVars,
                   pythonVars, inbox, downloadVars, hidden>>

\* The worker: slots whose place is no longer to be seen get new places as
\* long as there are any, what is left of either is removed or added.  New is
\* what is not in the shouldBeOnScreen of the message, the model is not asked.
\* Which slot gets which place makes no difference, as its tiles are cleared.
NewPlaces == update.window \ update.should
Freed == {s \in Slots : model[s] # None /\ model[s] \notin update.window}
Unused == {s \in Slots : model[s] = None}

Recycled(m) ==
    LET filled == {s \in Slots : m[s] # None /\ m[s] # model[s]}
    IN  /\ \A s \in Slots : m[s] # model[s] => s \in Freed \cup Unused
        /\ Cardinality(filled) = Cardinality(NewPlaces)
        /\ {m[s] : s \in filled} = NewPlaces
        /\ filled \cap Unused # {} => Freed \subseteq filled
        /\ \A s \in Freed : m[s] # model[s]

UpdateModel ==
    /\ update.kind = "to-do"
    /\ Retile(layer, zoom, CHOOSE m \in [Slots -> Places \cup {None}] : Recycled(m))
    /\ update' = [kind |-> "done", should |-> update.window]
    /\ UNCHANGED <<storeVars, window, covered, should, running, again, timerVars, pythonVars,
                   inbox, downloadVars, hidden, happened>>

\* onMessage: lets the requests go, and updates once more if that was asked
\* for meanwhile, which stops the timer again.
UpdateDone ==
    /\ update.kind = "done"
    /\ should' = update.should
    /\ again' = FALSE
    /\ IF again
       THEN /\ update' = [kind |-> "to-do", window |-> window, should |-> update.should]
            /\ covered' = window
            /\ timer' = FALSE /\ paused' = TRUE
            /\ UNCHANGED running
       ELSE /\ update' = NoUpdate
            /\ timer' = TRUE /\ paused' = FALSE
            /\ running' = FALSE
            /\ UNCHANGED covered
    /\ UNCHANGED <<storeVars, window, zoom, layer, model, tileVars, pythonVars, inbox,
                   downloadVars, hidden, happened>>

-----------------------------------------------------------------------------
(* Requests and answers.                                                   *)

\* tileRequestTimer.  (An empty batch has no effect on anything modelled.)
TimerFires ==
    /\ timer
    /\ timer' = FALSE
    /\ checks' = IF requests = <<>> THEN checks ELSE Append(checks, requests)
    /\ requests' = <<>>
    /\ UNCHANGED <<storeVars, modelVars, current, tile, twins, paused, looked, answer, inbox,
                   downloadVars, hidden, happened>>

\* areTilesAvailable() looks for the tiles of a batch and requests those that are
\* not found.  A look into one store after the other gives what a look into all
\* gives at one moment between, as nothing is ever taken out of a store, and the
\* tiles of a batch do not disturb each other.
LookUp ==
    /\ checks # <<>> /\ ~looked
    /\ looked' = TRUE
    /\ answer' = {id \in ToSet(Head(checks)) : Found(id)}
    /\ asked' = [id \in Ids |->
                   IF Found(id) THEN asked[id]
                   ELSE asked[id] + Cardinality({i \in DOMAIN Head(checks) : Head(checks)[i] = id})]
    /\ UNCHANGED <<storeVars, modelVars, tileVars, timerVars, checks, inbox,
                   storing, memory, lost, hidden, happened>>

\* areTilesAvailable() returns; a tile may have been downloaded since.
Return ==
    /\ looked
    /\ inbox' = Append(inbox, [kind |-> "checked", ids |-> ToSet(Head(checks)), ok |-> answer])
    /\ checks' = Tail(checks) /\ looked' = FALSE /\ answer' = {}
    /\ UNCHANGED <<storeVars, modelVars, tileVars, timerVars, downloadVars,
                   hidden, happened>>

\* What TileDownload does with a request that no handler is storing the tile of.
\* It is reported and no longer asked for.
Waits(id) == asked[id] > (IF storing[id] = None THEN 0 ELSE 1)

Report(id, kind) ==
    /\ inbox' = Append(inbox, [kind |-> kind, ids |-> {id}, ok |-> {}])
    /\ asked' = [asked EXCEPT ![id] = @ - 1]

\* The manager finds the tile after all, and caches it in memory.  (Nothing is
\* trimmed from the cache: what is not in it is looked for in the stores.)
FindLocally(id) ==
    /\ Waits(id)
    /\ Found(id)
    /\ Report(id, "success")
    /\ memory' = memory \cup {id}
    /\ UNCHANGED <<storeVars, modelVars, tileVars, timerVars, pythonVars, storing,
                   lost, hidden, happened>>

\* A handler has downloaded it, chooses a store and writes to it.
Store(id) ==
    /\ Waits(id)
    /\ stores' = Opened(id[1])
    /\ Write(primary, id)
    /\ Report(id, "success")
    /\ UNCHANGED <<modelVars, tileVars, timerVars, pythonVars, storing, memory, lost,
                   hidden, happened>>

\* The same for a handler that chose before the primary type was changed.
StoreLate(id) ==
    /\ storing[id] # None
    /\ Write(storing[id], id)
    /\ UNCHANGED stores
    /\ storing' = [storing EXCEPT ![id] = None]
    /\ Report(id, "success")
    /\ hidden' = IF storing[id] = primary THEN hidden ELSE hidden \cup {id}
    /\ UNCHANGED <<modelVars, tileVars, timerVars, pythonVars, memory, lost, happened>>

\* An error that is final, or one worth a retry (also a full queue).
DownloadFails(id) ==
    /\ Waits(id)
    /\ Count(1)
    /\ \E kind \in {"fatal", "retry"} : Report(id, kind)
    /\ UNCHANGED <<storeVars, modelVars, tileVars, timerVars, pythonVars, storing,
                   memory, lost, hidden>>

\* The network is off, a look-up raised, or the worker died.
Lose(id) ==
    /\ Waits(id)
    /\ Count(1)
    /\ asked' = [asked EXCEPT ![id] = @ - 1]
    /\ lost' = lost \cup {id}
    /\ UNCHANGED <<storeVars, modelVars, tileVars, timerVars, pythonVars, inbox,
                   storing, memory, hidden>>

-----------------------------------------------------------------------------
(* The GUI thread takes what has arrived.                                  *)

\* Only a change of available to true does anything (onAvailableChanged), and
\* a source that is set already is not loaded again.
Available(p) ==
    IF p.available THEN p
    ELSE [available |-> TRUE, retries |-> 0, error |-> FALSE,
          picture |-> IF p.picture = "none" THEN "loading" ELSE p.picture]

Listeners(ids) == {current[id] : id \in ids} \ {None}
Told(ids, New(_, _)) ==
    [t \in Tiles |-> IF \E id \in ids : current[id] = t
                     THEN New(tile[t], CHOOSE id \in ids : current[id] = t)
                     ELSE tile[t]]

\* tilesAvailabilityCB()
TilesAvailabilityCB ==
    /\ inbox # <<>> /\ Head(inbox).kind = "checked"
    /\ inbox' = Tail(inbox)
    /\ LET New(p, id) == IF id \in Head(inbox).ok THEN Available(p)
                         ELSE [p EXCEPT !.available = FALSE]
       IN  tile' = Told(Head(inbox).ids, New)
    /\ UNCHANGED <<storeVars, modelVars, current, requests, twins, timerVars,
                   pythonVars, downloadVars, hidden, happened>>

\* tileDownloadedCB() and tileDownloaded() of the tile
Retries(p) == p.retries < RetryLimit
Downloaded(p, kind) ==
    CASE kind = "success" -> Available(p)
      [] kind = "fatal"   -> [p EXCEPT !.error = TRUE]
      [] OTHER            -> [p EXCEPT !.retries = @ + 1, !.error = @ \/ ~Retries(p)]

TileDownloadedCB ==
    /\ inbox # <<>> /\ Head(inbox).kind # "checked"
    /\ inbox' = Tail(inbox)
    /\ LET kind == Head(inbox).kind
           asks == kind = "retry" /\ \E t \in Listeners(Head(inbox).ids) : Retries(tile[t])
           New(p, id) == Downloaded(p, kind)
       IN  /\ tile' = Told(Head(inbox).ids, New)
           /\ requests' = IF asks THEN requests \o SetToSeq(Head(inbox).ids) ELSE requests
           /\ Restart(asks)
    /\ UNCHANGED <<storeVars, modelVars, current, twins, pythonVars, downloadVars,
                   hidden, happened>>

\* The image loader: TileImageProvider.getImage(), which answers with a single
\* transparent pixel if the tile cannot be had any more.
LoadImage(t) ==
    /\ tile[t].picture = "loading"
    /\ tile' = [tile EXCEPT ![t].picture =
                   IF TileId(t) \in memory \/ Found(TileId(t)) THEN "image" ELSE "blank"]
    /\ UNCHANGED <<storeVars, modelVars, current, requests, twins, timerVars,
                   pythonVars, inbox, downloadVars, hidden, happened>>

-----------------------------------------------------------------------------
(* The storage behind it.                                                  *)

\* History: what could be found a moment ago and cannot now.  A tile written to
\* a store that has ceased to be the primary one counts as well (Store).
Hide == hidden' = hidden \cup {id \in Ids : Found(id) /\ ~Found(id)'}

\* _primary_tile_storage_type_changed_cb(); some handlers may just have chosen a
\* store and write to it later, without the lock.
SwitchStorage ==
    /\ Count(1)
    /\ \E y \in Types \ {primary}, late \in SUBSET {id \in Ids : Waits(id)} :
          /\ primary' = y
          /\ stores' = Resorted([l \in Layers |-> IF \E id \in late : id[1] = l
                                                  THEN Opened(l)[l] ELSE stores[l]], y)
          /\ storing' = [id \in Ids |-> IF id \in late THEN primary ELSE storing[id]]
    /\ UNCHANGED <<modelVars, tileVars, timerVars, pythonVars, inbox, held, asked,
                   memory, lost>>
    /\ Hide

Age ==
    /\ Count(1)
    /\ \E y \in Types, id \in Ids : GrowOld(y, id)
    /\ UNCHANGED <<modelVars, tileVars, timerVars, pythonVars, inbox, downloadVars>>
    /\ Hide

-----------------------------------------------------------------------------
\* Everything has come to rest: not a deadlock.
AtRest ==
    /\ update = NoUpdate /\ ~timer
    /\ checks = <<>> /\ inbox = <<>>
    /\ \A id \in Ids : asked[id] = 0
    /\ UNCHANGED vars

UserNext == Move \/ Rescale \/ ChangeZoom \/ SetLayer \/ RemoveLayer
GuiNext ==
    \/ UpdateModel \/ UpdateDone
    \/ TimerFires \/ TilesAvailabilityCB \/ TileDownloadedCB
    \/ \E t \in Tiles : LoadImage(t)
CheckNext == LookUp \/ Return
DownloadNext(id) ==
    FindLocally(id) \/ Store(id) \/ StoreLate(id) \/ DownloadFails(id) \/ Lose(id)

ViewNext ==
    \/ UserNext \/ GuiNext \/ CheckNext
    \/ \E id \in Ids : DownloadNext(id)
    \/ SwitchStorage \/ Age
    \/ AtRest

ViewSpec == ViewInit /\ [][ViewNext]_vars

\* The event loop, the worker, PyOtherSide's thread, the image loader and the
\* download all get on; the user may stop.
Fairness ==
    /\ WF_vars(UpdateModel)
    /\ WF_vars(UpdateDone \/ TimerFires \/ TilesAvailabilityCB \/ TileDownloadedCB)
    /\ WF_vars(CheckNext)
    /\ WF_vars(\E t \in Tiles : LoadImage(t))
    /\ WF_vars(\E id \in Ids : DownloadNext(id))

FairViewSpec == ViewSpec /\ Fairness

-----------------------------------------------------------------------------
(* Properties.                                                             *)

ViewTypeOK ==
    /\ StoreTypeOK
    /\ {window, covered} \subseteq Windows /\ zoom \in Zooms /\ should \subseteq Places
    /\ layer \in [Rows -> Layers \cup {None}] /\ layer[Base] # None
    /\ model \in [Slots -> Places \cup {None}]
    /\ current \in [Ids -> Tiles \cup {None}]
    /\ \A t \in Tiles : tile[t].picture \in {"none", "loading", "image", "blank"}
                        /\ tile[t].retries \in Nat
    /\ asked \in [Ids -> Nat] /\ storing \in [Ids -> Types \cup {None}]

\* currentTiles (PinchMap.qml:219) sends an answer to the right tile: whoever is
\* registered under an id shows that id, and a tile of the screen is registered
\* under its own, unless it has shared the id with a tile of another row since
\* it got it.
AnswersReachTheTile ==
    /\ ViewTypeOK
    /\ \A id \in Ids : current[id] # None => current[id] \in OnScreen /\ TileId(current[id]) = id
    /\ \A t \in OnScreen \ twins : current[TileId(t)] = t

\* When no update runs, the model holds every place the map covered when
\* updateTilesModel() was last called, or ran again for such a call, once and no
\* other: no call is lost, however many come while the worker is at work.  And
\* shouldBeOnScreen, by which the next update goes, says the same
\* (update_tiles_model.js, which never compares it with the model).  It is what
\* the map covers now only if its scale has not been changed since.
ModelShowsWindow ==
    update = NoUpdate =>
        /\ {model[s] : s \in Slots} \ {None} = covered
        /\ \A s, s2 \in Slots : model[s] = model[s2] /\ s # s2 => model[s] = None
        /\ should = covered

\* A tile written to the primary store is found, whatever copies other stores
\* and times before hold of it (_get_store_for_writing()).
StoredIsFound ==
    [][\A id \in Ids : held[primary][id] # "fresh" /\ held'[primary][id] = "fresh" => Found(id)']_vars

\* Once the user stops, every tile on the screen comes to show its picture or
\* its error; but for a request that was lost, a copy that could not be found
\* any more when it was loaded, and tiles that shared their id.
Settled(t) ==
    \/ tile[t].picture = "image" \/ tile[t].error
    \/ tile[t].picture = "blank" /\ TileId(t) \in hidden
    \/ TileId(t) \in lost
    \/ t \in twins

TilesSettle == <>[](update = NoUpdate /\ \A t \in OnScreen : Settled(t))

=============================================================================
