# modRana, modelled in TLA+

modRana is a navigation program: a Python core whose modules send each other
messages and share a dictionary of options, and a Qt 5 (QML) user interface that
calls the core through PyOtherSide. This project models the parts of it in which
threads, callbacks and failures meet, checks them with TLC on small instances, and
proves with TLAPS, for every value of the constants, the safety properties of the passing runs.

Contents: 1 inventory, 2 modules and how they correspond to the code, 3 runs, 4 bounds,
5 fairness, 6 proofs, 7 disagreements found, 8 what is not modelled, 9 what could come next.

## 1. Inventory

Paths are relative to `src/`. The last column says by which module it is modelled.

| component | code | state it keeps | operations | what is hard | what makes it correct |
|---|---|---|---|---|---|
| thread pools | `core/pool.py`, `core/queues.py` | queue, `unfinished_tasks`, workers, shutdown flag | submit, put with leak, get, task_done, shutdown | a full stack that pushes its oldest item out, terminators among tasks, functions that raise | counts exact, no task lost or run twice, every worker ends (`LifoPool`) |
| thread manager | `core/threads.py` | threads by name, their exceptions | add, remove, get, wait, cancel, run | a name looked up outside the lock, names that are used again | the table holds the threads that run unless two callers collide, each error belongs to its thread, waits return (`ThreadManager`) |
| files tile store | `core/tile_storage/files_store.py` | one image file and one `.part` file per tile | store, get, is stored | no lock: threads share the `.part` file; failing calls; a kill in a write | what is at the tile's own name is a whole image (`FilesTileStore`) |
| sqlite tile store | `core/tile_storage/sqlite_store.py` | lookup database, storage databases of limited size | store (add, update, move), delete, get, is stored, open | two databases committed one after the other, failed commits that nobody rolls back | rows are within reach, old or new data, size limit (`SqliteTileStore`) |
| tile storage front end | `modules/mod_storeTiles.py` | the stores of each layer in order, time-outs | store, get, is stored, change of the primary type | a store chosen before the primary changes; copies that time out | a stored tile is found (`StoreTiles`, within `TileView`) |
| tile download | `modules/mod_mapTiles/` | request queue, `_running`, pool | request, look-up, download, store, notify, shutdown | requests that overlap, look-ups and handlers that raise, workers that die | each request reported once, nothing stays registered, success means stored (`TileDownload`) |
| map of the Qt 5 GUI | `gui_qt5/qml/pinchmap/`, `qml/workers/`, `gui_qt5.py` | delegates, rows of layers, `currentTiles`, staged requests, memory cache | pan, zoom, edit the layers, ask, answer, load, retry | a worker that recycles delegates while answers come; one id shown twice | answers reach the tile that shows the id, the model follows the map, every tile comes to rest (`TileView`) |
| turn by turn navigation | `modules/mod_turnByTurn/` | route, step, watch, divergence counters, worker thread | start, stop, update, reroute, worker loop | handlers that nest through setters; a worker beside them; answers that come late | GUI and navigation agree, reroutes limited, a divergence is noticed (`TurnByTurn`) |
| routing | `modules/mod_route/`, `gui_qt5.py`, `core/providers.py`, `core/routing_providers.py` | route, start, destination; look-up threads | request, look-up, reroute, result callback | answers that come late, twice or never, callbacks without a lock | map and navigation on one route, reroutes to the newest destination, answers reach the user (`Routing`) |
| online services | `modules/mod_onlineServices/`, `core/providers.py`, search page | search threads by name, busy indicator | search, cancel, results | a cancelled search that answers, results that overtake a reply | a busy page has a search at work (`OnlineSearch`) |
| options and watches | `modrana.py` | options per mode, watches, `options.bin` | get, set, watch, mode change, load, save | a kill while saving, modifiers that come into force late | watchers know the value, options survive (`Options`; the walk of the watch list in `TurnByTurn`) |
| configuration files | `core/configs.py` | files of the profile folder with their revisions | copy defaults, upgrade with backup | a kill between move and copy, the recorded version | no edit lost, a recorded version means upgraded (`Profile`) |
| tracklog recording | `modules/mod_tracklog.py`, `core/way.py` | current log, two append-only CSV files, timers | start, pause, resume, stop, periodic save, rescue | a kill between any two steps, exports that fail, clicks that overtake callbacks | no saved point lost, no temporary file forgotten, the page shows what runs (`Tracklog`) |
| timers, location, voice, batch download, signals, points of interest, geometry, device modules, vendored code | see `PROJECT.json` | | | | not modelled, section 8 |

How they interact. The QML map asks `gui_qt5.py` for tiles; a tile not at hand goes to
the manager thread of `mod_mapTiles`, which looks into the store (through
`mod_storeTiles`) and submits a download to the `Downloader`, which runs on the leaking
stack pool; a handler downloads, stores and triggers the `tileDownloaded` signal, which
returns to QML, where the tile loads its picture through the image provider. Positions
come from QML through `setPosition()`, which sets the `pos` and `locationUpdated`
options; the watch on the latter drives turn by turn navigation. The map page asks
`gui_qt5.py` for routes, navigation asks `mod_route` for reroutes; each look-up runs in
a thread of the thread manager, whose callback stores the route and announces it to QML
by an event, on which QML starts navigation anew. The search page starts and cancels
provider threads in the same manager. The buttons of the tracklog page and timers drive
the recording. At start the profile folder is brought up to date and the options are
loaded; at shutdown they are saved with the version.

The hazards, each at its line with the properties that would catch it, are in
`PROJECT.json`.

## 2. Modules

```
TaskPool  <= LifoPool (refinement)          LifoPoolProofs
                 \
                  TileDownload = LifoPool + FilesTileStore + manager + handlers
                 /
FilesTileStore                              FilesTileStoreProofs, TileDownloadProofs
SqliteTileStore                             SqliteTileStoreProofs
StoreTiles <- TileView = StoreTiles + map, worker, requests, answers, pictures
ThreadManager <- OnlineSearch = ThreadManager + search page + Python thread
                                            GuiProofs (of TileView and OnlineSearch)
Options <- Profile = Options + configuration files
Tracklog                                    PersistenceProofs (of Profile and Tracklog)
TurnByTurn                                  TurnByTurnProofs
Routing                                     RoutingProofs
MC<module> extends <module>: the sets of model values (Tracklog and Routing have none)
```

`A <- B` says that B extends A and composes its actions with its own.

**TaskPool** is what a pool promises, without queues or terminators: a submitted task is
accepted once, run once or given up, and from some point after a shutdown nothing that
waits is started.

**LifoPool** is `LifoThreadPool` over `LeakyLifoQueue`. The methods of the queue hold its
mutex, `submit()` and the test-and-set of `shutdown()` hold `_shutdownLock`, and a put into
a leaking queue never blocks, so each is one action; the terminators are put one by one by
a thread of their own (`PutTerminator`). `stack` is the queue (bottom at index 1),
`unfinished` its counter; a worker is idle, running, stopping (it has a terminator),
exited, or dead (the function raised, `Raise`, and `task_done()` was not called).
`stage` is history: what has become of each task.

**ThreadManager** is the table of named threads. `add()` looks for a free name before it
takes the lock (`ChooseName`) and enters the thread under it (`Enter`), so that two callers can
choose one name. A thread returns from its target, returns from its callback or fails, and
then removes its name (`RemoveThread`); `CancelThread` takes the callback away; a waiter (`Wait`, `Joined`) holds
the thread it found, whatever takes the name meanwhile.

**OnlineSearch** composes it with the search page: the page sends calls, the Python thread
serves them one by one (start the thread, then note its id in `_threadsInProgress`: two steps
between which results can already come), the callback sends the results if its name is
tracked and removes it afterwards (two steps again), and replies and results reach the page
in the order they are sent.

**FilesTileStore** has one action per system call: `Open` (truncates), `Write`, `Rename`,
and the cleanup of a failure, `TestPart` ... `RemoveFinal`; a file that is renamed or
removed stays open for those who have it open, so `fd` is the name the open file has now.
The content of a file is empty, a beginning (`partial`), `whole`, or `mixed`. Readers
follow `get_tile()`: the tile's own name first, else what `glob` lists, then the read by
name. Any call can fail, and `Kill` ends the process at any moment.

**TileDownload** instantiates LifoPool and FilesTileStore for its pool and its files. The manager thread
(`TakeRequest` ... `ReportDrop`) looks into the store, reports what it finds, and submits
the rest; a task pushed out by a submit is reported as `QueueFull`. A handler
(`Register` ... `Report`) is `_handleDownload()`, with `_running` under its lock, the
second check of the store, the download, two stores and the report. As in the code, the test
at `tile_downloader.py:77` compares a tile with pairs, so it never finds one and is no
guard in the model either. For a tile of `BadTiles` `getTileUrl()` raises, as it does for a layer whose URL has an unknown
placeholder, and raises again in the handler of that exception, which asks for the URL for its message (`UrlRaises`): the `finally` branch
unregisters and reports, and the exception ends the worker (`Escape`). `Reasons` names why a request may remain unreported.

**SqliteTileStore** has one action per commit. Nothing in the code calls `rollback()`: what a failed commit ("database is locked")
was to write stays pending on its connection. So the model keeps what a connection sees (`lookup`, `rows`) apart from what is committed
(`lookupSaved`, `rowsSaved`): statements change the former, `CommitStore` and `CommitLookup` copy it, with all that is pending, and a commit that raises
(`Break`) leaves it. The size of a file (`fileSize`) follows the committed rows only, as `os.path.getsize()` does. `Fault` is a statement that fails and leaves
what was pending; `FaultRollsBack` one after which SQLite rolls back of itself (disk full). `Restart` is a kill or a regular end and the reopening of the store: what is not committed is
gone, and `_new_tiles_store_name` is found anew. The sizes of tiles stand for their data. `ahead` is history: the tiles updated
in place where a look-up entry said that was itself still pending.

**StoreTiles** is `mod_storeTiles`: the list of a layer's stores with the primary type
first, look-ups that ask them in that order and skip a copy that has timed out, the choice
of the store to write to. A store is reduced to what it holds of a tile: nothing, the newest
copy, an older valid one, or one past the layer's time-out.

**TileView** is the map: a delegate of the repeater is a slot, a layer of the list a row, a
`Tile` element is both. The GUI thread (`Move`, `ChangeZoom`, the edits of the layers, `UpdateDone`,
`TimerFires` and the callbacks), the worker script that recycles delegates (`UpdateModel`),
the Python thread (`CheckNext`), the image loader (`LoadImage`) and the downloads (`DownloadNext`, which
choose their store before they write to it, `StoreLate`) interleave; what Python sends arrives in order.
`currentTiles` (`current`) maps ids to tiles as the QML does, and is overwritten and deleted where the QML
does. `Rescale` changes what the map covers without an update of the model, as a new map scale does; `covered` is what it covered when
`updateTilesModel()` was last called. Other history variables name what the properties except: `twins` (tiles that have shared an
id), `hidden` (ids whose copy could not be found when it was loaded), `lost` (requests the
download never reports, as `TileDownload` says of them).

**TurnByTurn** is the navigation module with the buttons and events of `BaseMapPage.qml`.
PyOtherSide runs all calls of the GUI, positions included, one after the other in one
thread. Its handlers nest: setting the step index runs an update, an update may switch
steps or reroute, a reroute starts navigation, and that updates again. The sequence `todo`
holds what this thread has still to do, the next operation first; each operation is an
action that replaces itself by those it calls, and the worker thread (`Top`, `Looked`,
`Quick`, `QuickLooked`) runs between them. `Watch` and `Notify` are `modrana.py`'s watch list:
the walk goes on to entries added during it.
Decisions that matter:
  * A worker looks at most once during one call of the GUI, because at least a second lies
    between two of its looks (`asleep`, `Sleep`, `Awake`); the two seconds that `_reroute()`
    sleeps are excepted (`Pause`). Without this a reroute could nest within a reroute for ever,
    which the real timing does not allow.
  * Counting a divergence (`crossed`, raised by workers only) is one step.
  * A worker's result is computed (`Top`, `Quick`) and written (`Looked`, `QuickLooked`) in two
    steps: the route may change in between.
  * The automatic-reroute counter may have expired or not; time itself is not modelled.
  * A position is known and rerouting is switched on, the default. Voice messages and the
    messages only the GTK GUI sends (manual reroute, previous and next turn) are left out.

**Routing** looks at the same buttons and events from the side of the routes. `request_route()`
asks for a route after each waypoint it appends to one list (`FirstWaypoint`, `SecondWaypoint`), so a
request makes two look-ups that share it; a look-up is a thread that gets a route and stores
it (`Save`) and then sends it (`Send`), is refused and notifies the user, or fails. Navigation is only the route it
runs on. A route is named by the number of the list it was found for, and each list remembers the request it was made for.

**Options** is the persistent dictionary: `get()` with the key modifiers of the mode, `set()`
with its watches, mode changes, loading and saving (`options.bin` is truncated, then
written). The modifiers are in force only after all modules were constructed. A watcher whose callback raises ends
the walk over the watchers, as nothing catches the exception: `Notify` tells any nonempty part of those that are due, or, for a change of mode, whose first watcher is the GUI's, none.
The rest is `unaware`.
**Profile** adds the configuration files: defaults are copied in two steps, an upgrade moves a file to a
name that ends in its revision and copies the default in its place, and the version is saved with
the options at shutdown. The process can be killed at each step, as the outer process of the
Qt 5 GUI is.

**Tracklog** is `mod_tracklog.py` with its two `AppendOnlyWay` objects and the page that drives
it. `disk` holds the files of each log and the points one could read in them: `csv-1` and
`csv-2`, the export `gpx`, the names the rescue goes to when there is one (`gpx-1`,
`gpx-2`), and the temporary files moved away (`old-1`, `old-2`); a torn GPX file is there
and has no points. `increment` is what a way has not saved, `buffer` what a file object
still holds after a failed write. Calls and timers run in one thread, so the steps of an
operation (`steps`) are interrupted by kills only, but clicks and callbacks go on beside them.
A write that is cut short by a kill is a failed write followed by a kill. `safe` is history: the points that were
in every temporary file after a save, or in the export of `stopLogging()`.
Left out: statistics, the trace on the map, changed timer intervals. Logs begin in different
seconds (two of one second would share their names), and a position is known.

## 3. Runs

| run | checks | distinct states | shows |
|---|---|---|---|
| `lifo_pool` | `CountsUnfinished` `NoTaskLost` `TerminatorsOnTop` `NoStartAfterShutdown` `NewestFirst` `ShutdownEnds` `ImplementsTaskPool` | 13,817 | the stack pool keeps its counts through leaks, terminators and exceptions, loses no task, ends its workers even with a stack full at shutdown, lets a shutdown that waits return but for two named cases, and implements `TaskPool` |
| `files_store` | `FinalIsWhole` `SettlesWhole` `FoundIsThere` | 108,352 | without overlap a tile's own file is whole at every moment and read whole; with overlap it may be torn for a while but is whole or gone once all have returned |
| `tile_download` | `RegisteredIsActive` `ReportedOnce` `AWorkerSurvives` `SuccessIsStored` `RequestsSettle` | 496,771 | no stale registration, no double report, the workers all die only of a tile's URL, success means stored; every request is reported, lost for a named reason, or left by a shutdown or by dead workers |
| `sqlite_store` | `WithinLimit` `RowsAreListed` `OldOrNew` | 4,028,690 | with failed commits that leave changes pending, rollbacks and kills at every step, only a commit that also writes pending rows exceeds the limit, all rows can be reached, a read gets old or new data |
| `sqlite_move` (violation) | `MentionedIsStored` | | a tile that outgrows its database is lost but listed |
| `turn_by_turn` | `RerouteLimit` `GuiAgrees` `Watched` `WorkersEnd` `DivergenceEnds` | 894,074 | at most `MaxReroutes` + 1 automatic reroutes without reaching the route; when all is served, navigation runs on the newest route exactly if the GUI shows it; it stays watched; a worker told to stop ends; a lasting divergence is rerouted while a worker lives |
| `tracklog` | `SavedSurvives` `AllRescued` `ShownIsEnabled` | 5,331,423 | a saved point stays in some file through failures and kills at any step, the rescue of the next start forgets no file, and a recording that is shown is in progress |
| `tracklog_shown` (violation) | `ShownIsRecorded` | | a log begun after one that was stopped while paused records nothing |
| `online_search` | `TableExact` `BusyMeansWork` `SearchesSettle` | 240,786 | the table of threads stays exact, and the page is not left busy unless a search raised or its results overtook the reply; the page settles and waits return |
| `profile` | `WatchersKnow` `OptionsSurvive` `EditSurvives` `UpgradedWhenRecorded` | 5,683,253 | options come back as saved, watchers know them, edits of the configuration survive, a recorded version means an upgraded configuration |
| `tile_view` | `AnswersReachTheTile` `ModelShowsWindow` `StoredIsFound` `TilesSettle` | 129,191 | answers reach the tile that shows the id, the model follows every call for an update, a stored tile is found, every tile comes to rest |
| `routing` | `ShownIsNavigated` `RerouteToDestination` `AnswersReachUser` | 370,450 | map and navigation end up with one route, reroutes lead to the newest destination, every answer of a provider reaches the user |

The type invariants are part of one safety invariant of each run (`NoTaskLost`, `FinalIsWhole`,
`RegisteredIsActive`, `RowsAreListed`, `Watched`, `ShownIsEnabled`, `BusyMeansWork`, `WatchersKnow` and
`EditSurvives`, `AnswersReachTheTile`, `ShownIsNavigated`).

The exceptions in the properties are the known faults, not conveniences; each is history that a
step of the code sets, and section 7 says what happens there. `FinalIsWhole` and `SuccessIsStored` except tiles
stored by two threads at a time (`overlapped`); `AWorkerSurvives` excepts workers ended by a tile's URL (`Escaped`), `RequestsSettle` what such workers or a shutdown leave (`Stranded`, `LeftByShutdown`);
`RowsAreListed` and `OldOrNew` except tiles that had to move (`moved`),
because `sqlite_move` shows what happens to those, and tiles updated under a pending entry (`ahead`), and `OldOrNew` a changed type (`retyped`);
`WithinLimit` excepts the commits that write what an earlier one has left pending; `ModelShowsWindow` speaks of what the map covered at the last call (`covered`), not after a change of its scale;
`DivergenceEnds` asks for a live worker; `ShutdownEnds` and `SavedSurvives` (`spoilt`) name
theirs; `AnswersReachTheTile` excepts tiles that shared an id (`twins`), `TilesSettle` these and what was `lost` or `hidden`;
`ShownIsNavigated` excepts two answers stored and then sent in the other order (`interleaved`);
`WatchersKnow` excepts watchers registered in a constructor or behind one that raised (`unaware`), `UpgradedWhenRecorded` files whose copy failed
or was skipped (`unchecked`); `BusyMeansWork` excepts searches that `Unheard` describes.

`RerouteLimit` says `MaxReroutes` + 1 (4, with the code's 3): the override flag allows
`MaxReroutes` reroutes after the first. The comment's "limited number of times" does not name
the number.

Every property has a mutant, a plausible slip in the modelled code such as a
dropped guard or a swapped order, under which its run fails. The mutants stand beside the
definitions they change, marked "Mutant:".

## 4. Bounds

  * Pool: 4 tasks, 2 workers, stack of 2 (`taskBufferSize = 0`). The smallest size at which
    terminators fill the whole stack, a put must leak while tasks wait under terminators,
    and workers can be in different states. The proofs cover all other sizes.
  * Files: 1 tile, 3 writers (symmetric), 1 reader. Two writers share a `.part` file; the
    third makes the case where a cleanup hits the file of a writer that has no part in the
    conflict. Tiles do not share files.
  * Download: 2 workers and 4 requests: two for one tile of one map, so that the second finds it registered or being stored, and two
    for a tile whose URL raises, on two maps, so that both workers can die and leave requests, and a stack of 2 overflows. A shutdown begins while at
    most one request was made (`ShutdownBound`), and others come during it. The proofs cover any requests, tiles, workers and bounds.
  * Sqlite: 2 tiles of size 1 or 2, 2 databases of 3: a tile can outgrow its database and find
    room elsewhere, or not; 2 types, as a layer's type is part of the key. The tiles are symmetric. Two failures or restarts (`FailureBound`): one commit that leaves
    something pending, and another failure, a rollback or a kill before it is written. With three the properties hold as well (17.7 million
    states, three minutes), and they are proved for any number. `sqlite_move` has none.
  * Navigation: one step, `TriggerCount` 2 and `MaxReroutes` 1 (3 and 3 in the code), one
    worker thread, one watch told apart, queues of one call and one event. A second worker thread needs `TriggerCount` 3 to keep
    nested reroutes apart, which gives 19 million states; the invariants are proved for any number of
    workers and watches instead, and hold in TLC for two watches (1.35 million states). `MaxWatches`, `MaxLookups`, `Workers` and `TriggerCount` are saturating: what is
    beyond is not told apart; `MaxCalls` and `MaxEvents` bound the queues between GUI and Python.
  * Tracklog: 2 logs, so that one can be rescued or left over while another is recorded; one
    point per run, as the files can still differ in it; 2 clicks or callbacks waiting, so that a stop can
    overtake a start; 2 failed steps (`MaxFailures`) and any number of kills. A failed move is not
    counted, as it follows another failure. The invariants also hold with 2 points (26 million
    states, four and a half minutes), which is too long for a run that is repeated.
  * Searches: one kind of search, 2 threads of it at a time and one waiter, 3 calls on their way: two
    overlapping searches share the name the page knows, and a cancel can come between any two of their steps. A
    suffix of at most 2 (`MaxSuffix`, 9000 in the code) is more than two threads need.
  * Profile: one option with values of its own for some of 2 modes, 2 watchers (symmetric), so that one can raise before the other is called, 2 sets; one file
    with a new revision in each of 3 versions, so that an upgrade can follow one that failed, and one edit.
    The files are independent, and the proofs cover any number.
  * Tile view: two places, of which one or both are on the screen, 2 slots, 2 zoom levels, 2 rows that may show
    the same of 2 layers, one retry (5 in the code). `MaxEvents` is a budget of 4 from which what the user does takes 2
    (3 for the zoom level; a change of the scale is one) and each failure, time-out or change of the storage takes 1: two moves, or one move and two
    things that go wrong. Look-ups over all stores of a layer are one step; a diagonal move is two moves; which free slot
    the script takes is fixed (`CHOOSE`); the memory cache is never trimmed.
  * Routing: 2 requests and one reroute, so five look-ups of which two each share a list; 2 calls on their way (`MaxCalls`)
    besides the restarts that events add.

## 5. Fairness

  * `LifoPool`, `TileDownload`: weak fairness of each worker, of the thread that puts the
    terminators and of the manager: they are operating-system threads, and
    none holds a lock while it waits. A download ends, with an error at the latest after the
    connection's time-out; a layer configured with a negative time-out is the exception,
    for which the runs claim nothing. Submits and requests are not fair: nobody has to ask.
  * `TurnByTurn`: weak fairness of the thread of the calls and of each worker. Strong
    fairness of `Location`: the calls of the GUI are queued and served in turn, so a
    position that comes is not passed over for ever by other calls. Clicks, look-ups and answers are
    not fair: the user may do nothing and the network may not answer.
  * `OnlineSearch`: weak fairness of the page, of the Python thread, of each search thread (a request has the time-out of its connection) and
    of the waiter. Nobody has to search or to cancel.
  * `TileView`: weak fairness of the worker script, of the GUI's event loop, of the Python thread, of the image
    loader and of the downloads, which report or are lost. The user may stop at any time.
  * `Routing`: weak fairness of the page, of the Python thread and of a look-up that has its answer. The search itself
    is not fair: the providers set no time-out.
  * The two stores, the profile and the tracklog are safety runs and assume no fairness.

Deadlock checking is off only for `LifoPool`, `TileDownload`, `OnlineSearch` and `Routing`, which come to rest once
everything asked for is dealt with.

## 6. Proofs

All hold for every value of the constants that satisfies the named assumptions of the modules (`PoolAssumption`,
`ThreadManagerAssumption`, `FilesAssumption`, `DownloadAssumption`, `StoreAssumption`, `OptionsAssumption`, `OldFileAssumption`,
`ProfileAssumption`, `NavigationAssumption`, `RoutingAssumption`, `ViewAssumption`), and rest on nothing else, but for one hypothesis
of `TableIsExact` that is named below. The invariants were checked with TLC before they were proved.

`LifoPoolProofs` proves, for any finite set of workers, any tasks and any buffer size,
`TypeOK`, `CountsUnfinished`, `TerminatorsOnTop`, `NoTaskLost`, `NoStartAfterShutdown`,
`NewestFirst` and that `LifoPool` implements `TaskPool`. All rest on the
inductive invariant `PoolInv`. The properties alone are not inductive: that a leak
takes the oldest task needs the stack to be in call order (`InCallOrder`), and that it never takes a
terminator needs the count of pending terminators and a stack with room for one
per worker (`QueueSize >= MaxThreads`). `NoStartAfterShutdown` then follows because a
stack on which the pending terminators are on top gives each worker a terminator before a task.
The refinement maps each step to a step or a stutter of `TaskPool` under the mapping `mode`. `ShutdownLeavesNoWorker` is what can be
proved of `ShutdownEnds` without fairness: when no thread can take a step each worker has ended, as the terminators are counted.

`GuiProofs` proves, for any threads, names, callers and waiters, that no ended thread stays in the table (`NoGhost`) and
that a thread cancelled before it called back stays silent (`CancelledIsSilent`). Two callers can choose one name (section 7), and then
`TableExact`, which adds that a running thread is registered under its name (`Registered`) with its own error (`ErrorIsOwn`), is false. `TableIsExact` says that
nothing else makes it so: for any callers, overlapping as they like, it holds as long as no two of them have chosen the same name and not yet entered their threads (`NamesApart`). That is not a
bound on the callers but the exact collision the code permits. The invariant `OwnInv` needs `ChosenIsFree`: a name that was chosen
stays free until the thread is entered under it. For `OnlineSearch` the hypothesis is proved (`SearchTableIsExact`): the calls of the pages are
served one by one (`Served`), so no two callers hold a name at once. `SearchUsesManager` says that every step of a
search is one of the manager's. `BusyMeansWork` rests on `SearchInv`: a page that is busy when nothing is on its way has a thread
that runs and is tracked or will be (`BusyHasWork`, `TrackedHasWork`).

It also proves `AnswersReachTheTile`, `ModelShowsWindow` and `StoredIsFound` of `TileView`, for any number of slots, places, rows, layers,
zoom levels and types of stores. Their invariant `ViewInv` has a part for each of the states that meet in the map. `RegisterInv` says of `currentTiles`
what the property says, and needs that two tiles of one id are known to be `twins` (`TwinsKnown`): else the one that leaves
could take the other out. `UpdateInv` follows an update of the model from the call of the worker to its end: what it works
from is what the map covered at the last call (`covered`), or `again` is set and another follows; a change of scale (`RescaleStep`) touches neither. That the script can place every tile is counted (`SlotsSuffice`): the slots
that are free or whose place is no longer wanted are as many as the places to fill. `StoreInv` keeps the primary store in front, and
the store a late handler has chosen (`storing`) among those of the layer. `NoIdChangesHands` justifies a simplification
of the model: when many delegates change their ids at once each runs a handler that takes its old id out of `currentTiles`,
whoever is registered there; no entry that was just made is hit, so the order of these handlers does not matter.

`RestSettles` is what can be proved of `TilesSettle` without fairness: whenever nothing is under way every tile of the screen is settled, so
no request is forgotten. `RestInv` says where the request of an empty tile is (`EmptyIsAwaited`: staged, in a batch, with the
download or in an answer), that staged requests are let go (`TimerInv`), and that what was said to be there is there when the
picture is loaded, unless it is `hidden` (`PromisesKept`), for which every store that holds a tile must be open (`HeldIsOpen`).

`FilesTileStoreProofs` proves `FinalIsWhole` and `FoundIsThere` for any tiles, writers and readers. The invariant `StoreInv`
says of a tile that has never been stored by two threads at a time that one writer at most is at work on it (`Alone`),
that what it has written is in the `.part` file (`OwnPart`), and that it only gets as far as the cleanup after a failure (`NoCleanup`);
then the tile's own name holds nothing or a whole image (`FinalGood`), and so does what a reader gets by that name (`ReadGood`).
`SettlesWhole` speaks of threads that do overlap. Its invariant `SettleInv` says, for each tile while no call has failed of itself, that a `.part` file belongs
to a thread at work (`PartOwned`), and that a torn image will be replaced or removed (`TornIsCleaned`): more threads have still to rename than
there are files for them, so that one will fail and clean up (`Excess`), or a cleanup is on its way (`Cleaned`).

`TileDownloadProofs` proves `RegisteredIsActive`, `ReportedOnce`, `AWorkerSurvives` and `SuccessIsStored` for any number of requests,
workers, tiles and maps and any buffer size. Every step of a download is a step of the pool or leaves it alone, and likewise for the store (`StepFits`), so
`DownloadInv` begins with the invariants of `LifoPoolProofs` and `FilesTileStoreProofs`; the two refinements are theorems as well
(`DownloadUsesPoolAndStore`, `DownloadsImplementTaskPool`). To these it adds: requests are queued, taken and submitted in their order
(`QueueInOrder`, `SubmittedInOrder`), so that the pool has seen exactly the submitted ones (`StagesSubmitted`); a request that is neither reported nor lost is
with the manager, the pool or a handler, and only there (`OpenInv`), so nobody else can report it; some worker that is not dead is not at the
check that can kill it, because the pair it finds there is registered by another, or a worker has died of a tile's URL (`SurvivorInv`); and what was reported is stored or being stored
(`ReportedKept`), also when the manager has only found the `.part` file (`ManagerReads`). `RestReports` is the safety half of `RequestsSettle`: `NoneForgotten` says that
a request that has not come to an end is with the manager or the pool (the converse of `OpenInv`). So when nothing is under way none is left but on the stack,
where only workers that have all died or a shutdown leave it, and behind the manager's terminator.

`SqliteTileStoreProofs` proves `RowsAreListed`, `OldOrNew` and `WithinLimit` for any tiles, types, sizes, databases and numbers of failures. The
invariant `Inv` speaks of what a connection sees and of what is committed side by side: where the operation under way has its tile (`Located`), that a tile that is being added or was just deleted
has no rows (`NoRows`), that rows are listed, pending ones by the entry pending and committed ones by the entry committed (`Listed`; an update in place needs that the two entries agree, `Updated`, else the tile is `ahead`),
and that without a change of type each tile has one value (`OneType`, `Valued`); `GetsValue` then
relates that value to the query of `get_tile()`, which takes the first of several rows. As a rollback or a kill brings the committed rows back, `Valued` holds of both.
Each action is shown to be one of a few kinds of `Moves` of rows and entries, and `Inv` to survive those.
`WithinLimit` needs the sum of the rows of a database. The sum is a recursive function on sets of keys, so the lemmas about it (`SumExists`,
`SumBound`, ...) take a smallest set of keys for which they fail, which there is as the keys are finitely many (`SmallestKeys`). `LimitInv` then says that the committed rows of a
database are within its file and that a row about to be written has room by the size of the file, so that a commit with nothing else pending keeps within the limit (`CommitWithinLimit`).

`PersistenceProofs` proves `WatchersKnow`, `OptionsSurvive`, `EditSurvives` and `UpgradedWhenRecorded` for any options, modes,
watchers, files and versions: `OptionsInv` for the dictionary, of which every step of `Profile` makes a step or a stutter
(`ProfileIsOptions`), and `ProfileInv` for the files, whose hard part is what holds while a file is between its move and its copy (`TaskInv`).
It proves `SavedSurvives`, `AllRescued` and `ShownIsEnabled` of `Tracklog` as well, for any number of logs, points, calls and failures. The
difficulty is that an operation is a sequence of steps between which modRana is killed or clicks go on, and what is on disk depends on how far it has come. So the
invariant `IInv` says by classes of plans what `steps` may hold (`Stopping1`, `Reading`, ...: sequences that begin with one step and go on with a plan of
another class; the lemmas about them, `Plans`, `RecordHeads`, `PassHeads`, ..., say which step begins which plan and which plan is left after it), and by the class where the points are.
`Covered`: each safe point of a log is in one of its files, and each temporary file that is left has what the export has not.
`RecordInv`: until the export every temporary file has all that is safe; after it the export has. `FileInv`: a pass of the
rescue has the points of the file it is at in memory, and writes where no export is that could have more than the file. `Only`: a pass still has all the files of its kind in `left`, so
that none is forgotten. For the page, `PageInv`: when it shows a recording and none is in progress, a start is on its way that no
stop follows (`StartComing`), or the callback that will call it (`NameComing`).

`TurnByTurnProofs` proves `TypeOK`, `RerouteLimit` and `Watched` for any number of workers and
steps and any limits. The difficulty is that handlers nest: the invariant `TripInv` speaks of
the order in which operations stand in `todo`. `WellFormed`: a run is followed by its
watch, an unwatch at once by a reset. `CountedThenRestarts`: while the route counts as
reached, reroutes have been counted only if the old navigation is about to be reset;
this is why a reroute decided on because the route was reached starts the count from zero, and one
decided on because of the override flag is within the limit that set the flag. `WatchComes`
and `WatchThere`: a route without a watch has one coming, and an id without a watch is
forgotten by the next operation. The lemmas `Replaced...` say that an operation that replaces
itself by well-formed ones leaves a well-formed sequence. `GuiAgrees` rests on `GuiInv`: of the calls that wait the last start or stop is what the GUI shows (`LastCallTells`),
and when there is none what is still to do ends with navigation running on the newest route (`RunsIfWanted`) or not running (`StopsIfWanted`).

`RoutingProofs` proves `RerouteToDestination` for any number of requests, reroutes and look-ups. `CallsInv` says that requests wait in the order in
which they were made and that the one being served stays in front; `DestinationInv` that the destination is the end of the
last one taken up, but between its two waypoints, when no reroute can come. `ShownIsNavigated` needs more (`RouteInv`): the last answer saved is the last one sent unless two of them
were interleaved (`AnswersInv`), and the last call or event that tells navigation anything agrees with what the page shows (`NavigationInv`). `RestAnswers` is the safety half of `AnswersReachUser`: an answer that is owed is with its look-up
or among the events (`OwedComes`).

Only model-checked: liveness (`ShutdownEnds`, `RequestsSettle`, `WorkersEnd`, `DivergenceEnds`, `SearchesSettle`,
`TilesSettle`, `AnswersReachUser`), as fairness and ENABLED are out of the prover's reach. Of `TilesSettle`,
`RequestsSettle`, `ShutdownEnds` and `AnswersReachUser` the theorems about the state at rest leave only that nothing stays under way for ever.

## 7. Disagreements found

Two are runs that TLC refutes; `PROJECT.json` quotes the lines.

  * `sqlite_move`: a tile that has to move is deleted before room for it is found.
  * `tracklog_shown`: `loggingPaused` outlives its log, so the next one is not recorded.

Seen while modelling and left without a run of their own, as exceptions of a property where one is named.

Pool, threads and searches:
  * `LifoThreadPool._shutdownHandler()` joins a queue whose remaining tasks lie under the
    terminators, so a shutdown asked to wait may never return (`ShutdownEnds`). Latent: the one user does not wait.
  * `add()` looks for a free name outside the lock it takes to enter the thread (`threads.py:88`), so two threads can
    get one name although the docstring (lines 44-45) promises a new one; one of them is then not found and its removal can take the other out.
  * `wait()` raises what the thread under the name raised (docstring, lines 140-141), also for a thread that took the name later.
  * `gui_qt5.py:578-585` takes the id the provider was asked for as that of its thread. A duplicate runs under another name, so its
    results may be discarded, and an entry noted after the results came is never removed.

Tile storage and download:
  * `_fuzzy_find_tile()` opens listed files outside any `try` (`files_store.py:240`); a `.part` file renamed
    meanwhile ends the handler, the pool's worker with it, and the request is never reported (`Reasons`).
  * The handler of a download's exception asks for the tile's URL once more for its message (`tile_downloader.py:124`, 192-193). If that was
    what raised, as for a layer whose URL has an unknown placeholder, it raises out of the handler and ends the worker. Two such requests end a pool of two, and
    later ones stay on its stack, unreported until they are pushed out (`Escaped`, `Stranded`).
  * Nothing calls `rollback()` after a failed commit (`sqlite_store.py:282-344`). The rows pending are not in the size of the file, so a later commit can pass the limit (`WithinLimit`);
    an entry pending in the lookup database sends the next store of the tile to the update in place, and if its own commit is then lost, the row is one that no entry names: the tile reads as
    missing, a later store of it into that database raises `IntegrityError`, and a read then gives that row, neither the old nor the new data (`ahead`).
  * Two handlers of one tile share a `.part` file; both report success and the cleanup of the one
    whose rename failed has removed the tile (`SuccessIsStored`, `overlapped`).
  * A handler that has chosen its store before the primary type changes writes to the former primary; an old copy in the new one that
    has timed out then hides the tile, whose success is reported and which stays blank (`hidden`). A copy that times out
    between answer and loading gives the same blank picture.

The map:
  * A change of the map scale (`OptionsMapPage.qml:37-40`) changes `numTilesX` and `numTilesY` (`PinchMap.qml:17-22`) and updates nothing: until the next
    move the model holds the tiles of the old size.
  * One layer chosen in two rows makes two tiles of one id; when one of them goes, its `onDestruction` (`Tile.qml:97`) deletes the
    entry of the other, which is never told of its download, against the comment at `PinchMap.qml:350` (`twins`). Together they also use up their retries twice as fast.
  * After a download was reported a late answer "not available" unsets the availability, though the picture stays.
  * A fatal error is not retried until the id changes; `downloading` is never set.
  * The memory cache is asked before the store (`mod_mapTiles.py:153`): a tile downloaded again after its time-out is shown as before.

Navigation and routing:
  * Navigation restarted on a new route clears `_route` for a moment; a worker
    that wakes up then ends and leaves its flag set (`mod_turnByTurn.py:628`), so no new one is started.
  * A watch leaks on each start during navigation; a worker in its quick loop can cause a
    reroute after the destination was reached; a stop and start within a worker's sleep leave two workers.
  * `request_route()` calls `waypoints_route()` inside its loop, although that wants two waypoints or more: each request makes two look-ups on one growing list,
    and the first is refused with a notification or finds the same route again.
  * An exception of a provider, and a success without a route, raise in `_routing_done_cb()`: the user is told nothing.
  * `_routing_done_cb()` stores and sends without a lock: two callbacks can leave the map with one route and navigation with the other (`interleaved`).
  * The answer to an older request replaces a newer route, while the destination stays that of the newest request.

Profile and options:
  * `set(..., save=True)` never saves, as there is no `mod_options` to send the message to; the message of `modrana.py:526` is inverted.
  * If the options cannot be loaded no upgrade is looked for, and as the version is saved nevertheless none will be; likewise if the upgrade fails (`unchecked`).
  * A copy that was cut short after its revision line counts as up to date; unreadable edits share the backup name of revision 0.
  * A watcher registered with `runNow` in a constructor is told the plain value and not told again when the modifiers come into force (`unaware`).
  * A watcher whose callback raises ends the walk (`modrana.py:697`): those behind it are not told of a value that is in force (`unaware`).

Tracklog:
  * `stopLogging()` deletes the temporary files even if no export has succeeded, and `_rescueLogs()` ignores what
    `save_to_GPX()` returns: with a full disk all of a log is lost (`spoilt`). Points that only the
    secondary file has are lost if the primary one can be read.
  * After a quick start and stop a recording goes on that the page does not show.

## 8. Not modelled, and why

  * Batch map download and with it the plain `ThreadPool` with its `PriorityQueue`: the Qt 5 GUI does not call it, and on Python 3
    `addOtherZoomlevels()` raises before the request set is filled.
  * Timers: a table behind one lock whose entries the GUI's event loop runs; the two that matter are actions of `Tracklog`.
  * Location: the positions are the environment of `TurnByTurn` and `Tracklog`; their sources are devices and services.
  * Voice, device modules: external processes and hardware.
  * Geometry and projections: floating-point formulas.
  * Points of interest: single statements; layers and paths: read once at startup. Signals: a notification is one step of its sender.
  * The GTK GUI and what only it sends.
  * Vendored libraries and tools (protobuf, gprof2dot, configobj, upoints and others).
  * Within modelled components: `delete_tile()` and `clear()` of the files store and vacuuming in the
    sqlite store (no callers), the spilling of SQLite's cache into the file before a commit, the overlays and image filters of `mod_mapTiles`, the requests and parsers of the providers,
    `addKeyModifier()`, `removeKeyModifier()` and `purgeKey()` (no callers), `wait_all()` (no caller), markers and the canvas of the map,
    statistics of the tracklog. `PROJECT.json` says it for each component.

## 9. What could come next

  1. `TileView` on `TileDownload` instead of what it promises, if a smaller instance can be found that still has the cases.
  2. The plain `ThreadPool` over its `PriorityQueue`, should the batch download come back to life.
