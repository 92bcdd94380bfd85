---------------------------- MODULE TileDownload ----------------------------
(***************************************************************************)
(* The automatic download of map tiles, from a request of the GUI to the   *)
(* tileDownloaded signal: the manager thread of                            *)
(* modules/mod_mapTiles/mod_mapTiles.py, the Downloader of                 *)
(* modules/mod_mapTiles/tile_downloader.py on its pool (LifoPool), and the *)
(* tile store both look into (FilesTileStore).                             *)
(*                                                                         *)
(* A request names a tile and a tag, the map that shows the tile.  The     *)
(* manager looks for the tile in the store and has it downloaded by the    *)
(* pool if it is not there.  The handler run by a worker registers what it *)
(* downloads in _running, downloads, stores the tile twice and reports.    *)
(* taskTimeout is 0 and overwrite False, as everywhere in modRana.  The    *)
(* in-memory cache of tiles is left out: nothing modelled here reads it.   *)
(***************************************************************************)
EXTENDS Integers, Sequences, FiniteSets

CONSTANTS Requests,        \* calls of addTileDownloadRequest(), numbered in order
          Tiles,
          BadTiles,        \* those for which getTileUrl() raises
          TileOf, TagOf,   \* functions: what a request asks for
          Workers,
          TaskBufferSize,
          Networks,        \* whether self.get('network') can be other than 'full'
          ShutdownBound    \* a shutdown begins while at most so many requests were made

Manager == "manager"

ASSUME DownloadAssumption ==
    /\ IsFiniteSet(Requests) /\ Requests = 1..Cardinality(Requests)
    /\ Tiles # {} /\ TileOf \in [Requests -> Tiles] /\ BadTiles \subseteq Tiles
    /\ DOMAIN TagOf = Requests
    /\ IsFiniteSet(Workers) /\ Workers # {} /\ Manager \notin Workers
    /\ TaskBufferSize \in Int
    /\ Networks \subseteq BOOLEAN /\ Networks # {}
    /\ ShutdownBound \in Nat

VARIABLES stack, unfinished, worker, item, stage, phase, terminatorsPut, join,
          file, writer, target, fd, reader, sought, listed, path, got,
          overlapped, mishap,
          asked,     \* how many requests the GUI has made
          queue,     \* _dlRequestQueue
          manager,   \* what the manager thread is doing
          current,   \* the request the manager works on
          submitted, \* the requests given to the pool, its tasks, in order
          dropped,   \* the request a submit() has pushed out, 0 for none
          running,   \* _running, the tiles and tags registered as being downloaded
          handler,   \* how far a worker has come in _handleDownload()
          error,     \* what it is going to report
          notices,   \* the tileDownloaded signals for every request
          lost       \* history: why a request will never be reported

poolVars == <<stack, unfinished, worker, item, stage, phase, terminatorsPut, join>>
fileVars == <<file, writer, target, fd, reader, sought, listed, path, got,
              overlapped, mishap>>
managerVars == <<asked, queue, manager, current, dropped>>
handlerVars == <<running, handler, error>>
vars == <<poolVars, fileVars, managerVars, handlerVars, submitted, notices, lost>>

Terminate == 0

Pool == INSTANCE LifoPool WITH Tasks <- Requests
Files == INSTANCE FilesTileStore WITH Writers <- Workers,
                                      Readers <- Workers \cup {Manager}

\* The constants TILE_DOWNLOAD_... of core/constants.py that are sent.
Success == "success"
Failed == "error"
QueueFull == "queue-full"

ManagerStates == {"waiting", "looking", "submitting", "reporting-drop", "ended"}
HandlerStates == {"none", "starting", "checking", "downloading", "storing",
                  "storing-again", "unregistering", "reporting", "escaping"}
Reasons == {"no", "network-off", "exception", "worker-died", "shut-down", "dropped-by-shutdown"}

Init ==
    /\ Pool!Init
    /\ Files!Init
    /\ asked = 0
    /\ queue = <<>>
    /\ manager = "waiting"
    /\ current = 0
    /\ submitted = <<>>
    /\ dropped = 0
    /\ running = {}
    /\ handler = [w \in Workers |-> "none"]
    /\ error = [w \in Workers |-> Failed]
    /\ notices = [r \in Requests |-> <<>>]
    /\ lost = [r \in Requests |-> "no"]

Notify(r, result) == notices' = [notices EXCEPT ![r] = Append(@, result)]
Lose(r, why) == lost' = [lost EXCEPT ![r] = why]

-----------------------------------------------------------------------------
(* The GUI thread.                                                         *)

\* isTileAvailable() has not found the tile: addTileDownloadRequest().
Ask ==
    /\ asked + 1 \in Requests
    /\ \A n \in Files!Names : ~Files!Image(file[TileOf[asked + 1]][n])
    /\ asked' = asked + 1
    /\ queue' = Append(queue, asked + 1)
    /\ UNCHANGED <<poolVars, fileVars, manager, current, dropped, handlerVars,
                   submitted, notices, lost>>

\* shutdown() of mod_mapTiles: the manager is told, then the pool.
TellManager ==
    /\ asked <= ShutdownBound
    /\ \A i \in DOMAIN queue : queue[i] # Terminate
    /\ manager # "ended"
    /\ queue' = Append(queue, Terminate)
    /\ UNCHANGED <<poolVars, fileVars, asked, manager, current, dropped,
                   handlerVars, submitted, notices, lost>>

TellPool ==
    /\ manager = "ended" \/ \E i \in DOMAIN queue : queue[i] = Terminate
    /\ Pool!Shutdown(FALSE)
    /\ UNCHANGED <<fileVars, managerVars, handlerVars, submitted, notices, lost>>

-----------------------------------------------------------------------------
(* The manager thread, _tileLoadingManager().                              *)

\* Requests behind the terminator are never looked at.
TakeTerminator ==
    /\ manager = "waiting"
    /\ queue # <<>> /\ Head(queue) = Terminate
    /\ manager' = "ended"
    /\ UNCHANGED <<poolVars, fileVars, asked, queue, current, dropped,
                   handlerVars, submitted, notices, lost>>

\* A request is taken and get_tile_data() called for it.
TakeRequest ==
    /\ manager = "waiting"
    /\ queue # <<>> /\ Head(queue) # Terminate
    /\ queue' = Tail(queue)
    /\ current' = Head(queue)
    /\ manager' = "looking"
    /\ Files!Look(Manager, TileOf[Head(queue)])
    /\ UNCHANGED <<poolVars, asked, dropped, handlerVars, submitted, notices, lost>>

LookOn ==
    /\ manager = "looking"
    /\ Files!FindStep(Manager) \/ Files!GetTile(Manager)
    /\ UNCHANGED <<poolVars, managerVars, handlerVars, submitted, notices, lost>>

\* Empty data counts as no tile.
HasData == reader[Manager] = "stored" /\ got[Manager] # "empty"

\* Mutant: the tile is reported and is downloaded nevertheless.
FoundAndSubmitted ==
    /\ manager = "looking"
    /\ HasData
    /\ Notify(current, Success)
    /\ Files!Return(Manager)
    /\ manager' = "submitting"
    /\ UNCHANGED <<poolVars, asked, queue, current, dropped,
                   handlerVars, submitted, lost>>

\* The tile is in the store: report it.
FoundLocally ==
    /\ manager = "looking"
    /\ HasData
    /\ Notify(current, Success)
    /\ Files!Return(Manager)
    /\ manager' = "waiting"
    /\ UNCHANGED <<poolVars, asked, queue, current, dropped,
                   handlerVars, submitted, lost>>

\* The look-up has raised: the exception is logged and the request forgotten.
LookRaised ==
    /\ manager = "looking"
    /\ reader[Manager] = "raised"
    /\ Lose(current, "exception")
    /\ Files!Return(Manager)
    /\ manager' = "waiting"
    /\ UNCHANGED <<poolVars, asked, queue, current, dropped,
                   handlerVars, submitted, notices>>

\* Not in the store; unless the network option says full nothing is reported.
NotFound ==
    /\ manager = "looking"
    /\ reader[Manager] \in {"stored", "missing"} /\ ~HasData
    /\ Files!Return(Manager)
    /\ \/ /\ TRUE \in Networks
          /\ manager' = "submitting"
          /\ UNCHANGED lost
       \/ /\ FALSE \in Networks
          /\ manager' = "waiting"
          /\ Lose(current, "network-off")
    /\ UNCHANGED <<poolVars, asked, queue, current, dropped,
                   handlerVars, submitted, notices>>

NextTask == Len(submitted) + 1

\* downloadTile().  The test for lzxy in _running is always false, _running
\* being a set of pairs of an lzxy and a tag.  If the pool has been shut down
\* submit() raises, otherwise it returns what it has pushed out.
DownloadTile ==
    /\ manager = "submitting"
    /\ \/ /\ Pool!Submit(NextTask)
          /\ submitted' = Append(submitted, current)
          /\ LET out == {u \in DOMAIN submitted : Pool!Leaks(u)} IN
             IF out = {}
             THEN manager' = "waiting" /\ UNCHANGED dropped
             ELSE /\ manager' = "reporting-drop"
                  /\ dropped' = submitted[CHOOSE u \in out : TRUE]
          /\ UNCHANGED lost
       \/ /\ phase # "open"
          /\ Lose(current, "shut-down")
          /\ manager' = "waiting"
          /\ UNCHANGED <<poolVars, submitted, dropped>>
    /\ UNCHANGED <<fileVars, asked, queue, current, handlerVars, notices>>

ReportDrop ==
    /\ manager = "reporting-drop"
    /\ Notify(dropped, QueueFull)
    /\ dropped' = 0
    /\ manager' = "waiting"
    /\ UNCHANGED <<poolVars, fileVars, asked, queue, current, handlerVars,
                   submitted, lost>>

ManagerStep ==
    \/ TakeTerminator \/ TakeRequest \/ LookOn \/ FoundLocally \/ LookRaised
    \/ NotFound \/ DownloadTile \/ ReportDrop

-----------------------------------------------------------------------------
(* A worker of the pool, in _handleDownload().                             *)

RequestOf(w) == submitted[item[w]]
Tile(w) == TileOf[RequestOf(w)]
Pair(w) == <<Tile(w), TagOf[RequestOf(w)]>>

Goto(w, there) == handler' = [handler EXCEPT ![w] = there]

\* The pool gives the worker a request, or the terminator.
Get(w) ==
    /\ Pool!Get(w)
    /\ Goto(w, IF worker'[w] = "running" THEN "starting" ELSE "none")
    /\ UNCHANGED <<fileVars, managerVars, running, error, submitted, notices, lost>>

\* Nobody downloads the tile for this tag: register.  Whether it has been
\* stored in the meantime is not looked at.
Register(w) ==
    /\ handler[w] = "starting"
    /\ Pair(w) \notin running
    /\ running' = running \cup {Pair(w)}
    /\ Goto(w, "downloading")
    /\ UNCHANGED <<poolVars, fileVars, managerVars, error, submitted, notices, lost>>

\* Somebody does: look whether the tile is stored.
AlreadyRunning(w) ==
    /\ handler[w] = "starting"
    /\ Pair(w) \in running
    /\ Files!Look(w, Tile(w))
    /\ Goto(w, "checking")
    /\ UNCHANGED <<poolVars, managerVars, running, error, submitted, notices, lost>>

Check(w) ==
    /\ handler[w] = "checking"
    /\ Files!FindStep(w) \/ Files!IsStored(w)
    /\ UNCHANGED <<poolVars, managerVars, handlerVars, submitted, notices, lost>>

\* Mutant: a handler with nothing to download returns at once.
CheckedSilently(w) ==
    /\ handler[w] = "checking"
    /\ \/ reader[w] = "stored" /\ Goto(w, "none") /\ Pool!Finish(w)
       \/ reader[w] = "missing" /\ Goto(w, "downloading") /\ UNCHANGED poolVars
    /\ Files!Return(w)
    /\ UNCHANGED <<managerVars, running, error, submitted, notices, lost>>

\* It is stored: the default error is reported.  It is not: this handler
\* downloads the tile as well, and does not register.
Checked(w) ==
    /\ handler[w] = "checking"
    /\ \/ reader[w] = "stored" /\ Goto(w, "reporting")
       \/ reader[w] = "missing" /\ Goto(w, "downloading")
    /\ Files!Return(w)
    /\ UNCHANGED <<poolVars, managerVars, running, error, submitted,
                   notices, lost>>

\* tile_is_stored() has raised, which ends the worker.
CheckRaised(w) ==
    /\ handler[w] = "checking"
    /\ reader[w] = "raised"
    /\ Lose(RequestOf(w), "worker-died")
    /\ Pool!Raise(w)
    /\ Files!Return(w)
    /\ Goto(w, "none")
    /\ UNCHANGED <<managerVars, running, error, submitted, notices>>

\* Mutant: an exception of the download is not caught and ends the worker.
DownloadEscapes(w) ==
    /\ handler[w] = "downloading"
    /\ Tile(w) \notin BadTiles
    /\ running' = running \ {Pair(w)}
    /\ Lose(RequestOf(w), "worker-died")
    /\ Pool!Raise(w)
    /\ Goto(w, "none")
    /\ UNCHANGED <<fileVars, managerVars, error, submitted, notices>>

\* Mutant: an answer that is no tile passes for a tile.
DownloadFailsUnseen(w) ==
    /\ handler[w] = "downloading"
    /\ Tile(w) \notin BadTiles
    /\ error' = [error EXCEPT ![w] = Success]
    /\ Goto(w, "unregistering")
    /\ UNCHANGED <<poolVars, fileVars, managerVars, running, submitted, notices, lost>>

\* The server's answer is no tile, or none comes.
DownloadFails(w) ==
    /\ handler[w] = "downloading"
    /\ Tile(w) \notin BadTiles
    /\ Goto(w, "unregistering")
    /\ UNCHANGED <<poolVars, fileVars, managerVars, running, error, submitted,
                   notices, lost>>

\* getTileUrl() raises, the URL of the tile's layer being a template with an unknown
\* placeholder.  The handler of the exception asks for the URL once more, for its
\* message, so that it raises as well: only the finally branch is left.
UrlRaises(w) ==
    /\ handler[w] = "downloading"
    /\ Tile(w) \in BadTiles
    /\ Goto(w, "unregistering")
    /\ UNCHANGED <<poolVars, fileVars, managerVars, running, error, submitted,
                   notices, lost>>

\* The tile has come: mapTiles._downloadTile() begins to store it.
Downloaded(w) ==
    /\ handler[w] = "downloading"
    /\ Tile(w) \notin BadTiles
    /\ Files!Open(w, Tile(w)) \/ Files!OpenFails(w, Tile(w))
    /\ Goto(w, "storing")
    /\ UNCHANGED <<poolVars, managerVars, running, error, submitted, notices, lost>>

Store(w) ==
    /\ handler[w] \in {"storing", "storing-again"}
    /\ Files!StoreStep(w)
    /\ UNCHANGED <<poolVars, managerVars, handlerVars, submitted, notices, lost>>

\* Stored or not, the Downloader's own _downloadTile() stores the tile again.
StoreAgain(w) ==
    /\ handler[w] = "storing"
    /\ Files!Idle(w)
    /\ Files!Open(w, Tile(w)) \/ Files!OpenFails(w, Tile(w))
    /\ Goto(w, "storing-again")
    /\ UNCHANGED <<poolVars, managerVars, running, error, submitted, notices, lost>>

Stored(w) ==
    /\ handler[w] = "storing-again"
    /\ Files!Idle(w)
    /\ error' = [error EXCEPT ![w] = Success]
    /\ Goto(w, "unregistering")
    /\ UNCHANGED <<poolVars, fileVars, managerVars, running, submitted, notices, lost>>

\* Mutant: only a download that worked is taken off the tracking set.
UnregisterSuccess(w) ==
    /\ handler[w] = "unregistering"
    /\ running' = IF error[w] = Success THEN running \ {Pair(w)} ELSE running
    /\ Goto(w, IF Tile(w) \in BadTiles THEN "escaping" ELSE "reporting")
    /\ UNCHANGED <<poolVars, fileVars, managerVars, error, submitted, notices, lost>>

\* The finally branch; a pair that is already gone (KeyError) is ignored.
Unregister(w) ==
    /\ handler[w] = "unregistering"
    /\ running' = running \ {Pair(w)}
    /\ Goto(w, IF Tile(w) \in BadTiles THEN "escaping" ELSE "reporting")
    /\ UNCHANGED <<poolVars, fileVars, managerVars, error, submitted, notices, lost>>

\* The signal is sent and the function returns to the pool.
Report(w) ==
    /\ handler[w] = "reporting"
    /\ Notify(RequestOf(w), error[w])
    /\ Pool!Finish(w)
    /\ Goto(w, "none")
    /\ error' = [error EXCEPT ![w] = Failed]
    /\ UNCHANGED <<fileVars, managerVars, running, submitted, lost>>

\* The finally branch sends the signal too, and the exception ends the worker.
Escape(w) ==
    /\ handler[w] = "escaping"
    /\ Notify(RequestOf(w), error[w])
    /\ Pool!Raise(w)
    /\ Goto(w, "none")
    /\ error' = [error EXCEPT ![w] = Failed]
    /\ UNCHANGED <<fileVars, managerVars, running, submitted, lost>>

StopWorker(w) ==
    /\ Pool!Stop(w)
    /\ UNCHANGED <<fileVars, managerVars, handlerVars, submitted, notices, lost>>

WorkerStep(w) ==
    \/ Get(w) \/ Register(w) \/ AlreadyRunning(w) \/ Check(w) \/ Checked(w)
    \/ CheckRaised(w) \/ DownloadFails(w) \/ UrlRaises(w) \/ Downloaded(w) \/ Store(w)
    \/ StoreAgain(w) \/ Stored(w) \/ Unregister(w) \/ Report(w) \/ Escape(w) \/ StopWorker(w)

-----------------------------------------------------------------------------
(* The thread that shuts the pool down.                                    *)

\* A request that a terminator pushes out is reported to nobody.
PutTerminator ==
    /\ Pool!PutTerminator
    /\ lost' = [r \in Requests |->
                  IF \E u \in DOMAIN submitted : submitted[u] = r /\ Pool!Leaks(u)
                  THEN "dropped-by-shutdown" ELSE lost[r]]
    /\ UNCHANGED <<fileVars, managerVars, handlerVars, submitted, notices>>

ShutdownReturns ==
    /\ Pool!ShutdownReturns
    /\ UNCHANGED <<fileVars, managerVars, handlerVars, submitted, notices, lost>>

Next ==
    \/ Ask \/ TellManager \/ TellPool
    \/ ManagerStep
    \/ \E w \in Workers : WorkerStep(w)
    \/ PutTerminator \/ ShutdownReturns

Spec == Init /\ [][Next]_vars

\* The threads run, and a download ends (tile servers have a timeout).
Fairness ==
    /\ WF_vars(ManagerStep)
    /\ \A w \in Workers : WF_vars(WorkerStep(w))
    /\ WF_vars(PutTerminator)

FairSpec == Spec /\ Fairness

-----------------------------------------------------------------------------
(* Properties.                                                             *)

\* With the types: a worker is in a handler exactly while the pool has it running.
TypeOK ==
    /\ Pool!TypeOK
    /\ Files!TypeOK
    /\ asked \in Requests \cup {0}
    /\ queue \in Seq(Requests \cup {Terminate})
    /\ manager \in ManagerStates
    /\ current \in Requests \cup {0}
    /\ submitted \in Seq(Requests)
    /\ dropped \in Requests \cup {0}
    /\ running \subseteq Tiles \X {TagOf[r] : r \in Requests}
    /\ handler \in [Workers -> HandlerStates]
    /\ \A w \in Workers : handler[w] # "none" <=> worker[w] = "running"
    /\ error \in [Workers -> {Success, Failed}]
    /\ notices \in [Requests -> Seq({Success, Failed, QueueFull})]
    /\ lost \in [Requests -> Reasons]

Downloading == {"downloading", "storing", "storing-again", "unregistering"}

\* What is registered is being downloaded by someone: no failure, no second
\* handler of the same tile and no worker that dies leaves an entry behind,
\* which would turn every later request for the tile into an error report.
\* The types come with it.
RegisteredIsActive ==
    /\ TypeOK
    /\ \A p \in running : \E w \in Workers : handler[w] \in Downloading /\ Pair(w) = p

\* Every request is reported once at most, by the manager, for the pool or by
\* its handler, and never after it was given up.
ReportedOnce ==
    \A r \in Requests : /\ Len(notices[r]) <= 1
                        /\ lost[r] # "no" => notices[r] = <<>>

\* The calls of _handleDownload() that were left by an exception although their request
\* was reported.
Escaped == {t \in DOMAIN submitted :
              stage[t] = "failed" /\ notices[submitted[t]] # <<>>}

\* A worker dies of its tile's URL, or, finding its tile registered, of a file that is
\* renamed between its being found and opened; it is not replaced.  Of the latter alone
\* the workers never all die: the one that registered a tile is not among those.  So
\* without a layer whose URL is wrong one of them always survives.
AWorkerSurvives ==
    \/ \E w \in Workers : worker[w] # "dead"
    \/ \E t \in Escaped : TileOf[submitted[t]] \in BadTiles

\* What is reported as downloaded is in the store, as long as no two threads
\* have stored the tile at a time and storing never failed: the tile's file is
\* whole, or it will be, the manager having found the .part file of a thread
\* that is storing the tile.
SuccessIsStored ==
    \A r \in Requests :
        notices[r] = <<Success>> /\ TileOf[r] \notin overlapped /\ ~mishap =>
            file[TileOf[r]]["final"] = "whole" \/ Files!Storing(TileOf[r]) # {}

Settled(r) == notices[r] # <<>> \/ lost[r] # "no"

OnStack(r) == \E t \in DOMAIN submitted : submitted[t] = r /\ stage[t] = "queued"

\* The shutdown leaves requests in the manager's queue, behind its terminator, and on
\* the stack, under those of the workers.
LeftByShutdown(r) ==
    \/ manager = "ended" /\ \E i \in DOMAIN queue : queue[i] = r
    \/ phase # "open" /\ OnStack(r)

\* Nobody is left to take the request from the stack.
Stranded(r) == OnStack(r) /\ \A w \in Workers : worker[w] = "dead"

\* Every request comes to an end: it is reported, or one of the known causes (listed in
\* Reasons) keeps it from being reported, or it is left by a shutdown or by workers that
\* have all died.  Again and again none is open otherwise, the requests under way when
\* modRana shuts down included; and what has come to an end stays so.
RequestsSettle ==
    []<>(\A r \in 1..asked : Settled(r) \/ LeftByShutdown(r) \/ Stranded(r))

=============================================================================
