------------------------- MODULE TileDownloadProofs -------------------------
(***************************************************************************)
(* Proofs about TileDownload, for any number of requests, workers, tiles   *)
(* and maps, and any size of the pool's buffer.  The pool and the store    *)
(* are those of LifoPoolProofs and FilesTileStoreProofs: every step of a   *)
(* download is one of theirs or leaves them alone, so their invariants     *)
(* hold here as well.  On these rest the invariants of the manager and of  *)
(* the handlers.                                                           *)
(***************************************************************************)
EXTENDS TileDownload, FiniteSetTheorems, TLAPS

PP == INSTANCE LifoPoolProofs WITH Tasks <- Requests
FP == INSTANCE FilesTileStoreProofs WITH Writers <- Workers,
                                         Readers <- Workers \cup {Manager}

LEMMA RequestsAreNumbers ==
    /\ Cardinality(Requests) \in Nat
    /\ Requests = 1..Cardinality(Requests)
    /\ Requests \subseteq Nat \ {0}
  <1>1. Cardinality(Requests) \in Nat
    BY DownloadAssumption, FS_CardinalityType
  <1> QED
    BY <1>1, DownloadAssumption

LEMMA WorkersAreFinite == PP!IsFiniteSet(Workers)
  BY DownloadAssumption DEF PP!IsFiniteSet, IsFiniteSet

-----------------------------------------------------------------------------
(* The actions of the pool and of the store are those the proofs are about. *)

LEMMA SameLeaks == \A x : Pool!Leaks(x) <=> PP!Leaks(x)
  BY DEF Pool!Leaks, PP!Leaks, Pool!Full, PP!Full, Pool!QueueSize, PP!QueueSize,
      Pool!MaxThreads, PP!MaxThreads, Pool!Cardinality, PP!Cardinality

LEMMA SamePool ==
    /\ Pool!Init => PP!Init
    /\ \A t \in Requests : Pool!Submit(t) => PP!Submit(t)
    /\ \A w \in Workers : /\ Pool!Get(w) => PP!Get(w)
                          /\ Pool!Finish(w) => PP!Finish(w)
                          /\ Pool!Raise(w) => PP!Raise(w)
                          /\ Pool!Stop(w) => PP!Stop(w)
    /\ Pool!Shutdown(FALSE) => PP!Shutdown(FALSE)
    /\ Pool!PutTerminator => PP!PutTerminator
    /\ Pool!ShutdownReturns => PP!ShutdownReturns
    /\ PP!TypeOK => Pool!TypeOK
  <1>1. Pool!MaxThreads = PP!MaxThreads
    BY DEF Pool!MaxThreads, PP!MaxThreads, Pool!Cardinality, PP!Cardinality
  <1>2. Pool!Full <=> PP!Full
    BY <1>1 DEF Pool!Full, PP!Full, Pool!QueueSize, PP!QueueSize
  <1>3. \A x : Pool!Put(x) <=> PP!Put(x)
    BY <1>2 DEF Pool!Put, PP!Put
  <1>4. \A x : Pool!Leaks(x) <=> PP!Leaks(x)
    BY SameLeaks
  <1>5. Pool!Init => PP!Init
    BY DEF Pool!Init, PP!Init
  <1>6. ASSUME NEW t \in Requests, Pool!Submit(t) PROVE PP!Submit(t)
    BY <1>3, <1>4, <1>6 DEF Pool!Submit, PP!Submit, Pool!IsNextCall, PP!IsNextCall
  <1>7. ASSUME NEW w \in Workers, Pool!Get(w) PROVE PP!Get(w)
    BY <1>7 DEF Pool!Get, PP!Get, Pool!Top, PP!Top, Pool!Terminator, PP!Terminator
  <1>8. ASSUME NEW w \in Workers
        PROVE  /\ Pool!Finish(w) => PP!Finish(w)
               /\ Pool!Raise(w) => PP!Raise(w)
               /\ Pool!Stop(w) => PP!Stop(w)
    BY DEF Pool!Finish, PP!Finish, Pool!Raise, PP!Raise, Pool!Stop, PP!Stop,
        Pool!TaskDone, PP!TaskDone
  <1>9. Pool!Shutdown(FALSE) => PP!Shutdown(FALSE)
    BY DEF Pool!Shutdown, PP!Shutdown
  <1>10. Pool!PutTerminator => PP!PutTerminator
    BY <1>1, <1>3, <1>4 DEF Pool!PutTerminator, PP!PutTerminator, Pool!Terminator, PP!Terminator
  <1>11. Pool!ShutdownReturns => PP!ShutdownReturns
    BY <1>1 DEF Pool!ShutdownReturns, PP!ShutdownReturns
  <1>12. PP!TypeOK => Pool!TypeOK
    BY <1>1 DEF Pool!TypeOK, PP!TypeOK, Pool!Terminator, PP!Terminator, Pool!WorkerStates,
        PP!WorkerStates, Pool!Stages, PP!Stages
  <1> QED
    BY <1>5, <1>6, <1>7, <1>8, <1>9, <1>10, <1>11, <1>12

LEMMA SameFiles ==
    /\ Files!Init => FP!Init
    /\ \A r \in Workers \cup {Manager} :
          /\ \A t \in Tiles : Files!Look(r, t) => FP!Look(r, t)
          /\ Files!FindStep(r) => FP!FindStep(r)
          /\ Files!IsStored(r) => FP!IsStored(r)
          /\ Files!GetTile(r) => FP!GetTile(r)
          /\ Files!Return(r) => FP!Return(r)
    /\ \A w \in Workers :
          /\ \A t \in Tiles : Files!Open(w, t) => FP!Open(w, t)
          /\ \A t \in Tiles : Files!OpenFails(w, t) => FP!OpenFails(w, t)
          /\ Files!StoreStep(w) => FP!StoreStep(w)
    /\ FP!TypeOK => Files!TypeOK
  <1> USE DEF Files!Names, FP!Names, Files!Image, FP!Image, Files!Idle, FP!Idle
  <1>1. Files!Init => FP!Init
    BY DEF Files!Init, FP!Init, Files!WriterInit, FP!WriterInit, Files!ReaderInit, FP!ReaderInit
  <1> USE DEF Files!readerVars, FP!readerVars, Files!writerVars, FP!writerVars
  <1>2. \A t, n : Files!Seen(t, n) = FP!Seen(t, n)
    BY DEF Files!Seen, FP!Seen
  <1>3. ASSUME NEW r \in Workers \cup {Manager}
        PROVE  /\ \A t \in Tiles : Files!Look(r, t) => FP!Look(r, t)
               /\ Files!IsStored(r) => FP!IsStored(r)
               /\ Files!Return(r) => FP!Return(r)
    BY DEF Files!Look, FP!Look, Files!IsStored, FP!IsStored, Files!Return, FP!Return
  <1>4. ASSUME NEW r \in Workers \cup {Manager}
        PROVE  Files!GetTile(r) => FP!GetTile(r)
    BY <1>2 DEF Files!GetTile, FP!GetTile
  <1>5. ASSUME NEW r \in Workers \cup {Manager}, Files!FindStep(r)
        PROVE  FP!FindStep(r)
    <2>1. Files!Primary(r) => FP!Primary(r)
      BY <1>2 DEF Files!Primary, FP!Primary
    <2>2. /\ Files!Glob(r) => FP!Glob(r)
          /\ Files!NothingFound(r) => FP!NothingFound(r)
          /\ Files!Stat(r) => FP!Stat(r)
      BY DEF Files!Glob, FP!Glob, Files!NothingFound, FP!NothingFound, Files!Stat, FP!Stat
    <2>3. \A n : Files!Try(r, n) => FP!Try(r, n)
      BY <1>2 DEF Files!Try, FP!Try
    <2> QED
      BY <1>5, <2>1, <2>2, <2>3 DEF Files!FindStep, FP!FindStep
  <1>6. \A t : Files!Storing(t) = FP!Storing(t)
    BY DEF Files!Storing, FP!Storing
  <1>7. ASSUME NEW w \in Workers, NEW t \in Tiles
        PROVE  /\ Files!Open(w, t) => FP!Open(w, t)
               /\ Files!OpenFails(w, t) => FP!OpenFails(w, t)
    BY <1>6 DEF Files!Open, FP!Open, Files!OpenFails, FP!OpenFails
  <1>8. ASSUME NEW w \in Workers, Files!StoreStep(w)
        PROVE  FP!StoreStep(w)
    <2>1. Files!Found(w) = FP!Found(w)
      BY DEF Files!Found, FP!Found
    <2>2. \A c : Files!Fill(w, c) <=> FP!Fill(w, c)
      BY DEF Files!Fill, FP!Fill
    <2>3. /\ Files!Write(w) => FP!Write(w)
          /\ Files!WriteFails(w) => FP!WriteFails(w)
      BY <2>1, <2>2 DEF Files!Write, FP!Write, Files!WriteFails, FP!WriteFails
    <2>4. Files!Rename(w) => FP!Rename(w)
      BY DEF Files!Rename, FP!Rename, Files!Renamed, FP!Renamed
    <2>5. /\ Files!TestPart(w) => FP!TestPart(w)
          /\ Files!TestFinal(w) => FP!TestFinal(w)
          /\ Files!RemovePart(w) => FP!RemovePart(w)
          /\ Files!RemoveFinal(w) => FP!RemoveFinal(w)
      BY DEF Files!TestPart, FP!TestPart, Files!TestFinal, FP!TestFinal, Files!RemovePart,
          FP!RemovePart, Files!RemoveFinal, FP!RemoveFinal, Files!Unlinked, FP!Unlinked
    <2> QED
      BY <1>8, <2>3, <2>4, <2>5 DEF Files!StoreStep, FP!StoreStep
  <1>9. FP!TypeOK => Files!TypeOK
    BY DEF Files!TypeOK, FP!TypeOK, Files!WriterTypeOK, FP!WriterTypeOK, Files!ReaderTypeOK,
        FP!ReaderTypeOK, Files!Contents, FP!Contents, Files!WriterStates, FP!WriterStates,
        Files!ReaderStates, FP!ReaderStates
  <1> QED
    BY <1>1, <1>3, <1>4, <1>5, <1>7, <1>8, <1>9

-----------------------------------------------------------------------------
(* The state of the manager.                                               *)

ManagerTypes ==
    /\ asked \in Requests \cup {0}
    /\ queue \in Seq(Requests \cup {Terminate})
    /\ manager \in ManagerStates
    /\ current \in Requests \cup {0}
    /\ submitted \in Seq(Requests)
    /\ dropped \in Requests \cup {0}
    /\ manager \in {"looking", "submitting"} => current # 0

\* Requests wait in the order in which they were made, behind the current one.
QueueInOrder ==
    /\ current <= asked
    /\ \A i \in 1..Len(queue) : queue[i] # 0 => current < queue[i] /\ queue[i] <= asked
    /\ \A i, j \in 1..Len(queue) : i < j /\ queue[i] # 0 /\ queue[j] # 0 => queue[i] < queue[j]

\* They reach the pool in that order, and not all of them do: the pool's tasks
\* are no more than the requests.
SubmittedInOrder ==
    /\ \A i \in 1..Len(submitted) :
          /\ i <= submitted[i]
          /\ submitted[i] <= current
          /\ manager \in {"looking", "submitting"} => submitted[i] < current
    /\ \A i, j \in 1..Len(submitted) : i < j => submitted[i] < submitted[j]

\* The pool's tasks are the requests submitted so far.
StagesSubmitted == \A t \in Requests : stage[t] # "new" <=> t <= Len(submitted)

\* A request that was pushed out of the pool's queue and is to be reported.
DroppedLeaked ==
    manager = "reporting-drop" =>
        \E t \in 1..Len(submitted) : dropped = submitted[t] /\ stage[t] = "leaked"

HandlerTypes ==
    /\ running \subseteq Tiles \X {TagOf[r] : r \in Requests}
    /\ handler \in [Workers -> HandlerStates]
    /\ \A w \in Workers : handler[w] # "none" <=> worker[w] = "running"
    /\ error \in [Workers -> {Success, Failed}]
    /\ notices \in [Requests -> Seq({Success, Failed, QueueFull})]
    /\ lost \in [Requests -> Reasons]

\* What is registered is being downloaded, by a thread that is alive.
RegisteredActive ==
    \A p \in running : \E w \in Workers : handler[w] \in Downloading /\ Pair(w) = p

BaseInv ==
    /\ ManagerTypes
    /\ QueueInOrder
    /\ SubmittedInOrder
    /\ StagesSubmitted
    /\ HandlerTypes

-----------------------------------------------------------------------------
(* Reports.                                                                *)

\* Nothing has been said of this request, nor will nothing ever be.
Open(r) == notices[r] = <<>> /\ lost[r] = "no"

\* Requests that somebody still has are open.
OpenInv ==
    /\ \A r \in Requests : r > current => Open(r)
    /\ manager \in {"looking", "submitting"} => Open(current)
    /\ \A t \in 1..Len(submitted) : stage[t] \in {"queued", "running"} => Open(submitted[t])
    /\ manager = "reporting-drop" => Open(dropped)

\* A worker that is not looking at a tile of another will not die next.
Survives == \E w \in Workers : worker[w] # "dead" /\ handler[w] # "checking"

\* Otherwise a handler has been left by the exception that the tile's URL raises.
UrlKilled == \E t \in Escaped : TileOf[submitted[t]] \in BadTiles
EscapingBad == \A w \in Workers : handler[w] = "escaping" => Tile(w) \in BadTiles

SurvivorInv == EscapingBad /\ (Survives \/ UrlKilled)

-----------------------------------------------------------------------------
(* What is reported as downloaded.                                         *)

\* The manager looks for the tile of its request, and what it finds it reads.
ManagerReads ==
    /\ manager = "looking" => sought[Manager] = TileOf[current]
    /\ reader[Manager] = "stored" => got[Manager] # "none"

\* A handler that has had its tile stored, or has downloaded it, keeps it.
HandlersKeep ==
    \A w \in Workers :
        /\ handler[w] \in {"storing", "storing-again"} => FP!Kept(Tile(w))
        /\ error[w] = Success => /\ handler[w] \in {"unregistering", "reporting", "escaping"}
                              /\ FP!Kept(Tile(w))

ReportedKept == \A r \in Requests : notices[r] = <<Success>> => FP!Kept(TileOf[r])

\* What a worker runs is a request that was submitted.
LEMMA HeldIsSubmitted ==
    ASSUME PP!PoolInv, BaseInv, NEW w \in Workers, handler[w] # "none"
    PROVE  /\ item[w] \in 1..Len(submitted) /\ item[w] \in Requests
           /\ stage[item[w]] = "running"
           /\ RequestOf(w) \in Requests
           /\ Tile(w) \in Tiles
  <1>1. worker[w] = "running"
    BY DEF BaseInv, HandlerTypes
  <1>2. item[w] \in Requests /\ stage[item[w]] = "running"
    BY <1>1 DEF PP!PoolInv, PP!HoldsWhileRunning, PP!RunningHeld, PP!TypeOK
  <1>3. item[w] \in 1..Len(submitted)
    BY <1>2, RequestsAreNumbers DEF BaseInv, StagesSubmitted, ManagerTypes
  <1>4. RequestOf(w) \in Requests
    BY <1>3 DEF RequestOf, BaseInv, ManagerTypes
  <1> QED
    BY <1>2, <1>3, <1>4, DownloadAssumption DEF Tile

-----------------------------------------------------------------------------
(* Steps of the pool and of the store.                                     *)

LEMMA PoolStep == PP!PoolInv /\ [PP!Next]_(PP!vars) => PP!PoolInv'
  BY PP!StepInv, RequestsAreNumbers, WorkersAreFinite, DownloadAssumption

LEMMA FilesStep ==
    ASSUME FP!StoreInv, FP!SettleInv, FP!ReadIsKept, [FP!Next]_(FP!vars)
    PROVE  /\ FP!StoreInv'
           /\ FP!SettleInv'
           /\ FP!ReadIsKept'
           /\ \A t \in Tiles : FP!Kept(t) => FP!Kept(t)'
  BY FP!StoreInvStep, FP!SettleStep, FP!ReadIsKeptStep, FP!KeptStep, DownloadAssumption

\* What is submitted next is one of the requests: they reach the pool in order.
LEMMA NextTaskIsRequest ==
    ASSUME BaseInv, manager \in {"looking", "submitting"}
    PROVE  /\ NextTask \in Requests /\ NextTask <= current
           /\ current \in Requests
           /\ Len(submitted) \in Nat
  <1>1. /\ current \in Requests /\ submitted \in Seq(Requests) /\ Len(submitted) \in Nat
        /\ current \in 1..Cardinality(Requests)
    BY RequestsAreNumbers DEF BaseInv, ManagerTypes
  <1>2. CASE Len(submitted) = 0
    BY <1>1, <1>2, RequestsAreNumbers DEF NextTask
  <1>3. CASE Len(submitted) # 0
    <2>1. Len(submitted) \in 1..Len(submitted)
      BY <1>1, <1>3
    <2>2. Len(submitted) <= submitted[Len(submitted)] /\ submitted[Len(submitted)] < current
      BY <2>1 DEF BaseInv, SubmittedInOrder
    <2>3. submitted[Len(submitted)] \in Nat
      BY <1>1, <2>1, RequestsAreNumbers
    <2> QED
      BY <1>1, <2>2, <2>3, RequestsAreNumbers DEF NextTask
  <1> QED
    BY <1>2, <1>3, <1>1

\* The only steps that move the pool, or the store.
LEMMA ManagerFits ==
    ASSUME BaseInv, ManagerStep
    PROVE  [PP!Next]_(PP!vars) /\ [FP!Next]_(FP!vars)
  <1> USE DEF poolVars, fileVars, PP!vars, FP!vars, FP!writerVars, FP!readerVars
  <1>1. ASSUME Files!Return(Manager)
        PROVE  FP!Next
    BY <1>1, SameFiles DEF FP!Next
  <1>2. CASE TakeTerminator \/ ReportDrop
    BY <1>2 DEF TakeTerminator, ReportDrop
  <1>3. CASE TakeRequest
    <2>1. TileOf[Head(queue)] \in Tiles
      BY <1>3, DownloadAssumption DEF TakeRequest, BaseInv, ManagerTypes
    <2> QED
      BY <1>3, <2>1, SameFiles DEF TakeRequest, FP!Next
  <1>4. CASE LookOn
    <2>1. FP!FindStep(Manager) \/ FP!GetTile(Manager)
      BY <1>4, SameFiles DEF LookOn
    <2>2. FP!Next
      BY <2>1 DEF FP!Next
    <2> QED
      BY <1>4, <2>2 DEF LookOn
  <1>5. CASE FoundLocally
    BY <1>1, <1>5 DEF FoundLocally
  <1>6. CASE LookRaised
    BY <1>1, <1>6 DEF LookRaised
  <1>7. CASE NotFound
    BY <1>1, <1>7 DEF NotFound
  <1>8. CASE DownloadTile
    <2>1. CASE Pool!Submit(NextTask)
      <3>1. NextTask \in Requests
        BY <1>8, NextTaskIsRequest DEF DownloadTile
      <3>2. PP!Next
        BY <2>1, <3>1, SamePool DEF PP!Next
      <3> QED
        BY <1>8, <3>2 DEF DownloadTile
    <2>2. CASE ~Pool!Submit(NextTask)
      BY <1>8, <2>2 DEF DownloadTile
    <2> QED
      BY <2>1, <2>2
  <1> QED
    BY <1>2, <1>3, <1>4, <1>5, <1>6, <1>7, <1>8 DEF ManagerStep

LEMMA WorkerFits ==
    ASSUME PP!PoolInv, BaseInv, NEW w \in Workers, WorkerStep(w)
    PROVE  [PP!Next]_(PP!vars) /\ [FP!Next]_(FP!vars)
  <1> USE DEF poolVars, fileVars, PP!vars, FP!vars, FP!writerVars, FP!readerVars
  <1>t. handler[w] # "none" => Tile(w) \in Tiles
    BY HeldIsSubmitted
  <1>1. CASE Get(w) \/ StopWorker(w)
    <2>1. PP!Get(w) \/ PP!Stop(w)
      BY <1>1, SamePool DEF Get, StopWorker
    <2>2. PP!Next
      BY <2>1 DEF PP!Next
    <2> QED
      BY <1>1, <2>2 DEF Get, StopWorker
  <1>2. CASE Register(w) \/ DownloadFails(w) \/ UrlRaises(w) \/ Stored(w) \/ Unregister(w)
    BY <1>2 DEF Register, DownloadFails, UrlRaises, Stored, Unregister
  <1>3. CASE AlreadyRunning(w)
    <2>1. FP!Look(w, Tile(w))
      BY <1>3, <1>t, SameFiles DEF AlreadyRunning
    <2>2. FP!Next
      BY <1>3, <1>t, <2>1 DEF AlreadyRunning, FP!Next
    <2> QED
      BY <1>3, <2>2 DEF AlreadyRunning
  <1>4. CASE Check(w)
    <2>1. FP!FindStep(w) \/ FP!IsStored(w)
      BY <1>4, SameFiles DEF Check
    <2>2. FP!Next
      BY <2>1 DEF FP!Next
    <2> QED
      BY <1>4, <2>2 DEF Check
  <1>5. ASSUME Files!Return(w)
        PROVE  FP!Next
    <2>1. FP!Return(w)
      BY <1>5, SameFiles
    <2> QED
      BY <2>1 DEF FP!Next
  <1>6. CASE Checked(w)
    BY <1>5, <1>6 DEF Checked
  <1>7. CASE CheckRaised(w)
    <2>1. PP!Raise(w)
      BY <1>7, SamePool DEF CheckRaised
    <2>2. PP!Next
      BY <2>1 DEF PP!Next
    <2> QED
      BY <1>5, <1>7, <2>2 DEF CheckRaised
  <1>8. CASE Downloaded(w) \/ StoreAgain(w)
    <2>1. FP!Open(w, Tile(w)) \/ FP!OpenFails(w, Tile(w))
      BY <1>8, <1>t, SameFiles DEF Downloaded, StoreAgain
    <2>2. FP!Next
      BY <1>8, <1>t, <2>1 DEF Downloaded, StoreAgain, FP!Next
    <2> QED
      BY <1>8, <2>2 DEF Downloaded, StoreAgain
  <1>9. CASE Store(w)
    <2>1. FP!StoreStep(w)
      BY <1>9, SameFiles DEF Store
    <2>2. FP!Next
      BY <2>1 DEF FP!Next
    <2> QED
      BY <1>9, <2>2 DEF Store
  <1>10. CASE Report(w) \/ Escape(w)
    <2>1. PP!Finish(w) \/ PP!Raise(w)
      BY <1>10, SamePool DEF Report, Escape
    <2>2. PP!Next
      BY <2>1 DEF PP!Next
    <2> QED
      BY <1>10, <2>2 DEF Report, Escape
  <1> QED
    BY <1>1, <1>2, <1>3, <1>4, <1>6, <1>7, <1>8, <1>9, <1>10 DEF WorkerStep

LEMMA StepFits ==
    ASSUME PP!PoolInv, BaseInv, [Next]_vars
    PROVE  [PP!Next]_(PP!vars) /\ [FP!Next]_(FP!vars)
  <1> USE DEF poolVars, fileVars, PP!vars, FP!vars, FP!writerVars, FP!readerVars
  <1>1. CASE Ask \/ TellManager
    BY <1>1 DEF Ask, TellManager
  <1>2. CASE TellPool
    <2>1. PP!Shutdown(FALSE)
      BY <1>2, SamePool DEF TellPool
    <2>2. PP!Next
      BY <2>1 DEF PP!Next
    <2> QED
      BY <1>2, <2>2 DEF TellPool
  <1>3. CASE PutTerminator
    BY <1>3, SamePool DEF PutTerminator, PP!Next
  <1>4. CASE ShutdownReturns
    BY <1>4, SamePool DEF ShutdownReturns, PP!Next
  <1>5. CASE UNCHANGED vars
    BY <1>5 DEF vars
  <1> QED
    BY <1>1, <1>2, <1>3, <1>4, <1>5, ManagerFits, WorkerFits DEF Next

-----------------------------------------------------------------------------
(* What the steps of the pool do to the tasks.                             *)

\* The task that a put pushes out was waiting.
LEMMA LeaksQueued ==
    ASSUME PP!PoolInv, NEW t \in Requests, PP!Leaks(t)
    PROVE  stage[t] = "queued"
  <1>1. PP!QueueSize \in Nat
    BY PP!Counts, RequestsAreNumbers, WorkersAreFinite, DownloadAssumption
  <1>2. stack \in Seq(Requests \cup {PP!Terminator}) /\ Len(stack) > 0 /\ stack[1] = t
    BY <1>1 DEF PP!Leaks, PP!Full, PP!PoolInv, PP!TypeOK
  <1>3. 1 \in 1..Len(stack)
    BY <1>2
  <1> QED
    BY <1>2, <1>3 DEF PP!PoolInv, PP!QueuedOnStack

LEMMA SubmitStages ==
    ASSUME PP!PoolInv, NEW t \in Requests, PP!Submit(t)
    PROVE  /\ stage[t] = "new" /\ stage'[t] = "queued"
           /\ \A u \in Requests \ {t} : IF PP!Leaks(u)
                                        THEN stage[u] = "queued" /\ stage'[u] = "leaked"
                                        ELSE stage'[u] = stage[u]
           /\ UNCHANGED <<worker, item>>
  <1>1. stage[t] = "new"
    BY RequestsAreNumbers DEF PP!Submit, PP!IsNextCall
  <1>2. \A u \in Requests : PP!Leaks(u) => stage[u] = "queued"
    BY LeaksQueued
  <1> QED
    BY <1>1, <1>2 DEF PP!Submit

LEMMA TerminatorStages ==
    ASSUME PP!PoolInv, PP!PutTerminator
    PROVE  /\ \A u \in Requests : IF PP!Leaks(u)
                                  THEN stage[u] = "queued" /\ stage'[u] = "dropped"
                                  ELSE stage'[u] = stage[u]
           /\ UNCHANGED <<worker, item>>
  BY LeaksQueued DEF PP!PutTerminator

LEMMA GetStages ==
    ASSUME PP!PoolInv, NEW w \in Workers, PP!Get(w)
    PROVE  /\ worker[w] = "idle" /\ worker'[w] \in {"running", "stopping"}
           /\ \A v \in Workers \ {w} : worker'[v] = worker[v] /\ item'[v] = item[v]
           /\ \A u \in Requests : \/ stage'[u] = stage[u]
                                  \/ stage[u] = "queued" /\ stage'[u] = "running"
  <1>1. /\ stack \in Seq(Requests \cup {PP!Terminator}) /\ stack # <<>>
        /\ worker \in [Workers -> PP!WorkerStates]
        /\ item \in [Workers -> Requests \cup {0}]
    BY DEF PP!PoolInv, PP!TypeOK, PP!Get
  <1>2. Len(stack) \in 1..Len(stack)
    BY <1>1
  <1>3. \A u \in Requests : u = PP!Top => stage[u] = "queued"
    BY <1>2 DEF PP!Top, PP!PoolInv, PP!QueuedOnStack
  <1> QED
    BY <1>1, <1>3 DEF PP!Get

LEMMA EndStages ==
    ASSUME PP!PoolInv, NEW w \in Workers, PP!Finish(w) \/ PP!Raise(w)
    PROVE  /\ worker[w] = "running"
           /\ worker' = [worker EXCEPT ![w] = IF PP!Finish(w) THEN "idle" ELSE "dead"]
           /\ \A v \in Workers \ {w} : worker'[v] = worker[v] /\ item'[v] = item[v]
           /\ item[w] \in Requests /\ stage[item[w]] = "running"
           /\ stage'[item[w]] \in {"done", "failed"}
           /\ \A u \in Requests \ {item[w]} : stage'[u] = stage[u]
  <1>1. /\ worker \in [Workers -> PP!WorkerStates]
        /\ item \in [Workers -> Requests \cup {0}]
        /\ stage \in [Requests -> PP!Stages]
    BY DEF PP!PoolInv, PP!TypeOK
  <1>2. worker[w] = "running"
    BY DEF PP!Finish, PP!Raise
  <1>3. item[w] \in Requests /\ stage[item[w]] = "running"
    BY <1>1, <1>2 DEF PP!PoolInv, PP!HoldsWhileRunning, PP!RunningHeld
  <1>4. ~(PP!Finish(w) /\ PP!Raise(w))
    BY <1>1 DEF PP!Finish, PP!Raise
  <1> QED
    BY <1>1, <1>2, <1>3, <1>4 DEF PP!Finish, PP!Raise

\* Two workers never run one task.
LEMMA HeldByOne ==
    ASSUME PP!PoolInv, NEW v \in Workers, NEW w \in Workers, worker[v] = "running",
           item[v] = item[w]
    PROVE  v = w
  BY DEF PP!PoolInv, PP!HoldsWhileRunning, PP!HeldOnce

\* What a submission pushes out is dropped, and was waiting.
LEMMA DownloadSubmits ==
    ASSUME PP!PoolInv, BaseInv, DownloadTile
    PROVE  \/ /\ PP!Submit(NextTask)
              /\ submitted' = Append(submitted, current)
              /\ \/ manager' = "waiting" /\ UNCHANGED dropped
                 \/ /\ manager' = "reporting-drop"
                    /\ \E u \in 1..Len(submitted) : /\ PP!Leaks(u) /\ stage[u] = "queued"
                                                    /\ dropped' = submitted[u]
              /\ UNCHANGED lost
           \/ /\ Lose(current, "shut-down")
              /\ manager' = "waiting"
              /\ UNCHANGED <<poolVars, submitted, dropped>>
  <1>1. NextTask \in Requests /\ Len(submitted) \in Nat /\ submitted \in Seq(Requests)
    BY NextTaskIsRequest DEF DownloadTile, BaseInv, ManagerTypes
  <1>2. 1..Len(submitted) \subseteq Requests /\ DOMAIN submitted = 1..Len(submitted)
    BY <1>1, RequestsAreNumbers DEF NextTask
  <1>3. CASE Pool!Submit(NextTask)
    <2> DEFINE out == {u \in DOMAIN submitted : Pool!Leaks(u)}
    <2>1. PP!Submit(NextTask)
      BY <1>1, <1>3, SamePool
    <2>2. CASE out = {}
      BY <1>3, <2>1, <2>2 DEF DownloadTile, Pool!Submit
    <2>3. CASE out # {}
      <3>1. PICK u \in out : u = CHOOSE x \in out : TRUE
        BY <2>3
      <3>2. PP!Leaks(u) /\ u \in 1..Len(submitted)
        BY <1>2, <3>1, SameLeaks
      <3>3. stage[u] = "queued"
        BY <1>2, <3>2, LeaksQueued
      <3>4. manager' = "reporting-drop" /\ dropped' = submitted[u]
        BY <1>3, <2>3, <3>1 DEF DownloadTile, Pool!Submit
      <3> QED
        BY <1>3, <2>1, <3>2, <3>3, <3>4 DEF DownloadTile, Pool!Submit
    <2> QED
      BY <2>2, <2>3
  <1>4. CASE ~Pool!Submit(NextTask)
    BY <1>4 DEF DownloadTile
  <1> QED
    BY <1>3, <1>4

-----------------------------------------------------------------------------
(* The manager and the handlers keep their state in order.                 *)

Order == ManagerTypes /\ QueueInOrder /\ SubmittedInOrder

\* The GUI's request goes to the end of the queue.
LEMMA AskInOrder ==
    ASSUME Order, Ask \/ TellManager
    PROVE  Order'
  <1> DEFINE S == Requests \cup {0}
  <1>1. queue \in Seq(S) /\ asked \in Nat /\ current \in Nat /\ current <= asked
    BY RequestsAreNumbers DEF Order, ManagerTypes, QueueInOrder, Terminate
  <1>2. PICK x \in S : /\ queue' = Append(queue, x)
                       /\ \/ x = 0 /\ asked' = asked
                          \/ x = asked + 1 /\ asked' = asked + 1
    <2>1. CASE Ask
      BY <2>1 DEF Ask
    <2>2. CASE TellManager
      BY <2>2 DEF TellManager, Terminate
    <2> QED
      BY <2>1, <2>2
  <1>3. /\ queue' \in Seq(S)
        /\ Len(queue) \in Nat /\ Len(queue') = Len(queue) + 1
        /\ queue'[Len(queue) + 1] = x
        /\ \A i \in 1..Len(queue) : queue'[i] = queue[i] /\ queue[i] \in S
    <2> HIDE DEF S
    <2> QED
      BY <1>1, <1>2
  <1>4. UNCHANGED <<manager, current, submitted, dropped>>
    BY DEF Ask, TellManager
  <1>5. ManagerTypes'
    BY <1>2, <1>3, <1>4 DEF Order, ManagerTypes, Ask, TellManager, Terminate
  <1>6. \A i \in 1..Len(queue') : queue'[i] # 0 => current < queue'[i] /\ queue'[i] <= asked'
    <2> SUFFICES ASSUME NEW i \in 1..Len(queue'), queue'[i] # 0
                 PROVE  current < queue'[i] /\ queue'[i] <= asked'
      OBVIOUS
    <2>1. CASE i = Len(queue) + 1
      BY <1>1, <1>2, <1>3, <2>1
    <2>2. CASE i \in 1..Len(queue)
      <3>1. queue[i] \in Nat /\ current < queue[i] /\ queue[i] <= asked
        BY <1>3, <2>2, RequestsAreNumbers DEF Order, QueueInOrder
      <3> QED
        BY <1>1, <1>2, <1>3, <2>2, <3>1
    <2> QED
      BY <1>3, <2>1, <2>2
  <1>7. \A i, j \in 1..Len(queue') : i < j /\ queue'[i] # 0 /\ queue'[j] # 0
                                        => queue'[i] < queue'[j]
    <2> SUFFICES ASSUME NEW i \in 1..Len(queue'), NEW j \in 1..Len(queue'), i < j,
                        queue'[i] # 0, queue'[j] # 0
                 PROVE  queue'[i] < queue'[j]
      OBVIOUS
    <2>1. i \in 1..Len(queue) /\ queue'[i] = queue[i] /\ queue[i] \in Nat /\ queue[i] <= asked
      BY <1>3, RequestsAreNumbers DEF Order, QueueInOrder
    <2>2. CASE j = Len(queue) + 1
      BY <1>1, <1>2, <1>3, <2>1, <2>2
    <2>3. CASE j \in 1..Len(queue)
      BY <1>3, <2>1, <2>3 DEF Order, QueueInOrder
    <2> QED
      BY <1>3, <2>2, <2>3
  <1>8. QueueInOrder'
    BY <1>1, <1>2, <1>4, <1>6, <1>7 DEF QueueInOrder
  <1>9. SubmittedInOrder'
    BY <1>4 DEF Order, SubmittedInOrder
  <1> QED
    BY <1>5, <1>8, <1>9 DEF Order

\* The manager takes the first request: it is later than all it has had.
LEMMA TakeInOrder ==
    ASSUME Order, TakeRequest
    PROVE  Order' /\ current < current' /\ current' \in Requests
  <1> DEFINE S == Requests \cup {0}
  <1>1. queue \in Seq(S) /\ queue # <<>> /\ current \in Nat /\ asked \in Nat
    BY RequestsAreNumbers DEF Order, ManagerTypes, TakeRequest, Terminate
  <1>2. /\ Len(queue) \in Nat /\ 1 \in 1..Len(queue)
        /\ Head(queue) = queue[1] /\ queue[1] \in S
        /\ queue' \in Seq(S) /\ Len(queue') = Len(queue) - 1
        /\ \A i \in 1..Len(queue') : queue'[i] = queue[i + 1] /\ queue'[i] \in S
    <2>1. queue' = Tail(queue)
      BY DEF TakeRequest
    <2> HIDE DEF S
    <2> QED
      BY <1>1, <2>1
  <1>3. current' = queue[1] /\ queue[1] # 0 /\ manager' = "looking"
        /\ UNCHANGED <<asked, submitted, dropped>>
    BY <1>2 DEF TakeRequest, Terminate
  <1>4. current' \in Requests /\ current < current' /\ current' <= asked /\ current' \in Nat
    BY <1>2, <1>3, RequestsAreNumbers DEF Order, QueueInOrder
  <1>5. ManagerTypes'
    BY <1>2, <1>3, <1>4, RequestsAreNumbers DEF Order, ManagerTypes, ManagerStates, Terminate
  <1>6. QueueInOrder'
    <2>1. ASSUME NEW i \in 1..Len(queue'), queue'[i] # 0
          PROVE  current' < queue'[i] /\ queue'[i] <= asked
      <3>1. i + 1 \in 1..Len(queue) /\ 1 < i + 1 /\ queue'[i] = queue[i + 1]
        BY <1>2
      <3> QED
        BY <1>2, <1>3, <2>1, <3>1 DEF Order, QueueInOrder
    <2>2. ASSUME NEW i \in 1..Len(queue'), NEW j \in 1..Len(queue'), i < j,
                 queue'[i] # 0, queue'[j] # 0
          PROVE  queue'[i] < queue'[j]
      <3>1. /\ i + 1 \in 1..Len(queue) /\ j + 1 \in 1..Len(queue) /\ i + 1 < j + 1
            /\ queue'[i] = queue[i + 1] /\ queue'[j] = queue[j + 1]
        BY <1>2, <2>2
      <3> QED
        BY <2>2, <3>1 DEF Order, QueueInOrder
    <2> QED
      BY <1>3, <1>4, <2>1, <2>2 DEF QueueInOrder
  <1>7. SubmittedInOrder'
    <2>1. \A i \in 1..Len(submitted) : submitted[i] \in Nat /\ submitted[i] <= current
      BY RequestsAreNumbers DEF Order, ManagerTypes, SubmittedInOrder
    <2>2. \A i \in 1..Len(submitted) : submitted[i] < current'
      BY <1>1, <1>4, <2>1
    <2>3. \A i \in 1..Len(submitted) : submitted[i] <= current'
      BY <1>4, <2>1, <2>2
    <2> QED
      BY <1>3, <2>2, <2>3 DEF Order, SubmittedInOrder
  <1> QED
    BY <1>4, <1>5, <1>6, <1>7 DEF Order

\* A submission is the latest.
LEMMA SubmitInOrder ==
    ASSUME BaseInv, PP!PoolInv, DownloadTile
    PROVE  Order'
  <1>1. /\ NextTask \in Requests /\ NextTask <= current /\ current \in Requests
        /\ Len(submitted) \in Nat /\ submitted \in Seq(Requests)
        /\ manager = "submitting" /\ current \in Nat
    BY NextTaskIsRequest, RequestsAreNumbers DEF DownloadTile, BaseInv, ManagerTypes
  <1>2. UNCHANGED <<asked, queue, current>>
    BY DEF DownloadTile
  <1>3. QueueInOrder'
    BY <1>2 DEF BaseInv, QueueInOrder
  <1>4. manager' \in {"waiting", "reporting-drop"} /\ dropped' \in Requests \cup {0}
    <2>1. \A u \in 1..Len(submitted) : submitted[u] \in Requests
      BY <1>1
    <2> QED
      BY <2>1, DownloadSubmits DEF BaseInv, ManagerTypes
  <1>5. CASE submitted' = submitted
    <2>1. SubmittedInOrder'
      BY <1>1, <1>2, <1>4, <1>5 DEF BaseInv, SubmittedInOrder
    <2>2. ManagerTypes'
      BY <1>2, <1>4, <1>5 DEF BaseInv, ManagerTypes, ManagerStates
    <2> QED
      BY <1>3, <2>1, <2>2 DEF Order
  <1>6. CASE submitted' = Append(submitted, current)
    <2>1. /\ submitted' \in Seq(Requests)
          /\ Len(submitted') = Len(submitted) + 1
          /\ submitted'[Len(submitted) + 1] = current
          /\ \A i \in 1..Len(submitted) : submitted'[i] = submitted[i] /\ submitted[i] \in Nat
      BY <1>1, <1>6, RequestsAreNumbers
    <2>2. ManagerTypes'
      BY <1>2, <1>4, <2>1 DEF BaseInv, ManagerTypes, ManagerStates
    <2>3. \A i \in 1..Len(submitted) : i <= submitted[i] /\ submitted[i] < current
      BY <1>1 DEF BaseInv, SubmittedInOrder
    <2>4. \A i \in 1..Len(submitted') : i <= submitted'[i] /\ submitted'[i] <= current
      <3> SUFFICES ASSUME NEW i \in 1..Len(submitted')
                   PROVE  i <= submitted'[i] /\ submitted'[i] <= current
        OBVIOUS
      <3>1. CASE i \in 1..Len(submitted)
        BY <1>1, <2>1, <2>3, <3>1
      <3>2. CASE i = Len(submitted) + 1
        BY <1>1, <2>1, <3>2 DEF NextTask
      <3> QED
        BY <1>1, <2>1, <3>1, <3>2
    <2>5. \A i, j \in 1..Len(submitted') : i < j => submitted'[i] < submitted'[j]
      <3> SUFFICES ASSUME NEW i \in 1..Len(submitted'), NEW j \in 1..Len(submitted'), i < j
                   PROVE  submitted'[i] < submitted'[j]
        OBVIOUS
      <3>1. i \in 1..Len(submitted)
        BY <1>1, <2>1
      <3>2. CASE j \in 1..Len(submitted)
        BY <2>1, <3>1, <3>2 DEF BaseInv, SubmittedInOrder
      <3>3. CASE j = Len(submitted) + 1
        BY <2>1, <2>3, <3>1, <3>3
      <3> QED
        BY <1>1, <2>1, <3>2, <3>3
    <2>6. SubmittedInOrder'
      BY <1>2, <1>4, <2>4, <2>5 DEF SubmittedInOrder
    <2> QED
      BY <1>3, <2>2, <2>6 DEF Order
  <1> QED
    BY <1>5, <1>6, DownloadSubmits

LEMMA OrderStep ==
    ASSUME BaseInv, PP!PoolInv, [Next]_vars
    PROVE  Order'
  <1> USE DEF managerVars
  <1>o. Order
    BY DEF BaseInv, Order
  <1>1. ASSUME UNCHANGED <<asked, queue, current, submitted>>,
               \/ manager' \in {"waiting", "ended", "submitting"} /\ UNCHANGED dropped
               \/ manager' = "waiting" /\ dropped' = 0
               \/ UNCHANGED <<manager, dropped>>,
               manager' = "submitting" => manager \in {"looking", "submitting"}
        PROVE  Order'
    <2>1. ManagerTypes'
      BY <1>1, <1>o DEF Order, ManagerTypes, ManagerStates
    <2>2. QueueInOrder'
      BY <1>1, <1>o DEF Order, QueueInOrder
    <2>3. manager' \in {"looking", "submitting"} => manager \in {"looking", "submitting"}
      BY <1>1
    <2>4. SubmittedInOrder'
      BY <1>1, <1>o, <2>3 DEF Order, SubmittedInOrder
    <2> QED
      BY <2>1, <2>2, <2>4 DEF Order
  <1>2. CASE ManagerStep
    <2>0. CASE TakeTerminator
      BY <1>1, <2>0 DEF TakeTerminator
    <2>1. CASE LookOn \/ FoundLocally \/ LookRaised
      BY <1>1, <2>1 DEF LookOn, FoundLocally, LookRaised
    <2>2. CASE NotFound
      BY <1>1, <2>2 DEF NotFound
    <2>3. CASE ReportDrop
      BY <1>1, <2>3 DEF ReportDrop
    <2> QED
      BY <1>2, <1>o, <2>0, <2>1, <2>2, <2>3, TakeInOrder, SubmitInOrder DEF ManagerStep
  <1>3. ASSUME NEW w \in Workers, WorkerStep(w)
        PROVE  Order'
    <2>1. UNCHANGED <<managerVars, submitted>>
      BY <1>3 DEF WorkerStep, Get, Register, AlreadyRunning, Check, Checked, CheckRaised,
            DownloadFails, UrlRaises, Downloaded, Store, StoreAgain, Stored, Unregister, Report, Escape, StopWorker
    <2> QED
      BY <1>1, <2>1
  <1>4. CASE TellPool \/ PutTerminator \/ ShutdownReturns
    BY <1>1, <1>4 DEF TellPool, PutTerminator, ShutdownReturns
  <1>5. CASE UNCHANGED vars
    BY <1>1, <1>5 DEF vars
  <1> QED
    BY <1>o, <1>2, <1>3, <1>4, <1>5, AskInOrder DEF Next

\* Who reports a request, and who gives one up.
LEMMA OnlyReports ==
    ASSUME [Next]_vars, ~FoundLocally, ~ReportDrop, \A w \in Workers : ~Report(w) /\ ~Escape(w)
    PROVE  UNCHANGED notices
  BY DEF Next, Ask, TellManager, TellPool, ManagerStep, TakeTerminator, TakeRequest, LookOn,
      LookRaised, NotFound, DownloadTile, WorkerStep, Get, Register, AlreadyRunning, Check, Checked,
      CheckRaised, DownloadFails, UrlRaises, Downloaded, Store, StoreAgain, Stored, Unregister, StopWorker,
      PutTerminator, ShutdownReturns, vars

LEMMA OnlyLosses ==
    ASSUME [Next]_vars, ~LookRaised, ~NotFound, ~DownloadTile, ~PutTerminator,
           \A w \in Workers : ~CheckRaised(w)
    PROVE  UNCHANGED lost
  BY DEF Next, Ask, TellManager, TellPool, ManagerStep, TakeTerminator, TakeRequest, LookOn,
      FoundLocally, ReportDrop, WorkerStep, Get, Register, AlreadyRunning, Check, Checked,
      DownloadFails, UrlRaises, Downloaded, Store, StoreAgain, Stored, Unregister, Report, Escape, StopWorker,
      ShutdownReturns, vars

\* The tasks of the pool stay the requests submitted so far.
LEMMA StagesStep ==
    ASSUME PP!PoolInv, BaseInv, [Next]_vars
    PROVE  StagesSubmitted'
  <1> USE DEF poolVars
  <1>1. ASSUME submitted' = submitted,
               \A u \in Requests : stage'[u] = "new" <=> stage[u] = "new"
        PROVE  StagesSubmitted'
    BY <1>1 DEF BaseInv, StagesSubmitted
  <1>2. CASE DownloadTile
    <2>1. NextTask \in Requests /\ Len(submitted) \in Nat /\ submitted \in Seq(Requests)
          /\ current \in Requests
      BY <1>2, NextTaskIsRequest DEF DownloadTile, BaseInv, ManagerTypes
    <2>2. CASE PP!Submit(NextTask) /\ submitted' = Append(submitted, current)
      <3>1. Len(submitted') = NextTask
        BY <2>1, <2>2 DEF NextTask
      <3>2. /\ stage'[NextTask] = "queued"
            /\ \A u \in Requests \ {NextTask} : stage'[u] = "new" <=> stage[u] = "new"
        BY <2>1, <2>2, SubmitStages
      <3>3. \A u \in Requests : u \in Nat /\ (u <= NextTask <=> u <= Len(submitted) \/ u = NextTask)
        BY <2>1, RequestsAreNumbers DEF NextTask
      <3> QED
        BY <3>1, <3>2, <3>3 DEF BaseInv, StagesSubmitted
    <2>3. CASE UNCHANGED <<stage, submitted>>
      BY <1>1, <2>3
    <2> QED
      BY <1>2, <2>2, <2>3, DownloadSubmits
  <1>3. CASE ManagerStep /\ ~DownloadTile
    BY <1>1, <1>3 DEF ManagerStep, TakeTerminator, TakeRequest, LookOn, FoundLocally, LookRaised,
        NotFound, ReportDrop
  <1>4. ASSUME NEW w \in Workers, WorkerStep(w)
        PROVE  StagesSubmitted'
    <2>1. submitted' = submitted
      BY <1>4 DEF WorkerStep, Get, Register, AlreadyRunning, Check, Checked, CheckRaised,
            DownloadFails, UrlRaises, Downloaded, Store, StoreAgain, Stored, Unregister, Report, Escape, StopWorker
    <2>2. CASE Get(w)
      BY <1>1, <2>1, <2>2, GetStages, SamePool DEF Get
    <2>3. CASE CheckRaised(w) \/ Report(w) \/ Escape(w)
      <3>1. PP!Raise(w) \/ PP!Finish(w)
        BY <2>3, SamePool DEF CheckRaised, Report, Escape
      <3> QED
        BY <1>1, <2>1, <3>1, EndStages
    <2>4. CASE ~(Get(w) \/ CheckRaised(w) \/ Report(w) \/ Escape(w))
      <3>1. stage' = stage
        BY <1>4, <2>4 DEF WorkerStep, Register, AlreadyRunning, Check, Checked, DownloadFails, UrlRaises,
              Downloaded, Store, StoreAgain, Stored, Unregister, StopWorker, Pool!Stop
      <3> QED
        BY <1>1, <2>1, <3>1
    <2> QED
      BY <2>2, <2>3, <2>4
  <1>5. CASE PutTerminator
    BY <1>1, <1>5, TerminatorStages, SamePool DEF PutTerminator
  <1>6. CASE Ask \/ TellManager \/ TellPool \/ ShutdownReturns
    BY <1>1, <1>6 DEF Ask, TellManager, TellPool, ShutdownReturns, Pool!Shutdown,
        Pool!ShutdownReturns
  <1>7. CASE UNCHANGED vars
    BY <1>1, <1>7 DEF vars
  <1> QED
    BY <1>2, <1>3, <1>4, <1>5, <1>6, <1>7 DEF Next

\* A worker changes nothing of another.
LEMMA OthersStay ==
    ASSUME PP!PoolInv, BaseInv, NEW w \in Workers, WorkerStep(w), NEW v \in Workers \ {w}
    PROVE  /\ handler'[v] = handler[v] /\ error'[v] = error[v]
           /\ worker'[v] = worker[v] /\ item'[v] = item[v]
           /\ submitted' = submitted
  <1> USE DEF poolVars, handlerVars
  <1>1. handler \in [Workers -> HandlerStates] /\ error \in [Workers -> {Success, Failed}]
        /\ worker \in [Workers -> PP!WorkerStates]
    BY DEF BaseInv, HandlerTypes, PP!PoolInv, PP!TypeOK
  <1>2. handler'[v] = handler[v] /\ error'[v] = error[v] /\ submitted' = submitted
    BY <1>1 DEF WorkerStep, Get, Register, AlreadyRunning, Check, Checked, CheckRaised, DownloadFails, UrlRaises,
        Downloaded, Store, StoreAgain, Stored, Unregister, Report, Escape, StopWorker, Goto
  <1>3. worker'[v] = worker[v] /\ item'[v] = item[v]
    <2>1. CASE Get(w)
      BY <2>1, GetStages, SamePool DEF Get
    <2>2. CASE CheckRaised(w) \/ Report(w) \/ Escape(w)
      <3>1. PP!Raise(w) \/ PP!Finish(w)
        BY <2>2, SamePool DEF CheckRaised, Report, Escape
      <3> QED
        BY <3>1, EndStages
    <2>3. CASE StopWorker(w)
      BY <1>1, <2>3 DEF StopWorker, Pool!Stop
    <2>4. CASE UNCHANGED poolVars
      BY <2>4
    <2> QED
      BY <2>1, <2>2, <2>3, <2>4 DEF WorkerStep, Register, AlreadyRunning, Check, Checked,
          DownloadFails, UrlRaises, Downloaded, Store, StoreAgain, Stored, Unregister
  <1> QED
    BY <1>2, <1>3

\* And nobody but a worker changes anything of the handlers; what was submitted
\* stays.
LEMMA OnlyWorkers ==
    ASSUME PP!PoolInv, BaseInv, [Next]_vars, \A w \in Workers : ~WorkerStep(w)
    PROVE  /\ UNCHANGED <<handler, error, running, worker, item>>
           /\ \A i \in 1..Len(submitted) : i \in 1..Len(submitted') /\ submitted'[i] = submitted[i]
  <1> USE DEF poolVars, handlerVars
  <1>0. submitted \in Seq(Requests) /\ Len(submitted) \in Nat
    BY DEF BaseInv, ManagerTypes
  <1>1. CASE DownloadTile
    <2>1. NextTask \in Requests /\ current \in Requests
      BY <1>1, NextTaskIsRequest DEF DownloadTile, BaseInv, ManagerTypes
    <2>2. \/ submitted' = Append(submitted, current) /\ UNCHANGED <<worker, item>>
          \/ UNCHANGED <<submitted, worker, item>>
      BY <1>1, <2>1, DownloadSubmits, SubmitStages
    <2>3. \A i \in 1..Len(submitted) : i \in 1..Len(submitted') /\ submitted'[i] = submitted[i]
      BY <1>0, <2>1, <2>2
    <2> QED
      BY <1>1, <2>2, <2>3 DEF DownloadTile
  <1>2. CASE ManagerStep /\ ~DownloadTile
    BY <1>2 DEF ManagerStep, TakeTerminator, TakeRequest, LookOn, FoundLocally, LookRaised,
        NotFound, ReportDrop
  <1>3. CASE PutTerminator
    BY <1>3 DEF PutTerminator, Pool!PutTerminator
  <1>4. CASE Ask \/ TellManager \/ TellPool \/ ShutdownReturns
    BY <1>4 DEF Ask, TellManager, TellPool, ShutdownReturns, Pool!Shutdown, Pool!ShutdownReturns
  <1>5. CASE UNCHANGED vars
    BY <1>5 DEF vars
  <1> QED
    BY <1>1, <1>2, <1>3, <1>4, <1>5 DEF Next

\* A handler keeps its request as long as it runs.
LEMMA RequestStays ==
    ASSUME PP!PoolInv, BaseInv, [Next]_vars, NEW v \in Workers,
           handler[v] # "none", handler'[v] # "none"
    PROVE  /\ item'[v] = item[v]
           /\ RequestOf(v)' = RequestOf(v)
           /\ Tile(v)' = Tile(v)
           /\ Pair(v)' = Pair(v)
  <1>1. item[v] \in 1..Len(submitted) /\ worker[v] = "running"
    BY HeldIsSubmitted DEF BaseInv, HandlerTypes
  <1>2. CASE \A w \in Workers : ~WorkerStep(w)
    <2>1. item'[v] = item[v] /\ submitted'[item[v]] = submitted[item[v]]
      BY <1>1, <1>2, OnlyWorkers
    <2> QED
      BY <2>1 DEF RequestOf, Tile, Pair
  <1>3. ASSUME NEW w \in Workers, WorkerStep(w)
        PROVE  item'[v] = item[v] /\ submitted' = submitted
    <2>1. CASE w # v
      BY <1>3, <2>1, OthersStay
    <2>2. CASE w = v
      <3> USE DEF poolVars
      <3>1. handler \in [Workers -> HandlerStates]
        BY DEF BaseInv, HandlerTypes
      <3>2. ~Get(v) /\ ~CheckRaised(v) /\ ~Report(v) /\ ~Escape(v)
        BY <1>1, <3>1 DEF Get, Pool!Get, CheckRaised, Report, Escape, Goto
      <3> QED
        BY <1>3, <2>2, <3>2 DEF WorkerStep, Register, AlreadyRunning, Check, Checked,
            DownloadFails, UrlRaises, Downloaded, Store, StoreAgain, Stored, Unregister, StopWorker, Pool!Stop
    <2> QED
      BY <2>1, <2>2
  <1> QED
    BY <1>2, <1>3 DEF RequestOf, Tile, Pair

\* The moves of a handler.
LEMMA HandlerTypesStep ==
    ASSUME PP!PoolInv, BaseInv, [Next]_vars
    PROVE  HandlerTypes'
  <1> USE DEF poolVars, handlerVars, HandlerStates
  <1>0. /\ running \subseteq Tiles \X {TagOf[r] : r \in Requests}
        /\ handler \in [Workers -> HandlerStates]
        /\ error \in [Workers -> {Success, Failed}]
        /\ notices \in [Requests -> Seq({Success, Failed, QueueFull})]
        /\ lost \in [Requests -> Reasons]
        /\ worker \in [Workers -> PP!WorkerStates]
        /\ \A w \in Workers : handler[w] # "none" <=> worker[w] = "running"
    BY DEF BaseInv, HandlerTypes, PP!PoolInv, PP!TypeOK
  <1>1. running' \subseteq Tiles \X {TagOf[r] : r \in Requests}
    <2>1. ASSUME NEW w \in Workers, handler[w] # "none"
          PROVE  Pair(w) \in Tiles \X {TagOf[r] : r \in Requests}
      BY <2>1, HeldIsSubmitted DEF Pair
    <2>2. ASSUME NEW w \in Workers, WorkerStep(w)
          PROVE  running' \subseteq Tiles \X {TagOf[r] : r \in Requests}
      BY <1>0, <2>1, <2>2 DEF WorkerStep, Get, Register, AlreadyRunning, Check, Checked, CheckRaised,
          DownloadFails, UrlRaises, Downloaded, Store, StoreAgain, Stored, Unregister, Report, Escape, StopWorker
    <2> QED
      BY <1>0, <2>2, OnlyWorkers
  <1>2. /\ handler' \in [Workers -> HandlerStates]
        /\ error' \in [Workers -> {Success, Failed}]
    <2>1. ASSUME NEW w \in Workers, WorkerStep(w)
          PROVE  /\ handler' \in [Workers -> HandlerStates]
                 /\ error' \in [Workers -> {Success, Failed}]
      BY <1>0, <2>1 DEF WorkerStep, Get, Register, AlreadyRunning, Check, Checked, CheckRaised,
          DownloadFails, UrlRaises, Downloaded, Store, StoreAgain, Stored, Unregister, Report, Escape, StopWorker, Goto
    <2> QED
      BY <1>0, <2>1, OnlyWorkers
  <1>3. \A w \in Workers : handler'[w] # "none" <=> worker'[w] = "running"
    <2>1. CASE \A w \in Workers : ~WorkerStep(w)
      BY <1>0, <2>1, OnlyWorkers
    <2>2. ASSUME NEW w \in Workers, WorkerStep(w)
          PROVE  handler'[w] # "none" <=> worker'[w] = "running"
      <3>1. CASE Get(w)
        BY <1>0, <3>1 DEF Get, Goto
      <3>2. CASE CheckRaised(w) \/ Report(w) \/ Escape(w)
        <4>1. PP!Raise(w) \/ PP!Finish(w)
          BY <3>2, SamePool DEF CheckRaised, Report, Escape
        <4>2. worker'[w] # "running"
          BY <1>0, <4>1, EndStages
        <4> QED
          BY <1>0, <3>2, <4>2 DEF CheckRaised, Report, Escape, Goto
      <3>3. CASE StopWorker(w)
        BY <1>0, <3>3 DEF StopWorker, Pool!Stop
      <3>4. CASE ~(Get(w) \/ CheckRaised(w) \/ Report(w) \/ Escape(w) \/ StopWorker(w))
        <4>1. worker' = worker
          BY <2>2, <3>4 DEF WorkerStep, Register, AlreadyRunning, Check, Checked, DownloadFails, UrlRaises,
              Downloaded, Store, StoreAgain, Stored, Unregister
        <4>2. handler[w] # "none" /\ handler'[w] # "none"
          BY <1>0, <2>2, <3>4 DEF WorkerStep, Register, AlreadyRunning, Check, Checked,
              DownloadFails, UrlRaises, Downloaded, Store, StoreAgain, Stored, Unregister, Goto
        <4> QED
          BY <1>0, <4>1, <4>2
      <3> QED
        BY <3>1, <3>2, <3>3, <3>4
    <2>3. ASSUME NEW w \in Workers, WorkerStep(w), NEW v \in Workers \ {w}
          PROVE  handler'[v] # "none" <=> worker'[v] = "running"
      BY <1>0, <2>3, OthersStay
    <2> QED
      BY <2>1, <2>2, <2>3
  <1>4. notices' \in [Requests -> Seq({Success, Failed, QueueFull})]
    <2>1. ASSUME NEW r \in Requests, NEW x \in {Success, Failed, QueueFull}, Notify(r, x)
          PROVE  notices' \in [Requests -> Seq({Success, Failed, QueueFull})]
      <3> DEFINE S == {Success, Failed, QueueFull}
      <3>1. notices[r] \in Seq(S) /\ x \in S
        BY <1>0, <2>1
      <3>2. Append(notices[r], x) \in Seq(S)
        <4> HIDE DEF S
        <4> QED
          BY <3>1
      <3> QED
        BY <1>0, <2>1, <3>2 DEF Notify
    <2>2. CASE FoundLocally
      <3>1. current \in Requests /\ Notify(current, Success)
        BY <2>2, NextTaskIsRequest DEF FoundLocally
      <3> QED
        BY <2>1, <3>1
    <2>3. CASE ReportDrop
      <3>1. Notify(dropped, QueueFull) /\ dropped \in Requests \cup {0}
        BY <2>3 DEF ReportDrop, BaseInv, ManagerTypes
      <3>2. CASE dropped \in Requests
        BY <2>1, <3>1, <3>2
      <3>3. CASE dropped \notin Requests
        BY <1>0, <3>1, <3>3 DEF Notify
      <3> QED
        BY <3>2, <3>3
    <2>4. ASSUME NEW w \in Workers, Report(w) \/ Escape(w)
          PROVE  notices' \in [Requests -> Seq({Success, Failed, QueueFull})]
      <3>1. RequestOf(w) \in Requests
        BY <2>4, HeldIsSubmitted DEF Report, Escape
      <3> QED
        BY <1>0, <2>1, <2>4, <3>1 DEF Report, Escape
    <2>5. CASE UNCHANGED notices
      BY <1>0, <2>5
    <2> QED
      BY <2>2, <2>3, <2>4, <2>5, OnlyReports
  <1>5. lost' \in [Requests -> Reasons]
    <2>1. ASSUME NEW r \in Requests, NEW x \in Reasons, Lose(r, x)
          PROVE  lost' \in [Requests -> Reasons]
      BY <1>0, <2>1 DEF Lose
    <2>2. CASE LookRaised \/ NotFound
      BY <1>0, <2>1, <2>2, NextTaskIsRequest DEF LookRaised, NotFound, Reasons
    <2>3. CASE DownloadTile
      <3>1. current \in Requests
        BY <2>3, NextTaskIsRequest DEF DownloadTile
      <3> QED
        BY <1>0, <2>1, <2>3, <3>1 DEF DownloadTile, Reasons
    <2>4. ASSUME NEW w \in Workers, CheckRaised(w)
          PROVE  lost' \in [Requests -> Reasons]
      <3>1. RequestOf(w) \in Requests
        BY <2>4, HeldIsSubmitted DEF CheckRaised
      <3> QED
        BY <2>1, <2>4, <3>1 DEF CheckRaised, Reasons
    <2>5. CASE PutTerminator
      BY <1>0, <2>5 DEF PutTerminator, Reasons
    <2>6. CASE UNCHANGED lost
      BY <1>0, <2>6
    <2> QED
      BY <2>2, <2>3, <2>4, <2>5, <2>6, OnlyLosses
  <1> QED
    BY <1>1, <1>2, <1>3, <1>4, <1>5 DEF HandlerTypes


LEMMA BaseStep == PP!PoolInv /\ BaseInv /\ [Next]_vars => BaseInv'
  BY OrderStep, StagesStep, HandlerTypesStep DEF BaseInv, Order

-----------------------------------------------------------------------------
(* What is registered is being downloaded, and a worker survives.          *)

LEMMA RegisteredStep ==
    ASSUME PP!PoolInv, BaseInv, RegisteredActive, [Next]_vars
    PROVE  RegisteredActive'
  <1> USE DEF handlerVars
  <1>0. handler \in [Workers -> HandlerStates]
    BY DEF BaseInv, HandlerTypes
  <1>1. ASSUME NEW v \in Workers, handler[v] # "none", handler'[v] \in Downloading
        PROVE  Pair(v)' = Pair(v)
    BY <1>1, RequestStays DEF Downloading
  <1>2. CASE \A w \in Workers : ~WorkerStep(w)
    <2>1. UNCHANGED <<running, handler>>
      BY <1>2, OnlyWorkers
    <2>2. ASSUME NEW v \in Workers, handler[v] \in Downloading
          PROVE  handler'[v] \in Downloading /\ Pair(v)' = Pair(v)
      BY <1>1, <2>1, <2>2 DEF Downloading
    <2> QED
      BY <2>1, <2>2 DEF RegisteredActive
  <1>3. ASSUME NEW w \in Workers, WorkerStep(w), NEW p \in running'
        PROVE  \E v \in Workers : handler'[v] \in Downloading /\ Pair(v)' = p
    <2>1. CASE Register(w) /\ p = Pair(w)
      <3>1. handler[w] # "none" /\ handler'[w] \in Downloading
        BY <1>0, <2>1 DEF Register, Goto, Downloading
      <3> QED
        BY <1>1, <2>1, <3>1
    <2>2. CASE p \in running
      <3>1. PICK v \in Workers : handler[v] \in Downloading /\ Pair(v) = p
        BY <2>2 DEF RegisteredActive
      <3>2. CASE v # w
        <4>1. handler'[v] = handler[v]
          BY <1>3, <3>2, OthersStay
        <4> QED
          BY <1>1, <3>1, <4>1 DEF Downloading
      <3>3. CASE v = w
        <4>1. handler[w] \in Downloading /\ (Unregister(w) => p \notin running')
          BY <3>1, <3>3 DEF Unregister
        <4>2. handler'[w] \in Downloading
          BY <1>0, <1>3, <4>1 DEF Downloading, WorkerStep, Get, Pool!Get, Register, AlreadyRunning,
              Check, Checked, CheckRaised, DownloadFails, UrlRaises, Downloaded, Store, StoreAgain, Stored,
              Report, Escape, StopWorker, Pool!Stop, Goto, BaseInv, HandlerTypes
        <4> QED
          BY <1>1, <3>1, <3>3, <4>2 DEF Downloading
      <3> QED
        BY <3>2, <3>3
    <2>3. running' \subseteq running \/ (Register(w) /\ running' = running \cup {Pair(w)})
      BY <1>3 DEF WorkerStep, Get, Register, AlreadyRunning, Check, Checked, CheckRaised, DownloadFails, UrlRaises,
          Downloaded, Store, StoreAgain, Stored, Unregister, Report, Escape, StopWorker
    <2> QED
      BY <2>1, <2>2, <2>3
  <1> QED
    BY <1>2, <1>3 DEF RegisteredActive

-----------------------------------------------------------------------------
(* Every request is reported once.                                         *)

\* How the tasks of the pool move: a task that was pushed out stays out, and
\* one waits or runs only if it did before, or has just been submitted.
LEMMA StageMoves ==
    ASSUME PP!PoolInv, BaseInv, [Next]_vars, NEW u \in Requests
    PROVE  /\ stage[u] \in {"leaked", "failed"} => stage'[u] = stage[u]
           /\ stage'[u] \in {"queued", "running"} =>
                  \/ stage[u] \in {"queued", "running"}
                  \/ DownloadTile /\ u = NextTask /\ submitted' = Append(submitted, current)
  <1> USE DEF poolVars
  <1>1. CASE DownloadTile
    <2>1. NextTask \in Requests
      BY <1>1, NextTaskIsRequest DEF DownloadTile
    <2>2. CASE PP!Submit(NextTask) /\ submitted' = Append(submitted, current)
      <3>1. stage[NextTask] = "new"
        BY <2>1, <2>2, SubmitStages
      <3>2. CASE u # NextTask
        BY <2>1, <2>2, <3>2, SubmitStages
      <3> QED
        BY <1>1, <2>2, <3>1, <3>2
    <2>3. CASE UNCHANGED stage
      BY <2>3
    <2> QED
      BY <1>1, <2>2, <2>3, DownloadSubmits
  <1>2. CASE ManagerStep /\ ~DownloadTile
    BY <1>2 DEF ManagerStep, TakeTerminator, TakeRequest, LookOn, FoundLocally, LookRaised,
        NotFound, ReportDrop
  <1>3. ASSUME NEW w \in Workers, WorkerStep(w)
        PROVE  /\ stage[u] \in {"leaked", "failed"} => stage'[u] = stage[u]
               /\ stage'[u] \in {"queued", "running"} => stage[u] \in {"queued", "running"}
    <2>1. CASE Get(w)
      BY <2>1, GetStages, SamePool DEF Get
    <2>2. CASE CheckRaised(w) \/ Report(w) \/ Escape(w)
      <3>1. PP!Raise(w) \/ PP!Finish(w)
        BY <2>2, SamePool DEF CheckRaised, Report, Escape
      <3> QED
        BY <3>1, EndStages
    <2>3. CASE ~(Get(w) \/ CheckRaised(w) \/ Report(w) \/ Escape(w))
      <3>1. stage' = stage
        BY <1>3, <2>3 DEF WorkerStep, Register, AlreadyRunning, Check, Checked, DownloadFails, UrlRaises,
              Downloaded, Store, StoreAgain, Stored, Unregister, StopWorker, Pool!Stop
      <3> QED
        BY <3>1
    <2> QED
      BY <2>1, <2>2, <2>3
  <1>4. CASE PutTerminator
    BY <1>4, TerminatorStages, SamePool DEF PutTerminator
  <1>5. CASE Ask \/ TellManager \/ TellPool \/ ShutdownReturns
    BY <1>5 DEF Ask, TellManager, TellPool, ShutdownReturns, Pool!Shutdown, Pool!ShutdownReturns
  <1>6. CASE UNCHANGED vars
    BY <1>6 DEF vars
  <1> QED
    BY <1>1, <1>2, <1>3, <1>4, <1>5, <1>6 DEF Next

\* What was submitted is the same from then on.
LEMMA SubmittedStays ==
    ASSUME PP!PoolInv, BaseInv, [Next]_vars, NEW t \in 1..Len(submitted)
    PROVE  t \in 1..Len(submitted') /\ submitted'[t] = submitted[t] /\ t \in Requests
  <1>1. t \in Requests
    <2>1. /\ Len(submitted) \in Nat /\ submitted[t] \in Requests
          /\ t <= submitted[t]
      BY DEF BaseInv, ManagerTypes, SubmittedInOrder
    <2> QED
      BY <2>1, RequestsAreNumbers
  <1>2. CASE \A w \in Workers : ~WorkerStep(w)
    BY <1>1, <1>2, OnlyWorkers
  <1>3. ASSUME NEW w \in Workers, WorkerStep(w)
        PROVE  submitted' = submitted
    BY <1>3 DEF WorkerStep, Get, Register, AlreadyRunning, Check, Checked, CheckRaised, DownloadFails, UrlRaises,
        Downloaded, Store, StoreAgain, Stored, Unregister, Report, Escape, StopWorker
  <1> QED
    BY <1>1, <1>2, <1>3

\* A report is never taken back.
LEMMA NoticesStay ==
    ASSUME BaseInv, [Next]_vars, NEW r \in Requests, notices[r] # <<>>
    PROVE  notices'[r] # <<>>
  <1>1. notices \in [Requests -> Seq({Success, Failed, QueueFull})]
    BY DEF BaseInv, HandlerTypes
  <1>2. ASSUME NEW q, NEW x \in {Success, Failed, QueueFull}, Notify(q, x)
        PROVE  notices'[r] # <<>>
    BY <1>1, <1>2 DEF Notify
  <1>3. CASE FoundLocally \/ ReportDrop
    BY <1>2, <1>3 DEF FoundLocally, ReportDrop
  <1>4. ASSUME NEW w \in Workers, Report(w) \/ Escape(w)
        PROVE  notices'[r] # <<>>
    BY <1>2, <1>4 DEF Report, Escape, BaseInv, HandlerTypes
  <1> QED
    BY <1>3, <1>4, OnlyReports

LEMMA EscapeKills ==
    ASSUME PP!PoolInv, BaseInv, EscapingBad, NEW w \in Workers, Escape(w)
    PROVE  UrlKilled'
  <1> USE DEF poolVars
  <1>1. handler[w] = "escaping" /\ Tile(w) \in BadTiles /\ PP!Raise(w)
    BY SamePool DEF Escape, EscapingBad
  <1>2. PICK t \in 1..Len(submitted) : t = item[w] /\ stage[t] = "running"
    BY <1>1, HeldIsSubmitted
  <1>3. submitted[t] \in Requests /\ t \in DOMAIN submitted /\ t \in Requests
    BY <1>2, HeldIsSubmitted, <1>1 DEF BaseInv, ManagerTypes
  <1>4. stage'[t] = "failed" /\ submitted' = submitted
    BY <1>1, <1>2, <1>3 DEF Escape, PP!Raise, PP!PoolInv, PP!TypeOK
  <1>5. notices'[submitted[t]] # <<>>
    <2>1. /\ notices \in [Requests -> Seq({Success, Failed, QueueFull})]
          /\ Notify(submitted[t], error[w]) /\ error[w] \in {Success, Failed, QueueFull}
      BY <1>2 DEF Escape, RequestOf, BaseInv, HandlerTypes
    <2>2. notices'[submitted[t]] = Append(notices[submitted[t]], error[w])
      BY <1>3, <2>1 DEF Notify
    <2> QED
      BY <1>3, <2>1, <2>2
  <1> QED
    BY <1>1, <1>2, <1>3, <1>4, <1>5 DEF UrlKilled, Escaped, Tile, RequestOf

\* A handler that is left by an exception has a tile without a URL.
LEMMA EscapingStep ==
    ASSUME PP!PoolInv, BaseInv, EscapingBad, [Next]_vars
    PROVE  EscapingBad'
  <1> SUFFICES ASSUME NEW v \in Workers, handler'[v] = "escaping"
               PROVE  Tile(v)' \in BadTiles
    BY DEF EscapingBad
  <1> USE DEF handlerVars
  <1>0. handler \in [Workers -> HandlerStates]
    BY DEF BaseInv, HandlerTypes
  <1>1. CASE handler[v] = "escaping"
    BY <1>1, RequestStays DEF EscapingBad
  <1>2. CASE handler[v] # "escaping"
    <2>1. WorkerStep(v)
      BY <1>2, OnlyWorkers, OthersStay
    <2>2. Unregister(v)
      BY <1>0, <1>2, <2>1 DEF WorkerStep, Get, Register, AlreadyRunning, Check, Checked,
          CheckRaised, DownloadFails, UrlRaises, Downloaded, Store, StoreAgain, Stored, Report,
          Escape, StopWorker, Goto
    <2>3. handler[v] = "unregistering" /\ Tile(v) \in BadTiles
      BY <1>0, <2>2 DEF Unregister, Goto
    <2> QED
      BY <2>3, RequestStays
  <1> QED
    BY <1>1, <1>2

\* What has raised and was reported stays so.
LEMMA UrlKilledStays ==
    ASSUME PP!PoolInv, BaseInv, UrlKilled, [Next]_vars
    PROVE  UrlKilled'
  <1>1. PICK t \in Escaped : TileOf[submitted[t]] \in BadTiles
    BY DEF UrlKilled
  <1>2. t \in 1..Len(submitted) /\ stage[t] = "failed" /\ notices[submitted[t]] # <<>>
    BY <1>1 DEF Escaped, BaseInv, ManagerTypes
  <1>3. t \in DOMAIN submitted' /\ submitted'[t] = submitted[t] /\ t \in Requests
    <2>1. submitted' \in Seq(Requests)
      BY BaseStep DEF BaseInv, ManagerTypes
    <2> QED
      BY <1>2, <2>1, SubmittedStays
  <1>4. stage'[t] = "failed"
    BY <1>2, <1>3, StageMoves
  <1>5. notices'[submitted[t]] # <<>>
    BY <1>2, NoticesStay DEF BaseInv, ManagerTypes
  <1> QED
    BY <1>1, <1>3, <1>4, <1>5 DEF UrlKilled, Escaped

\* Only a worker that finds its tile registered may die later of something else than
\* the tile's URL, and there is one then that has registered it.
LEMMA SurvivorStep ==
    ASSUME PP!PoolInv, BaseInv, RegisteredActive, SurvivorInv, [Next]_vars
    PROVE  SurvivorInv'
  <1> USE DEF handlerVars, poolVars
  <1>0. /\ handler \in [Workers -> HandlerStates] /\ worker \in [Workers -> PP!WorkerStates]
        /\ \A w \in Workers : handler[w] # "none" <=> worker[w] = "running"
    BY DEF BaseInv, HandlerTypes, PP!PoolInv, PP!TypeOK
  <1>e. EscapingBad'
    BY EscapingStep DEF SurvivorInv
  <1>k. CASE UrlKilled
    BY <1>e, <1>k, UrlKilledStays DEF SurvivorInv
  <1>s. CASE Survives
    <2>1. PICK v \in Workers : worker[v] # "dead" /\ handler[v] # "checking"
      BY <1>s DEF Survives
    <2>2. CASE \A w \in Workers : ~WorkerStep(w)
      BY <1>e, <2>1, <2>2, OnlyWorkers DEF SurvivorInv, Survives
    <2>3. ASSUME NEW w \in Workers, WorkerStep(w)
          PROVE  Survives' \/ UrlKilled'
      <3>1. CASE v # w
        BY <2>1, <2>3, <3>1, OthersStay DEF Survives
      <3>2. CASE AlreadyRunning(w)
        <4>1. PICK u \in Workers : handler[u] \in Downloading /\ Pair(u) = Pair(w)
          BY <3>2 DEF AlreadyRunning, RegisteredActive
        <4>2. u # w /\ worker[u] = "running" /\ handler[u] # "checking"
          BY <1>0, <3>2, <4>1 DEF AlreadyRunning, Downloading
        <4> QED
          BY <2>3, <4>2, OthersStay DEF Survives
      <3>3. CASE Escape(w)
        BY <2>3, <3>3, EscapeKills DEF SurvivorInv
      <3>4. CASE v = w /\ ~AlreadyRunning(w) /\ ~Escape(w)
        <4>1. handler'[w] # "checking"
          BY <1>0, <2>1, <2>3, <3>4 DEF WorkerStep, Get, Register, Check, Checked,
              CheckRaised, DownloadFails, UrlRaises, Downloaded, Store, StoreAgain, Stored,
              Unregister, Report, StopWorker, Goto
        <4>2. worker'[w] # "dead"
          <5>1. CASE Get(w)
            BY <5>1, GetStages, SamePool DEF Get
          <5>2. CASE Report(w)
            <6>1. PP!Finish(w)
              BY <5>2, SamePool DEF Report
            <6> QED
              BY <1>0, <6>1, EndStages
          <5>3. CASE StopWorker(w)
            BY <1>0, <5>3 DEF StopWorker, Pool!Stop
          <5>4. CASE worker' = worker
            BY <2>1, <3>4, <5>4
          <5> QED
            BY <2>1, <2>3, <3>4, <5>1, <5>2, <5>3, <5>4 DEF WorkerStep, Register, Check, Checked,
                CheckRaised, DownloadFails, UrlRaises, Downloaded, Store, StoreAgain, Stored,
                Unregister
        <4> QED
          BY <4>1, <4>2 DEF Survives
      <3> QED
        BY <3>1, <3>2, <3>3, <3>4
    <2> QED
      BY <1>e, <2>2, <2>3 DEF SurvivorInv
  <1> QED
    BY <1>k, <1>s DEF SurvivorInv

\* Nobody but a submission gives the manager something to report for the pool.
LEMMA DroppedStep ==
    ASSUME PP!PoolInv, BaseInv, DroppedLeaked, [Next]_vars
    PROVE  DroppedLeaked'
  <1> SUFFICES ASSUME manager' = "reporting-drop"
               PROVE  \E t \in 1..Len(submitted') : /\ dropped' = submitted'[t]
                                                    /\ stage'[t] = "leaked"
    BY DEF DroppedLeaked
  <1>1. CASE DownloadTile
    <2>1. NextTask \in Requests /\ Len(submitted) \in Nat
      BY <1>1, NextTaskIsRequest DEF DownloadTile
    <2>2. /\ PP!Submit(NextTask)
          /\ \E u \in 1..Len(submitted) : /\ PP!Leaks(u) /\ stage[u] = "queued"
                                          /\ dropped' = submitted[u]
      BY <1>1, DownloadSubmits
    <2>3. PICK u \in 1..Len(submitted) : /\ PP!Leaks(u) /\ stage[u] = "queued"
                                         /\ dropped' = submitted[u]
      BY <2>2
    <2>4. u \in Requests \ {NextTask} /\ u \in 1..Len(submitted') /\ submitted'[u] = submitted[u]
      BY <2>1, SubmittedStays DEF NextTask
    <2>5. stage'[u] = "leaked"
      BY <2>1, <2>2, <2>3, <2>4, SubmitStages
    <2> QED
      BY <2>3, <2>4, <2>5
  <1>2. CASE ~DownloadTile
    <2>1. manager = "reporting-drop" /\ dropped' = dropped
      BY <1>2 DEF Next, Ask, TellManager, TellPool, ManagerStep, TakeTerminator, TakeRequest,
          LookOn, FoundLocally, LookRaised, NotFound, ReportDrop, WorkerStep, Get, Register,
          AlreadyRunning, Check, Checked, CheckRaised, DownloadFails, UrlRaises, Downloaded, Store, StoreAgain,
          Stored, Unregister, Report, Escape, StopWorker, PutTerminator, ShutdownReturns, vars, managerVars
    <2>2. PICK t \in 1..Len(submitted) : dropped = submitted[t] /\ stage[t] = "leaked"
      BY <2>1 DEF DroppedLeaked
    <2>3. t \in 1..Len(submitted') /\ submitted'[t] = submitted[t] /\ stage'[t] = "leaked"
      BY <2>2, SubmittedStays, StageMoves
    <2> QED
      BY <2>1, <2>2, <2>3
  <1> QED
    BY <1>1, <1>2

\* Requests are settled that nobody has any more.
LEMMA OpenKept ==
    ASSUME BaseInv, DroppedLeaked, OpenInv, NEW S \in SUBSET Requests,
           UNCHANGED <<current, submitted>>,
           manager' \in {"looking", "submitting"} => manager \in {"looking", "submitting"},
           manager' = "reporting-drop" => manager = "reporting-drop" /\ dropped' = dropped,
           \A t \in 1..Len(submitted) :
               stage'[t] \in {"queued", "running"} => stage[t] \in {"queued", "running"},
           \A r \in Requests \ S : Open(r) => notices'[r] = <<>> /\ lost'[r] = "no",
           \A r \in S :
               /\ r <= current
               /\ manager' \in {"looking", "submitting"} => r # current
               /\ manager' = "reporting-drop" => r # dropped
               /\ \A t \in 1..Len(submitted) :
                     submitted[t] = r => stage'[t] \notin {"queued", "running"}
    PROVE  OpenInv'
  <1>1. /\ submitted \in Seq(Requests) /\ current \in Requests \cup {0}
        /\ dropped \in Requests \cup {0}
    BY DEF BaseInv, ManagerTypes
  <1>2. \A r \in Requests : r > current => Open(r)'
    <2> SUFFICES ASSUME NEW r \in Requests, r > current
                 PROVE  Open(r)'
      OBVIOUS
    <2>1. r \notin S
      BY <1>1, RequestsAreNumbers
    <2> QED
      BY <2>1 DEF OpenInv, Open
  <1>3. manager' \in {"looking", "submitting"} => Open(current)'
    BY <1>1 DEF OpenInv, Open, BaseInv, ManagerTypes
  <1>4. \A t \in 1..Len(submitted) : stage'[t] \in {"queued", "running"} => Open(submitted[t])'
    BY <1>1 DEF OpenInv, Open
  <1>5. manager' = "reporting-drop" => Open(dropped)'
    <2>1. manager = "reporting-drop" => dropped \in Requests
      BY <1>1 DEF DroppedLeaked
    <2> QED
      BY <2>1 DEF OpenInv, Open
  <1> QED
    BY <1>2, <1>3, <1>4, <1>5 DEF OpenInv

LEMMA OnceKept ==
    ASSUME ReportedOnce, NEW S \in SUBSET Requests,
           \A r \in Requests \ S : notices'[r] = notices[r] /\ lost'[r] = lost[r],
           \A r \in S : \/ Len(notices'[r]) = 1 /\ lost'[r] = "no"
                        \/ notices'[r] = <<>>
    PROVE  ReportedOnce'
  <1> SUFFICES ASSUME NEW r \in Requests
               PROVE  /\ Len(notices'[r]) <= 1
                      /\ lost'[r] # "no" => notices'[r] = <<>>
    BY DEF ReportedOnce
  <1>0. Len(<<>>) <= 1
    OBVIOUS
  <1>1. CASE r \in S
    <2>1. \/ Len(notices'[r]) = 1 /\ lost'[r] = "no"
          \/ notices'[r] = <<>>
      BY <1>1
    <2>2. CASE Len(notices'[r]) = 1 /\ lost'[r] = "no"
      BY <2>2
    <2>3. CASE notices'[r] = <<>>
      BY <1>0, <2>3
    <2> QED
      BY <2>1, <2>2, <2>3
  <1>2. CASE r \notin S
    BY <1>2 DEF ReportedOnce
  <1> QED
    BY <1>1, <1>2

\* One request that was open is reported or given up.
LEMMA SettleOne ==
    ASSUME BaseInv, NEW r \in Requests, Open(r),
           \/ UNCHANGED lost /\ \E x \in {Success, Failed, QueueFull} : Notify(r, x)
           \/ UNCHANGED notices /\ \E why \in Reasons : Lose(r, why)
    PROVE  /\ \A q \in Requests \ {r} : notices'[q] = notices[q] /\ lost'[q] = lost[q]
           /\ \/ Len(notices'[r]) = 1 /\ lost'[r] = "no"
              \/ notices'[r] = <<>>
  <1>1. /\ notices \in [Requests -> Seq({Success, Failed, QueueFull})]
        /\ lost \in [Requests -> Reasons]
    BY DEF BaseInv, HandlerTypes
  <1>2. \A x : Len(Append(<<>>, x)) = 1
    OBVIOUS
  <1> QED
    BY <1>1, <1>2 DEF Open, Notify, Lose

\* The manager settles its request.
LEMMA CurrentSettled ==
    ASSUME BaseInv, DroppedLeaked, OpenInv, ReportedOnce,
           manager \in {"looking", "submitting"}, manager' = "waiting",
           UNCHANGED <<current, submitted, stage>>,
           \/ UNCHANGED lost /\ Notify(current, Success)
           \/ UNCHANGED notices /\ \E why \in Reasons : Lose(current, why)
    PROVE  OpenInv' /\ ReportedOnce'
  <1>1. /\ current \in Requests /\ Open(current) /\ submitted \in Seq(Requests)
        /\ current \in Nat
    BY RequestsAreNumbers DEF BaseInv, ManagerTypes, OpenInv
  <1>2. /\ \A q \in Requests \ {current} : notices'[q] = notices[q] /\ lost'[q] = lost[q]
        /\ \/ Len(notices'[current]) = 1 /\ lost'[current] = "no"
           \/ notices'[current] = <<>>
    BY <1>1, SettleOne
  <1>3. \A t \in 1..Len(submitted) : submitted[t] # current
    BY <1>1, RequestsAreNumbers DEF BaseInv, SubmittedInOrder
  <1> DEFINE S == {current}
  <1>4. S \in SUBSET Requests
    BY <1>1
  <1>5. OpenInv'
    <2>1. \A r \in Requests \ S : Open(r) => notices'[r] = <<>> /\ lost'[r] = "no"
      BY <1>2 DEF Open
    <2>2. \A r \in S :
               /\ r <= current
               /\ manager' \in {"looking", "submitting"} => r # current
               /\ manager' = "reporting-drop" => r # dropped
               /\ \A t \in 1..Len(submitted) :
                     submitted[t] = r => stage'[t] \notin {"queued", "running"}
      BY <1>1, <1>3
    <2> HIDE DEF S
    <2> QED
      BY <1>4, <2>1, <2>2, OpenKept
  <1>6. ReportedOnce'
    <2>1. \A r \in Requests \ S : notices'[r] = notices[r] /\ lost'[r] = lost[r]
      BY <1>2
    <2>2. \A r \in S : \/ Len(notices'[r]) = 1 /\ lost'[r] = "no"
                       \/ notices'[r] = <<>>
      BY <1>2
    <2> HIDE DEF S
    <2> QED
      BY <1>4, <2>1, <2>2, OnceKept
  <1> QED
    BY <1>5, <1>6

\* A request of the pool is settled when its task ends, or after it was pushed out.
LEMMA SubmittedSettled ==
    ASSUME BaseInv, DroppedLeaked, OpenInv, ReportedOnce, NEW t \in 1..Len(submitted),
           Open(submitted[t]), UNCHANGED <<current, submitted>>,
           \/ manager' = manager /\ dropped' = dropped /\ stage[t] # "leaked"
           \/ manager' = "waiting",
           stage'[t] \notin {"queued", "running"},
           \A u \in 1..Len(submitted) :
               stage'[u] \in {"queued", "running"} => stage[u] \in {"queued", "running"},
           \/ UNCHANGED lost /\ \E x \in {Success, Failed, QueueFull} : Notify(submitted[t], x)
           \/ UNCHANGED notices /\ \E why \in Reasons : Lose(submitted[t], why)
    PROVE  OpenInv' /\ ReportedOnce'
  <1> DEFINE r == submitted[t]
  <1>1. /\ submitted \in Seq(Requests) /\ Len(submitted) \in Nat
        /\ r \in Requests /\ current \in Nat /\ r \in Nat
    BY RequestsAreNumbers DEF BaseInv, ManagerTypes
  <1>2. \A u \in 1..Len(submitted) : submitted[u] = r => u = t
    <2> SUFFICES ASSUME NEW u \in 1..Len(submitted), submitted[u] = submitted[t], u # t
                 PROVE  FALSE
      OBVIOUS
    <2>1. u < t \/ t < u
      BY <1>1
    <2>2. submitted[u] < submitted[t] \/ submitted[t] < submitted[u]
      BY <2>1 DEF BaseInv, SubmittedInOrder
    <2> QED
      BY <1>1, <2>2
  <1>3. r <= current /\ (manager \in {"looking", "submitting"} => r # current)
    BY <1>1 DEF BaseInv, SubmittedInOrder
  <1>4. manager' = "reporting-drop" => r # dropped
    <2> SUFFICES ASSUME manager' = "reporting-drop", r = dropped
                 PROVE  FALSE
      OBVIOUS
    <2>1. manager = "reporting-drop" /\ stage[t] # "leaked"
      OBVIOUS
    <2>2. PICK u \in 1..Len(submitted) : dropped = submitted[u] /\ stage[u] = "leaked"
      BY <2>1 DEF DroppedLeaked
    <2> QED
      BY <1>2, <2>1, <2>2
  <1>5. /\ \A q \in Requests \ {r} : notices'[q] = notices[q] /\ lost'[q] = lost[q]
        /\ \/ Len(notices'[r]) = 1 /\ lost'[r] = "no"
           \/ notices'[r] = <<>>
    BY <1>1, SettleOne
  <1> DEFINE S == {r}
  <1>6. S \in SUBSET Requests
    BY <1>1
  <1>7. OpenInv'
    <2>1. \A q \in Requests \ S : Open(q) => notices'[q] = <<>> /\ lost'[q] = "no"
      BY <1>5 DEF Open
    <2>2. \A q \in S :
               /\ q <= current
               /\ manager' \in {"looking", "submitting"} => q # current
               /\ manager' = "reporting-drop" => q # dropped
               /\ \A u \in 1..Len(submitted) :
                     submitted[u] = q => stage'[u] \notin {"queued", "running"}
      BY <1>2, <1>3, <1>4
    <2>3. /\ manager' \in {"looking", "submitting"} => manager \in {"looking", "submitting"}
          /\ manager' = "reporting-drop" => manager = "reporting-drop" /\ dropped' = dropped
      OBVIOUS
    <2> HIDE DEF S, r
    <2> QED
      BY <1>6, <2>1, <2>2, <2>3, OpenKept
  <1>8. ReportedOnce'
    <2>1. \A q \in Requests \ S : notices'[q] = notices[q] /\ lost'[q] = lost[q]
      BY <1>5
    <2>2. \A q \in S : \/ Len(notices'[q]) = 1 /\ lost'[q] = "no"
                       \/ notices'[q] = <<>>
      BY <1>5
    <2> HIDE DEF S, r
    <2> QED
      BY <1>6, <2>1, <2>2, OnceKept
  <1> QED
    BY <1>7, <1>8

\* A shutdown may push out several requests, of which nothing was said yet.
LEMMA PushedOutSettled ==
    ASSUME PP!PoolInv, BaseInv, DroppedLeaked, OpenInv, ReportedOnce, PutTerminator
    PROVE  OpenInv' /\ ReportedOnce'
  <1> USE DEF managerVars
  <1>1. /\ submitted \in Seq(Requests) /\ Len(submitted) \in Nat
        /\ DOMAIN submitted = 1..Len(submitted)
        /\ current \in Nat /\ lost \in [Requests -> Reasons]
    BY RequestsAreNumbers DEF BaseInv, ManagerTypes, HandlerTypes
  <1>2. \A u \in 1..Len(submitted) : u \in Requests
    BY <1>1, SubmittedStays DEF Next
  <1>3. \A u \in Requests : IF PP!Leaks(u)
                            THEN stage[u] = "queued" /\ stage'[u] = "dropped"
                            ELSE stage'[u] = stage[u]
    BY TerminatorStages, SamePool DEF PutTerminator
  <1> DEFINE S == {r \in Requests : \E u \in DOMAIN submitted : submitted[u] = r /\ Pool!Leaks(u)}
  <1>4. UNCHANGED <<current, submitted, manager, dropped, notices>>
    BY DEF PutTerminator
  <1>5. \A r \in Requests : lost'[r] = IF r \in S THEN "dropped-by-shutdown" ELSE lost[r]
    BY DEF PutTerminator
  <1>6. ASSUME NEW r \in S
        PROVE  /\ Open(r) /\ r <= current
               /\ manager \in {"looking", "submitting"} => r # current
               /\ manager = "reporting-drop" => r # dropped
               /\ \A t \in 1..Len(submitted) :
                     submitted[t] = r => stage'[t] \notin {"queued", "running"}
    <2>1. PICK u \in 1..Len(submitted) : submitted[u] = r /\ PP!Leaks(u)
      BY <1>1, SameLeaks
    <2>2. stage[u] = "queued" /\ stage'[u] = "dropped"
      BY <1>2, <1>3, <2>1
    <2>3. ASSUME NEW t \in 1..Len(submitted), submitted[t] = r
          PROVE  t = u
      <3>1. ~(t < u) /\ ~(u < t)
        <4>1. r \in Nat
          BY RequestsAreNumbers
        <4> QED
          BY <2>1, <2>3, <4>1 DEF BaseInv, SubmittedInOrder
      <3> QED
        BY <1>1, <3>1
    <2>4. Open(r)
      BY <2>1, <2>2 DEF OpenInv
    <2>5. r <= current /\ (manager \in {"looking", "submitting"} => r # current)
      <3>1. r \in Nat
        BY RequestsAreNumbers
      <3> QED
        BY <1>1, <2>1, <3>1 DEF BaseInv, SubmittedInOrder
    <2>6. manager = "reporting-drop" => r # dropped
      BY <2>2, <2>3 DEF DroppedLeaked
    <2> QED
      BY <2>2, <2>3, <2>4, <2>5, <2>6
  <1>7. S \in SUBSET Requests
    OBVIOUS
  <1>8. OpenInv'
    <2>1. \A q \in Requests \ S : Open(q) => notices'[q] = <<>> /\ lost'[q] = "no"
      BY <1>4, <1>5 DEF Open
    <2>2. \A t \in 1..Len(submitted) :
               stage'[t] \in {"queued", "running"} => stage[t] \in {"queued", "running"}
      BY <1>2, <1>3
    <2>3. \A r \in S :
               /\ r <= current
               /\ manager' \in {"looking", "submitting"} => r # current
               /\ manager' = "reporting-drop" => r # dropped
               /\ \A t \in 1..Len(submitted) :
                     submitted[t] = r => stage'[t] \notin {"queued", "running"}
      BY <1>4, <1>6
    <2> HIDE DEF S
    <2> QED
      BY <1>4, <1>7, <2>1, <2>2, <2>3, OpenKept
  <1>9. ReportedOnce'
    <2>1. \A q \in Requests \ S : notices'[q] = notices[q] /\ lost'[q] = lost[q]
      BY <1>4, <1>5
    <2>2. \A q \in S : notices'[q] = <<>>
      BY <1>4, <1>6 DEF Open
    <2> HIDE DEF S
    <2> QED
      BY <1>7, <2>1, <2>2, OnceKept
  <1> QED
    BY <1>8, <1>9

\* A submission settles nothing: what it pushes out was waiting.
LEMMA SubmissionSettled ==
    ASSUME PP!PoolInv, BaseInv, DroppedLeaked, OpenInv, ReportedOnce, DownloadTile
    PROVE  OpenInv' /\ ReportedOnce'
  <1> USE DEF poolVars
  <1>1. /\ NextTask \in Requests /\ current \in Requests /\ Len(submitted) \in Nat
        /\ submitted \in Seq(Requests) /\ manager = "submitting" /\ Open(current)
    BY NextTaskIsRequest DEF DownloadTile, BaseInv, ManagerTypes, OpenInv
  <1>2. UNCHANGED <<notices, current>>
    BY DEF DownloadTile
  <1>3. CASE Lose(current, "shut-down") /\ manager' = "waiting"
             /\ UNCHANGED <<poolVars, submitted, dropped>>
    <2>1. "shut-down" \in Reasons
      BY DEF Reasons
    <2> QED
      BY <1>1, <1>2, <1>3, <2>1, CurrentSettled
  <1>4. CASE /\ PP!Submit(NextTask)
             /\ submitted' = Append(submitted, current)
             /\ \/ manager' = "waiting" /\ UNCHANGED dropped
                \/ /\ manager' = "reporting-drop"
                   /\ \E u \in 1..Len(submitted) : /\ PP!Leaks(u) /\ stage[u] = "queued"
                                                   /\ dropped' = submitted[u]
             /\ UNCHANGED lost
    <2>1. \A r : Open(r)' <=> Open(r)
      BY <1>2, <1>4 DEF Open
    <2>2. /\ Len(submitted') = Len(submitted) + 1
          /\ submitted'[Len(submitted) + 1] = current
          /\ \A i \in 1..Len(submitted) : submitted'[i] = submitted[i]
      BY <1>1, <1>4
    <2>3. ASSUME NEW t \in 1..Len(submitted'), stage'[t] \in {"queued", "running"}
          PROVE  Open(submitted'[t])
      <3>1. CASE t = Len(submitted) + 1
        BY <1>1, <2>2, <3>1
      <3>2. CASE t \in 1..Len(submitted)
        <4>1. t \in Requests /\ t # NextTask
          BY <1>1, <3>2, SubmittedStays DEF Next, ManagerStep, NextTask
        <4>2. stage[t] \in {"queued", "running"}
          BY <1>1, <1>4, <2>3, <4>1, SubmitStages
        <4> QED
          BY <2>2, <3>2, <4>2 DEF OpenInv
      <3> QED
        BY <1>1, <2>2, <3>1, <3>2
    <2>4. manager' = "reporting-drop" => Open(dropped')
      BY <1>4 DEF OpenInv
    <2>5. OpenInv'
      <3>1. \A r \in Requests : r > current => Open(r)
        BY DEF OpenInv
      <3> QED
        BY <1>2, <1>4, <2>1, <2>3, <2>4, <3>1 DEF OpenInv, Open
    <2> QED
      BY <1>2, <1>4, <2>5 DEF ReportedOnce
  <1> QED
    BY <1>3, <1>4, DownloadSubmits

\* The reports and the losses one by one.
LEMMA OpenStep ==
    ASSUME PP!PoolInv, BaseInv, DroppedLeaked, OpenInv, ReportedOnce, [Next]_vars
    PROVE  OpenInv' /\ ReportedOnce'
  <1> USE DEF poolVars, managerVars
  <1>0. /\ submitted \in Seq(Requests) /\ Len(submitted) \in Nat
        /\ \A u \in 1..Len(submitted) : u \in Requests
    BY SubmittedStays DEF BaseInv, ManagerTypes
  <1>1. CASE FoundLocally
    BY <1>1, CurrentSettled DEF FoundLocally
  <1>2. CASE LookRaised \/ (NotFound /\ ~UNCHANGED lost)
    <2>1. \E why \in Reasons : Lose(current, why)
      BY <1>2 DEF LookRaised, NotFound, Reasons
    <2>2. /\ manager \in {"looking", "submitting"} /\ manager' = "waiting"
          /\ UNCHANGED <<current, submitted, stage, notices>>
      BY <1>2 DEF LookRaised, NotFound
    <2> QED
      BY <2>1, <2>2, CurrentSettled
  <1>3. CASE ReportDrop
    <2>1. PICK t \in 1..Len(submitted) : dropped = submitted[t] /\ stage[t] = "leaked"
      BY <1>3 DEF ReportDrop, DroppedLeaked
    <2>2. Notify(submitted[t], QueueFull) /\ Open(submitted[t])
      BY <1>3, <2>1 DEF ReportDrop, OpenInv
    <2>3. UNCHANGED <<current, submitted, stage, lost>> /\ manager' = "waiting"
      BY <1>3 DEF ReportDrop
    <2> QED
      BY <2>1, <2>2, <2>3, SubmittedSettled
  <1>4. ASSUME NEW w \in Workers, CheckRaised(w) \/ Report(w) \/ Escape(w)
        PROVE  OpenInv' /\ ReportedOnce'
    <2>1. handler[w] # "none"
      BY <1>4 DEF CheckRaised, Report, Escape
    <2>2. PICK t \in 1..Len(submitted) : t = item[w] /\ stage[t] = "running"
      BY <2>1, HeldIsSubmitted
    <2>3. Open(submitted[t]) /\ t \in Requests
      BY <1>0, <2>2 DEF OpenInv
    <2>4. PP!Raise(w) \/ PP!Finish(w)
      BY <1>4, SamePool DEF CheckRaised, Report, Escape
    <2>5. stage'[t] \in {"done", "failed"} /\ \A u \in Requests \ {t} : stage'[u] = stage[u]
      BY <2>2, <2>4, EndStages
    <2>6. UNCHANGED <<current, submitted, manager, dropped>>
      BY <1>4 DEF CheckRaised, Report, Escape
    <2>7. \/ UNCHANGED lost /\ \E x \in {Success, Failed, QueueFull} : Notify(submitted[t], x)
          \/ UNCHANGED notices /\ \E why \in Reasons : Lose(submitted[t], why)
      BY <1>4, <2>2 DEF CheckRaised, Report, Escape, RequestOf, Reasons, BaseInv, HandlerTypes
    <2>8. \A u \in 1..Len(submitted) :
               stage'[u] \in {"queued", "running"} => stage[u] \in {"queued", "running"}
      BY <1>0, <2>5
    <2> QED
      BY <2>2, <2>3, <2>5, <2>6, <2>7, <2>8, SubmittedSettled
  <1>5. CASE TakeRequest
    <2>1. Order
      BY DEF BaseInv, Order
    <2>2. current < current' /\ current' \in Requests /\ current \in Nat
      BY <1>5, <2>1, TakeInOrder, RequestsAreNumbers DEF Order, ManagerTypes
    <2>3. UNCHANGED <<notices, lost, stage, submitted>> /\ manager' = "looking"
      BY <1>5 DEF TakeRequest
    <2>4. \A r \in Requests : r > current' => r > current
      BY <2>2, RequestsAreNumbers
    <2>5. \A r \in Requests : r > current => Open(r)
      BY DEF OpenInv
    <2>6. Open(current')
      BY <2>2, <2>5, RequestsAreNumbers
    <2>7. OpenInv'
      BY <2>3, <2>4, <2>5, <2>6 DEF OpenInv, Open
    <2> QED
      BY <2>3, <2>7 DEF ReportedOnce
  <1>6. CASE /\ ~FoundLocally /\ ~LookRaised /\ UNCHANGED <<notices, lost>> /\ ~ReportDrop
             /\ ~TakeRequest /\ ~DownloadTile
             /\ \A w \in Workers : ~CheckRaised(w) /\ ~Report(w) /\ ~Escape(w)
    <2>1. /\ UNCHANGED <<current, submitted>>
          /\ manager' \in {"looking", "submitting"} => manager \in {"looking", "submitting"}
          /\ manager' = "reporting-drop" => manager = "reporting-drop" /\ dropped' = dropped
      BY <1>6 DEF Next, Ask, TellManager, TellPool, ManagerStep, TakeTerminator, LookOn,
          NotFound, WorkerStep, Get, Register, AlreadyRunning, Check, Checked,
          DownloadFails, UrlRaises, Downloaded, Store, StoreAgain, Stored, Unregister, StopWorker,
          PutTerminator, ShutdownReturns, vars
    <2>2. \A t \in 1..Len(submitted) :
               stage'[t] \in {"queued", "running"} => stage[t] \in {"queued", "running"}
      BY <1>0, <1>6, StageMoves
    <2>3. OpenInv'
      <3>1. \A r \in Requests \ {} : Open(r) => notices'[r] = <<>> /\ lost'[r] = "no"
        BY <1>6 DEF Open
      <3> DEFINE S == {}
      <3>2. S \in SUBSET Requests /\ \A r \in S : FALSE
        OBVIOUS
      <3>3. \A r \in Requests \ S : Open(r) => notices'[r] = <<>> /\ lost'[r] = "no"
        BY <3>1
      <3> HIDE DEF S
      <3> QED
        BY <2>1, <2>2, <3>2, <3>3, OpenKept
    <2> QED
      BY <1>6, <2>3 DEF ReportedOnce
  <1>7. CASE NotFound /\ UNCHANGED lost
    <2>1. ~FoundLocally /\ ~LookRaised /\ ~ReportDrop /\ ~TakeRequest /\ ~DownloadTile
      BY <1>7 DEF NotFound, FoundLocally, LookRaised, ReportDrop, TakeRequest, DownloadTile
    <2>2. CASE \A w \in Workers : ~CheckRaised(w) /\ ~Report(w) /\ ~Escape(w)
      BY <1>6, <1>7, <2>1, <2>2 DEF NotFound
    <2> QED
      BY <1>4, <2>2
  <1> QED
    BY <1>1, <1>2, <1>3, <1>4, <1>5, <1>6, <1>7, SubmissionSettled, PushedOutSettled,
        OnlyReports, OnlyLosses
-----------------------------------------------------------------------------
(* What is reported as downloaded is stored, or it will be.                *)

KeptInv ==
    /\ ManagerReads
    /\ HandlersKeep
    /\ ReportedKept

\* The steps of the store's readers move nobody else's look-up.
LEMMA LookIsOwn ==
    ASSUME FP!StoreInv, [Next]_vars, ~ManagerStep
    PROVE  /\ reader'[Manager] = reader[Manager] /\ sought'[Manager] = sought[Manager]
           /\ got'[Manager] = got[Manager]
  <1> USE DEF fileVars
  <1>1. /\ reader \in [Workers \cup {Manager} -> FP!ReaderStates]
        /\ sought \in [Workers \cup {Manager} -> Tiles]
        /\ DOMAIN got = Workers \cup {Manager}
    BY DEF FP!StoreInv, FP!TypeOK, FP!ReaderTypeOK
  <1>2. ASSUME NEW w \in Workers, NEW t,
               \/ Files!Look(w, t) \/ Files!FindStep(w) \/ Files!IsStored(w)
               \/ Files!Return(w) \/ Files!Open(w, t) \/ Files!OpenFails(w, t)
               \/ Files!StoreStep(w)
        PROVE  /\ reader'[Manager] = reader[Manager] /\ sought'[Manager] = sought[Manager]
               /\ got'[Manager] = got[Manager]
    <2> USE DEF Files!readerVars
    <2>0. w # Manager
      BY DownloadAssumption
    <2>1. CASE Files!Look(w, t) \/ Files!FindStep(w) \/ Files!IsStored(w) \/ Files!Return(w)
      BY <1>1, <2>0, <2>1 DEF Files!Look, Files!FindStep, Files!Primary, Files!Glob,
          Files!NothingFound, Files!Stat, Files!Try, Files!IsStored, Files!Return
    <2>2. CASE Files!Open(w, t) \/ Files!OpenFails(w, t) \/ Files!StoreStep(w)
      BY <2>2 DEF Files!Open, Files!OpenFails, Files!StoreStep, Files!Write, Files!WriteFails,
          Files!Rename, Files!TestPart, Files!TestFinal, Files!RemovePart, Files!RemoveFinal
    <2> QED
      BY <1>2, <2>1, <2>2
  <1>3. ASSUME NEW w \in Workers, WorkerStep(w)
        PROVE  /\ reader'[Manager] = reader[Manager] /\ sought'[Manager] = sought[Manager]
               /\ got'[Manager] = got[Manager]
    <2>1. CASE UNCHANGED fileVars
      BY <2>1
    <2> QED
      BY <1>2, <1>3, <2>1 DEF WorkerStep, Get, Register, AlreadyRunning, Check, Checked,
          CheckRaised, DownloadFails, UrlRaises, Downloaded, Store, StoreAgain, Stored, Unregister, Report, Escape,
          StopWorker
  <1> QED
    BY <1>3 DEF Next, Ask, TellManager, TellPool, PutTerminator, ShutdownReturns, vars

LEMMA ManagerReadsStep ==
    ASSUME BaseInv, FP!StoreInv, ManagerReads, [Next]_vars
    PROVE  ManagerReads'
  <1> USE DEF fileVars, managerVars
  <1>1. /\ reader \in [Workers \cup {Manager} -> FP!ReaderStates]
        /\ sought \in [Workers \cup {Manager} -> Tiles]
        /\ DOMAIN got = Workers \cup {Manager}
    BY DEF FP!StoreInv, FP!TypeOK, FP!ReaderTypeOK
  <1>2. CASE TakeRequest
    BY <1>1, <1>2 DEF TakeRequest, Files!Look, ManagerReads
  <1>3. CASE LookOn
    <2>1. sought' = sought /\ manager = "looking" /\ current' = current
      BY <1>3 DEF LookOn, Files!FindStep, Files!Primary, Files!Glob, Files!NothingFound,
          Files!Stat, Files!Try, Files!GetTile
    <2>2. reader'[Manager] = "stored" => got'[Manager] # "none"
      <3>1. CASE Files!GetTile(Manager)
        BY <1>1, <3>1 DEF Files!GetTile
      <3>2. CASE Files!FindStep(Manager)
        BY <1>1, <3>2 DEF Files!FindStep, Files!Primary, Files!Glob, Files!NothingFound,
            Files!Stat, Files!Try
      <3> QED
        BY <1>3, <3>1, <3>2 DEF LookOn
    <2> QED
      BY <2>1, <2>2 DEF ManagerReads
  <1>4. CASE FoundLocally \/ LookRaised \/ NotFound
    <2>1. Files!Return(Manager) /\ manager' # "looking"
      BY <1>4 DEF FoundLocally, LookRaised, NotFound
    <2>2. reader'[Manager] = "out"
      BY <1>1, <2>1 DEF Files!Return
    <2> QED
      BY <2>1, <2>2 DEF ManagerReads
  <1>5. CASE TakeTerminator \/ DownloadTile \/ ReportDrop
    <2>1. UNCHANGED fileVars /\ manager' # "looking"
      BY <1>5 DEF TakeTerminator, DownloadTile, ReportDrop
    <2> QED
      BY <2>1 DEF ManagerReads
  <1>6. CASE ~ManagerStep
    <2>1. UNCHANGED <<manager, current>>
      BY <1>6 DEF Next, Ask, TellManager, TellPool, WorkerStep, Get, Register, AlreadyRunning, Check,
          Checked, CheckRaised, DownloadFails, UrlRaises, Downloaded, Store, StoreAgain, Stored, Unregister,
          Report, Escape, StopWorker, PutTerminator, ShutdownReturns, vars
    <2> QED
      BY <1>6, <2>1, LookIsOwn DEF ManagerReads
  <1> QED
    BY <1>2, <1>3, <1>4, <1>5, <1>6 DEF ManagerStep

LEMMA HandlersKeepStep ==
    ASSUME PP!PoolInv, BaseInv, FP!StoreInv, FP!SettleInv, FP!ReadIsKept, HandlersKeep,
           [Next]_vars
    PROVE  HandlersKeep'
  <1>0. /\ handler \in [Workers -> HandlerStates] /\ error \in [Workers -> {Success, Failed}]
        /\ \A w \in Workers : handler[w] # "none" <=> worker[w] = "running"
        /\ Success # Failed
    BY DEF BaseInv, HandlerTypes, Success, Failed
  <1>1. \A t \in Tiles : FP!Kept(t) => FP!Kept(t)'
    BY StepFits, FilesStep
  <1> SUFFICES ASSUME NEW w \in Workers
               PROVE  /\ handler'[w] \in {"storing", "storing-again"} => FP!Kept(Tile(w))'
                      /\ error'[w] = Success => /\ handler'[w] \in {"unregistering", "reporting", "escaping"}
                                                /\ FP!Kept(Tile(w))'
    BY DEF HandlersKeep
  <1>2. ASSUME NEW t \in Tiles, FP!Kept(t)', Tile(w)' = t
        PROVE  FP!Kept(Tile(w))'
    BY <1>2 DEF FP!Kept, FP!Storing, FP!Idle
  <1>3. ASSUME handler[w] # "none", handler'[w] # "none", FP!Kept(Tile(w))
        PROVE  FP!Kept(Tile(w))'
    <2>1. PICK t \in Tiles : t = Tile(w)
      BY <1>3, HeldIsSubmitted
    <2>2. FP!Kept(t)
      BY <1>3, <2>1
    <2>3. Tile(w)' = t
      BY <1>3, <2>1, RequestStays
    <2> QED
      BY <1>1, <1>2, <2>2, <2>3
  <1>4. CASE handler'[w] = handler[w] /\ error'[w] = error[w]
    BY <1>3, <1>4 DEF HandlersKeep
  <1>5. CASE ~WorkerStep(w)
    <2>1. handler'[w] = handler[w] /\ error'[w] = error[w]
      BY <1>5, OnlyWorkers, OthersStay
    <2> QED
      BY <1>4, <2>1
  <1>6. CASE Downloaded(w) \/ StoreAgain(w)
    <2>1. /\ handler[w] \in {"downloading", "storing"}
          /\ handler'[w] \in {"storing", "storing-again"}
          /\ error' = error
      BY <1>0, <1>6 DEF Downloaded, StoreAgain, Goto
    <2>2. error[w] # Success
      BY <2>1 DEF HandlersKeep
    <2>3. PICK t \in Tiles : t = Tile(w)
      BY <2>1, HeldIsSubmitted
    <2>4. FP!Open(w, t) \/ FP!OpenFails(w, t)
      BY <1>6, <2>3, SameFiles DEF Downloaded, StoreAgain
    <2>5. FP!Kept(t)'
      BY <2>4, FP!BegunIsKept, DownloadAssumption
    <2>6. Tile(w)' = t
      BY <2>1, <2>3, RequestStays
    <2> QED
      BY <1>2, <2>1, <2>2, <2>5, <2>6
  <1>7. CASE Stored(w)
    <2>1. handler[w] = "storing-again" /\ handler'[w] = "unregistering"
      BY <1>0, <1>7 DEF Stored, Goto
    <2>2. FP!Kept(Tile(w))'
      BY <1>3, <2>1 DEF HandlersKeep
    <2> QED
      BY <2>1, <2>2
  <1>8. CASE Unregister(w)
    <2>1. handler[w] = "unregistering" /\ handler'[w] \in {"reporting", "escaping"} /\ error' = error
      BY <1>0, <1>8 DEF Unregister, Goto
    <2> QED
      BY <1>3, <2>1 DEF HandlersKeep
  <1>9. CASE \/ Get(w) \/ Register(w) \/ AlreadyRunning(w) \/ Checked(w) \/ CheckRaised(w)
             \/ DownloadFails(w) \/ UrlRaises(w)
    <2>1. /\ handler[w] \in {"none", "starting", "checking", "downloading"} /\ error' = error
          /\ handler'[w] \notin {"storing", "storing-again"}
      BY <1>0, <1>9 DEF Get, Pool!Get, Register, AlreadyRunning, Checked, CheckRaised, DownloadFails, UrlRaises,
          Goto, handlerVars
    <2>2. error[w] # Success
      BY <2>1 DEF HandlersKeep
    <2> QED
      BY <2>1, <2>2
  <1>10. CASE Report(w) \/ Escape(w)
    <2>1. handler'[w] = "none" /\ error'[w] = Failed
      BY <1>0, <1>10 DEF Report, Escape, Goto
    <2> QED
      BY <1>0, <2>1
  <1>11. CASE Check(w) \/ Store(w) \/ StopWorker(w)
    BY <1>4, <1>11 DEF Check, Store, StopWorker, handlerVars
  <1> QED
    BY <1>5, <1>6, <1>7, <1>8, <1>9, <1>10, <1>11 DEF WorkerStep

LEMMA LastOfOne ==
    ASSUME NEW S, NEW s \in Seq(S), NEW x \in S, NEW y, Append(s, x) = <<y>>
    PROVE  x = y
  <1>1. \A z \in S : /\ Len(Append(s, z)) = Len(s) + 1 /\ Append(s, z)[Len(s) + 1] = z
                     /\ Len(s) \in Nat
    OBVIOUS
  <1>2. Len(<<y>>) = 1 /\ <<y>>[1] = y
    OBVIOUS
  <1> QED
    BY <1>1, <1>2

LEMMA ReportedKeptStep ==
    ASSUME PP!PoolInv, BaseInv, FP!StoreInv, FP!SettleInv, FP!ReadIsKept, KeptInv, [Next]_vars
    PROVE  ReportedKept'
  <1> DEFINE Results == {Success, Failed, QueueFull}
  <1>0. /\ notices \in [Requests -> Seq(Results)]
        /\ error \in [Workers -> {Success, Failed}]
        /\ Success # QueueFull /\ \A r \in Requests : TileOf[r] \in Tiles
    BY DownloadAssumption DEF BaseInv, HandlerTypes, Success, QueueFull
  <1>1. \A t \in Tiles : FP!Kept(t) => FP!Kept(t)'
    BY StepFits, FilesStep
  <1> SUFFICES ASSUME NEW r \in Requests, notices'[r] = <<Success>>
               PROVE  FP!Kept(TileOf[r])'
    BY DEF ReportedKept
  <1>2. CASE notices'[r] = notices[r]
    BY <1>0, <1>1, <1>2 DEF KeptInv, ReportedKept
  <1>3. ASSUME NEW q \in Requests, NEW x \in Results, Notify(q, x), notices'[r] # notices[r]
        PROVE  q = r /\ x = Success
    <2>1. q = r /\ notices'[r] = Append(notices[r], x)
      BY <1>0, <1>3 DEF Notify
    <2>2. notices[r] \in Seq(Results)
      BY <1>0
    <2> HIDE DEF Results
    <2> QED
      BY <1>3, <2>1, <2>2, LastOfOne
  <1>4. CASE FoundLocally /\ notices'[r] # notices[r]
    <2>1. current \in Requests /\ Notify(current, Success)
      BY <1>4, NextTaskIsRequest DEF FoundLocally
    <2>2. current = r
      BY <1>3, <1>4, <2>1
    <2>3. got[Manager] \notin {"none", "empty"} /\ sought[Manager] = TileOf[r]
      BY <1>4, <2>2 DEF FoundLocally, HasData, KeptInv, ManagerReads
    <2>4. FP!Kept(TileOf[r])
      BY <2>3 DEF FP!ReadIsKept
    <2> QED
      BY <1>0, <1>1, <2>4
  <1>5. CASE ReportDrop /\ notices'[r] # notices[r]
    <2>1. Notify(dropped, QueueFull) /\ dropped \in Requests \cup {0}
      BY <1>5 DEF ReportDrop, BaseInv, ManagerTypes
    <2>2. dropped \in Requests
      BY <1>0, <1>5, <2>1 DEF Notify
    <2> QED
      BY <1>0, <1>3, <1>5, <2>1, <2>2
  <1>6. ASSUME NEW w \in Workers, Report(w) \/ Escape(w), notices'[r] # notices[r]
        PROVE  FP!Kept(TileOf[r])'
    <2>1. RequestOf(w) \in Requests /\ Notify(RequestOf(w), error[w]) /\ error[w] \in Results
      BY <1>0, <1>6, HeldIsSubmitted DEF Report, Escape
    <2>2. RequestOf(w) = r /\ error[w] = Success
      BY <1>3, <1>6, <2>1
    <2>3. FP!Kept(Tile(w)) /\ Tile(w) = TileOf[r]
      BY <2>2 DEF KeptInv, HandlersKeep, Tile
    <2> QED
      BY <1>0, <1>1, <2>3
  <1> QED
    BY <1>2, <1>4, <1>5, <1>6, OnlyReports

LEMMA KeptStep ==
    ASSUME PP!PoolInv, BaseInv, FP!StoreInv, FP!SettleInv, FP!ReadIsKept, KeptInv, [Next]_vars
    PROVE  KeptInv'
  BY ManagerReadsStep, HandlersKeepStep, ReportedKeptStep DEF KeptInv
-----------------------------------------------------------------------------
(* Together.                                                               *)

StoreOK == FP!StoreInv /\ FP!SettleInv /\ FP!ReadIsKept

DownloadInv ==
    /\ PP!PoolInv
    /\ StoreOK
    /\ BaseInv
    /\ RegisteredActive
    /\ SurvivorInv
    /\ DroppedLeaked
    /\ OpenInv
    /\ ReportedOnce
    /\ KeptInv

LEMMA DownloadInit == Init => DownloadInv
  <1> SUFFICES ASSUME Init PROVE DownloadInv
    OBVIOUS
  <1>0. /\ asked = 0 /\ queue = <<>> /\ manager = "waiting" /\ current = 0 /\ submitted = <<>>
        /\ dropped = 0 /\ running = {}
        /\ handler = [w \in Workers |-> "none"] /\ error = [w \in Workers |-> Failed]
        /\ notices = [r \in Requests |-> <<>>] /\ lost = [r \in Requests |-> "no"]
    BY DEF Init
  <1>s. Len(<<>>) = 0 /\ 1..0 = {}
    OBVIOUS
  <1>1. PP!PoolInv
    <2>1. PP!Init
      BY SamePool DEF Init
    <2> QED
      BY <2>1, PP!InitInv, RequestsAreNumbers, WorkersAreFinite, DownloadAssumption
  <1>2. StoreOK
    <2>1. FP!Init
      BY SameFiles DEF Init
    <2>2. FP!StoreInv /\ FP!SettleInv
      BY <2>1, FP!InitInv, FP!SettleInit, DownloadAssumption
    <2>3. FP!ReadIsKept
      BY <2>1 DEF FP!Init, FP!ReaderInit, FP!ReadIsKept
    <2> QED
      BY <2>2, <2>3 DEF StoreOK
  <1>p. \A w \in Workers : worker[w] = "idle" /\ \A t \in Requests : stage[t] = "new"
    BY DEF Init, Pool!Init
  <1>3. BaseInv
    <2>1. ManagerTypes
      <3>1. <<>> \in Seq(Requests \cup {0}) /\ <<>> \in Seq(Requests)
        OBVIOUS
      <3> QED
        BY <1>0, <3>1 DEF ManagerTypes, ManagerStates, Terminate
    <2>2. QueueInOrder /\ SubmittedInOrder
      BY <1>0, <1>s DEF QueueInOrder, SubmittedInOrder
    <2>3. StagesSubmitted
      <3>1. \A t \in Requests : stage[t] = "new"
        BY DEF Init, Pool!Init
      <3> QED
        BY <1>0, <1>s, <3>1, RequestsAreNumbers DEF StagesSubmitted
    <2>4. HandlerTypes
      <3>1. <<>> \in Seq({Success, Failed, QueueFull})
        OBVIOUS
      <3> QED
        BY <1>0, <1>p, <3>1 DEF HandlerTypes, HandlerStates, Reasons
    <2> QED
      BY <2>1, <2>2, <2>3, <2>4 DEF BaseInv
  <1>4. RegisteredActive /\ DroppedLeaked
    BY <1>0 DEF RegisteredActive, DroppedLeaked
  <1>5. SurvivorInv
    BY <1>0, <1>p, DownloadAssumption DEF SurvivorInv, Survives, EscapingBad
  <1>6. OpenInv
    BY <1>0, <1>s DEF OpenInv, Open
  <1>7. ReportedOnce
    BY <1>0, <1>s DEF ReportedOnce
  <1>8. KeptInv
    <2>1. reader[Manager] = "out"
      BY DEF Init, Files!Init, Files!ReaderInit
    <2>2. Failed # Success
      BY DEF Failed, Success
    <2>3. <<Success>> # <<>>
      OBVIOUS
    <2> QED
      BY <1>0, <2>1, <2>2, <2>3 DEF KeptInv, ManagerReads, HandlersKeep, ReportedKept
  <1> QED
    BY <1>1, <1>2, <1>3, <1>4, <1>5, <1>6, <1>7, <1>8 DEF DownloadInv

LEMMA DownloadStep == DownloadInv /\ [Next]_vars => DownloadInv'
  <1> SUFFICES ASSUME DownloadInv, [Next]_vars PROVE DownloadInv'
    OBVIOUS
  <1>1. PP!PoolInv' /\ StoreOK'
    BY StepFits, PoolStep, FilesStep DEF DownloadInv, StoreOK
  <1>2. BaseInv' /\ RegisteredActive' /\ SurvivorInv' /\ DroppedLeaked'
    BY BaseStep, RegisteredStep, SurvivorStep, DroppedStep DEF DownloadInv
  <1>3. OpenInv' /\ ReportedOnce' /\ KeptInv'
    BY OpenStep, KeptStep DEF DownloadInv, StoreOK
  <1> QED
    BY <1>1, <1>2, <1>3 DEF DownloadInv

LEMMA DownloadInvariant == Spec => []DownloadInv
  BY DownloadInit, DownloadStep, PTL DEF Spec

\* The types, and: what is registered in _running is being downloaded by some
\* worker, whatever fails, dies or is asked for twice in the meantime
\* (_handleDownload() of tile_downloader.py).
THEOREM RegisteredAreActive == Spec => []RegisteredIsActive
  <1>1. DownloadInv => RegisteredIsActive
    <2> SUFFICES ASSUME DownloadInv PROVE TypeOK /\ RegisteredActive
      BY DEF RegisteredIsActive, RegisteredActive
    <2>1. Pool!TypeOK
      BY SamePool DEF DownloadInv, PP!PoolInv
    <2>2. Files!TypeOK
      BY SameFiles DEF DownloadInv, StoreOK, FP!StoreInv
    <2> QED
      BY <2>1, <2>2 DEF DownloadInv, BaseInv, ManagerTypes, HandlerTypes, TypeOK
  <1> QED
    BY <1>1, DownloadInvariant, PTL

\* A request is reported once at most, by the manager, for the pool that has
\* pushed it out or by its handler, and never after it was given up, for any
\* number of requests and any size of the pool's buffer.
THEOREM EachReportedOnce == Spec => []ReportedOnce
  <1>1. DownloadInv => ReportedOnce
    BY DEF DownloadInv
  <1> QED
    BY <1>1, DownloadInvariant, PTL

\* The exceptions that end a worker of the pool do not end them all, unless the URL of a
\* tile has raised: other than of that a worker dies on a tile that another one has
\* registered and is downloading (_handleDownload() of tile_downloader.py).
THEOREM WorkersSurvive == Spec => []AWorkerSurvives
  <1>1. DownloadInv => AWorkerSurvives
    BY DEF DownloadInv, SurvivorInv, Survives, UrlKilled, AWorkerSurvives
  <1> QED
    BY <1>1, DownloadInvariant, PTL

\* What the GUI is told was downloaded is in the store, or being stored by a
\* thread that will make it whole, unless two threads have stored the tile at a
\* time or storing has failed.
THEOREM SuccessMeansStored == Spec => []SuccessIsStored
  <1>1. DownloadInv => SuccessIsStored
    BY DEF DownloadInv, KeptInv, ReportedKept, SuccessIsStored, FP!Kept, FP!Storing,
        Files!Storing, FP!Idle, Files!Idle
  <1> QED
    BY <1>1, DownloadInvariant, PTL

\* Downloading uses the pool and the store as they are meant to be used: what is
\* proved of any tasks and of any writers and readers holds of the requests, the
\* handlers and the manager.
THEOREM DownloadUsesPoolAndStore == Spec => PP!Spec /\ FP!Spec
  <1>1. Init => PP!Init /\ FP!Init
    BY SamePool, SameFiles DEF Init
  <1>2. DownloadInv /\ [Next]_vars => [PP!Next]_(PP!vars) /\ [FP!Next]_(FP!vars)
    BY StepFits DEF DownloadInv
  <1> QED
    BY <1>1, <1>2, DownloadInvariant, PTL DEF Spec, PP!Spec, FP!Spec

\* So the pool under the downloads does what TaskPool promises: a request it has
\* accepted is run once or given up, and none is begun once a shutdown counts.
THEOREM DownloadsImplementTaskPool == Spec => PP!ImplementsTaskPool
  <1>1. PP!Spec => PP!ImplementsTaskPool
    BY PP!LifoPoolImplementsTaskPool, RequestsAreNumbers, WorkersAreFinite, DownloadAssumption
  <1> QED
    BY <1>1, DownloadUsesPoolAndStore, PTL

-----------------------------------------------------------------------------
(* Where a request is until it has come to an end.                         *)

WithManager(r) ==
    \/ \E i \in 1..Len(queue) : queue[i] = r
    \/ manager \in {"looking", "submitting"} /\ r = current
    \/ manager = "reporting-drop" /\ r = dropped
WithPool(r) ==
    \E t \in 1..Len(submitted) : submitted[t] = r /\ stage[t] \in {"queued", "running"}
Accounted(r) == Settled(r) \/ WithManager(r) \/ WithPool(r)
NoneForgotten == \A r \in 1..asked : Accounted(r)

\* What was reported or given up stays so.
LEMMA SettledStays ==
    ASSUME BaseInv, [Next]_vars, NEW r \in Requests, Settled(r)
    PROVE  Settled(r)'
  <1>1. notices \in [Requests -> Seq({Success, Failed, QueueFull})] /\ lost \in [Requests -> Reasons]
    BY DEF BaseInv, HandlerTypes
  <1>3. ASSUME NEW q, NEW why \in Reasons \ {"no"}, Lose(q, why), lost[r] # "no"
        PROVE  lost'[r] # "no"
    BY <1>1, <1>3 DEF Lose
  <1>4. notices[r] # <<>> => notices'[r] # <<>>
    BY NoticesStay
  <1>5. lost[r] # "no" => lost'[r] # "no"
    <2>1. CASE LookRaised \/ NotFound \/ DownloadTile
      BY <1>3, <2>1 DEF LookRaised, NotFound, DownloadTile, Reasons
    <2>2. CASE PutTerminator
      BY <2>2 DEF PutTerminator
    <2>3. ASSUME NEW w \in Workers, CheckRaised(w)
          PROVE  lost[r] # "no" => lost'[r] # "no"
      BY <1>3, <2>3 DEF CheckRaised, Reasons
    <2> QED
      BY <2>1, <2>2, <2>3, OnlyLosses
  <1> QED
    BY <1>4, <1>5 DEF Settled

\* A request that ends is reported or given up by the same step.
LEMMA EndSettles ==
    ASSUME BaseInv, NEW r \in Requests,
           \/ \E x \in {Success, Failed, QueueFull} : Notify(r, x)
           \/ \E why \in Reasons \ {"no"} : Lose(r, why)
    PROVE  Settled(r)'
  <1>1. notices \in [Requests -> Seq({Success, Failed, QueueFull})] /\ lost \in [Requests -> Reasons]
    BY DEF BaseInv, HandlerTypes
  <1>2. ASSUME NEW x \in {Success, Failed, QueueFull}, Notify(r, x)
        PROVE  notices'[r] # <<>>
    BY <1>1, <1>2 DEF Notify
  <1>3. ASSUME NEW why \in Reasons \ {"no"}, Lose(r, why)
        PROVE  lost'[r] # "no"
    BY <1>1, <1>3 DEF Lose
  <1> QED
    BY <1>2, <1>3 DEF Settled

\* A task that waits or runs does so after a step, or its request is settled or is the
\* one the manager is to report.
LEMMA PoolPasses ==
    ASSUME PP!PoolInv, BaseInv, [Next]_vars, NEW r \in Requests, WithPool(r)
    PROVE  Accounted(r)'
  <1> USE DEF poolVars
  <1>1. PICK t \in 1..Len(submitted) : submitted[t] = r /\ stage[t] \in {"queued", "running"}
    BY DEF WithPool
  <1>2. t \in 1..Len(submitted') /\ submitted'[t] = r /\ t \in Requests
    BY <1>1, SubmittedStays
  <1>3. stage'[t] \in {"queued", "running"} => WithPool(r)'
    BY <1>2 DEF WithPool
  <1>4. CASE DownloadTile
    <2>1. NextTask \in Requests /\ t # NextTask
      BY <1>1, <1>4, NextTaskIsRequest DEF DownloadTile, NextTask
    <2>2. CASE PP!Submit(NextTask) /\ ~PP!Leaks(t)
      BY <1>1, <1>2, <1>3, <2>1, <2>2, SubmitStages DEF Accounted
    <2>3. CASE PP!Submit(NextTask) /\ PP!Leaks(t)
      <3>1. t \in DOMAIN submitted /\ Pool!Leaks(t)
        BY <1>1, <2>3, SameLeaks DEF BaseInv, ManagerTypes
      <3>2. {u \in DOMAIN submitted : Pool!Leaks(u)} = {t}
        BY <3>1 DEF Pool!Leaks
      <3>3. phase = "open"
        BY <2>3 DEF PP!Submit
      <3>4. (CHOOSE u \in {t} : TRUE) = t /\ {t} # {}
        OBVIOUS
      <3>5. manager' = "reporting-drop" /\ dropped' = r
        BY <1>1, <1>4, <3>2, <3>3, <3>4 DEF DownloadTile
      <3> QED
        BY <3>5 DEF Accounted, WithManager
    <2>4. CASE UNCHANGED stage
      BY <1>1, <1>3, <2>4 DEF Accounted
    <2> QED
      BY <1>4, <2>2, <2>3, <2>4, DownloadSubmits
  <1>5. CASE PutTerminator
    <2>1. CASE PP!Leaks(t)
      <3>1. t \in DOMAIN submitted /\ Pool!Leaks(t)
        BY <1>1, <2>1, SameLeaks DEF BaseInv, ManagerTypes
      <3>2. lost'[r] = "dropped-by-shutdown"
        BY <1>1, <1>5, <3>1 DEF PutTerminator
      <3> QED
        BY <3>2 DEF Accounted, Settled
    <2>2. CASE ~PP!Leaks(t)
      BY <1>1, <1>2, <1>3, <1>5, <2>2, TerminatorStages, SamePool DEF PutTerminator, Accounted
    <2> QED
      BY <2>1, <2>2
  <1>6. ASSUME NEW w \in Workers, WorkerStep(w)
        PROVE  Accounted(r)'
    <2>1. CASE Get(w)
      BY <1>1, <1>2, <1>3, <2>1, GetStages, SamePool DEF Get, Accounted
    <2>2. CASE CheckRaised(w) \/ Report(w) \/ Escape(w)
      <3>1. PP!Raise(w) \/ PP!Finish(w)
        BY <2>2, SamePool DEF CheckRaised, Report, Escape
      <3>2. CASE t # item[w]
        BY <1>1, <1>2, <1>3, <3>1, <3>2, EndStages DEF Accounted
      <3>3. CASE t = item[w]
        <4>1. RequestOf(w) = r
          BY <1>1, <3>3 DEF RequestOf
        <4>2. \/ \E x \in {Success, Failed, QueueFull} : Notify(r, x)
              \/ \E why \in Reasons \ {"no"} : Lose(r, why)
          BY <2>2, <4>1 DEF CheckRaised, Report, Escape, Reasons, BaseInv, HandlerTypes
        <4> QED
          BY <4>2, EndSettles DEF Accounted
      <3> QED
        BY <3>2, <3>3
    <2>3. CASE ~(Get(w) \/ CheckRaised(w) \/ Report(w) \/ Escape(w))
      <3>1. stage' = stage
        BY <1>6, <2>3 DEF WorkerStep, Register, AlreadyRunning, Check, Checked, DownloadFails, UrlRaises,
              Downloaded, Store, StoreAgain, Stored, Unregister, StopWorker, Pool!Stop
      <3> QED
        BY <1>1, <1>3, <3>1 DEF Accounted
    <2> QED
      BY <2>1, <2>2, <2>3
  <1>7. CASE ManagerStep /\ ~DownloadTile
    <2>1. stage' = stage
      BY <1>7 DEF ManagerStep, TakeTerminator, TakeRequest, LookOn, FoundLocally, LookRaised,
          NotFound, ReportDrop
    <2> QED
      BY <1>1, <1>3, <2>1 DEF Accounted
  <1>8. CASE Ask \/ TellManager \/ TellPool \/ ShutdownReturns \/ UNCHANGED vars
    <2>1. stage' = stage
      BY <1>8 DEF Ask, TellManager, TellPool, ShutdownReturns, Pool!Shutdown,
          Pool!ShutdownReturns, vars
    <2> QED
      BY <1>1, <1>3, <2>1 DEF Accounted
  <1> QED
    BY <1>4, <1>5, <1>6, <1>7, <1>8 DEF Next

\* The manager passes a request on to the pool, or ends it itself.
LEMMA ManagerPasses ==
    ASSUME PP!PoolInv, BaseInv, [Next]_vars, NEW r \in Requests, WithManager(r)
    PROVE  Accounted(r)'
  <1> USE DEF managerVars
  <1>1. /\ queue \in Seq(Requests \cup {0}) /\ Len(queue) \in Nat
        /\ submitted \in Seq(Requests) /\ Len(submitted) \in Nat
    BY DEF BaseInv, ManagerTypes, Terminate
  <1>2. CASE Ask \/ TellManager
    <2>1. PICK x : queue' = Append(queue, x) /\ UNCHANGED <<manager, current, dropped>>
      BY <1>2 DEF Ask, TellManager
    <2>2. \A i \in 1..Len(queue) : i \in 1..Len(queue') /\ queue'[i] = queue[i]
      BY <1>1, <2>1
    <2> QED
      BY <2>1, <2>2 DEF WithManager, Accounted
  <1>3. CASE TakeRequest
    <2>1. \A i \in 1..Len(queue) : IF i = 1 THEN queue[i] = current'
                                   ELSE i-1 \in 1..Len(queue') /\ queue'[i-1] = queue[i]
      BY <1>1, <1>3 DEF TakeRequest
    <2>2. manager = "waiting" /\ manager' = "looking"
      BY <1>3 DEF TakeRequest
    <2> QED
      BY <2>1, <2>2 DEF WithManager, Accounted
  <1>4. CASE FoundLocally \/ LookRaised \/ (NotFound /\ manager' # "submitting")
    <2>1. /\ manager = "looking" /\ UNCHANGED queue
          /\ \/ \E x \in {Success, Failed, QueueFull} : Notify(current, x)
             \/ \E why \in Reasons \ {"no"} : Lose(current, why)
      BY <1>4 DEF FoundLocally, LookRaised, NotFound, Reasons
    <2>2. CASE r = current
      BY <2>1, <2>2, EndSettles DEF Accounted
    <2>3. CASE r # current
      BY <2>1, <2>3 DEF WithManager, Accounted
    <2> QED
      BY <2>2, <2>3
  <1>5. CASE DownloadTile
    <2>1. manager = "submitting" /\ UNCHANGED <<queue, current>>
      BY <1>5 DEF DownloadTile
    <2>2. CASE r # current
      BY <2>1, <2>2 DEF WithManager, Accounted
    <2>3. CASE r = current /\ PP!Submit(NextTask) /\ submitted' = Append(submitted, current)
      <3>1. NextTask \in 1..Len(submitted') /\ submitted'[NextTask] = r /\ NextTask \in Requests
        BY <1>1, <2>1, <2>3, NextTaskIsRequest DEF NextTask
      <3>2. stage'[NextTask] = "queued"
        BY <2>3, <3>1, SubmitStages
      <3> QED
        BY <3>1, <3>2 DEF WithPool, Accounted
    <2>4. CASE r = current /\ Lose(current, "shut-down")
      BY <2>4, EndSettles DEF Reasons, Accounted
    <2> QED
      BY <1>5, <2>2, <2>3, <2>4, DownloadSubmits
  <1>6. CASE ReportDrop
    <2>1. manager = "reporting-drop" /\ UNCHANGED queue /\ Notify(dropped, QueueFull)
      BY <1>6 DEF ReportDrop
    <2>2. CASE r = dropped
      BY <2>1, <2>2, EndSettles DEF Accounted
    <2>3. CASE r # dropped
      BY <2>1, <2>3 DEF WithManager, Accounted
    <2> QED
      BY <2>2, <2>3
  <1>7. CASE /\ UNCHANGED <<queue, current, dropped>>
             /\ \/ UNCHANGED manager
                \/ manager = "waiting"
                \/ manager = "looking" /\ manager' = "submitting"
    BY <1>7 DEF WithManager, Accounted
  <1>8. CASE TakeTerminator \/ LookOn \/ (NotFound /\ manager' = "submitting")
    BY <1>7, <1>8 DEF TakeTerminator, LookOn, NotFound
  <1>9. CASE \/ TellPool \/ PutTerminator \/ ShutdownReturns \/ UNCHANGED vars
             \/ \E w \in Workers : WorkerStep(w)
    <2>1. UNCHANGED <<queue, current, dropped, manager>>
      BY <1>9 DEF TellPool, PutTerminator, ShutdownReturns, vars, WorkerStep, Get, Register,
          AlreadyRunning, Check, Checked, CheckRaised, DownloadFails, UrlRaises, Downloaded, Store,
          StoreAgain, Stored, Unregister, Report, Escape, StopWorker
    <2> QED
      BY <1>7, <2>1
  <1> QED
    BY <1>2, <1>3, <1>4, <1>5, <1>6, <1>8, <1>9 DEF Next, ManagerStep

LEMMA ForgottenStep ==
    ASSUME PP!PoolInv, BaseInv, NoneForgotten, [Next]_vars
    PROVE  NoneForgotten'
  <1>1. CASE Ask
    <2>1. /\ asked \in Nat /\ asked' = asked + 1 /\ asked + 1 \in Requests
          /\ queue \in Seq(Requests \cup {0}) /\ queue' = Append(queue, asked + 1)
          /\ \A r \in 1..asked : r \in Requests
      BY <1>1, RequestsAreNumbers DEF Ask, BaseInv, ManagerTypes, Terminate
    <2>2. Len(queue') \in 1..Len(queue') /\ queue'[Len(queue')] = asked + 1
      BY <2>1
    <2>3. ASSUME NEW r, r = asked + 1
          PROVE  Accounted(r)'
      BY <2>1, <2>2, <2>3 DEF Accounted, WithManager
    <2>4. \A r \in 1..asked : Accounted(r)'
      BY <2>1, SettledStays, ManagerPasses, PoolPasses DEF NoneForgotten, Accounted
    <2>5. 1..asked' = 1..asked \cup {asked + 1}
      BY <2>1
    <2> QED
      BY <2>3, <2>4, <2>5 DEF NoneForgotten
  <1>2. CASE ~Ask
    <2>1. asked' = asked
      BY <1>2 DEF Next, TellManager, TellPool, ManagerStep, TakeTerminator, TakeRequest, LookOn,
          FoundLocally, LookRaised, NotFound, DownloadTile, ReportDrop, WorkerStep, Get, Register,
          AlreadyRunning, Check, Checked, CheckRaised, DownloadFails, UrlRaises, Downloaded, Store, StoreAgain,
          Stored, Unregister, Report, Escape, StopWorker, PutTerminator, ShutdownReturns, vars, managerVars
    <2>2. asked \in Nat /\ \A r \in 1..asked : r \in Requests
      BY RequestsAreNumbers DEF BaseInv, ManagerTypes
    <2>3. \A r \in 1..asked : Accounted(r)'
      BY <2>2, SettledStays, ManagerPasses, PoolPasses DEF NoneForgotten, Accounted
    <2> QED
      BY <2>1, <2>3 DEF NoneForgotten
  <1> QED
    BY <1>1, <1>2

\* Nothing is under way: the manager waits before an empty queue or has ended, the
\* handlers have returned and the idle workers find nothing on the stack.
AtRest ==
    /\ \/ manager = "waiting" /\ queue = <<>>
       \/ manager = "ended"
    /\ \A w \in Workers : handler[w] = "none"
    /\ stack # <<>> => \A w \in Workers : worker[w] # "idle"
RestIsReported ==
    AtRest => \A r \in 1..asked : Settled(r) \/ LeftByShutdown(r) \/ Stranded(r)

\* No request is forgotten: when nothing is under way each has been reported, or was
\* given up for one of the Reasons, or the shutdown has left it, or the workers have all
\* died and left it on the stack.  A worker that dies leaves no other request behind
\* (_tileLoadingManager(), _handleDownload()).
THEOREM RestReports == Spec => []RestIsReported
  <1>1. Init => NoneForgotten
    BY DEF Init, NoneForgotten
  <1>2. DownloadInv /\ NoneForgotten /\ [Next]_vars => NoneForgotten'
    BY ForgottenStep DEF DownloadInv
  <1>3. ASSUME DownloadInv, NoneForgotten, AtRest, NEW r \in 1..asked, ~Settled(r),
               ~LeftByShutdown(r)
        PROVE  Stranded(r)
    <2>1. WithPool(r)
      <3>1. DOMAIN queue = 1..Len(queue)
        BY <1>3 DEF DownloadInv, BaseInv, ManagerTypes
      <3> QED
        BY <1>3, <3>1 DEF NoneForgotten, Accounted, WithManager, AtRest, LeftByShutdown
    <2>2. PICK t \in 1..Len(submitted) : submitted[t] = r /\ stage[t] \in {"queued", "running"}
      BY <2>1 DEF WithPool
    <2>3. t \in Requests /\ t \in DOMAIN submitted
      <3>1. r \in Requests /\ r \in Nat /\ submitted \in Seq(Requests)
        BY <1>3, RequestsAreNumbers DEF DownloadInv, BaseInv, ManagerTypes
      <3>2. t <= r
        BY <1>3, <2>2 DEF DownloadInv, BaseInv, SubmittedInOrder
      <3> QED
        BY <3>1, <3>2, RequestsAreNumbers
    <2>4. \A w \in Workers : worker[w] # "running"
      BY <1>3 DEF AtRest, DownloadInv, BaseInv, HandlerTypes
    <2>5. stage[t] # "running"
      BY <1>3, <2>3, <2>4, RequestsAreNumbers
      DEF DownloadInv, PP!PoolInv, PP!RunningHeld, PP!HoldsWhileRunning
    <2>6. stack # <<>>
      BY <1>3, <2>2, <2>3, <2>5 DEF DownloadInv, PP!PoolInv, PP!QueuedOnStack
    <2>7. OnStack(r) /\ phase = "open"
      BY <1>3, <2>2, <2>3, <2>5 DEF OnStack, LeftByShutdown
    <2>8. PP!Stopped = {}
      <3>1. terminatorsPut = 0
        BY <1>3, <2>7 DEF DownloadInv, PP!PoolInv, PP!NoTerminatorBeforeShutdown
      <3>2. PP!Pending >= 0 /\ PP!Pending = 0 - Cardinality(PP!Stopped)
        BY <1>3, <3>1 DEF DownloadInv, PP!PoolInv, PP!TerminatorsOnTop, PP!Pending,
            PP!Cardinality, Cardinality
      <3>3. IsFiniteSet(PP!Stopped) /\ Cardinality(PP!Stopped) \in Nat
        BY DownloadAssumption, FS_Subset, FS_CardinalityType DEF PP!Stopped
      <3> QED
        BY <3>2, <3>3, FS_EmptySet
    <2>9. \A w \in Workers : worker[w] = "dead"
      BY <1>3, <2>4, <2>6, <2>8 DEF AtRest, DownloadInv, PP!PoolInv, PP!TypeOK, PP!WorkerStates,
          PP!Stopped
    <2> QED
      BY <2>7, <2>9 DEF Stranded
  <1>4. DownloadInv /\ NoneForgotten => RestIsReported
    BY <1>3 DEF RestIsReported
  <1> QED
    BY <1>1, <1>2, <1>4, DownloadInvariant, PTL DEF Spec

=============================================================================
