------------------------------ MODULE Tracklog ------------------------------
(***************************************************************************)
(* The recording of tracklogs: modules/mod_tracklog.py with the two        *)
(* AppendOnlyWay objects of core/way.py it writes to, driven by the        *)
(* buttons of TracksRecordPage.qml and by the timers of mod_cron.py.       *)
(*                                                                         *)
(* While a log is recorded its points are kept in memory and, increment by *)
(* increment, in two temporary CSV files.  stopLogging() exports them to a *)
(* GPX file and deletes the CSV files; the CSV files a kill has left are   *)
(* exported at the next start.                                             *)
(*                                                                         *)
(* PyOtherSide runs the calls of the GUI and the timers one after the      *)
(* other in one thread.  What that thread has still to do is the sequence  *)
(* steps, pairs <<name, which file or export>>.  Every step can fail and   *)
(* modRana can be killed between any two; a write that was under way then  *)
(* is one that has failed in part.  The file system keeps what was written.*)
(* The logs get different names, they are begun at different seconds.      *)
(***************************************************************************)
EXTENDS Naturals, Sequences, Functions

CONSTANTS MaxLogs,     \* logs begun
          MaxPoints,   \* positions recorded
          MaxCalls,    \* calls and answers that wait at a time
          MaxFailures  \* steps that fail

ASSUME TracklogAssumption ==
    /\ {MaxLogs, MaxPoints, MaxCalls} \subseteq Nat \ {0}
    /\ MaxFailures \in Nat

VARIABLES
    recording,  \* recording of the page
    paused,     \* paused of the page
    calls,      \* calls of the GUI that Python has not run
    answers,    \* callbacks of rWin.set() the GUI has not run
    process,    \* whether modRana runs
    enabled,    \* loggingEnabled
    halted,     \* loggingPaused
    log,        \* the current log, or the one that is being rescued
    points,     \* the points of its way in memory
    increment,  \* of both AppendOnlyWay objects, the points not yet saved
    buffer,     \* the data of a failed write that a file object still holds
    opened,     \* the AppendOnlyWay objects that have a file
    steps,      \* what the thread has still to do
    path,       \* the file that is exported to
    left,       \* the files glob has found and the rescue has not looked at
    disk,       \* the files of every log, and the points that can be read there
    started,    \* how many logs have been begun
    taken,      \* how many points have been recorded
    safe,       \* history: the points of every log that have been saved
    spoilt,     \* history: the logs an export of which has failed
    mishap,     \* history: a step has failed since modRana was started
    failures    \* steps that have failed

guiVars == <<recording, paused, calls, answers>>
stateVars == <<enabled, halted>>
wayVars == <<log, points, increment, buffer, opened>>
exportVars == <<path, left>>
countVars == <<started, taken>>
failVars == <<mishap, failures>>
history == <<safe, spoilt, failVars>>
vars == <<guiVars, process, stateVars, wayVars, steps, exportVars, disk, countVars, history>>

Logs == 1..MaxLogs
Points == 1..MaxPoints
Ways == {1, 2}

\* The files a log may have: the two temporary ones, the export and the
\* names the rescue goes to when there is one, the temporary ones moved away.
Csv == <<"csv-1", "csv-2">>
Gpx == <<"gpx-1", "gpx-2">>
Old == <<"old-1", "old-2">>
Kinds == Range(Csv) \cup Range(Gpx) \cup Range(Old) \cup {"gpx"}

Has(l, kind) == kind \in DOMAIN disk[l]

\* Files fs with ps as what can be read in one kind, and without a kind.
With(fs, kind, ps) == [k \in DOMAIN fs \cup {kind} |-> IF k = kind THEN ps ELSE fs[k]]
Without(fs, kind) == Restrict(fs, DOMAIN fs \ {kind})

Write(l, kind, ps) == disk' = [disk EXCEPT ![l] = With(@, kind, ps)]
Remove(l, kind) == disk' = [disk EXCEPT ![l] = Without(@, kind)]

\* The operating system fails, or does not fail, a step.
Succeeds == UNCHANGED failVars
Fails == failures < MaxFailures /\ failures' = failures + 1 /\ mishap' = TRUE

NoPoints == [f \in Ways |-> {}]

\* What there is in memory when modRana begins.
Fresh ==
    /\ recording = FALSE /\ paused = FALSE /\ calls = <<>> /\ answers = 0
    /\ enabled = FALSE /\ halted = FALSE
    /\ log = 0 /\ points = {} /\ increment = NoPoints /\ buffer = NoPoints /\ opened = {}
    /\ path = "gpx" /\ left = {}

Init ==
    /\ Fresh
    /\ process = "off"
    /\ steps = <<>>
    /\ disk = [l \in Logs |-> [kind \in {} |-> {}]]
    /\ started = 0 /\ taken = 0
    /\ safe = [l \in Logs |-> {}] /\ spoilt = {}
    /\ mishap = FALSE /\ failures = 0

-----------------------------------------------------------------------------
(* The page of the GUI.                                                    *)

CanCall == process = "up" /\ Len(calls) + answers < MaxCalls
Call(name) == calls' = Append(calls, name)

\* The button start or stop.  A start first sets the name of the log (and saves
\* the options, a second call that is left out) and goes on in a callback;
\* paused is reset, which calls nothing any more.
ClickRecord ==
    /\ CanCall
    /\ recording' = ~recording
    /\ Call(IF recording THEN "stop" ELSE "set-name")
    /\ paused' = FALSE
    /\ UNCHANGED <<answers, process, stateVars, wayVars, steps, exportVars, disk, countVars,
                   history>>

\* The button pause or unpause, there while the page shows a recording.
ClickPause ==
    /\ CanCall
    /\ recording
    /\ paused' = ~paused
    /\ Call(IF paused THEN "unpause" ELSE "pause")
    /\ UNCHANGED <<recording, answers, process, stateVars, wayVars, steps, exportVars, disk,
                   countVars, history>>

\* The callback of rWin.set() calls startRecording(), whatever has been
\* clicked since.
NameSet ==
    /\ process = "up"
    /\ answers > 0
    /\ answers' = answers - 1
    /\ Call("start")
    /\ UNCHANGED <<recording, paused, process, stateVars, wayVars, steps, exportVars, disk,
                   countVars, history>>

\* The window is closed: the last call is the one to shut down.
Close ==
    /\ process = "up"
    /\ process' = "closing"
    /\ Call("shutdown")
    /\ UNCHANGED <<recording, paused, answers, stateVars, wayVars, steps, exportVars, disk,
                   countVars, history>>


-----------------------------------------------------------------------------
(* The calls, run in their order.                                          *)

Idle == steps = <<>>
Then(first) == steps' = first \o Tail(steps)
Done == Then(<<>>)
Doing(name, f) == ~Idle /\ Head(steps) = <<name, f>>

Flushes == << <<"flush", 1>>, <<"flush", 2>> >>
Stop == Flushes \o << <<"create", 1>>, <<"delete", 1>>, <<"delete", 2>>, <<"stopped", 0>> >>

Serving(name) ==
    /\ Idle
    /\ calls # <<>> /\ Head(calls) = name
    /\ calls' = Tail(calls)
    /\ UNCHANGED <<recording, paused, process, exportVars, disk, taken, history>>

SetName ==
    /\ Serving("set-name")
    /\ answers' = answers + 1
    /\ UNCHANGED <<stateVars, wayVars, steps, started>>

\* Mutant: a second start stops the recording.
StartToggles ==
    /\ Serving("start")
    /\ IF enabled
       THEN /\ steps' = Stop /\ path' = "gpx"
            /\ UNCHANGED <<enabled, wayVars, started>>
       ELSE /\ started < MaxLogs
            /\ started' = started + 1
            /\ enabled' = TRUE
            /\ log' = started' /\ points' = {}
            /\ increment' = NoPoints /\ buffer' = NoPoints /\ opened' = {}
            /\ steps' = << <<"open", 1>>, <<"open", 2>> >>
    /\ UNCHANGED <<answers, halted>>

\* startLogging(): nothing when a log is recorded already, otherwise a new log
\* with two new ways; loggingPaused is left as it is.
Start ==
    /\ Serving("start")
    /\ IF enabled
       THEN UNCHANGED <<enabled, wayVars, steps, started>>
       ELSE /\ started < MaxLogs
            /\ started' = started + 1
            /\ enabled' = TRUE
            /\ log' = started' /\ points' = {}
            /\ increment' = NoPoints /\ buffer' = NoPoints /\ opened' = {}
            /\ steps' = << <<"open", 1>>, <<"open", 2>> >>
    /\ UNCHANGED <<answers, halted>>

\* stopLogging().  Without a log it raises an exception, having changed nothing.
StopLogging ==
    /\ Serving("stop")
    /\ steps' = IF enabled THEN Stop ELSE <<>>
    /\ UNCHANGED <<answers, stateVars, wayVars, started>>

\* pauseLogging() and unPauseLogging(): only an error is logged without a log.
Pause(name) ==
    /\ Serving(name)
    /\ steps' = IF enabled THEN Append(Flushes, <<name, 0>>) ELSE <<>>
    /\ UNCHANGED <<answers, stateVars, wayVars, started>>

\* shutdown(): the log is stopped, then modRana ends.
LogShutdown ==
    /\ Serving("shutdown")
    /\ steps' = Append(IF enabled THEN Stop ELSE <<>>, <<"exit", 0>>)
    /\ UNCHANGED <<answers, stateVars, wayVars, started>>

-----------------------------------------------------------------------------
(* The timers, which there are while a log is recorded.                    *)

\* _updateLogCB(): the position is added to both ways, in memory.
UpdateLog ==
    /\ Idle /\ enabled /\ ~halted
    /\ taken < MaxPoints
    /\ taken' = taken + 1
    /\ points' = points \cup {taken'}
    /\ increment' = [f \in Ways |-> increment[f] \cup {taken'}]
    /\ UNCHANGED <<guiVars, process, stateVars, log, buffer, opened, steps, exportVars, disk,
                   started, history>>

\* _saveLogCB().
SaveLog ==
    /\ Idle /\ enabled /\ ~halted
    /\ steps' = Flushes
    /\ UNCHANGED <<guiVars, process, stateVars, wayVars, exportVars, disk, countVars, history>>

-----------------------------------------------------------------------------
(* The steps on an AppendOnlyWay and its file.                             *)

\* start_writing_csv(): if it fails there is no file or an empty one, and the
\* way goes on without.
Open(f) ==
    /\ Doing("open", f)
    /\ \/ /\ Write(log, Csv[f], {})
          /\ opened' = opened \cup {f}
          /\ Succeeds
       \/ /\ UNCHANGED disk \/ Write(log, Csv[f], {})
          /\ Fails
          /\ UNCHANGED opened
    /\ Done
    /\ UNCHANGED <<guiVars, process, stateVars, log, points, increment, buffer, exportVars,
                   countVars, safe, spoilt>>

\* The points that are in every temporary file of log l.
InAllFiles(l) ==
    {p \in Points : /\ \E f \in Ways : Csv[f] \in DOMAIN disk'[l]
                    /\ \A f \in Ways : Csv[f] \in DOMAIN disk'[l] => p \in disk'[l][Csv[f]]}

\* flush() empties the increment and then writes it.  When that fails, some of
\* the data has been written, some is written with the next increment and the
\* rest is lost, as is an increment without a file.  With the second file the
\* save is over.
Flush(f) ==
    /\ Doing("flush", f)
    /\ increment' = [increment EXCEPT ![f] = {}]
    /\ IF f \in opened
       THEN LET data == buffer[f] \cup increment[f]
                stored == disk[log][Csv[f]]
            IN \/ /\ Write(log, Csv[f], stored \cup data)
                  /\ buffer' = [buffer EXCEPT ![f] = {}]
                  /\ Succeeds
               \/ \E written \in SUBSET data, kept \in SUBSET data :
                     /\ Write(log, Csv[f], stored \cup written)
                     /\ buffer' = [buffer EXCEPT ![f] = kept \ written]
                     /\ Fails
       ELSE Succeeds /\ UNCHANGED <<disk, buffer>>
    /\ safe' = IF f = 2 THEN [safe EXCEPT ![log] = @ \cup InAllFiles(log)] ELSE safe
    /\ Done
    /\ UNCHANGED <<guiVars, process, stateVars, log, points, opened, exportVars, countVars,
                   spoilt>>

\* The flag that pauses the timers is set after the save.
SetPaused(name) ==
    /\ Doing(name, 0)
    /\ halted' = (name = "pause")
    /\ Done
    /\ UNCHANGED <<guiVars, process, enabled, wayVars, exportVars, disk, countVars, history>>

\* delete_file() closes the file, which writes what the file object still
\* holds, and removes it; the file stays if one of the two fails, and if the
\* way has none.
Delete(f) ==
    /\ Doing("delete", f)
    /\ IF f \in opened
       THEN \/ Remove(log, Csv[f]) /\ Succeeds
            \/ /\ \E written \in SUBSET buffer[f] :
                     Write(log, Csv[f], disk[log][Csv[f]] \cup written)
               /\ Fails
       ELSE Succeeds /\ UNCHANGED disk
    /\ opened' = opened \ {f}
    /\ Done
    /\ UNCHANGED <<guiVars, process, stateVars, log, points, increment, buffer, exportVars,
                   countVars, safe, spoilt>>

\* The end of stopLogging().
Stopped ==
    /\ Doing("stopped", 0)
    /\ enabled' = FALSE
    /\ log' = 0 /\ points' = {}
    /\ increment' = NoPoints /\ buffer' = NoPoints
    /\ Done
    /\ UNCHANGED <<guiVars, process, halted, opened, exportVars, disk, countVars, history>>

-----------------------------------------------------------------------------
(* save_to_GPX(), for stopLogging() and for the rescue.                    *)

\* stopLogging() tries the other way next; nobody tries again after that.
TryAgain(try) ==
    IF try = 1 THEN Then(<< <<"create", 2>> >>) /\ UNCHANGED spoilt
               ELSE Done /\ spoilt' = spoilt \cup {log}

\* The file is opened, what was there is gone.
CreateGpx(try) ==
    /\ Doing("create", try)
    /\ \/ /\ Write(log, path, {})
          /\ Then(<< <<"export", try>> >>)
          /\ Succeeds /\ UNCHANGED spoilt
       \/ /\ TryAgain(try)
          /\ Fails
          /\ UNCHANGED disk
    /\ UNCHANGED <<guiVars, process, stateVars, wayVars, exportVars, countVars, safe>>

\* The points of the way are written; a part of an XML tree cannot be read.
Export(try) ==
    /\ Doing("export", try)
    /\ \/ /\ Write(log, path, points)
          /\ safe' = IF enabled THEN [safe EXCEPT ![log] = @ \cup points] ELSE safe
          /\ Done
          /\ Succeeds /\ UNCHANGED spoilt
       \/ /\ TryAgain(try)
          /\ Fails
          /\ UNCHANGED <<disk, safe>>
    /\ UNCHANGED <<guiVars, process, stateVars, wayVars, exportVars, countVars>>

-----------------------------------------------------------------------------
(* _rescueLogs(), one pass over the primary files, one over the others.    *)

\* glob finds the temporary files of one kind.
Scan(f) ==
    /\ Doing("scan", f)
    /\ left' = {l \in Logs : Has(l, Csv[f])}
    /\ Then(<< <<"next", f>> >>)
    /\ UNCHANGED <<guiVars, process, stateVars, wayVars, path, disk, countVars, history>>

\* Mutant: the export always goes to the name the log would have had.
PlainPath(l, f) == "gpx"

\* The GPX file, or another one when there is one.
ExportPath(l, f) == IF Has(l, "gpx") THEN Gpx[f] ELSE "gpx"

\* The next file that was found.
Rescue(f) ==
    /\ Doing("next", f)
    /\ IF left = {}
       THEN /\ Done
            /\ log' = 0 /\ points' = {} /\ path' = "gpx"
            /\ UNCHANGED left
       ELSE /\ log' \in left
            /\ left' = left \ {log'}
            /\ Then(<< <<"read", f>>, <<"next", f>> >>)
            /\ UNCHANGED <<points, path>>
    /\ UNCHANGED <<guiVars, process, stateVars, increment, buffer, opened, disk, countVars,
                   history>>

\* from_csv(): the file is read into a way that is then exported, or it cannot
\* be opened, which raises.  Lines that cannot be parsed are left out.
Read(f) ==
    /\ Doing("read", f)
    /\ \/ /\ points' = disk[log][Csv[f]]
          /\ path' = ExportPath(log, f)
          /\ Then(<< <<"create", 2>>, <<"remove", f>> >>)
          /\ Succeeds
       \/ /\ Then(<< <<"move", f>> >>)
          /\ Fails
          /\ UNCHANGED <<points, path>>
    /\ UNCHANGED <<guiVars, process, stateVars, log, increment, buffer, opened, left, disk,
                   countVars, safe, spoilt>>

\* The file is removed without a look at what save_to_GPX() has returned, and
\* after a primary one the secondary one.
RemoveCsv(f) ==
    /\ Doing("remove", f)
    /\ \/ /\ Remove(log, Csv[f])
          /\ Then(IF f = 1 THEN << <<"remove-other", 2>> >> ELSE <<>>)
          /\ Succeeds
       \/ /\ Then(<< <<"move", f>> >>)
          /\ Fails
          /\ UNCHANGED disk
    /\ UNCHANGED <<guiVars, process, stateVars, wayVars, exportVars, countVars, safe, spoilt>>

\* If this fails the primary file is not there any more to be moved away.
RemoveOther ==
    /\ Doing("remove-other", 2)
    /\ \/ Remove(log, Csv[2]) /\ Succeeds
       \/ Has(log, Csv[2]) /\ Fails /\ UNCHANGED disk
    /\ Done
    /\ UNCHANGED <<guiVars, process, stateVars, wayVars, exportVars, countVars, safe, spoilt>>

\* A file that could not be rescued gets another name, unless that fails as
\* well (which is not counted, it goes with the failure before).
MoveCsv(f) ==
    /\ Doing("move", f)
    /\ \/ disk' = [disk EXCEPT ![log] = With(Without(@, Csv[f]), Old[f], @[Csv[f]])]
       \/ UNCHANGED disk
    /\ Done
    /\ UNCHANGED <<guiVars, process, stateVars, wayVars, exportVars, countVars, history>>

-----------------------------------------------------------------------------
(* The process.                                                            *)

\* Mutant: the secondary files are not looked for.
StartUpPrimary ==
    /\ process = "off"
    /\ process' = "up"
    /\ steps' = << <<"scan", 1>> >>
    /\ mishap' = FALSE
    /\ UNCHANGED <<guiVars, stateVars, wayVars, exportVars, disk, countVars, safe, spoilt,
                   failures>>

\* firstTime() rescues what is left.
StartUp ==
    /\ process = "off"
    /\ process' = "up"
    /\ steps' = << <<"scan", 1>>, <<"scan", 2>> >>
    /\ mishap' = FALSE
    /\ UNCHANGED <<guiVars, stateVars, wayVars, exportVars, disk, countVars, safe, spoilt,
                   failures>>

\* The memory of the process is gone.
End ==
    /\ process' = "off"
    /\ steps' = <<>>
    /\ recording' = FALSE /\ paused' = FALSE /\ calls' = <<>> /\ answers' = 0
    /\ enabled' = FALSE /\ halted' = FALSE
    /\ log' = 0 /\ points' = {} /\ increment' = NoPoints /\ buffer' = NoPoints /\ opened' = {}
    /\ path' = "gpx" /\ left' = {}
    /\ UNCHANGED <<disk, countVars, history>>

Exit == Doing("exit", 0) /\ End

KillProcess == process # "off" /\ End

Next ==
    \/ ClickRecord \/ ClickPause \/ NameSet \/ Close
    \/ SetName \/ Start \/ StopLogging \/ LogShutdown
    \/ \E name \in {"pause", "unpause"} : Pause(name) \/ SetPaused(name)
    \/ UpdateLog \/ SaveLog
    \/ \E f \in Ways : \/ Open(f) \/ Flush(f) \/ Delete(f)
                       \/ CreateGpx(f) \/ Export(f)
                       \/ Scan(f) \/ Rescue(f) \/ Read(f) \/ RemoveCsv(f) \/ MoveCsv(f)
    \/ Stopped \/ RemoveOther
    \/ StartUp \/ Exit \/ KillProcess

Spec == Init /\ [][Next]_vars

-----------------------------------------------------------------------------
(* Properties.                                                             *)

Names == {"open", "flush", "pause", "unpause", "create", "export", "delete", "stopped",
          "scan", "next", "read", "remove", "remove-other", "move", "exit"}

TypeOK ==
    /\ {recording, paused, enabled, halted, mishap} \subseteq BOOLEAN
    /\ calls \in Seq({"set-name", "start", "stop", "pause", "unpause", "shutdown"})
    /\ answers \in Nat /\ Len(calls) + answers <= MaxCalls + 1
    /\ process \in {"off", "up", "closing"}
    /\ log \in Logs \cup {0} /\ started \in 0..MaxLogs
    /\ points \in SUBSET Points /\ taken \in 0..MaxPoints
    /\ {increment, buffer} \subseteq [Ways -> SUBSET Points]
    /\ opened \subseteq {f \in Ways : enabled /\ Has(log, Csv[f])}
    /\ steps \in Seq(Names \X (Ways \cup {0}))
    /\ path \in Kinds /\ left \subseteq Logs
    /\ DOMAIN disk = Logs
    /\ \A l \in Logs : disk[l] \in [DOMAIN disk[l] -> SUBSET Points] /\ DOMAIN disk[l] \subseteq Kinds
    /\ failures \in 0..MaxFailures
    /\ safe \in [Logs -> SUBSET Points] /\ spoilt \subseteq Logs

\* A point is safe once it is in all the temporary files of its log, or was
\* exported by stopLogging(): through stops, kills at any step of recording, export and rescue,
\* failing reads, writes and removals, and any number of restarts, some file
\* of the log has it.  Logs an export of which has failed are excepted, for
\* then stopLogging() and _rescueLogs() delete the temporary files all the same.
SavedSurvives ==
    \A l \in Logs \ spoilt :
        safe[l] \subseteq UNION {disk[l][kind] : kind \in DOMAIN disk[l]}

\* Unless a step has failed since modRana was started, no temporary file is
\* left but those of the log that is being recorded: the rescue finds what any
\* kill has left, one in the middle of an earlier rescue included.
AllRescued ==
    process = "up" /\ Idle /\ ~mishap =>
        \A l \in Logs, f \in Ways : Has(l, Csv[f]) => enabled /\ l = log

Quiet == process = "up" /\ Idle /\ calls = <<>> /\ answers = 0

\* When all calls and callbacks have run and the page shows a recording, one
\* is in progress, in whatever order starts and stops have met the callbacks.
\* The types come with it.
ShownIsEnabled == TypeOK /\ (Quiet /\ recording => enabled)

\* When all calls and callbacks have run and the page shows "Recording a
\* tracklog" (TracksRecordPage.qml:17), positions are recorded.
ShownIsRecorded == Quiet /\ recording /\ ~paused => enabled /\ ~halted

=============================================================================
