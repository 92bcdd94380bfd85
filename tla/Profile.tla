------------------------------ MODULE Profile ------------------------------
(***************************************************************************)
(* The profile folder of a user through starts, upgrades and kills: the    *)
(* options file (Options) and the configuration files (core/configs.py).   *)
(*                                                                         *)
(* A start copies the default of each configuration file that is missing.  *)
(* If the options could be loaded and name another version than the one    *)
(* that runs, each configuration file whose revision is below that of the  *)
(* default is moved to a name that ends in its revision, and the default   *)
(* is copied in its place.  The version string is saved with the options,  *)
(* at shutdown, whether the upgrade was looked for and whether it worked.  *)
(*                                                                         *)
(* A file is copied in two steps, so that a kill can leave it empty.  The  *)
(* user edits the files while modRana is not running.                      *)
(***************************************************************************)
EXTENDS Options

CONSTANTS
    Configs,     \* map_config.conf, user_config.conf
    MaxVersion,  \* versions are installed in the order 1..MaxVersion
    DefaultRev,  \* [Configs -> [version -> revision of its default file]]
    MaxEdits     \* bound on edits by the user

ASSUME ProfileAssumption ==
    /\ MaxVersion \in Nat \ {0}
    /\ MaxEdits \in Nat
    /\ DefaultRev \in [Configs -> [1..MaxVersion -> Nat \ {0}]]
    /\ \A c \in Configs : \A v, w \in 1..MaxVersion :
          v <= w => DefaultRev[c][v] <= DefaultRev[c][w]

VARIABLES
    version,   \* VERSION_STRING of the installed modRana
    recorded,  \* the version string in options.bin; 0: another, or none
    conf,      \* the configuration files
    backups,   \* <config>_old_revision_<rev>: triples of config, rev and edit
    task,      \* what the start is doing with the configuration files
    todo,      \* files its loop has not come to yet
    copying,   \* the file shutil.copy() is to write, if any
    latest,    \* history: the user's latest edit of each file
    unchecked, \* history: files that could not be copied or upgraded, or were
               \* not looked at, since this version was installed
    edits      \* number of edits

profileVars == <<version, recorded, conf, backups, task, todo, copying, latest, unchecked,
                 edits>>
allVars == <<optionVars, profileVars>>

\* A file holds an edit of the user (numbered), the default or not all of it,
\* and a revision can be read from it (0: none).
Pristine == 0
Torn == MaxEdits + 1
NoFile == [edit |-> Torn, rev |-> 0, exists |-> FALSE]
Conf(e, r) == [edit |-> e, rev |-> r, exists |-> TRUE]
Rev(c) == DefaultRev[c][version]
Default(c) == Conf(Pristine, Rev(c))

ProfileInit ==
    /\ OptionsInit
    /\ version = 1
    /\ recorded = 0
    /\ conf = [c \in Configs |-> NoFile]
    /\ backups = {}
    /\ task = "none"
    /\ todo = {}
    /\ copying = {}
    /\ latest = [c \in Configs |-> NoFile]
    /\ unchecked = {}
    /\ edits = 0

-----------------------------------------------------------------------------
(* The user, while modRana does not run.                                   *)

Off == phase = "off" /\ task = "none"

Install ==
    /\ Off
    /\ version < MaxVersion
    /\ version' = version + 1
    /\ unchecked' = {}
    /\ UNCHANGED <<optionVars, recorded, conf, backups, task, todo, copying, latest, edits>>

\* The revision stays, unless the edit makes the file unreadable.
Edit(c, r) ==
    /\ Off
    /\ conf[c].exists
    /\ edits < MaxEdits
    /\ r \in {0, conf[c].rev}
    /\ edits' = edits + 1
    /\ conf' = [conf EXCEPT ![c] = Conf(edits + 1, r)]
    /\ latest' = [latest EXCEPT ![c] = Conf(edits + 1, r)]
    /\ UNCHANGED <<optionVars, version, recorded, backups, task, todo, copying, unchecked>>

-----------------------------------------------------------------------------
(* Configs.                                                                *)

Begin ==
    /\ Off
    /\ task' = "checking"
    /\ todo' = Configs
    /\ UNCHANGED <<optionVars, version, recorded, conf, backups, copying, latest, unchecked,
                   edits>>

\* check_config_files_exist(), run by the constructor and by the upgrade.
CheckExists(c) ==
    /\ task \in {"checking", "rechecking"}
    /\ c \in todo
    /\ copying = {}
    /\ todo' = todo \ {c}
    /\ copying' = IF conf[c].exists THEN {} ELSE {c}
    /\ UNCHANGED <<optionVars, version, recorded, conf, backups, task, latest, unchecked, edits>>

\* shutil.copy() creates the file ...
Create(c) ==
    /\ c \in copying
    /\ ~conf[c].exists
    /\ conf' = [conf EXCEPT ![c] = Conf(Torn, 0)]
    /\ UNCHANGED <<optionVars, version, recorded, backups, task, todo, copying, latest,
                   unchecked, edits>>

\* ... and fills it.
Fill(c) ==
    /\ c \in copying
    /\ conf[c].exists
    /\ conf' = [conf EXCEPT ![c] = Default(c)]
    /\ copying' = {}
    /\ UNCHANGED <<optionVars, version, recorded, backups, task, todo, latest, unchecked, edits>>

\* It raises, which is logged: nothing was created, or less than the default
\* was written, with the line of the revision or without it.
CopyFails(c) ==
    /\ c \in copying
    /\ \/ ~conf[c].exists /\ UNCHANGED conf
       \/ /\ conf[c].exists
          /\ \E r \in {0, Rev(c)} : conf' = [conf EXCEPT ![c] = Conf(Torn, r)]
    /\ copying' = {}
    /\ unchecked' = unchecked \cup {c}
    /\ UNCHANGED <<optionVars, version, recorded, backups, task, todo, latest, edits>>

\* Mutant: the version is recorded before the upgrade.
LoadAndRecord ==
    /\ task = "checking" /\ todo = {} /\ copying = {}
    /\ Load
    /\ IF options.whole /\ recorded # version
       THEN /\ task' = "rechecking"
            /\ todo' = Configs
            /\ recorded' = version
            /\ UNCHANGED unchecked
       ELSE /\ task' = "done"
            /\ UNCHANGED <<todo, recorded>>
            /\ unchecked' = IF options.whole THEN unchecked ELSE Configs
    /\ UNCHANGED <<version, conf, backups, copying, latest, edits>>

\* The options are loaded; if they could not be, nothing is upgraded.
LoadOptions ==
    /\ task = "checking" /\ todo = {} /\ copying = {}
    /\ Load
    /\ IF options.whole /\ recorded # version
       THEN /\ task' = "rechecking"
            /\ todo' = Configs
            /\ UNCHANGED unchecked
       ELSE /\ task' = "done"
            /\ UNCHANGED todo
            /\ unchecked' = IF options.whole THEN unchecked ELSE Configs
    /\ UNCHANGED <<version, recorded, conf, backups, copying, latest, edits>>

Rechecked ==
    /\ task = "rechecking" /\ todo = {} /\ copying = {}
    /\ task' = "upgrading"
    /\ todo' = Configs
    /\ UNCHANGED <<optionVars, version, recorded, conf, backups, copying, latest, unchecked,
                   edits>>

Outdated(c) == Rev(c) > conf[c].rev

UpToDate(c) ==
    /\ task = "upgrading" /\ copying = {}
    /\ c \in todo
    /\ ~Outdated(c)
    /\ todo' = todo \ {c}
    /\ UNCHANGED <<optionVars, version, recorded, conf, backups, task, copying, latest,
                   unchecked, edits>>

\* Mutant: the name does not tell the revision.
RenamedPlainly(c) == {b \in backups : b[1] # c} \cup {<<c, 0, conf[c].edit>>}

\* The file takes the name of its revision, over another one of that name.
Renamed(c) ==
    {b \in backups : b[1] # c \/ b[2] # conf[c].rev} \cup {<<c, conf[c].rev, conf[c].edit>>}

MoveAway(c) ==
    /\ task = "upgrading" /\ copying = {}
    /\ c \in todo
    /\ Outdated(c)
    /\ conf[c].exists
    /\ backups' = Renamed(c)
    /\ conf' = [conf EXCEPT ![c] = NoFile]
    /\ copying' = {c}
    /\ todo' = todo \ {c}
    /\ UNCHANGED <<optionVars, version, recorded, task, latest, unchecked, edits>>

\* shutil.move() raises: always if there is no file.
MoveFails(c) ==
    /\ task = "upgrading" /\ copying = {}
    /\ c \in todo
    /\ Outdated(c)
    /\ todo' = todo \ {c}
    /\ unchecked' = unchecked \cup {c}
    /\ UNCHANGED <<optionVars, version, recorded, conf, backups, task, copying, latest, edits>>

Upgraded ==
    /\ task = "upgrading" /\ todo = {} /\ copying = {}
    /\ task' = "done"
    /\ UNCHANGED <<optionVars, version, recorded, conf, backups, todo, copying, latest,
                   unchecked, edits>>

-----------------------------------------------------------------------------
(* The options meanwhile.                                                  *)

Run ==
    /\ task = "done"
    /\ \/ Restore
       \/ \E w \in Watchers : Watch(w)
       \/ \E k \in Keys, x \in Values : Set(k, x)
       \/ \E m \in Modes \ {mode} : SetMode(m)
    /\ UNCHANGED profileVars

\* shutdown(): the version string is in the file with the other options.
Shutdown ==
    /\ \/ BeginSave /\ recorded' = 0 /\ UNCHANGED task
       \/ EndSave /\ recorded' = version /\ task' = "none"
    /\ UNCHANGED <<version, conf, backups, todo, copying, latest, unchecked, edits>>

Kill ==
    /\ task # "none"
    /\ \/ Die
       \/ phase = "off" /\ UNCHANGED optionVars
    /\ task' = "none"
    /\ todo' = {}
    /\ copying' = {}
    /\ UNCHANGED <<version, recorded, conf, backups, latest, unchecked, edits>>

ProfileNext ==
    \/ Install
    \/ \E c \in Configs :
          \/ \E r \in {0, conf[c].rev} : Edit(c, r)
          \/ CheckExists(c)
          \/ Create(c)
          \/ Fill(c)
          \/ CopyFails(c)
          \/ UpToDate(c)
          \/ MoveAway(c)
          \/ MoveFails(c)
    \/ Begin
    \/ LoadOptions
    \/ Rechecked
    \/ Upgraded
    \/ Run
    \/ Shutdown
    \/ Kill

ProfileSpec == ProfileInit /\ [][ProfileNext]_allVars

-----------------------------------------------------------------------------
(* Properties.                                                             *)

Edits == 0..(MaxEdits + 1)
Files == [edit : Edits, rev : Nat, exists : BOOLEAN]

ProfileTypeOK ==
    /\ version \in 1..MaxVersion
    /\ recorded \in 0..MaxVersion
    /\ conf \in [Configs -> Files]
    /\ backups \subseteq Configs \X Nat \X Edits
    /\ task \in {"none", "checking", "rechecking", "upgrading", "done"}
    /\ todo \subseteq Configs
    /\ copying \subseteq Configs
    /\ latest \in [Configs -> Files]
    /\ unchecked \subseteq Configs
    /\ edits \in 0..MaxEdits

\* "rename installed config as the user might have modified it" (configs.py):
\* the user's latest edit of a file is in the file or in some file it was
\* renamed to, whatever upgrades, failures and kills came since.  Edits that
\* leave the file without a readable revision are excepted: torn files have
\* revision 0 as well, and take the place of such a backup.
EditSurvives ==
    /\ ProfileTypeOK
    /\ \A c \in Configs :
          latest[c].rev > 0 => \/ conf[c].edit = latest[c].edit
                               \/ \E b \in backups : b[1] = c /\ b[3] = latest[c].edit

\* The version string tells that the configuration files were upgraded: once
\* it is recorded none is missing, empty or older than the default of that
\* version, whatever kills came before.  Excepted are files whose copy or
\* upgrade failed, or was skipped because the options could not be loaded,
\* which no later start makes up for, and the user's unreadable edits.
UpgradedWhenRecorded ==
    recorded = version =>
        \A c \in Configs \ unchecked :
            /\ conf[c].exists
            /\ \/ conf[c].rev >= Rev(c)
               \/ conf[c] = latest[c] /\ conf[c].rev = 0

=============================================================================
