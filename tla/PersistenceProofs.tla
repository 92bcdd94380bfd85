------------------------- MODULE PersistenceProofs -------------------------
(***************************************************************************)
(* Proofs about the two components that must find on disk what they have   *)
(* left there.                                                             *)
(*                                                                         *)
(* Profile, for any options, modes, values, watchers, configuration files, *)
(* versions and default revisions: what was saved is there at the next     *)
(* start, watchers know the value of their option, a readable edit of the  *)
(* user survives, and a recorded version means upgraded files.             *)
(*                                                                         *)
(* Tracklog, for any number of logs, points, calls and failures: a saved   *)
(* point stays in some file of its log, the rescue leaves nothing behind,  *)
(* and the page shows a recording only while there is one.  The invariant  *)
(* says by a class of plans what the thread has still to do, and by the    *)
(* class what is on disk at that moment.                                   *)
(***************************************************************************)
EXTENDS Profile, Tracklog, SequenceTheorems, TLAPS

-----------------------------------------------------------------------------
(* Options.                                                                *)

\* What ties the memory to options.bin while modRana runs.
Loaded ==
    /\ saved = Answers(options.value, options.modified)
    /\ phase \in {"starting", "up"} =>
          /\ pending = options.modified
          /\ \A k \in Keys \ touched : value[k] = options.value[k]
    /\ phase = "starting" => modified = Unmodified
    /\ phase = "up" => modified = pending

\* What a watcher knows before the modifiers are in force.
Known ==
    /\ phase \in {"off", "starting"} => modified = Unmodified
    /\ phase = "off" => \A w \in Watchers : told[w] = NotTold
    /\ phase \in {"starting", "up"} =>
          \A w \in Watchers \ unaware :
              told[w] # NotTold => told[w] = Get(value, modified, KeyOf[w], mode)

OptionsInv == OptionsTypeOK /\ Loaded /\ Known

OptionsStep ==
    \/ Load
    \/ Restore
    \/ \E w \in Watchers : Watch(w)
    \/ \E k \in Keys, x \in Values : Set(k, x)
    \/ \E m \in Modes : SetMode(m)
    \/ BeginSave
    \/ EndSave
    \/ Die
    \/ UNCHANGED optionVars

\* get() returns a value or nothing.
LEMMA GetType ==
    ASSUME NEW v \in Slotted, NEW x \in [Keys -> SUBSET Modes], NEW k \in Keys, NEW m \in Modes
    PROVE  Get(v, x, k, m) \in Values \cup {NoValue}
  <1>1. Slot(x, k, m) \in Slots
    BY DEF Slot, Slots
  <1> QED
    BY <1>1 DEF Get, Slotted

LEMMA AnswersType ==
    ASSUME NEW v \in Slotted, NEW x \in [Keys -> SUBSET Modes]
    PROVE  Answers(v, x) \in [Keys -> [Modes -> Values \cup {NoValue}]]
  BY GetType DEF Answers

LEMMA EmptyTypes == Empty \in Slotted /\ Unmodified \in [Keys -> SUBSET Modes]
  BY DEF Empty, Slotted, Unmodified

LEMMA OptionsStart == OptionsInit => OptionsInv
  <1> SUFFICES ASSUME OptionsInit PROVE OptionsInv
    OBVIOUS
  <1> USE OptionsAssumption, EmptyTypes
  <1>1. options \in [whole : BOOLEAN, value : Slotted, mode : Modes,
                     modified : [Keys -> SUBSET Modes]]
    <2>1. CASE options = Unreadable
      BY <2>1 DEF Unreadable, File
    <2>2. CASE options \in OldFile
      BY <2>2, OldFileAssumption
    <2> QED
      BY <2>1, <2>2 DEF OptionsInit
  <1>2. saved \in [Keys -> [Modes -> Values \cup {NoValue}]]
    BY <1>1, AnswersType DEF OptionsInit
  <1>3. sets \in 0..MaxSets
    BY DEF OptionsInit
  <1> QED
    BY <1>1, <1>2, <1>3 DEF OptionsInit, OptionsInv, OptionsTypeOK, Loaded, Known

\* The types, and what a watcher is told is a value it may be told.
LEMMA OptionsTypeStep == OptionsInv /\ OptionsStep => OptionsTypeOK'
  <1> SUFFICES ASSUME OptionsInv, OptionsStep PROVE OptionsTypeOK'
    OBVIOUS
  <1> USE OptionsAssumption, EmptyTypes
  <1>0. OptionsTypeOK
    BY DEF OptionsInv
  <1> DEFINE Told == [Watchers -> Values \cup {NoValue, NotTold}]
  <1>1. \A v \in Slotted, due, called \in SUBSET Watchers, m \in Modes :
           Notify(due, called, v, m) => told' \in Told /\ unaware' \in SUBSET Watchers
    <2> SUFFICES ASSUME NEW v \in Slotted, NEW due \in SUBSET Watchers,
                        NEW called \in SUBSET Watchers, NEW m \in Modes,
                        Notify(due, called, v, m)
                 PROVE  told' \in Told /\ unaware' \in SUBSET Watchers
      OBVIOUS
    <2>1. \A w \in Watchers : Get(v, modified, KeyOf[w], m) \in Values \cup {NoValue}
      BY <1>0, GetType DEF OptionsTypeOK
    <2> QED
      BY <2>1, <1>0 DEF Notify, OptionsTypeOK
  <1>2. CASE Load
    BY <1>2, <1>0 DEF Load, OptionsTypeOK
  <1>3. CASE Restore
    BY <1>3, <1>0 DEF Restore, OptionsTypeOK
  <1>4. ASSUME NEW w \in Watchers, Watch(w) PROVE OptionsTypeOK'
    <2>1. Get(value, modified, KeyOf[w], mode) \in Values \cup {NoValue}
      BY <1>0, GetType DEF OptionsTypeOK
    <2> QED
      BY <1>4, <2>1, <1>0 DEF Watch, OptionsTypeOK
  <1>5. ASSUME NEW k \in Keys, NEW x \in Values, Set(k, x) PROVE OptionsTypeOK'
    <2>1. Slot(modified, k, mode) \in Slots
      BY <1>0 DEF OptionsTypeOK, Slot, Slots
    <2>2. value' \in Slotted
      BY <1>5, <2>1, <1>0 DEF Set, Slotted, OptionsTypeOK
    <2>3. told' \in Told /\ unaware' \in SUBSET Watchers
      BY <1>5, <1>1, <2>2, <1>0 DEF Set, Walks, Due, OptionsTypeOK
    <2> QED
      BY <1>5, <2>2, <2>3, <1>0 DEF Set, OptionsTypeOK
  <1>6. ASSUME NEW m \in Modes, SetMode(m) PROVE OptionsTypeOK'
    <2>1. Due(ChangedBy(m)) \in SUBSET Watchers
      BY DEF Due
    <2>2. told' \in Told /\ unaware' \in SUBSET Watchers
      BY <1>6, <1>1, <2>1, <1>0 DEF SetMode, OptionsTypeOK
    <2> QED
      BY <1>6, <2>2, <1>0 DEF SetMode, OptionsTypeOK
  <1>7. CASE BeginSave
    <2>1. Answers(Empty, Unmodified) \in [Keys -> [Modes -> Values \cup {NoValue}]]
      BY AnswersType
    <2> QED
      BY <1>7, <2>1, <1>0 DEF BeginSave, memoryVars, Unreadable, File, OptionsTypeOK
  <1>8. CASE EndSave
    <2>1. Answers(value, modified) \in [Keys -> [Modes -> Values \cup {NoValue}]]
      BY <1>0, AnswersType DEF OptionsTypeOK
    <2> QED
      BY <1>8, <2>1, <1>0 DEF EndSave, Saved, File, Forget, OptionsTypeOK
  <1>9. CASE Die
    BY <1>9, <1>0 DEF Die, Forget, OptionsTypeOK
  <1>10. CASE UNCHANGED optionVars
    BY <1>10, <1>0 DEF optionVars, memoryVars, OptionsTypeOK
  <1> QED
    BY <1>2, <1>3, <1>4, <1>5, <1>6, <1>7, <1>8, <1>9, <1>10 DEF OptionsStep

\* An option nobody has set has the value it had in options.bin.
LEMMA LoadedStep == OptionsInv /\ OptionsStep => Loaded'
  <1> SUFFICES ASSUME OptionsInv, OptionsStep PROVE Loaded'
    OBVIOUS
  <1> USE OptionsAssumption
  <1>0. OptionsTypeOK /\ Loaded /\ (phase = "off" => modified = Unmodified)
    BY DEF OptionsInv, Known
  <1>1. CASE Load
    BY <1>1, <1>0 DEF Load, Loaded
  <1>2. CASE Restore
    BY <1>2, <1>0 DEF Restore, Loaded
  <1>3. ASSUME NEW w \in Watchers, Watch(w) PROVE Loaded'
    BY <1>3, <1>0 DEF Watch, Loaded
  <1>4. ASSUME NEW k \in Keys, NEW x \in Values, Set(k, x) PROVE Loaded'
    <2>1. \A j \in Keys \ {k} : value'[j] = value[j]
      BY <1>4, <1>0 DEF Set, OptionsTypeOK, Slotted
    <2> QED
      BY <1>4, <2>1, <1>0 DEF Set, Loaded
  <1>5. ASSUME NEW m \in Modes, SetMode(m) PROVE Loaded'
    BY <1>5, <1>0 DEF SetMode, Loaded
  <1>6. CASE BeginSave
    BY <1>6, <1>0 DEF BeginSave, Loaded, Unreadable, File
  <1>7. CASE EndSave
    BY <1>7, <1>0 DEF EndSave, Loaded, Saved, File
  <1>8. CASE Die
    BY <1>8, <1>0 DEF Die, Loaded
  <1>9. CASE UNCHANGED optionVars
    BY <1>9, <1>0 DEF optionVars, memoryVars, Loaded
  <1> QED
    BY <1>1, <1>2, <1>3, <1>4, <1>5, <1>6, <1>7, <1>8, <1>9 DEF OptionsStep

\* Watchers are due for every option whose value a step can change, and those that
\* are not reached are counted as unaware.
LEMMA KnownStep == OptionsInv /\ OptionsStep => Known'
  <1> SUFFICES ASSUME OptionsInv, OptionsStep PROVE Known'
    OBVIOUS
  <1> USE OptionsAssumption
  <1>0. OptionsTypeOK /\ Loaded /\ Known
    BY DEF OptionsInv
  <1>1. CASE Load
    BY <1>1, <1>0 DEF Load, Known
  <1>2. CASE Restore
    <2>1. \A w \in Watchers \ unaware' :
             told[w] # NotTold =>
                Get(value, pending, KeyOf[w], mode) = Get(value, modified, KeyOf[w], mode)
      BY <1>2, <1>0 DEF Restore, Loaded, Unmodified, Get, Slot
    <2> QED
      BY <1>2, <2>1, <1>0 DEF Restore, Known
  <1>3. ASSUME NEW w \in Watchers, Watch(w) PROVE Known'
    BY <1>3, <1>0 DEF Watch, Known, OptionsTypeOK
  <1>4. ASSUME NEW k \in Keys, NEW x \in Values, Set(k, x) PROVE Known'
    <2>1. \A w \in Watchers : KeyOf[w] # k =>
             Get(value', modified, KeyOf[w], mode) = Get(value, modified, KeyOf[w], mode)
      BY <1>4, <1>0 DEF Set, Get, OptionsTypeOK, Slotted
    <2>2. PICK called \in SUBSET Due({k}) : Notify(Due({k}), called, value', mode)
      BY <1>4 DEF Set, Walks
    <2>3. \A w \in Watchers :
             told'[w] = IF w \in called THEN Get(value', modified, KeyOf[w], mode) ELSE told[w]
      BY <2>2 DEF Notify
    <2>4. \A w \in Watchers \ unaware' :
             w \in called \/ (w \notin unaware /\ (told[w] # NotTold => KeyOf[w] # k))
      BY <2>2 DEF Notify, Due
    <2>5. \A w \in Watchers : told'[w] # NotTold => told[w] # NotTold
      BY <2>3, <2>2 DEF Due
    <2>6. /\ phase' = phase /\ modified' = modified /\ mode' = mode
          /\ phase \in {"starting", "up"}
      BY <1>4 DEF Set
    <2>7. \A w \in Watchers \ unaware' : told'[w] # NotTold =>
             told'[w] = Get(value', modified', KeyOf[w], mode')
      BY <2>1, <2>3, <2>4, <2>5, <2>6, <1>0 DEF Known
    <2> QED
      BY <2>4, <2>6, <2>7, <1>0 DEF Known
  <1>5. ASSUME NEW m \in Modes, SetMode(m) PROVE Known'
    <2>1. \A w \in Watchers : KeyOf[w] \notin ChangedBy(m) =>
             Get(value, modified, KeyOf[w], m) = Get(value, modified, KeyOf[w], mode)
      BY <1>0 DEF ChangedBy, Get, Slot, OptionsTypeOK
    <2>2. PICK called \in SUBSET Due(ChangedBy(m)) : Notify(Due(ChangedBy(m)), called, value, m)
      BY <1>5 DEF SetMode
    <2>3. \A w \in Watchers :
             told'[w] = IF w \in called THEN Get(value, modified, KeyOf[w], m) ELSE told[w]
      BY <2>2 DEF Notify
    <2>4. \A w \in Watchers \ unaware' :
             w \in called \/ (w \notin unaware /\ (told[w] # NotTold => KeyOf[w] \notin ChangedBy(m)))
      BY <2>2 DEF Notify, Due
    <2>5. \A w \in Watchers : told'[w] # NotTold => told[w] # NotTold
      BY <2>3, <2>2 DEF Due
    <2>6. /\ phase = "up" /\ phase' = "up"
          /\ mode' = m /\ value' = value /\ modified' = modified
      BY <1>5 DEF SetMode
    <2>7. \A w \in Watchers \ unaware' : told'[w] # NotTold =>
             told'[w] = Get(value', modified', KeyOf[w], mode')
      BY <2>1, <2>3, <2>4, <2>5, <2>6, <1>0 DEF Known
    <2> QED
      BY <2>6, <2>7 DEF Known
  <1>6. CASE BeginSave
    BY <1>6, <1>0 DEF BeginSave, memoryVars, Known
  <1>7. CASE EndSave
    BY <1>7, <1>0 DEF EndSave, Forget, Known
  <1>8. CASE Die
    BY <1>8, <1>0 DEF Die, Forget, Known
  <1>9. CASE UNCHANGED optionVars
    BY <1>9, <1>0 DEF optionVars, memoryVars, Known
  <1> QED
    BY <1>1, <1>2, <1>3, <1>4, <1>5, <1>6, <1>7, <1>8, <1>9 DEF OptionsStep

-----------------------------------------------------------------------------
(* A step of the profile is a step of the options, or leaves them alone.   *)

LEMMA ProfileIsOptions == [ProfileNext]_allVars => OptionsStep
  <1> SUFFICES ASSUME [ProfileNext]_allVars PROVE OptionsStep
    OBVIOUS
  <1>1. CASE LoadOptions
    BY <1>1 DEF LoadOptions, OptionsStep
  <1>2. CASE Run
    BY <1>2 DEF Run, OptionsStep
  <1>3. CASE Shutdown
    BY <1>3 DEF Shutdown, OptionsStep
  <1>4. CASE Kill
    BY <1>4 DEF Kill, OptionsStep
  <1>5. CASE Install \/ Begin \/ Rechecked \/ Upgraded
    BY <1>5 DEF Install, Begin, Rechecked, Upgraded, OptionsStep
  <1>6. ASSUME NEW c \in Configs,
               \/ \E r \in {0, conf[c].rev} : Edit(c, r)
               \/ CheckExists(c) \/ Create(c) \/ Fill(c) \/ CopyFails(c)
               \/ UpToDate(c) \/ MoveAway(c) \/ MoveFails(c)
        PROVE  OptionsStep
    BY <1>6 DEF Edit, CheckExists, Create, Fill, CopyFails, UpToDate, MoveAway, MoveFails,
                OptionsStep
  <1>7. CASE UNCHANGED allVars
    BY <1>7 DEF allVars, OptionsStep
  <1> QED
    BY <1>1, <1>2, <1>3, <1>4, <1>5, <1>6, <1>7 DEF ProfileNext

THEOREM OptionsInvariant == ProfileSpec => []OptionsInv
  <1>1. ProfileInit => OptionsInv
    BY OptionsStart DEF ProfileInit
  <1>2. OptionsInv /\ [ProfileNext]_allVars => OptionsInv'
    BY ProfileIsOptions, OptionsTypeStep, LoadedStep, KnownStep DEF OptionsInv
  <1> QED
    BY <1>1, <1>2, PTL DEF ProfileSpec

\* Watchers were last told what get() returns now, whichever options, modes,
\* modifiers and watchers there are (WatchersKnow).
THEOREM WatchersAreTold == ProfileSpec => []WatchersKnow
  <1>1. OptionsInv => WatchersKnow
    BY DEF OptionsInv, Known, WatchersKnow
  <1> QED
    BY <1>1, OptionsInvariant, PTL

\* Every option has the value it was saved with, in every mode, until it is
\* set (OptionsSurvive).
THEOREM SavedOptionsAreBack == ProfileSpec => []OptionsSurvive
  <1>1. OptionsInv => OptionsSurvive
    BY DEF OptionsInv, Loaded, OptionsSurvive, Answers, Get
  <1> QED
    BY <1>1, OptionsInvariant, PTL

-----------------------------------------------------------------------------
(* The configuration files.                                                *)

\* Which tasks the start can be at, and what a file is while it is copied.
TaskInv ==
    /\ task = "none" => phase = "off" /\ copying = {}
    /\ phase \in {"up", "saving"} => task = "done"
    /\ task = "checking" => phase = "off"
    /\ task = "done" => copying = {}
    /\ \A c \in copying : conf[c].edit = Torn
    /\ \A c, d \in copying : c = d
    /\ \A c \in Configs : conf[c].exists \/ conf[c] = NoFile

\* Where the latest readable edit is, and why no upgrade takes its name.
Kept(c) ==
    \/ conf[c] = latest[c]
    \/ /\ <<c, latest[c].rev, latest[c].edit>> \in backups
       /\ latest[c].rev < Rev(c)
       /\ conf[c].rev = 0 \/ conf[c].rev > latest[c].rev

EditInv ==
    \A c \in Configs : latest[c].rev > 0 => latest[c].edit # Torn /\ latest[c].exists /\ Kept(c)

\* A file that an upgrade has seen to.
Settled(c) ==
    /\ conf[c].exists
    /\ \/ conf[c].rev >= Rev(c)
       \/ conf[c] = latest[c] /\ conf[c].rev = 0

UpgradeInv ==
    /\ recorded = version \/ task = "done" => \A c \in Configs \ unchecked : Settled(c)
    /\ task = "upgrading" =>
          \A c \in Configs \ (unchecked \cup todo \cup copying) : Settled(c)
    /\ task \in {"rechecking", "upgrading"} => recorded # version
    /\ recorded = version => copying \subseteq unchecked
    /\ recorded <= version

ProfileInv == ProfileTypeOK /\ TaskInv /\ EditInv /\ UpgradeInv

LEMMA RevType ==
    ASSUME ProfileTypeOK, NEW c \in Configs
    PROVE  Rev(c) \in Nat /\ Rev(c) > 0
  BY ProfileAssumption DEF ProfileTypeOK, Rev

LEMMA ProfileStart == ProfileInit => ProfileInv
  <1> SUFFICES ASSUME ProfileInit PROVE ProfileInv
    OBVIOUS
  <1> USE ProfileAssumption DEF ProfileInit, OptionsInit
  <1>1. NoFile \in Files
    BY DEF NoFile, Files, Edits, Torn
  <1>2. ProfileTypeOK
    BY <1>1 DEF ProfileTypeOK
  <1>3. TaskInv /\ EditInv /\ UpgradeInv
    BY DEF TaskInv, EditInv, UpgradeInv, NoFile
  <1> QED
    BY <1>2, <1>3 DEF ProfileInv

LEMMA ProfileTypeStep == ProfileInv /\ [ProfileNext]_allVars => ProfileTypeOK'
  <1> SUFFICES ASSUME ProfileInv, [ProfileNext]_allVars PROVE ProfileTypeOK'
    OBVIOUS
  <1> USE ProfileAssumption
  <1>0. ProfileTypeOK
    BY DEF ProfileInv
  <1>1. \A e \in Edits, r \in Nat : Conf(e, r) \in Files
    BY DEF Conf, Files
  <1>2. /\ NoFile \in Files
        /\ Torn \in Edits /\ Pristine \in Edits
        /\ \A n \in 0..MaxEdits : n \in Edits
    BY DEF NoFile, Files, Edits, Torn, Pristine
  <1>3. \A c \in Configs : Rev(c) \in Nat
    BY <1>0, RevType
  <1>4. CASE Install
    BY <1>4, <1>0 DEF Install, ProfileTypeOK
  <1>5. ASSUME NEW c \in Configs, NEW r \in {0, conf[c].rev}, Edit(c, r) PROVE ProfileTypeOK'
    <2>1. r \in Nat
      BY <1>0 DEF ProfileTypeOK, Files
    <2>2. Conf(edits + 1, r) \in Files
      BY <1>5, <2>1, <1>0, <1>1, <1>2 DEF Edit, ProfileTypeOK
    <2> QED
      BY <1>5, <2>2, <1>0 DEF Edit, ProfileTypeOK
  <1>6. CASE Begin \/ LoadOptions \/ Rechecked \/ Upgraded
    BY <1>6, <1>0 DEF Begin, LoadOptions, Rechecked, Upgraded, ProfileTypeOK
  <1>7. ASSUME NEW c \in Configs, CheckExists(c) \/ UpToDate(c) \/ MoveFails(c)
        PROVE  ProfileTypeOK'
    BY <1>7, <1>0 DEF CheckExists, UpToDate, MoveFails, ProfileTypeOK
  <1>8. ASSUME NEW c \in Configs, Create(c) \/ Fill(c) \/ CopyFails(c) PROVE ProfileTypeOK'
    <2>1. /\ Conf(Torn, 0) \in Files
          /\ Default(c) \in Files
          /\ \A r \in {0, Rev(c)} : Conf(Torn, r) \in Files
      BY <1>1, <1>2, <1>3 DEF Default
    <2>2. conf' \in [Configs -> Files]
      BY <1>8, <2>1, <1>0 DEF Create, Fill, CopyFails, ProfileTypeOK
    <2> QED
      BY <1>8, <2>2, <1>0 DEF Create, Fill, CopyFails, ProfileTypeOK
  <1>9. ASSUME NEW c \in Configs, MoveAway(c) PROVE ProfileTypeOK'
    <2>1. <<c, conf[c].rev, conf[c].edit>> \in Configs \X Nat \X Edits
      BY <1>0 DEF ProfileTypeOK, Files
    <2>2. backups' \subseteq Configs \X Nat \X Edits
      BY <1>9, <2>1, <1>0 DEF MoveAway, Renamed, ProfileTypeOK
    <2> QED
      BY <1>9, <2>2, <1>0, <1>2 DEF MoveAway, ProfileTypeOK
  <1>10. CASE Run \/ UNCHANGED allVars
    BY <1>10, <1>0 DEF Run, allVars, profileVars, ProfileTypeOK
  <1>11. CASE Shutdown \/ Kill
    BY <1>11, <1>0 DEF Shutdown, Kill, ProfileTypeOK
  <1> QED
    BY <1>4, <1>5, <1>6, <1>7, <1>8, <1>9, <1>10, <1>11 DEF ProfileNext

LEMMA TaskStep == ProfileInv /\ [ProfileNext]_allVars => TaskInv'
  <1> SUFFICES ASSUME ProfileInv, [ProfileNext]_allVars PROVE TaskInv'
    OBVIOUS
  <1> USE ProfileAssumption
  <1>0. ProfileTypeOK /\ TaskInv
    BY DEF ProfileInv
  <1>1. CASE Install \/ Begin
    BY <1>1, <1>0 DEF Install, Begin, Off, optionVars, TaskInv
  <1>2. ASSUME NEW c \in Configs, NEW r \in {0, conf[c].rev}, Edit(c, r) PROVE TaskInv'
    BY <1>2, <1>0 DEF Edit, Off, Conf, optionVars, ProfileTypeOK, TaskInv
  <1>3. CASE LoadOptions
    BY <1>3, <1>0 DEF LoadOptions, Load, TaskInv
  <1>4. CASE Rechecked \/ Upgraded
    BY <1>4, <1>0 DEF Rechecked, Upgraded, optionVars, TaskInv
  <1>5. ASSUME NEW c \in Configs, CheckExists(c) PROVE TaskInv'
    <2>1. /\ UNCHANGED <<phase, conf, task>>
          /\ task \in {"checking", "rechecking"}
          /\ copying' = {} \/ (copying' = {c} /\ ~conf[c].exists)
      <3>1. conf[c].exists \in BOOLEAN
        BY <1>0 DEF ProfileTypeOK, Files
      <3>2. copying' = IF conf[c].exists THEN {} ELSE {c}
        BY <1>5 DEF CheckExists
      <3>3. copying' = {} \/ (copying' = {c} /\ ~conf[c].exists)
        BY <3>1, <3>2
      <3>4. UNCHANGED <<phase, conf, task>> /\ task \in {"checking", "rechecking"}
        BY <1>5, Zenon DEF CheckExists, optionVars
      <3> QED
        BY <3>3, <3>4
    <2>2. \A d \in copying' : conf[d].edit = Torn
      BY <2>1, <1>0 DEF TaskInv, NoFile
    <2> QED
      BY <2>1, <2>2, <1>0 DEF TaskInv
  <1>6. ASSUME NEW c \in Configs, Create(c) \/ Fill(c) \/ CopyFails(c) PROVE TaskInv'
    <2>1. /\ UNCHANGED <<phase, task>>
          /\ copying' \subseteq copying
          /\ \A d \in Configs \ {c} : conf'[d] = conf[d]
          /\ conf'[c].exists \/ conf'[c] = conf[c]
          /\ c \in copying' => conf'[c].edit = Torn
      BY <1>6, <1>0 DEF Create, Fill, CopyFails, Conf, Default, optionVars, ProfileTypeOK
    <2>2. \A d \in copying' : conf'[d].edit = Torn
      BY <2>1, <1>0 DEF TaskInv, ProfileTypeOK
    <2>3. \A d \in Configs : conf'[d].exists \/ conf'[d] = NoFile
      BY <2>1, <1>0 DEF TaskInv
    <2> QED
      BY <2>1, <2>2, <2>3, <1>0 DEF TaskInv
  <1>7. ASSUME NEW c \in Configs, UpToDate(c) \/ MoveFails(c) PROVE TaskInv'
    BY <1>7, <1>0 DEF UpToDate, MoveFails, optionVars, TaskInv
  <1>8. ASSUME NEW c \in Configs, MoveAway(c) PROVE TaskInv'
    BY <1>8, <1>0 DEF MoveAway, NoFile, optionVars, ProfileTypeOK, TaskInv
  <1>9. CASE Run
    <2>1. phase' \in {phase, "up"}
      BY <1>9 DEF Run, Restore, Watch, Set, SetMode
    <2> QED
      BY <1>9, <2>1, <1>0 DEF Run, profileVars, TaskInv
  <1>10. CASE Shutdown
    BY <1>10, <1>0 DEF Shutdown, BeginSave, EndSave, TaskInv
  <1>11. CASE Kill
    BY <1>11, <1>0 DEF Kill, Die, optionVars, TaskInv
  <1>12. CASE UNCHANGED allVars
    BY <1>12, <1>0 DEF allVars, optionVars, profileVars, TaskInv
  <1> QED
    BY <1>1, <1>2, <1>3, <1>4, <1>5, <1>6, <1>7, <1>8, <1>9, <1>10, <1>11, <1>12 DEF ProfileNext

\* What is written in the place of an edit that was renamed has no revision
\* or a higher one, so that it never takes its name.
LEMMA EditStep == ProfileInv /\ [ProfileNext]_allVars => EditInv'
  <1> SUFFICES ASSUME ProfileInv, [ProfileNext]_allVars PROVE EditInv'
    OBVIOUS
  <1> USE ProfileAssumption
  <1>0. ProfileTypeOK /\ TaskInv /\ EditInv
    BY DEF ProfileInv
  <1>1. CASE UNCHANGED <<version, conf, backups, latest>>
    BY <1>1, <1>0 DEF EditInv, Kept, Rev
  <1>2. CASE Install
    <2>1. \A c \in Configs : Rev(c) <= Rev(c)' /\ Rev(c) \in Nat /\ Rev(c)' \in Nat
      BY <1>2, <1>0 DEF Install, Rev, ProfileTypeOK
    <2>2. \A c \in Configs : latest[c].rev \in Nat
      BY <1>0 DEF ProfileTypeOK, Files
    <2>3. \A c \in Configs : Kept(c) => Kept(c)'
      BY <1>2, <2>1, <2>2 DEF Install, Kept
    <2> QED
      BY <1>2, <2>3, <1>0 DEF Install, EditInv
  <1>3. ASSUME NEW c \in Configs, NEW r \in {0, conf[c].rev}, Edit(c, r) PROVE EditInv'
    <2>1. /\ conf'[c] = latest'[c] /\ latest'[c].exists
          /\ latest'[c].edit = edits + 1
      BY <1>3, <1>0 DEF Edit, Conf, ProfileTypeOK
    <2>2. latest'[c].edit # Torn
      BY <1>3, <2>1, <1>0 DEF Edit, Torn, ProfileTypeOK
    <2>3. \A d \in Configs \ {c} : conf'[d] = conf[d] /\ latest'[d] = latest[d]
      BY <1>3, <1>0 DEF Edit, ProfileTypeOK
    <2>4. UNCHANGED <<version, backups>>
      BY <1>3 DEF Edit
    <2> QED
      BY <2>1, <2>2, <2>3, <2>4, <1>0 DEF EditInv, Kept, Rev
  <1>4. ASSUME NEW c \in Configs, Create(c) \/ Fill(c) \/ CopyFails(c) PROVE EditInv'
    <2>1. /\ UNCHANGED <<version, backups, latest>>
          /\ \A d \in Configs \ {c} : conf'[d] = conf[d]
          /\ conf'[c].rev \in {0, Rev(c), conf[c].rev}
          /\ c \in copying
      BY <1>4, <1>0 DEF Create, Fill, CopyFails, Conf, Default, ProfileTypeOK
    <2>2. latest[c].rev > 0 =>
             /\ <<c, latest[c].rev, latest[c].edit>> \in backups
             /\ latest[c].rev < Rev(c)
             /\ conf[c].rev = 0 \/ conf[c].rev > latest[c].rev
      BY <2>1, <1>0 DEF EditInv, Kept, TaskInv
    <2>3. latest[c].rev \in Nat /\ Rev(c) \in Nat
      BY <1>0, RevType DEF ProfileTypeOK, Files
    <2>4. latest'[c].rev > 0 => Kept(c)'
      BY <2>1, <2>2, <2>3 DEF Kept, Rev
    <2>5. \A d \in Configs \ {c} : Kept(d) => Kept(d)'
      BY <2>1 DEF Kept, Rev
    <2> QED
      BY <2>1, <2>4, <2>5, <1>0 DEF EditInv
  <1>5. ASSUME NEW c \in Configs, MoveAway(c) PROVE EditInv'
    <2>1. /\ UNCHANGED <<version, latest>>
          /\ \A d \in Configs \ {c} : conf'[d] = conf[d]
          /\ conf'[c].rev = 0
          /\ Rev(c) > conf[c].rev
          /\ backups' = Renamed(c)
      BY <1>5, <1>0 DEF MoveAway, Outdated, NoFile, ProfileTypeOK
    <2>2. \A d \in Configs \ {c} : \A r, e :
             <<d, r, e>> \in backups => <<d, r, e>> \in backups'
      BY <2>1 DEF Renamed
    <2>3. \A d \in Configs \ {c} : Kept(d) => Kept(d)'
      BY <2>1, <2>2 DEF Kept, Rev
    <2>4. ASSUME latest[c].rev > 0 PROVE Kept(c)'
      <3>1. Kept(c)
        BY <2>4, <1>0 DEF EditInv
      <3>2. CASE conf[c] = latest[c]
        BY <3>2, <2>1 DEF Kept, Renamed, Rev
      <3>3. CASE /\ <<c, latest[c].rev, latest[c].edit>> \in backups
                 /\ latest[c].rev < Rev(c)
                 /\ conf[c].rev = 0 \/ conf[c].rev > latest[c].rev
        <4>1. latest[c].rev # conf[c].rev
          BY <3>3, <2>4, <1>0 DEF ProfileTypeOK, Files
        <4>2. <<c, latest[c].rev, latest[c].edit>> \in backups'
          BY <3>3, <4>1, <2>1 DEF Renamed
        <4> QED
          BY <3>3, <4>2, <2>1 DEF Kept, Rev
      <3> QED
        BY <3>1, <3>2, <3>3 DEF Kept
    <2> QED
      BY <2>1, <2>3, <2>4, <1>0 DEF EditInv
  <1>6. CASE Begin \/ LoadOptions \/ Rechecked \/ Upgraded
    BY <1>6, <1>1 DEF Begin, LoadOptions, Rechecked, Upgraded
  <1>7. ASSUME NEW c \in Configs, CheckExists(c) \/ UpToDate(c) \/ MoveFails(c) PROVE EditInv'
    BY <1>7, <1>1 DEF CheckExists, UpToDate, MoveFails
  <1>8. CASE Run \/ Shutdown \/ Kill \/ UNCHANGED allVars
    BY <1>8, <1>1 DEF Run, Shutdown, Kill, allVars, profileVars
  <1> QED
    BY <1>2, <1>3, <1>4, <1>5, <1>6, <1>7, <1>8 DEF ProfileNext

LEMMA UpgradeStep == ProfileInv /\ [ProfileNext]_allVars => UpgradeInv'
  <1> SUFFICES ASSUME ProfileInv, [ProfileNext]_allVars PROVE UpgradeInv'
    OBVIOUS
  <1> USE ProfileAssumption
  <1>0. ProfileTypeOK /\ TaskInv /\ UpgradeInv
    BY DEF ProfileInv
  <1>1. CASE UNCHANGED <<version, recorded, conf, task, todo, copying, latest, unchecked>>
    BY <1>1, <1>0 DEF UpgradeInv, Settled, Rev
  <1>2. CASE Install
    <2>1. recorded' # version' /\ recorded' <= version'
      BY <1>2, <1>0 DEF Install, UpgradeInv, ProfileTypeOK
    <2> QED
      BY <1>2, <2>1, <1>0 DEF Install, Off, UpgradeInv, TaskInv
  <1>3. ASSUME NEW c \in Configs, NEW r \in {0, conf[c].rev}, Edit(c, r) PROVE UpgradeInv'
    <2>1. /\ UNCHANGED <<version, recorded, task, todo, copying, unchecked>>
          /\ task = "none"
          /\ conf[c].exists /\ conf'[c].exists
          /\ conf'[c] = latest'[c]
          /\ conf'[c].rev = 0 \/ conf'[c].rev = conf[c].rev
          /\ \A d \in Configs \ {c} : conf'[d] = conf[d] /\ latest'[d] = latest[d]
      BY <1>3, <1>0 DEF Edit, Off, Conf, ProfileTypeOK
    <2>2. \A d \in Configs : Settled(d) => Settled(d)'
      BY <2>1 DEF Settled, Rev
    <2> QED
      BY <2>1, <2>2, <1>0 DEF UpgradeInv
  <1>4. CASE Begin
    BY <1>4, <1>0 DEF Begin, Off, UpgradeInv, Settled, Rev, TaskInv
  <1>5. ASSUME NEW c \in Configs, CheckExists(c) PROVE UpgradeInv'
    <2>1. \A d \in Configs : Settled(d) => Settled(d)'
      BY <1>5 DEF CheckExists, Settled, Rev
    <2>2. recorded = version /\ ~conf[c].exists => c \in unchecked
      BY <1>5, <1>0 DEF UpgradeInv, Settled
    <2> QED
      BY <1>5, <2>1, <2>2, <1>0 DEF CheckExists, UpgradeInv
  <1>6. ASSUME NEW c \in Configs, Create(c) \/ Fill(c) \/ CopyFails(c) PROVE UpgradeInv'
    <2>1. /\ UNCHANGED <<version, recorded, task, todo, latest>>
          /\ c \in copying
          /\ copying' \subseteq copying
          /\ unchecked \subseteq unchecked'
          /\ \A d \in Configs \ {c} : conf'[d] = conf[d]
      BY <1>6, <1>0 DEF Create, Fill, CopyFails, ProfileTypeOK
    <2>2. \A d \in Configs \ {c} : Settled(d) => Settled(d)'
      BY <2>1 DEF Settled, Rev
    <2>3. \/ c \in copying' /\ copying' = copying
          \/ c \in unchecked'
          \/ Settled(c)'
      BY <1>6, <1>0, RevType DEF Create, Fill, CopyFails, Default, Conf, Settled, Rev, ProfileTypeOK
    <2>4. copying' = copying \/ copying' = {}
      BY <1>6 DEF Create, Fill, CopyFails
    <2>5. \A d \in copying : d = c
      BY <2>1, <1>0 DEF TaskInv
    <2>6. task # "done"
      BY <2>1, <1>0 DEF TaskInv
    <2>7. recorded = version => c \in unchecked
      BY <2>1, <1>0 DEF UpgradeInv
    <2> QED
      BY <2>1, <2>2, <2>3, <2>4, <2>5, <2>6, <2>7, <1>0 DEF UpgradeInv
  <1>7. CASE LoadOptions
    <2>1. \A d \in Configs : Settled(d)' = Settled(d)
      BY <1>7 DEF LoadOptions, Settled, Rev
    <2> QED
      BY <1>7, <2>1, <1>0 DEF LoadOptions, UpgradeInv, TaskInv
  <1>8. CASE Rechecked \/ Upgraded
    <2>1. \A d \in Configs : Settled(d)' = Settled(d)
      BY <1>8 DEF Rechecked, Upgraded, Settled, Rev
    <2> QED
      BY <1>8, <2>1, <1>0 DEF Rechecked, Upgraded, UpgradeInv
  <1>9. ASSUME NEW c \in Configs, UpToDate(c) PROVE UpgradeInv'
    <2>1. Settled(c)
      BY <1>9, <1>0, RevType DEF UpToDate, Outdated, Settled, TaskInv, NoFile, ProfileTypeOK, Files
    <2>2. \A d \in Configs : Settled(d)' = Settled(d)
      BY <1>9 DEF UpToDate, Settled, Rev
    <2> QED
      BY <1>9, <2>1, <2>2, <1>0 DEF UpToDate, UpgradeInv
  <1>10. ASSUME NEW c \in Configs, MoveFails(c) PROVE UpgradeInv'
    <2>1. \A d \in Configs : Settled(d)' = Settled(d)
      BY <1>10 DEF MoveFails, Settled, Rev
    <2> QED
      BY <1>10, <2>1, <1>0 DEF MoveFails, UpgradeInv
  <1>11. ASSUME NEW c \in Configs, MoveAway(c) PROVE UpgradeInv'
    <2>1. \A d \in Configs \ {c} : Settled(d)' = Settled(d)
      BY <1>11, <1>0 DEF MoveAway, Settled, Rev, ProfileTypeOK
    <2> QED
      BY <1>11, <2>1, <1>0 DEF MoveAway, UpgradeInv
  <1>12. CASE Run
    BY <1>12, <1>1 DEF Run, profileVars
  <1>13. CASE Shutdown
    <2>1. \A d \in Configs : Settled(d)' = Settled(d)
      BY <1>13 DEF Shutdown, Settled, Rev
    <2>2. task = "done" /\ copying = {}
      BY <1>13, <1>0 DEF Shutdown, BeginSave, EndSave, TaskInv
    <2>3. version \in Nat /\ version > 0
      BY <1>0 DEF ProfileTypeOK
    <2> QED
      BY <1>13, <2>1, <2>2, <2>3, <1>0 DEF Shutdown, UpgradeInv
  <1>14. CASE Kill
    <2>1. \A d \in Configs : Settled(d)' = Settled(d)
      BY <1>14 DEF Kill, Settled, Rev
    <2> QED
      BY <1>14, <2>1, <1>0 DEF Kill, UpgradeInv
  <1>15. CASE UNCHANGED allVars
    BY <1>15, <1>1 DEF allVars, profileVars
  <1> QED
    BY <1>2, <1>3, <1>4, <1>5, <1>6, <1>7, <1>8, <1>9, <1>10, <1>11, <1>12, <1>13, <1>14, <1>15
    DEF ProfileNext

THEOREM ProfileInvariant == ProfileSpec => []ProfileInv
  <1>1. ProfileInit => ProfileInv
    BY ProfileStart
  <1>2. ProfileInv /\ [ProfileNext]_allVars => ProfileInv'
    BY ProfileTypeStep, TaskStep, EditStep, UpgradeStep DEF ProfileInv
  <1> QED
    BY <1>1, <1>2, PTL DEF ProfileSpec

\* The user's latest readable edit of any file survives any number of
\* upgrades, failures and kills (EditSurvives).
THEOREM EditsAreKept == ProfileSpec => []EditSurvives
  <1>1. ProfileInv => EditSurvives
    BY DEF ProfileInv, EditInv, Kept, EditSurvives
  <1> QED
    BY <1>1, ProfileInvariant, PTL

\* A version is recorded only when its upgrade was done, failed or skipped
\* (UpgradedWhenRecorded).
THEOREM RecordedIsUpgraded == ProfileSpec => []UpgradedWhenRecorded
  <1>1. ProfileInv => UpgradedWhenRecorded
    BY DEF ProfileInv, UpgradeInv, Settled, UpgradedWhenRecorded
  <1> QED
    BY <1>1, ProfileInvariant, PTL


-----------------------------------------------------------------------------
(* What the thread may still have to do.                                   *)

Pairs == Names \X (Ways \cup {0})

\* The sequences that begin with step s and go on with one of R.
Opens(s, R) == {t \in Seq(Pairs) : t # <<>> /\ Head(t) = s /\ Tail(t) \in R}

Nothing == {<<>>}

\* startLogging(), the flag of a pause, and the end of shutdown().
Opening2 == Opens(<<"open", 2>>, Nothing)
Opening1 == Opens(<<"open", 1>>, Opening2)
Flag == Opens(<<"pause", 0>>, Nothing) \cup Opens(<<"unpause", 0>>, Nothing)
Exiting == Opens(<<"exit", 0>>, Nothing)

\* stopLogging(), from its end to its beginning.
Ending == Opens(<<"stopped", 0>>, Nothing \cup Exiting)
Deleting2 == Opens(<<"delete", 2>>, Ending)
Deleting1 == Opens(<<"delete", 1>>, Deleting2)
Creating(try) == Opens(<<"create", try>>, Deleting1)
Exporting(try) == Opens(<<"export", try>>, Deleting1)
Stopping2 == Opens(<<"flush", 2>>, Creating(1))
Stopping1 == Opens(<<"flush", 1>>, Stopping2)

\* A save, and perhaps a pause.
Saving2 == Opens(<<"flush", 2>>, Nothing \cup Flag)
Saving1 == Opens(<<"flush", 1>>, Saving2)

\* The rescue, in two passes, each from its end to its beginning.
Scanning2 == Opens(<<"scan", 2>>, Nothing)
Scanning1 == Opens(<<"scan", 1>>, Scanning2)
Passed(f) == IF f = 1 THEN Scanning2 ELSE Nothing
Nexts(f) == Opens(<<"next", f>>, Passed(f))
Reading(f) == Opens(<<"read", f>>, Nexts(f))
Removing(f) == Opens(<<"remove", f>>, Nexts(f))
RemovingOther == Opens(<<"remove-other", 2>>, Nexts(1))
Moving(f) == Opens(<<"move", f>>, Nexts(f))
RescueCreating(f) == Opens(<<"create", 2>>, Removing(f))
RescueExporting(f) == Opens(<<"export", 2>>, Removing(f))

\* The log goes on, ends, and has been exported or given up.
Lasting == Nothing \cup Opening1 \cup Opening2 \cup Flag \cup Saving1 \cup Saving2
Closing == Stopping1 \cup Stopping2 \cup Creating(1) \cup Creating(2)
               \cup Exporting(1) \cup Exporting(2)
Exported == Deleting1 \cup Deleting2 \cup Ending

-----------------------------------------------------------------------------
(* The invariants.                                                         *)

\* What the calls leave behind, and a process that is off.
CallsInv ==
    /\ process = "off" => /\ steps = <<>> /\ calls = <<>> /\ answers = 0
                          /\ ~enabled /\ ~recording
    /\ process = "up" => /\ Len(calls) + answers <= MaxCalls
                         /\ \A i \in 1..Len(calls) : calls[i] # "shutdown"

\* A page that shows a recording has a start on its way that no stop follows, or
\* a log is recorded and no stop is on its way.
NameComing == answers > 0 \/ \E i \in 1..Len(calls) : calls[i] = "set-name"
NoStopAfter(i) == \A j \in 1..Len(calls) : i < j => calls[j] # "stop"
StartComing == \E i \in 1..Len(calls) : calls[i] = "start" /\ NoStopAfter(i)
Goes == enabled /\ steps \in Lasting /\ NoStopAfter(0)

PageInv == process = "up" /\ recording => NameComing \/ StartComing \/ Goes

\* The temporary files of kind f there are belong to logs in S.
Only(S, f) == \A l \in Logs : Has(l, Csv[f]) => l \in S

\* Point p of log l is in the export of the log, where the rescue will not write;
\* what is safe is there; or is in each temporary file.
InGpx(l, p) == Has(l, "gpx") /\ p \in disk[l]["gpx"]
GpxHas(l) == \A p \in safe[l] : InGpx(l, p)
EachCsvHas(l) ==
    \A f \in Ways : Has(l, Csv[f]) => \A p \in safe[l] : p \in disk[l][Csv[f]]

\* What is safe is somewhere, and each temporary file that is left has what the
\* export has not.
Covered(l) ==
    \A p \in safe[l] :
        /\ \E kind \in DOMAIN disk[l] : p \in disk[l][kind]
        /\ \A f \in Ways : Has(l, Csv[f]) => p \in disk[l][Csv[f]] \/ InGpx(l, p)

DiskInv ==
    /\ \A l \in Logs : l > started => DOMAIN disk[l] = {} /\ safe[l] = {}
    /\ \A l \in Logs \ spoilt : Covered(l)

\* While a log is recorded, what is safe of it is in each of its temporary files
\* until it is exported, and in the export from then on.
RecordInv ==
    /\ log \in Logs /\ log = started /\ path = "gpx"
    /\ ~mishap => \A f \in Ways : Only(IF f \in opened THEN {log} ELSE {}, f)
    /\ \A p \in safe[log] : p \in points
    /\ \A f \in Ways : increment[f] \subseteq points /\ buffer[f] \subseteq points
    /\ \A f \in Ways : Has(log, Csv[f]) => disk[log][Csv[f]] \subseteq points
    /\ \/ /\ steps \in Lasting \cup Closing
          /\ steps \in Opening1 \cup Opening2 => points = {}
          /\ EachCsvHas(log)
          /\ safe[log] = {} \/ \E f \in Ways : Has(log, Csv[f])
       \/ /\ steps \in Exported
          /\ log \notin spoilt => GpxHas(log) /\ Has(log, "gpx")
          /\ steps \in Deleting2 \cup Ending => 1 \notin opened
          /\ steps \in Ending => opened = {}

\* Nothing is recorded or rescued.
RestInv ==
    /\ steps \in Nothing \cup Exiting /\ path = "gpx"
    /\ process # "off" /\ ~mishap => \A f \in Ways : Only({}, f)

\* A pass of the rescue begins.
ScanInv ==
    /\ steps \in Scanning1 \cup Scanning2 /\ path = "gpx"
    /\ steps \in Scanning2 /\ ~mishap => Only({}, 1)

\* A file that has been exported: the safe points are in one of the two exports.
RescuedInv ==
    log \notin spoilt =>
        /\ path \in {"gpx"} \cup Range(Gpx) /\ Has(log, path)
        /\ \A p \in safe[log] : p \in disk[log][path] \/ InGpx(log, p)

\* A pass of the rescue is at a file.  What it exports is in the temporary file
\* until the export is complete, and it leaves alone an export there was before.
FileInv(f) ==
    \/ steps \in Moving(f) /\ Has(log, Csv[f]) /\ mishap
    \/ /\ ~mishap => Only(left \cup {log}, f)
       /\ Has(log, Csv[f])
       /\ \/ steps \in Reading(f)
          \/ /\ steps \in RescueCreating(f) \cup RescueExporting(f)
             /\ points = disk[log][Csv[f]]
             /\ path \in {"gpx", Gpx[f]}
             /\ path = "gpx" /\ log \notin spoilt => EachCsvHas(log)
          \/ steps \in Removing(f) /\ RescuedInv
    \/ /\ f = 1 /\ steps \in RemovingOther /\ RescuedInv
       /\ ~mishap => Only(left, 1)

\* A pass of the rescue.
PassInv(f) ==
    /\ ~mishap /\ f = 2 => Only({}, 1)
    /\ \A l \in left : Has(l, Csv[f])
    /\ \/ steps \in Nexts(f) /\ (~mishap => Only(left, f))
       \/ log \in Logs \ left /\ FileInv(f)

IdleInv == opened = {} /\ (RestInv \/ ScanInv \/ \E f \in Ways : PassInv(f))

FilesInv == IF enabled THEN RecordInv ELSE IdleInv

IInv == TypeOK /\ CallsInv /\ PageInv /\ DiskInv /\ FilesInv

-----------------------------------------------------------------------------
(* Sequences of steps.                                                     *)

LEMMA ConcatParts ==
    ASSUME NEW S, NEW s \in Seq(S), s # <<>>, NEW t \in Seq(S)
    PROVE  /\ s \o t \in Seq(S) /\ s \o t # <<>>
           /\ Head(s \o t) = Head(s)
           /\ Tail(s \o t) = Tail(s) \o t
  <1> DEFINE u == s \o t
             v == Tail(s) \o t
  <1>1. /\ u \in Seq(S) /\ Len(u) = Len(s) + Len(t) /\ Len(s) \in Nat \ {0} /\ Len(t) \in Nat
        /\ \A i \in 1..(Len(s) + Len(t)) : u[i] = IF i <= Len(s) THEN s[i] ELSE t[i - Len(s)]
    BY ConcatProperties
  <1>2. /\ Tail(s) \in Seq(S) /\ Len(Tail(s)) = Len(s) - 1
        /\ \A i \in 1..(Len(s) - 1) : Tail(s)[i] = s[i + 1]
    BY HeadTailProperties
  <1>3. /\ v \in Seq(S) /\ Len(v) = Len(s) - 1 + Len(t)
        /\ \A i \in 1..(Len(s) - 1 + Len(t)) :
              v[i] = IF i <= Len(s) - 1 THEN Tail(s)[i] ELSE t[i - (Len(s) - 1)]
    BY <1>2, ConcatProperties
  <1> HIDE DEF u, v
  <1>4. u # <<>> /\ Head(u) = Head(s)
    BY <1>1
  <1>5. /\ Tail(u) \in Seq(S) /\ Len(Tail(u)) = Len(u) - 1
        /\ \A i \in 1..(Len(u) - 1) : Tail(u)[i] = u[i + 1]
    BY <1>1, <1>4, HeadTailProperties
  <1>6. ASSUME NEW i \in 1..Len(v)
        PROVE  Tail(u)[i] = v[i]
    <2>1. /\ i \in 1..(Len(u) - 1) /\ i \in 1..(Len(s) - 1 + Len(t)) /\ i + 1 \in 1..(Len(s) + Len(t))
          /\ i <= Len(s) - 1 => i \in 1..(Len(s) - 1)
          /\ i <= Len(s) - 1 <=> i + 1 <= Len(s)
          /\ (i + 1) - Len(s) = i - (Len(s) - 1)
      BY <1>1, <1>3
    <2>2. Tail(u)[i] = IF i + 1 <= Len(s) THEN s[i + 1] ELSE t[(i + 1) - Len(s)]
      BY <1>1, <1>5, <2>1
    <2>3. v[i] = IF i <= Len(s) - 1 THEN s[i + 1] ELSE t[i - (Len(s) - 1)]
      BY <1>2, <1>3, <2>1
    <2> QED
      BY <2>1, <2>2, <2>3
  <1>8. Len(Tail(u)) = Len(v)
    BY <1>1, <1>3, <1>5
  <1>7. Tail(u) = v
    BY <1>3, <1>5, <1>6, <1>8, SeqEqual
  <1> QED
    BY <1>1, <1>4, <1>7 DEF u, v

LEMMA AppendParts ==
    ASSUME NEW S, NEW s \in Seq(S), s # <<>>, NEW x \in S
    PROVE  /\ Append(s, x) \in Seq(S) /\ Append(s, x) # <<>>
           /\ Head(Append(s, x)) = Head(s)
           /\ Tail(Append(s, x)) = Append(Tail(s), x)
  <1>1. \A t \in Seq(S) : Append(t, x) = t \o <<x>> /\ <<x>> \in Seq(S)
    BY AppendIsConcat
  <1>2. Tail(s) \in Seq(S)
    OBVIOUS
  <1> QED
    BY <1>1, <1>2, ConcatParts

LEMMA SmallParts ==
    ASSUME NEW S, NEW x \in S, NEW t \in Seq(S)
    PROVE  /\ <<>> \o t = t
           /\ <<x>> \o t \in Seq(S) /\ <<x>> \o t # <<>>
           /\ Head(<<x>> \o t) = x /\ Tail(<<x>> \o t) = t
           /\ Append(<<>>, x) = <<x>>
  <1>1. <<x>> \in Seq(S) /\ <<x>> # <<>> /\ Head(<<x>>) = x /\ Tail(<<x>>) = <<>>
    OBVIOUS
  <1>2. <<>> \o t = t
    BY ConcatEmptySeq
  <1>3. Append(<<>>, x) = <<x>>
    OBVIOUS
  <1> QED
    BY <1>1, <1>2, <1>3, ConcatParts

LEMMA PairsThere ==
    /\ \A name \in Names, f \in Ways \cup {0} : <<name, f>> \in Pairs
    /\ 1 \in Ways /\ 2 \in Ways
  BY DEF Pairs, Ways

LEMMA FirstThen ==
    ASSUME NEW x \in Pairs, NEW R, NEW r \in R, r \in Seq(Pairs)
    PROVE  <<x>> \o r \in Opens(x, R)
  BY SmallParts DEF Opens

LEMMA PlansAreSequences ==
    /\ Nothing \subseteq Seq(Pairs)
    /\ \A s, R : Opens(s, R) \subseteq Seq(Pairs)
  BY DEF Opens, Nothing

\* What begins how, and goes on with what.
LEMMA PlanParts ==
    ASSUME NEW s
    PROVE  /\ s \in Opening1 => Head(s) = <<"open", 1>> /\ Tail(s) \in Opening2
           /\ s \in Opening2 => Head(s) = <<"open", 2>> /\ Tail(s) = <<>>
           /\ s \in Flag => Head(s) \in {<<"pause", 0>>, <<"unpause", 0>>} /\ Tail(s) = <<>>
           /\ s \in Exiting => Head(s) = <<"exit", 0>> /\ Tail(s) = <<>>
           /\ s \in Ending => Head(s) = <<"stopped", 0>> /\ Tail(s) \in Nothing \cup Exiting
           /\ s \in Deleting2 => Head(s) = <<"delete", 2>> /\ Tail(s) \in Ending
           /\ s \in Deleting1 => Head(s) = <<"delete", 1>> /\ Tail(s) \in Deleting2
           /\ s \in Stopping2 => Head(s) = <<"flush", 2>> /\ Tail(s) \in Creating(1)
           /\ s \in Stopping1 => Head(s) = <<"flush", 1>> /\ Tail(s) \in Stopping2
           /\ s \in Saving2 => Head(s) = <<"flush", 2>> /\ Tail(s) \in Nothing \cup Flag
           /\ s \in Saving1 => Head(s) = <<"flush", 1>> /\ Tail(s) \in Saving2
           /\ \A try : s \in Creating(try) => Head(s) = <<"create", try>> /\ Tail(s) \in Deleting1
           /\ \A try : s \in Exporting(try) => Head(s) = <<"export", try>> /\ Tail(s) \in Deleting1
  BY DEF Opening1, Opening2, Flag, Exiting, Ending, Deleting2, Deleting1, Stopping2, Stopping1,
      Saving2, Saving1, Creating, Exporting, Nothing, Opens

LEMMA RescueParts ==
    ASSUME NEW s
    PROVE  /\ s \in Scanning2 => Head(s) = <<"scan", 2>> /\ Tail(s) = <<>>
           /\ s \in Scanning1 => Head(s) = <<"scan", 1>> /\ Tail(s) \in Scanning2
           /\ s \in RemovingOther => Head(s) = <<"remove-other", 2>> /\ Tail(s) \in Nexts(1)
           /\ \A f : s \in Nexts(f) => Head(s) = <<"next", f>> /\ Tail(s) \in Passed(f)
           /\ \A f : s \in Reading(f) => Head(s) = <<"read", f>> /\ Tail(s) \in Nexts(f)
           /\ \A f : s \in Removing(f) => Head(s) = <<"remove", f>> /\ Tail(s) \in Nexts(f)
           /\ \A f : s \in Moving(f) => Head(s) = <<"move", f>> /\ Tail(s) \in Nexts(f)
           /\ \A f : s \in RescueCreating(f) => Head(s) = <<"create", 2>> /\ Tail(s) \in Removing(f)
           /\ \A f : s \in RescueExporting(f) => Head(s) = <<"export", 2>> /\ Tail(s) \in Removing(f)
  BY DEF Scanning2, Scanning1, RemovingOther, Nexts, Reading, Removing, Moving, RescueCreating,
      RescueExporting, Nothing, Opens

LEMMA Tuples ==
    ASSUME NEW a, NEW b, NEW c, NEW d
    PROVE  <<a, b>> = <<c, d>> <=> a = c /\ b = d
  OBVIOUS

LEMMA ClosingParts ==
    ASSUME NEW s
    PROVE  /\ s \in Creating(1) => Head(s) = <<"create", 1>>
           /\ s \in Creating(2) => Head(s) = <<"create", 2>>
           /\ s \in Exporting(1) => Head(s) = <<"export", 1>>
           /\ s \in Exporting(2) => Head(s) = <<"export", 2>>
  BY PlanParts

\* Which plan it is that begins with a step, while a log is recorded.
LEMMA RecordHeads ==
    ASSUME NEW s, s \in Lasting \cup Closing \cup Exported, s # <<>>, NEW name, NEW f,
           Head(s) = <<name, f>>
    PROVE  /\ name = "open" => f \in {1, 2} /\ s \in (IF f = 1 THEN Opening1 ELSE Opening2)
           /\ name = "flush" => /\ f \in {1, 2}
                                /\ s \in (IF f = 1 THEN Saving1 \cup Stopping1
                                                   ELSE Saving2 \cup Stopping2)
           /\ name \in {"pause", "unpause"} => s \in Flag
           /\ name = "create" => f \in {1, 2} /\ s \in Creating(f)
           /\ name = "export" => f \in {1, 2} /\ s \in Exporting(f)
           /\ name = "delete" => f \in {1, 2} /\ s \in (IF f = 1 THEN Deleting1 ELSE Deleting2)
           /\ name = "stopped" => s \in Ending
           /\ name \in {"open", "flush", "pause", "unpause", "create", "export", "delete",
                        "stopped"}
  BY PlanParts, ClosingParts, Tuples DEF Lasting, Closing, Exported, Nothing

\* Which class of plans that is.
LEMMA RecordClasses ==
    ASSUME NEW s
    PROVE  /\ s \in Lasting /\ s # <<>> =>
                  \E name \in {"open", "flush", "pause", "unpause"} : \E f : Head(s) = <<name, f>>
           /\ s \in Closing => \E name \in {"flush", "create", "export"} : \E f : Head(s) = <<name, f>>
           /\ s \in Exported => \E name \in {"delete", "stopped"} : \E f : Head(s) = <<name, f>>
           /\ s \in Closing \cup Exported => s # <<>>
  BY PlanParts, ClosingParts DEF Lasting, Closing, Exported, Nothing, Opens, Stopping1, Stopping2,
      Creating, Exporting, Deleting1, Deleting2, Ending

LEMMA EndsDiffer ==
    ASSUME NEW s
    PROVE  /\ s \in Deleting1 => s \notin Deleting2 \cup Ending
           /\ s \in Deleting2 => s \notin Ending
  <1>1. /\ s \in Deleting1 => Head(s) = <<"delete", 1>>
        /\ s \in Deleting2 => Head(s) = <<"delete", 2>>
        /\ s \in Ending => Head(s) = <<"stopped", 0>>
    BY PlanParts
  <1>2. /\ <<"delete", 1>> # <<"delete", 2>>
        /\ \A f : <<"delete", f>> # <<"stopped", 0>>
    OBVIOUS
  <1> QED
    BY <1>1, <1>2

\* A log that goes on is only saved.
LEMMA LastingFlush ==
    ASSUME NEW s, s \in Lasting, s # <<>>, NEW f, Head(s) = <<"flush", f>>
    PROVE  s \in (IF f = 1 THEN Saving1 ELSE Saving2)
  BY PlanParts, Tuples DEF Lasting, Nothing

\* The same for the rescue.
LEMMA RestHeads ==
    ASSUME NEW s, s \in Nothing \cup Exiting, s # <<>>
    PROVE  Head(s) = <<"exit", 0>> /\ Tail(s) = <<>>
  BY PlanParts DEF Nothing

LEMMA ScanHeads ==
    ASSUME NEW s, s \in Scanning1 \cup Scanning2
    PROVE  /\ s # <<>>
           /\ Head(s) \in {<<"scan", 1>>, <<"scan", 2>>}
           /\ Head(s) = <<"scan", 1>> => s \in Scanning1
           /\ Head(s) = <<"scan", 2>> => s \in Scanning2
  BY RescueParts, Tuples DEF Scanning1, Scanning2, Opens

Passing(f) ==
    Nexts(f) \cup Reading(f) \cup Moving(f) \cup RescueCreating(f) \cup RescueExporting(f)
        \cup Removing(f) \cup RemovingOther

LEMMA PassHeads ==
    ASSUME NEW s, NEW f, s \in Passing(f), NEW name, NEW g, Head(s) = <<name, g>>
    PROVE  /\ s # <<>>
           /\ name \in {"next", "read", "move", "remove"} => g = f
           /\ name = "next" => s \in Nexts(f)
           /\ name = "read" => s \in Reading(f)
           /\ name = "move" => s \in Moving(f)
           /\ name = "remove" => s \in Removing(f)
           /\ name = "create" => g = 2 /\ s \in RescueCreating(f)
           /\ name = "export" => g = 2 /\ s \in RescueExporting(f)
           /\ name = "remove-other" => s \in RemovingOther
           /\ name \in {"next", "read", "move", "remove", "create", "export", "remove-other"}
  <1>1. s # <<>>
    BY DEF Passing, Nexts, Reading, Moving, RescueCreating, RescueExporting, Removing, RemovingOther,
        Opens
  <1>2. \/ s \in Nexts(f) /\ name = "next" /\ g = f
        \/ s \in Reading(f) /\ name = "read" /\ g = f
        \/ s \in Moving(f) /\ name = "move" /\ g = f
        \/ s \in Removing(f) /\ name = "remove" /\ g = f
        \/ s \in RescueCreating(f) /\ name = "create" /\ g = 2
        \/ s \in RescueExporting(f) /\ name = "export" /\ g = 2
        \/ s \in RemovingOther /\ name = "remove-other"
    BY RescueParts, Tuples DEF Passing
  <1> QED
    BY <1>1, <1>2

\* What the thread goes on with.
LEMMA Advance ==
    ASSUME NEW s, NEW R, R \subseteq Seq(Pairs), s \in Seq(Pairs), s # <<>>, Tail(s) \in R,
           NEW x \in Pairs, NEW y \in Pairs
    PROVE  /\ <<>> \o Tail(s) = Tail(s)
           /\ <<x>> \o Tail(s) \in Opens(x, R)
           /\ <<x, y>> \o Tail(s) \in Opens(x, Opens(y, R))
  <1>1. Tail(s) \in Seq(Pairs)
    OBVIOUS
  <1>2. <<>> \o Tail(s) = Tail(s)
    BY <1>1, SmallParts
  <1>3. <<y>> \o Tail(s) \in Opens(y, R)
    BY <1>1, FirstThen
  <1>4. <<x>> \o Tail(s) \in Opens(x, R)
    BY <1>1, FirstThen
  <1>5. /\ <<x, y>> \in Seq(Pairs) /\ <<x, y>> # <<>>
        /\ Head(<<x, y>>) = x /\ Tail(<<x, y>>) = <<y>>
    OBVIOUS
  <1>6. /\ <<x, y>> \o Tail(s) \in Seq(Pairs) /\ <<x, y>> \o Tail(s) # <<>>
        /\ Head(<<x, y>> \o Tail(s)) = x /\ Tail(<<x, y>> \o Tail(s)) = <<y>> \o Tail(s)
    BY <1>1, <1>5, ConcatParts
  <1>7. <<x, y>> \o Tail(s) \in Opens(x, Opens(y, R))
    BY <1>3, <1>6 DEF Opens
  <1> QED
    BY <1>2, <1>4, <1>7

LEMMA ClassesAreSequences ==
    /\ Lasting \cup Closing \cup Exported \subseteq Seq(Pairs)
    /\ Nothing \cup Exiting \cup Scanning1 \cup Scanning2 \subseteq Seq(Pairs)
    /\ \A f : Passing(f) \subseteq Seq(Pairs) /\ Passed(f) \subseteq Seq(Pairs)
  BY PlansAreSequences DEF Lasting, Closing, Exported, Passing, Passed, Opening1, Opening2, Flag,
      Exiting, Ending, Deleting2, Deleting1, Stopping2, Stopping1, Saving2, Saving1, Creating, Exporting,
      Scanning2, Scanning1, RemovingOther, Nexts, Reading, Removing, Moving, RescueCreating,
      RescueExporting

LEMMA PairTuples ==
    ASSUME NEW a, NEW b
    PROVE  /\ <<a>> # <<>> /\ Head(<<a>>) = a /\ Tail(<<a>>) = <<>>
           /\ <<a, b>> # <<>> /\ Head(<<a, b>>) = a /\ Tail(<<a, b>>) = <<b>>
  OBVIOUS

LEMMA PairSeqs ==
    ASSUME NEW a \in Pairs, NEW b \in Pairs
    PROVE  <<a>> \in Seq(Pairs) /\ <<a, b>> \in Seq(Pairs) /\ <<>> \in Seq(Pairs)
  OBVIOUS

LEMMA FlushesThen ==
    ASSUME NEW R, NEW r \in R, r \in Seq(Pairs)
    PROVE  Flushes \o r \in Opens(<<"flush", 1>>, Opens(<<"flush", 2>>, R))
  <1> DEFINE a == <<"flush", 1>>
             b == <<"flush", 2>>
  <1>1. a \in Pairs /\ b \in Pairs
    BY PairsThere DEF Names
  <1>2. <<b>> \o r \in Opens(b, R)
    BY <1>1, FirstThen
  <1>3. /\ <<a, b>> \o r \in Seq(Pairs) /\ <<a, b>> \o r # <<>>
        /\ Head(<<a, b>> \o r) = a /\ Tail(<<a, b>> \o r) = <<b>> \o r
    BY <1>1, PairTuples, PairSeqs, ConcatParts
  <1> HIDE DEF a, b
  <1>4. <<a, b>> \o r \in Opens(a, Opens(b, R))
    BY <1>2, <1>3 DEF Opens
  <1>5. Flushes = <<a, b>>
    BY DEF Flushes, a, b
  <1> QED
    BY <1>4, <1>5 DEF a, b

LEMMA TupleParts ==
    ASSUME NEW a \in Pairs, NEW b \in Pairs, NEW c \in Pairs, NEW d \in Pairs
    PROVE  /\ <<a, b, c, d>> \in Seq(Pairs) /\ <<b, c, d>> \in Seq(Pairs)
           /\ <<a, b, c, d>> # <<>> /\ <<b, c, d>> # <<>>
           /\ Head(<<a, b, c, d>>) = a /\ Tail(<<a, b, c, d>>) = <<b, c, d>>
           /\ Head(<<b, c, d>>) = b /\ Tail(<<b, c, d>>) = <<c, d>>
  OBVIOUS

LEMMA GrownBy ==
    ASSUME NEW x, NEW R, NEW s \in Seq(Pairs), s # <<>>, Head(s) = x, Tail(s) \in R,
           NEW e \in Pairs, Append(Tail(s), e) \in R
    PROVE  s \in Opens(x, R) /\ Append(s, e) \in Opens(x, R)
  BY AppendParts DEF Opens

\* The plans that the calls and the timers make.
LEMMA Plans ==
    /\ << <<"open", 1>>, <<"open", 2>> >> \in Opening1
    /\ Flushes \in Saving1
    /\ \A name \in {"pause", "unpause"} : Append(Flushes, <<name, 0>>) \in Saving1
    /\ Stop \in Stopping1
    /\ Append(Stop, <<"exit", 0>>) \in Stopping1
    /\ Append(<<>>, <<"exit", 0>>) \in Exiting
    /\ << <<"scan", 1>>, <<"scan", 2>> >> \in Scanning1
  <1> DEFINE exit == <<"exit", 0>>
             end == <<"stopped", 0>>
             delete(f) == <<"delete", f>>
             create == <<"create", 1>>
  <1>1. /\ exit \in Pairs /\ end \in Pairs /\ delete(1) \in Pairs /\ delete(2) \in Pairs
        /\ create \in Pairs
        /\ <<"open", 1>> \in Pairs /\ <<"open", 2>> \in Pairs
        /\ <<"scan", 1>> \in Pairs /\ <<"scan", 2>> \in Pairs
        /\ \A name \in {"pause", "unpause"} : <<name, 0>> \in Pairs
    BY PairsThere DEF Names
  <1>2. \A x \in Pairs : <<x>> \in Opens(x, Nothing)
    BY PairTuples, PairSeqs DEF Opens, Nothing
  <1>3. \A x, y \in Pairs : <<x, y>> \in Opens(x, Opens(y, Nothing))
    <2> TAKE x, y \in Pairs
    <2>1. <<y>> \in Opens(y, Nothing)
      BY <1>2
    <2> QED
      BY <2>1, PairTuples, PairSeqs DEF Opens
  <1>4. << <<"open", 1>>, <<"open", 2>> >> \in Opening1 /\ << <<"scan", 1>>, <<"scan", 2>> >> \in Scanning1
    BY <1>1, <1>3 DEF Opening1, Opening2, Scanning1, Scanning2
  <1>5. Flushes \in Saving1
    <2>1. Flushes \o <<>> = Flushes
      <3>1. Flushes \in Seq(Pairs)
        BY PairSeqs, PairsThere DEF Flushes, Names
      <3> QED
        BY <3>1, ConcatEmptySeq
    <2>2. <<>> \in Nothing \cup Flag /\ <<>> \in Seq(Pairs)
      BY PairSeqs DEF Nothing
    <2> QED
      BY <2>1, <2>2, FlushesThen DEF Saving1, Saving2
  <1>6. ASSUME NEW name \in {"pause", "unpause"}
        PROVE  Append(Flushes, <<name, 0>>) \in Saving1
    <2>1. << <<name, 0>> >> \in Nothing \cup Flag /\ << <<name, 0>> >> \in Seq(Pairs)
      BY <1>1, <1>2, PairSeqs DEF Flag
    <2>2. Flushes \in Seq(Pairs)
      BY PairSeqs, PairsThere DEF Flushes, Names
    <2>3. Append(Flushes, <<name, 0>>) = Flushes \o << <<name, 0>> >>
      BY <1>1, <2>2, AppendIsConcat
    <2> QED
      BY <2>1, <2>3, FlushesThen DEF Saving1, Saving2
  <1>7. ASSUME NEW e, e \in Pairs,
               Append(<<end>>, e) \in Ending
        PROVE  /\ <<create, delete(1), delete(2), end>> \in Creating(1)
               /\ Append(<<create, delete(1), delete(2), end>>, e) \in Creating(1)
    <2> DEFINE s2 == <<delete(2), end>>
               s1 == <<delete(1), delete(2), end>>
               s0 == <<create, delete(1), delete(2), end>>
    <2>1. <<end>> \in Ending /\ <<end>> \in Seq(Pairs)
      BY <1>1, <1>2, PairSeqs DEF Ending, Opens, Nothing
    <2>2. /\ s2 \in Seq(Pairs) /\ s2 # <<>> /\ Head(s2) = delete(2) /\ Tail(s2) = <<end>>
          /\ s1 \in Seq(Pairs) /\ s1 # <<>> /\ Head(s1) = delete(1) /\ Tail(s1) = s2
          /\ s0 \in Seq(Pairs) /\ s0 # <<>> /\ Head(s0) = create /\ Tail(s0) = s1
      BY <1>1, PairTuples, PairSeqs, TupleParts
    <2> HIDE DEF s0, s1, s2
    <2>3. s2 \in Deleting2 /\ Append(s2, e) \in Deleting2
      BY <1>7, <2>1, <2>2, GrownBy DEF Deleting2
    <2>4. s1 \in Deleting1 /\ Append(s1, e) \in Deleting1
      BY <1>7, <2>3, <2>2, GrownBy DEF Deleting1
    <2>5. s0 \in Creating(1) /\ Append(s0, e) \in Creating(1)
      BY <1>7, <2>4, <2>2, GrownBy DEF Creating
    <2> QED
      BY <2>5 DEF s0
  <1>8. Append(<<end>>, exit) \in Ending /\ <<end>> \in Ending /\ Append(<<>>, exit) \in Exiting
    <2>1. Append(<<>>, exit) = <<exit>>
      BY <1>1, PairSeqs, SmallParts
    <2>2. <<exit>> \in Exiting
      BY <1>1, <1>2 DEF Exiting
    <2>3. <<end>> \in Ending /\ <<end>> \in Seq(Pairs) /\ Tail(<<end>>) = <<>>
      BY <1>1, <1>2, PairSeqs, PairTuples DEF Ending, Opens, Nothing
    <2>4. Append(<<end>>, exit) \in Ending
      <3> HIDE DEF exit, end
      <3>1. /\ Append(<<end>>, exit) \in Seq(Pairs) /\ Append(<<end>>, exit) # <<>>
            /\ Head(Append(<<end>>, exit)) = Head(<<end>>)
            /\ Tail(Append(<<end>>, exit)) = Append(Tail(<<end>>), exit)
        BY <1>1, <2>3, PairTuples, AppendParts
      <3> QED
        BY <2>1, <2>2, <2>3, <3>1, PairTuples DEF Ending, Opens, end
    <2> QED
      BY <2>1, <2>2, <2>3, <2>4
  <1> DEFINE r == <<create, delete(1), delete(2), end>>
  <1>9. r \in Creating(1) /\ Append(r, exit) \in Creating(1)
    BY <1>1, <1>7, <1>8
  <1>10. r \in Seq(Pairs) /\ Append(r, exit) \in Seq(Pairs)
    BY <1>9, PlansAreSequences DEF Creating
  <1>11. Stop = Flushes \o r
    BY DEF Stop
  <1>12. Append(Stop, exit) = Flushes \o Append(r, exit)
    <2> HIDE DEF r, exit
    <2>1. Flushes \in Seq(Pairs) /\ <<exit>> \in Seq(Pairs)
      BY <1>1, PairSeqs, PairsThere DEF Flushes, Names
    <2>2. Append(Stop, exit) = Stop \o <<exit>> /\ Append(r, exit) = r \o <<exit>>
      <3>1. Stop \in Seq(Pairs)
        BY <1>10, <1>11, <2>1, ConcatProperties
      <3> QED
        BY <1>1, <1>10, <3>1, AppendIsConcat
    <2>3. (Flushes \o r) \o <<exit>> = Flushes \o (r \o <<exit>>)
      BY <1>10, <2>1, ConcatAssociative
    <2> QED
      BY <1>11, <2>2, <2>3
  <1>13. Stop \in Stopping1 /\ Append(Stop, exit) \in Stopping1
    BY <1>9, <1>10, <1>11, <1>12, FlushesThen DEF Stopping1, Stopping2
  <1> QED
    BY <1>4, <1>5, <1>6, <1>8, <1>13

-----------------------------------------------------------------------------
(* The disk.                                                               *)

DiskType ==
    /\ DOMAIN disk = Logs
    /\ \A l \in Logs : disk[l] \in [DOMAIN disk[l] -> SUBSET Points] /\ DOMAIN disk[l] \subseteq Kinds

LEMMA KindFacts ==
    /\ \A f \in Ways : f = 1 \/ f = 2
    /\ 1 \in Ways /\ 2 \in Ways
    /\ Csv[1] # Csv[2]
    /\ \A f, g \in Ways : Csv[f] # Gpx[g] /\ Csv[f] # Old[g] /\ Gpx[f] # Old[g]
    /\ \A f \in Ways : Csv[f] # "gpx" /\ Gpx[f] # "gpx" /\ Old[f] # "gpx"
    /\ \A f \in Ways : {Csv[f], Gpx[f], Old[f]} \subseteq Kinds
    /\ "gpx" \in Kinds
    /\ Range(Gpx) = {Gpx[1], Gpx[2]}
  BY DEF Ways, Csv, Gpx, Old, Kinds, Range

\* The file systems of the other logs stay the same.
Elsewhere == \A l \in Logs : l # log => disk'[l] = disk[l]

LEMMA WriteFacts ==
    ASSUME DiskType, log \in Logs, NEW kind \in Kinds, NEW ps, ps \in SUBSET Points,
           Write(log, kind, ps)
    PROVE  /\ DiskType' /\ Elsewhere
           /\ DOMAIN disk'[log] = DOMAIN disk[log] \cup {kind}
           /\ disk'[log][kind] = ps
           /\ \A k \in DOMAIN disk[log] : k # kind => disk'[log][k] = disk[log][k]
  <1> DEFINE d == With(disk[log], kind, ps)
  <1>1. /\ DOMAIN d = DOMAIN disk[log] \cup {kind}
        /\ d[kind] = ps
        /\ \A k \in DOMAIN disk[log] : k # kind => d[k] = disk[log][k]
        /\ d = [k \in DOMAIN d |-> d[k]]
    BY DEF With
  <1> HIDE DEF d
  <1>2. d \in [DOMAIN d -> SUBSET Points] /\ DOMAIN d \subseteq Kinds
    BY <1>1 DEF DiskType
  <1>3. disk' = [disk EXCEPT ![log] = d]
    BY DEF Write, d
  <1> QED
    BY <1>1, <1>2, <1>3 DEF DiskType, Elsewhere

LEMMA WithoutFacts ==
    ASSUME NEW fs, NEW kind
    PROVE  /\ DOMAIN Without(fs, kind) = DOMAIN fs \ {kind}
           /\ \A k \in DOMAIN fs : k # kind => Without(fs, kind)[k] = fs[k]
           /\ Without(fs, kind) = [k \in DOMAIN fs \ {kind} |-> fs[k]]
  BY DEF Without, Restrict

LEMMA RemoveFacts ==
    ASSUME DiskType, log \in Logs, NEW kind, Remove(log, kind)
    PROVE  /\ DiskType' /\ Elsewhere
           /\ DOMAIN disk'[log] = DOMAIN disk[log] \ {kind}
           /\ \A k \in DOMAIN disk[log] : k # kind => disk'[log][k] = disk[log][k]
  <1> DEFINE d == Without(disk[log], kind)
  <1>1. /\ DOMAIN d = DOMAIN disk[log] \ {kind}
        /\ \A k \in DOMAIN disk[log] : k # kind => d[k] = disk[log][k]
        /\ d = [k \in DOMAIN disk[log] \ {kind} |-> disk[log][k]]
    BY WithoutFacts
  <1> HIDE DEF d
  <1>2. d \in [DOMAIN d -> SUBSET Points] /\ DOMAIN d \subseteq Kinds
    BY <1>1 DEF DiskType
  <1>3. disk' = [disk EXCEPT ![log] = d]
    BY DEF Remove, d
  <1> QED
    BY <1>1, <1>2, <1>3 DEF DiskType, Elsewhere

LEMMA MoveFacts ==
    ASSUME DiskType, log \in Logs, NEW f \in Ways, Has(log, Csv[f]),
           disk' = [disk EXCEPT ![log] = With(Without(@, Csv[f]), Old[f], @[Csv[f]])]
    PROVE  /\ DiskType' /\ Elsewhere
           /\ DOMAIN disk'[log] = (DOMAIN disk[log] \ {Csv[f]}) \cup {Old[f]}
           /\ disk'[log][Old[f]] = disk[log][Csv[f]]
           /\ \A k \in DOMAIN disk[log] :
                 k # Old[f] /\ k # Csv[f] => disk'[log][k] = disk[log][k]
  <1> DEFINE w == Without(disk[log], Csv[f])
             d == With(w, Old[f], disk[log][Csv[f]])
  <1>1. /\ DOMAIN w = DOMAIN disk[log] \ {Csv[f]}
        /\ \A k \in DOMAIN disk[log] : k # Csv[f] => w[k] = disk[log][k]
    BY WithoutFacts
  <1> HIDE DEF w
  <1>2. /\ DOMAIN d = (DOMAIN disk[log] \ {Csv[f]}) \cup {Old[f]}
        /\ d[Old[f]] = disk[log][Csv[f]]
        /\ \A k \in DOMAIN disk[log] : k # Old[f] /\ k # Csv[f] => d[k] = disk[log][k]
        /\ d = [k \in DOMAIN d |-> d[k]]
    BY <1>1 DEF With
  <1> HIDE DEF d
  <1>3. Old[f] \in Kinds /\ Csv[f] \in DOMAIN disk[log]
    BY KindFacts DEF Has
  <1>4. d \in [DOMAIN d -> SUBSET Points] /\ DOMAIN d \subseteq Kinds
    BY <1>2, <1>3 DEF DiskType
  <1>5. disk' = [disk EXCEPT ![log] = d]
    BY DEF d, w
  <1> QED
    BY <1>2, <1>4, <1>5 DEF DiskType, Elsewhere

\* What is covered stays so where nothing has changed.
LEMMA CoveredElsewhere ==
    ASSUME NEW l \in Logs, disk'[l] = disk[l], safe'[l] = safe[l]
    PROVE  /\ Covered(l)' <=> Covered(l)
           /\ EachCsvHas(l)' <=> EachCsvHas(l)
           /\ GpxHas(l)' <=> GpxHas(l)
           /\ \A kind : Has(l, kind)' <=> Has(l, kind)
           /\ \A p : InGpx(l, p)' <=> InGpx(l, p)
  BY DEF Covered, EachCsvHas, GpxHas, InGpx, Has

LEMMA DiskKept ==
    ASSUME DiskInv, UNCHANGED started, spoilt \subseteq spoilt',
           \A l \in Logs : l # log => disk'[l] = disk[l] /\ safe'[l] = safe[l],
           log \in Logs /\ log > started => DOMAIN disk'[log] = {} /\ safe'[log] = {},
           \A l \in Logs \ spoilt' : l = log => Covered(l)'
    PROVE  DiskInv'
  <1>1. ASSUME NEW l \in Logs, l > started'
        PROVE  DOMAIN disk'[l] = {} /\ safe'[l] = {}
    BY <1>1 DEF DiskInv
  <1>2. ASSUME NEW l \in Logs \ spoilt'
        PROVE  Covered(l)'
    <2>1. CASE l = log
      BY <1>2, <2>1
    <2>2. CASE l # log
      BY <1>2, <2>2, CoveredElsewhere DEF DiskInv
    <2> QED
      BY <2>1, <2>2
  <1> QED
    BY <1>1, <1>2 DEF DiskInv

\* The disk and the history stay as they are.
LEMMA DiskSame ==
    ASSUME DiskInv, UNCHANGED <<disk, started, safe>>, spoilt \subseteq spoilt'
    PROVE  DiskInv'
  BY DEF DiskInv, Covered, Has, InGpx

LEMMA BeforeStarted ==
    ASSUME DiskInv, log \in Logs, NEW kind, Has(log, kind)
    PROVE  ~(log > started)
  BY DEF DiskInv, Has

-----------------------------------------------------------------------------
(* Whose step it is.                                                       *)

LEMMA PassClass ==
    ASSUME NEW f \in Ways, PassInv(f)
    PROVE  steps \in Passing(f)
  BY DEF PassInv, FileInv, Passing

LEMMA WhoseStep ==
    ASSUME IInv, NEW name, NEW f, Doing(name, f)
    PROVE  /\ steps # <<>> /\ Head(steps) = <<name, f>> /\ steps \in Seq(Pairs)
           /\ name \in {"open", "flush", "pause", "unpause", "delete", "stopped"} => enabled
           /\ name \in {"exit", "scan", "next", "read", "move", "remove", "remove-other"} => ~enabled
           /\ enabled => RecordInv /\ steps \in Lasting \cup Closing \cup Exported
           /\ ~enabled => opened = {}
           /\ ~enabled /\ name = "exit" => RestInv
           /\ ~enabled /\ name = "scan" => ScanInv
           /\ ~enabled /\ name \in {"next", "read", "move", "remove", "create", "export", "remove-other"}
                => \E g \in Ways : PassInv(g) /\ steps \in Passing(g)
  <1>1. steps # <<>> /\ Head(steps) = <<name, f>>
    BY DEF Doing, Idle
  <1>2. CASE enabled
    <2>1. RecordInv /\ steps \in Lasting \cup Closing \cup Exported
      BY <1>2 DEF IInv, FilesInv, RecordInv
    <2>2. name \in {"open", "flush", "pause", "unpause", "create", "export", "delete", "stopped"}
      BY <1>1, <2>1, RecordHeads
    <2> QED
      BY <1>1, <1>2, <2>1, <2>2, ClassesAreSequences
  <1>3. CASE ~enabled /\ RestInv
    <2>1. name = "exit"
      BY <1>1, <1>3, RestHeads, Tuples DEF RestInv
    <2> QED
      BY <1>1, <1>3, <2>1, ClassesAreSequences DEF RestInv, IInv, FilesInv, IdleInv
  <1>4. CASE ~enabled /\ ScanInv
    <2>1. name = "scan"
      BY <1>1, <1>4, ScanHeads, Tuples DEF ScanInv
    <2> QED
      BY <1>1, <1>4, <2>1, ClassesAreSequences DEF ScanInv, IInv, FilesInv, IdleInv
  <1>5. CASE ~enabled /\ \E g \in Ways : PassInv(g)
    <2>1. PICK g \in Ways : PassInv(g)
      BY <1>5
    <2>2. steps \in Passing(g)
      BY <2>1, PassClass
    <2>3. name \in {"next", "read", "move", "remove", "create", "export", "remove-other"}
      BY <1>1, <2>2, PassHeads
    <2> QED
      BY <1>1, <1>5, <2>1, <2>2, <2>3, ClassesAreSequences DEF IInv, FilesInv, IdleInv
  <1> QED
    BY <1>2, <1>3, <1>4, <1>5 DEF IInv, FilesInv, IdleInv

LEMMA Stepped ==
    ASSUME IInv, NEW name, NEW f, Doing(name, f), NEW R, R \subseteq Seq(Pairs), Tail(steps) \in R
    PROVE  /\ Done => steps' = Tail(steps) /\ steps' \in R
           /\ \A x \in Pairs : Then(<<x>>) => steps' \in Opens(x, R)
           /\ \A x, y \in Pairs : Then(<<x, y>>) => steps' \in Opens(x, Opens(y, R))
  <1>1. steps # <<>> /\ steps \in Seq(Pairs)
    BY WhoseStep
  <1>2. ASSUME NEW x \in Pairs, NEW y \in Pairs
        PROVE  /\ <<>> \o Tail(steps) = Tail(steps)
               /\ <<x>> \o Tail(steps) \in Opens(x, R)
               /\ <<x, y>> \o Tail(steps) \in Opens(x, Opens(y, R))
    BY <1>1, Advance
  <1>3. Done => steps' = Tail(steps) /\ steps' \in R
    BY <1>2, PairsThere DEF Done, Then, Names
  <1> QED
    BY <1>2, <1>3 DEF Then

LEMMA TypeParts ==
    ASSUME IInv
    PROVE  /\ DiskType /\ points \in SUBSET Points
           /\ increment \in [Ways -> SUBSET Points] /\ buffer \in [Ways -> SUBSET Points]
           /\ \A f \in opened : f \in Ways /\ enabled /\ Has(log, Csv[f])
           /\ safe \in [Logs -> SUBSET Points] /\ spoilt \subseteq Logs
           /\ enabled \in BOOLEAN /\ mishap \in BOOLEAN /\ started \in 0..MaxLogs
           /\ left \subseteq Logs /\ path \in Kinds
           /\ DiskInv
  BY DEF IInv, TypeOK, DiskType

-----------------------------------------------------------------------------
(* The steps of a recording.                                               *)

LEMMA OpenStep ==
    ASSUME IInv, NEW f \in Ways, Open(f)
    PROVE  /\ DiskType' /\ DiskInv' /\ FilesInv'
           /\ enabled /\ steps \in Lasting /\ steps' \in Lasting
           /\ opened' \subseteq {g \in Ways : Has(log, Csv[g])'}
  <1> USE TypeParts, KindFacts
  <1>1. Doing("open", f)
    BY DEF Open
  <1>2. enabled /\ RecordInv /\ steps \in Lasting \cup Closing \cup Exported /\ steps # <<>>
        /\ Head(steps) = <<"open", f>>
    BY <1>1, WhoseStep
  <1>3. steps \in (IF f = 1 THEN Opening1 ELSE Opening2)
    BY <1>2, RecordHeads
  <1>4. Tail(steps) \in Nothing \cup Opening2
    BY <1>3, PlanParts DEF Nothing
  <1>5. steps' \in Nothing \cup Opening2
    BY <1>1, <1>4, Stepped, PlansAreSequences DEF Open, Opening2
  <1>6. steps \in Lasting /\ steps' \in Lasting
    BY <1>3, <1>5 DEF Lasting
  <1>7. steps \notin Exported
    BY <1>2, <1>6, RecordClasses, Tuples
  <1>8. points = {} /\ safe[log] = {} /\ log \in Logs
    BY <1>2, <1>3, <1>7 DEF RecordInv
  <1>9. /\ UNCHANGED <<enabled, log, points, increment, buffer, path, started, safe, spoilt>>
        /\ Write(log, Csv[f], {}) \/ disk' = disk
        /\ \/ opened' = opened \cup {f} /\ Write(log, Csv[f], {}) /\ mishap' = mishap
           \/ opened' = opened /\ mishap'
    BY DEF Open, wayVars, exportVars, countVars, stateVars, Succeeds, Fails, failVars
  <1>10. /\ DiskType' /\ Elsewhere
         /\ \A k \in DOMAIN disk[log] : k \in DOMAIN disk'[log] /\ (k # Csv[f] => disk'[log][k] = disk[log][k])
         /\ \A k \in DOMAIN disk'[log] : k = Csv[f] \/ k \in DOMAIN disk[log]
         /\ Csv[f] \in DOMAIN disk'[log] => disk'[log][Csv[f]] = {} \/ disk' = disk
         /\ Write(log, Csv[f], {}) => Csv[f] \in DOMAIN disk'[log]
    <2>1. CASE Write(log, Csv[f], {})
      BY <1>8, <2>1, WriteFacts
    <2>2. CASE disk' = disk /\ ~Write(log, Csv[f], {})
      BY <2>2 DEF DiskType, Elsewhere
    <2> QED
      BY <1>9, <2>1, <2>2
  <1>11. DiskInv'
    <2>1. ~(log > started)
      BY <1>2 DEF RecordInv, Logs
    <2>2. \A l \in Logs : l = log => Covered(l)'
      BY <1>8, <1>9 DEF Covered
    <2> QED
      BY <1>9, <1>10, <2>1, <2>2, DiskKept DEF Elsewhere
  <1>12. opened' \subseteq {g \in Ways : Has(log, Csv[g])'}
    BY <1>9, <1>10 DEF Has
  <1>13. RecordInv'
    <2>1. ~mishap' => \A g \in Ways : Only(IF g \in opened THEN {log} ELSE {}, g)'
      BY <1>2, <1>9, <1>10 DEF RecordInv, Only, Has, Elsewhere
    <2>2. \A g \in Ways : Has(log, Csv[g])' => (disk[log][Csv[g]])' \subseteq points'
      BY <1>2, <1>8, <1>9, <1>10 DEF RecordInv, Has
    <2>3. EachCsvHas(log)'
      BY <1>8, <1>9 DEF EachCsvHas
    <2> QED
      BY <1>2, <1>6, <1>8, <1>9, <2>1, <2>2, <2>3 DEF RecordInv
  <1> QED
    BY <1>2, <1>6, <1>9, <1>10, <1>11, <1>12, <1>13 DEF FilesInv

LEMMA CoveredByCsv ==
    ASSUME NEW l \in Logs, EachCsvHas(l)', safe'[l] = {} \/ \E f \in Ways : Has(l, Csv[f])'
    PROVE  Covered(l)'
  BY DEF EachCsvHas, Covered, Has

LEMMA FlushStep ==
    ASSUME IInv, NEW f \in Ways, Flush(f)
    PROVE  /\ DiskType' /\ DiskInv' /\ FilesInv'
           /\ enabled /\ (steps \in Lasting => steps' \in Lasting)
           /\ opened' \subseteq {g \in Ways : Has(log, Csv[g])'}
           /\ increment' \in [Ways -> SUBSET Points] /\ buffer' \in [Ways -> SUBSET Points]
           /\ safe' \in [Logs -> SUBSET Points]
  <1> USE TypeParts, KindFacts
  <1>1. Doing("flush", f)
    BY DEF Flush
  <1>2. enabled /\ RecordInv /\ steps \in Lasting \cup Closing \cup Exported /\ steps # <<>>
        /\ Head(steps) = <<"flush", f>>
    BY <1>1, WhoseStep
  <1>3. steps \in (IF f = 1 THEN Saving1 \cup Stopping1 ELSE Saving2 \cup Stopping2)
    BY <1>2, RecordHeads
  <1>4. steps \in Lasting => steps \in Saving1 \cup Saving2
    BY <1>2, LastingFlush
  <1>5. /\ steps \in Saving1 \cup Saving2 => Tail(steps) \in Nothing \cup Flag \cup Saving2
        /\ Tail(steps) \in Nothing \cup Flag \cup Saving2 \cup Stopping2 \cup Creating(1)
    BY <1>3, PlanParts
  <1>6. /\ steps \in Saving1 \cup Saving2 => steps' \in Nothing \cup Flag \cup Saving2
        /\ steps' \in Nothing \cup Flag \cup Saving2 \cup Stopping2 \cup Creating(1)
    <2>1. Nothing \cup Flag \cup Saving2 \cup Stopping2 \cup Creating(1) \subseteq Seq(Pairs)
      BY PlansAreSequences DEF Flag, Saving2, Stopping2, Creating
    <2> QED
      BY <1>1, <1>5, <2>1, Stepped DEF Flush
  <1>7. /\ steps' \in Lasting \cup Closing
        /\ steps \in Lasting => steps' \in Lasting
        /\ steps \in Lasting \cup Closing
    BY <1>3, <1>4, <1>6 DEF Lasting, Closing
  <1>8. /\ steps \notin Exported
        /\ steps' \notin Opening1 \cup Opening2
    <2>1. steps \notin Exported
      BY <1>2, RecordClasses, Tuples
    <2>2. ASSUME steps' \in Opening1 \cup Opening2
          PROVE  FALSE
      BY <1>6, <2>2, PlanParts, ClosingParts, Tuples DEF Nothing, Opening1, Opening2, Opens
    <2> QED
      BY <2>1, <2>2
  <1>9. /\ log \in Logs /\ log = started /\ path = "gpx"
        /\ EachCsvHas(log)
        /\ safe[log] = {} \/ \E g \in Ways : Has(log, Csv[g])
    BY <1>2, <1>8 DEF RecordInv
  <1>10. /\ UNCHANGED <<enabled, log, points, opened, path, started, spoilt>>
         /\ increment' = [increment EXCEPT ![f] = {}]
         /\ safe' = IF f = 2 THEN [safe EXCEPT ![log] = @ \cup InAllFiles(log)] ELSE safe
         /\ mishap' \/ mishap' = mishap
    BY DEF Flush, exportVars, countVars, stateVars, Succeeds, Fails, failVars
  <1>11. /\ buffer' \in [Ways -> SUBSET Points] /\ \A g \in Ways : buffer'[g] \subseteq points
         /\ \/ \E ps \in SUBSET points : Write(log, Csv[f], ps) /\ disk[log][Csv[f]] \subseteq ps
               /\ Has(log, Csv[f])
            \/ disk' = disk
    <2>1. CASE f \notin opened
      BY <1>2, <2>1 DEF Flush, RecordInv
    <2>2. CASE f \in opened
      <3> DEFINE data == buffer[f] \cup increment[f]
                 stored == disk[log][Csv[f]]
      <3>1. data \subseteq points /\ stored \subseteq points /\ Has(log, Csv[f])
        BY <1>2, <2>2 DEF RecordInv
      <3>2. \/ Write(log, Csv[f], stored \cup data) /\ buffer' = [buffer EXCEPT ![f] = {}]
            \/ \E written \in SUBSET data, kept \in SUBSET data :
                  /\ Write(log, Csv[f], stored \cup written)
                  /\ buffer' = [buffer EXCEPT ![f] = kept \ written]
        BY <2>2 DEF Flush
      <3> HIDE DEF data, stored
      <3>3. PICK written \in SUBSET data, kept \in SUBSET data :
               /\ Write(log, Csv[f], stored \cup written)
               /\ buffer' = [buffer EXCEPT ![f] = kept \ written]
        <4>1. data \in SUBSET data /\ {} \in SUBSET data /\ {} \ data = {}
          OBVIOUS
        <4> QED
          BY <3>2, <4>1
      <3>4. buffer' \in [Ways -> SUBSET Points] /\ \A g \in Ways : buffer'[g] \subseteq points
        BY <1>2, <3>1, <3>3 DEF RecordInv
      <3>5. stored \cup written \in SUBSET points /\ stored \subseteq stored \cup written
        BY <3>1
      <3> QED
        BY <3>1, <3>3, <3>4, <3>5 DEF stored
    <2> QED
      BY <2>1, <2>2
  <1>12. /\ DiskType' /\ Elsewhere
         /\ DOMAIN disk'[log] = DOMAIN disk[log]
         /\ \A k \in DOMAIN disk[log] : disk[log][k] \subseteq disk'[log][k]
         /\ \A k \in DOMAIN disk[log] : disk'[log][k] \subseteq disk[log][k] \cup points
    <2>1. CASE disk' = disk
      BY <2>1 DEF DiskType, Elsewhere
    <2>2. ASSUME NEW ps \in SUBSET points, Write(log, Csv[f], ps), disk[log][Csv[f]] \subseteq ps,
                 Has(log, Csv[f])
          PROVE  /\ DiskType' /\ Elsewhere
                 /\ DOMAIN disk'[log] = DOMAIN disk[log]
                 /\ \A k \in DOMAIN disk[log] : disk[log][k] \subseteq disk'[log][k]
                 /\ \A k \in DOMAIN disk[log] : disk'[log][k] \subseteq disk[log][k] \cup points
      <3>1. ps \in SUBSET Points /\ Csv[f] \in Kinds
        OBVIOUS
      <3>2. /\ DiskType' /\ Elsewhere
            /\ DOMAIN disk'[log] = DOMAIN disk[log] \cup {Csv[f]}
            /\ disk'[log][Csv[f]] = ps
            /\ \A k \in DOMAIN disk[log] : k # Csv[f] => disk'[log][k] = disk[log][k]
        BY <1>9, <2>2, <3>1, WriteFacts
      <3> QED
        BY <2>2, <3>2 DEF Has
    <2> QED
      BY <1>11, <2>1, <2>2
  <1>13. /\ increment' \in [Ways -> SUBSET Points] /\ \A g \in Ways : increment'[g] \subseteq points
    BY <1>2, <1>10 DEF RecordInv
  <1>14. /\ safe' \in [Logs -> SUBSET Points]
         /\ \A l \in Logs : l # log => safe'[l] = safe[l]
         /\ \A p \in safe'[log] :
               p \in safe[log]
               \/ /\ \E g \in Ways : Csv[g] \in DOMAIN disk'[log]
                  /\ \A g \in Ways : Csv[g] \in DOMAIN disk'[log] => p \in disk'[log][Csv[g]]
    <2>1. \A p \in InAllFiles(log) :
             /\ p \in Points
             /\ \E g \in Ways : Csv[g] \in DOMAIN disk'[log]
             /\ \A g \in Ways : Csv[g] \in DOMAIN disk'[log] => p \in disk'[log][Csv[g]]
      BY DEF InAllFiles
    <2> QED
      BY <1>9, <1>10, <2>1
  <1>15. /\ \A g \in Ways : Has(log, Csv[g])' <=> Has(log, Csv[g])
         /\ \A g \in Ways, l \in Logs : Has(l, Csv[g])' <=> Has(l, Csv[g])
    BY <1>9, <1>10, <1>12 DEF Has, Elsewhere
  <1>16. /\ \A g \in Ways : Has(log, Csv[g])' => \A p \in safe'[log] : p \in disk'[log][Csv[g]]
         /\ safe'[log] = {} \/ \E g \in Ways : Has(log, Csv[g])'
         /\ safe'[log] \subseteq points
    <2>1. ASSUME NEW g \in Ways, Has(log, Csv[g])', NEW p \in safe'[log]
          PROVE  p \in disk'[log][Csv[g]]
      BY <1>9, <1>10, <1>12, <1>14, <1>15, <2>1 DEF Has, EachCsvHas
    <2>2. safe'[log] = {} \/ \E g \in Ways : Has(log, Csv[g])'
      BY <1>9, <1>10, <1>14, <1>15 DEF Has
    <2>3. \A g \in Ways : Has(log, Csv[g])' => disk'[log][Csv[g]] \subseteq points
      BY <1>2, <1>12, <1>15 DEF RecordInv, Has
    <2>4. safe[log] \subseteq points
      BY <1>2 DEF RecordInv
    <2> QED
      BY <1>14, <2>1, <2>2, <2>3, <2>4
  <1>17. EachCsvHas(log)'
    BY <1>10, <1>16 DEF EachCsvHas
  <1>18. DiskInv'
    <2>1. \A l \in Logs : l = log => Covered(l)'
      <3> SUFFICES ASSUME NEW l \in Logs, l = log
                   PROVE  Covered(l)'
        OBVIOUS
      <3>1. EachCsvHas(l)' /\ (safe'[l] = {} \/ \E g \in Ways : Has(l, Csv[g])')
        BY <1>10, <1>16 DEF EachCsvHas, Has
      <3> QED
        BY <3>1, CoveredByCsv
    <2>2. ~(log > started)
      BY <1>9 DEF Logs
    <2> QED
      BY <1>10, <1>12, <1>14, <2>1, <2>2, DiskKept DEF Elsewhere
  <1>19. RecordInv'
    <2>1. ~mishap' => \A g \in Ways : Only(IF g \in opened THEN {log} ELSE {}, g)'
      BY <1>2, <1>10, <1>15 DEF RecordInv, Only
    <2>2. \A g \in Ways : Has(log, Csv[g])' => (disk[log][Csv[g]])' \subseteq points'
      BY <1>2, <1>10, <1>12, <1>15 DEF RecordInv, Has
    <2>3. \A p \in safe'[log'] : p \in points'
      BY <1>10, <1>16
    <2>4. safe'[log'] = {} \/ \E g \in Ways : Has(log, Csv[g])'
      BY <1>10, <1>16
    <2>5. \A g \in Ways : increment'[g] \subseteq points' /\ buffer'[g] \subseteq points'
      BY <1>10, <1>11, <1>13
    <2> QED
      BY <1>7, <1>8, <1>9, <1>10, <1>17, <2>1, <2>2, <2>3, <2>4, <2>5 DEF RecordInv
  <1>20. opened' \subseteq {g \in Ways : Has(log, Csv[g])'}
    BY <1>10, <1>15
  <1> QED
    BY <1>2, <1>7, <1>10, <1>11, <1>12, <1>13, <1>14, <1>18, <1>19, <1>20 DEF FilesInv

LEMMA SetPausedStep ==
    ASSUME IInv, NEW name \in {"pause", "unpause"}, SetPaused(name)
    PROVE  /\ DiskInv' /\ FilesInv'
           /\ enabled /\ steps \in Lasting /\ steps' \in Lasting
  <1> USE TypeParts
  <1>1. Doing(name, 0) /\ name \in {"open", "flush", "pause", "unpause", "delete", "stopped"}
    BY DEF SetPaused
  <1>2. enabled /\ RecordInv /\ steps \in Lasting \cup Closing \cup Exported /\ steps # <<>>
        /\ Head(steps) = <<name, 0>>
    BY <1>1, WhoseStep
  <1>3. steps \in Flag
    BY <1>2, RecordHeads
  <1>4. Tail(steps) \in Nothing
    BY <1>3, PlanParts DEF Nothing
  <1>5. steps' \in Nothing
    BY <1>1, <1>4, Stepped, PlansAreSequences DEF SetPaused
  <1>6. /\ steps \in Lasting /\ steps' \in Lasting
        /\ steps' \notin Opening1 \cup Opening2
        /\ steps \notin Exported
    BY <1>2, <1>3, <1>5, RecordClasses, Tuples DEF Lasting, Nothing, Opening1, Opening2, Opens
  <1>7. UNCHANGED <<enabled, log, points, increment, buffer, opened, path, started, safe, spoilt,
                    disk, mishap>>
    BY DEF SetPaused, wayVars, exportVars, countVars, history, failVars
  <1>8. DiskInv'
    BY <1>7, DiskSame
  <1>9. RecordInv'
    BY <1>2, <1>6, <1>7 DEF RecordInv, Only, EachCsvHas, GpxHas, InGpx, Has
  <1> QED
    BY <1>2, <1>6, <1>7, <1>8, <1>9 DEF FilesInv

\* A log that has been exported is covered by its export.
LEMMA CoveredByGpx ==
    ASSUME NEW l \in Logs, GpxHas(l)'
    PROVE  Covered(l)'
  BY DEF GpxHas, InGpx, Covered, Has

LEMMA DeleteStep ==
    ASSUME IInv, NEW f \in Ways, Delete(f)
    PROVE  /\ DiskType' /\ DiskInv' /\ FilesInv'
           /\ enabled /\ steps \notin Lasting
           /\ opened' \subseteq {g \in Ways : Has(log, Csv[g])'}
  <1> USE TypeParts, KindFacts
  <1>1. Doing("delete", f)
    BY DEF Delete
  <1>2. enabled /\ RecordInv /\ steps \in Lasting \cup Closing \cup Exported /\ steps # <<>>
        /\ Head(steps) = <<"delete", f>>
    BY <1>1, WhoseStep
  <1>3. steps \in (IF f = 1 THEN Deleting1 ELSE Deleting2)
    BY <1>2, RecordHeads
  <1>4. Tail(steps) \in (IF f = 1 THEN Deleting2 ELSE Ending)
    BY <1>3, PlanParts
  <1>5. steps' \in (IF f = 1 THEN Deleting2 ELSE Ending)
    <2>1. Deleting2 \subseteq Seq(Pairs) /\ Ending \subseteq Seq(Pairs)
      BY PlansAreSequences DEF Deleting2, Ending
    <2> QED
      BY <1>1, <1>4, <2>1, Stepped DEF Delete
  <1>6. /\ steps' \in Exported
        /\ steps \notin Lasting \cup Closing
    <2>1. steps \in Exported /\ steps' \in Exported
      BY <1>3, <1>5 DEF Exported
    <2> QED
      BY <1>2, <2>1, RecordClasses, Tuples
  <1>7. /\ log \in Logs /\ log = started /\ path = "gpx"
        /\ log \notin spoilt => GpxHas(log) /\ Has(log, "gpx")
        /\ f = 2 => 1 \notin opened
    BY <1>2, <1>3, <1>6 DEF RecordInv
  <1>8. /\ UNCHANGED <<enabled, log, points, increment, buffer, path, started, safe, spoilt>>
        /\ opened' = opened \ {f}
        /\ \/ f \in opened /\ Remove(log, Csv[f]) /\ mishap' = mishap
           \/ mishap' /\ \E ps \in SUBSET points : Write(log, Csv[f], ps) /\ Has(log, Csv[f])
           \/ f \notin opened /\ disk' = disk /\ mishap' = mishap
    <2>1. ASSUME NEW written \in SUBSET buffer[f], f \in opened
          PROVE  disk[log][Csv[f]] \cup written \in SUBSET points /\ Has(log, Csv[f])
      BY <1>2, <2>1 DEF RecordInv
    <2> QED
      BY <2>1 DEF Delete, exportVars, countVars, stateVars, Succeeds, Fails, failVars
  <1>9. /\ DiskType' /\ Elsewhere
        /\ DOMAIN disk'[log] \subseteq DOMAIN disk[log]
        /\ \A k \in DOMAIN disk[log] : k # Csv[f] => k \in DOMAIN disk'[log] /\ disk'[log][k] = disk[log][k]
        /\ Csv[f] \in DOMAIN disk'[log] =>
              disk'[log][Csv[f]] = disk[log][Csv[f]] \/ disk'[log][Csv[f]] \subseteq points
        /\ f \in opened /\ ~mishap' => Csv[f] \notin DOMAIN disk'[log]
    <2>1. CASE disk' = disk /\ ~(f \in opened /\ ~mishap')
      BY <2>1 DEF DiskType, Elsewhere
    <2>2. CASE Remove(log, Csv[f])
      BY <1>7, <2>2, RemoveFacts
    <2>3. ASSUME NEW ps \in SUBSET points, Write(log, Csv[f], ps), Has(log, Csv[f]), mishap'
          PROVE  /\ DiskType' /\ Elsewhere
                 /\ DOMAIN disk'[log] \subseteq DOMAIN disk[log]
                 /\ \A k \in DOMAIN disk[log] :
                       k # Csv[f] => k \in DOMAIN disk'[log] /\ disk'[log][k] = disk[log][k]
                 /\ disk'[log][Csv[f]] \subseteq points
      <3>1. ps \in SUBSET Points /\ Csv[f] \in Kinds
        OBVIOUS
      <3>2. /\ DiskType' /\ Elsewhere
            /\ DOMAIN disk'[log] = DOMAIN disk[log] \cup {Csv[f]}
            /\ disk'[log][Csv[f]] = ps
            /\ \A k \in DOMAIN disk[log] : k # Csv[f] => disk'[log][k] = disk[log][k]
        BY <1>7, <2>3, <3>1, WriteFacts
      <3> QED
        BY <2>3, <3>2 DEF Has
    <2> QED
      BY <1>8, <2>1, <2>2, <2>3
  <1>10. log \notin spoilt => /\ Has(log, "gpx")'
                              /\ \A p \in safe'[log] : p \in disk'[log]["gpx"]
    BY <1>7, <1>8, <1>9 DEF GpxHas, InGpx, Has
  <1>11. DiskInv'
    <2>1. \A l \in Logs \ spoilt' : l = log => Covered(l)'
      <3> SUFFICES ASSUME NEW l \in Logs \ spoilt', l = log
                   PROVE  Covered(l)'
        OBVIOUS
      <3>1. GpxHas(l)'
        BY <1>8, <1>10 DEF GpxHas, InGpx, Has
      <3> QED
        BY <3>1, CoveredByGpx
    <2>2. ~(log > started)
      BY <1>7 DEF Logs
    <2> QED
      BY <1>8, <1>9, <2>1, <2>2, DiskKept DEF Elsewhere
  <1>12. RecordInv'
    <2>1. ~mishap' => \A g \in Ways : Only(IF g \in opened THEN {log} ELSE {}, g)'
      BY <1>2, <1>7, <1>8, <1>9 DEF RecordInv, Only, Has, Elsewhere
    <2>2. \A g \in Ways : Has(log, Csv[g])' => (disk[log][Csv[g]])' \subseteq points'
      <3> SUFFICES ASSUME NEW g \in Ways, Csv[g] \in DOMAIN disk'[log]
                   PROVE  disk'[log][Csv[g]] \subseteq points
        BY <1>8 DEF Has
      <3>1. Csv[g] \in DOMAIN disk[log] /\ disk[log][Csv[g]] \subseteq points
        BY <1>2, <1>9 DEF RecordInv, Has
      <3> QED
        BY <1>9, <3>1
    <2>3. log' \notin spoilt' => GpxHas(log)' /\ Has(log, "gpx")'
      BY <1>8, <1>10 DEF GpxHas, InGpx, Has
    <2>4. /\ steps' \in Deleting2 \cup Ending => 1 \notin opened'
          /\ steps' \in Ending => opened' = {}
      <3>1. steps' \in Deleting2 => steps' \notin Ending
        BY EndsDiffer
      <3>2. opened \subseteq {1, 2}
        BY DEF Ways
      <3> QED
        BY <1>5, <1>7, <1>8, <3>1, <3>2
    <2> QED
      BY <1>2, <1>6, <1>7, <1>8, <2>1, <2>2, <2>3, <2>4 DEF RecordInv
  <1>13. opened' \subseteq {g \in Ways : Has(log, Csv[g])'}
    BY <1>8, <1>9 DEF Has
  <1> QED
    BY <1>2, <1>6, <1>8, <1>9, <1>11, <1>12, <1>13 DEF FilesInv

LEMMA StoppedStep ==
    ASSUME IInv, Stopped
    PROVE  /\ DiskInv' /\ FilesInv'
           /\ enabled /\ steps \notin Lasting
           /\ opened' = {}
  <1> USE TypeParts, KindFacts
  <1>1. Doing("stopped", 0)
    BY DEF Stopped
  <1>2. enabled /\ RecordInv /\ steps \in Lasting \cup Closing \cup Exported /\ steps # <<>>
        /\ Head(steps) = <<"stopped", 0>>
    BY <1>1, WhoseStep
  <1>3. steps \in Ending
    BY <1>2, RecordHeads
  <1>4. Tail(steps) \in Nothing \cup Exiting
    BY <1>3, PlanParts
  <1>5. steps' \in Nothing \cup Exiting
    <2>1. Nothing \cup Exiting \subseteq Seq(Pairs)
      BY PlansAreSequences DEF Exiting
    <2> QED
      BY <1>1, <1>4, <2>1, Stepped DEF Stopped
  <1>6. steps \notin Lasting \cup Closing
    BY <1>2, <1>3, RecordClasses, Tuples
  <1>7. opened = {} /\ path = "gpx" /\ (~mishap => \A f \in Ways : Only({}, f))
    BY <1>2, <1>3, <1>6 DEF RecordInv
  <1>8. /\ enabled' = FALSE
        /\ UNCHANGED <<opened, path, disk, started, safe, spoilt, mishap>>
    BY DEF Stopped, exportVars, countVars, history, failVars
  <1>9. DiskInv'
    BY <1>8, DiskSame
  <1>10. RestInv' /\ opened' = {}
    BY <1>5, <1>7, <1>8 DEF RestInv, Only, Has
  <1> QED
    BY <1>2, <1>6, <1>8, <1>9, <1>10 DEF FilesInv, IdleInv

\* The export of stopLogging() goes on with the deletion of the temporary files,
\* or tries the other way.
LEMMA TriesAgain ==
    ASSUME IInv, NEW try \in Ways, NEW name, Doing(name, try), Tail(steps) \in Deleting1,
           TryAgain(try)
    PROVE  \/ steps' \in Creating(2) /\ spoilt' = spoilt
           \/ steps' \in Deleting1 /\ spoilt' = spoilt \cup {log}
  <1>1. Deleting1 \subseteq Seq(Pairs) /\ <<"create", 2>> \in Pairs
    BY PlansAreSequences, PairsThere DEF Deleting1, Names
  <1> QED
    BY <1>1, Stepped DEF TryAgain, Creating

\* What stays of a recording, whatever becomes of its export.
LEMMA ExportGoesOn ==
    ASSUME IInv, enabled, RecordInv,
           UNCHANGED <<enabled, log, points, increment, buffer, opened, path, started>>,
           \A l \in Logs, g \in Ways : Has(l, Csv[g])' <=> Has(l, Csv[g]),
           \A l \in Logs, g \in Ways : Has(l, Csv[g]) => disk'[l][Csv[g]] = disk[l][Csv[g]],
           mishap' \/ mishap' = mishap,
           \A p \in safe'[log] : p \in points,
           \/ /\ steps' \in Creating(2) \cup Exporting(1) \cup Exporting(2)
              /\ steps \in Closing
              /\ safe' = safe
           \/ /\ steps' \in Deleting1
              /\ log \notin spoilt' => GpxHas(log)' /\ Has(log, "gpx")'
    PROVE  FilesInv'
  <1>1. log \in Logs
    BY DEF RecordInv
  <1>2. ~mishap' => \A g \in Ways : Only(IF g \in opened THEN {log} ELSE {}, g)'
    BY DEF RecordInv, Only
  <1>3. \A g \in Ways : Has(log, Csv[g])' => (disk[log][Csv[g]])' \subseteq points'
    BY <1>1 DEF RecordInv
  <1>4. CASE /\ steps' \in Creating(2) \cup Exporting(1) \cup Exporting(2)
             /\ steps \in Closing /\ safe' = safe
    <2>1. steps \notin Exported
      BY <1>4, RecordClasses, Tuples
    <2>2. EachCsvHas(log) /\ (safe[log] = {} \/ \E g \in Ways : Has(log, Csv[g]))
      BY <2>1 DEF RecordInv
    <2>3. steps' \notin Opening1 \cup Opening2 /\ steps' \in Closing
      BY <1>4, PlanParts, ClosingParts, Tuples DEF Closing
    <2>4. EachCsvHas(log)' /\ (safe'[log'] = {} \/ \E g \in Ways : Has(log, Csv[g])')
      BY <1>1, <1>4, <2>2 DEF EachCsvHas
    <2>5. RecordInv'
      BY <1>2, <1>3, <1>4, <2>3, <2>4 DEF RecordInv
    <2> QED
      BY <2>5 DEF FilesInv
  <1>5. CASE steps' \in Deleting1 /\ (log \notin spoilt' => GpxHas(log)' /\ Has(log, "gpx")')
    <2>1. steps' \in Exported /\ steps' \notin Deleting2 \cup Ending
      BY <1>5, EndsDiffer DEF Exported
    <2>2. RecordInv'
      BY <1>2, <1>3, <1>5, <2>1 DEF RecordInv
    <2> QED
      BY <2>2 DEF FilesInv
  <1> QED
    BY <1>4, <1>5

LEMMA CreateStep ==
    ASSUME IInv, NEW try \in Ways, CreateGpx(try), enabled
    PROVE  /\ DiskType' /\ DiskInv' /\ FilesInv'
           /\ steps \notin Lasting
           /\ opened' \subseteq {g \in Ways : Has(log, Csv[g])'}
           /\ spoilt' \subseteq Logs
  <1> USE TypeParts, KindFacts
  <1>1. Doing("create", try)
    BY DEF CreateGpx
  <1>2. enabled /\ RecordInv /\ steps \in Lasting \cup Closing \cup Exported /\ steps # <<>>
        /\ Head(steps) = <<"create", try>>
    BY <1>1, WhoseStep
  <1>3. steps \in Creating(try) /\ steps \in Closing
    BY <1>2, RecordHeads, KindFacts DEF Closing
  <1>4. Tail(steps) \in Deleting1
    BY <1>3, PlanParts
  <1>5. steps \notin Lasting \cup Exported
    BY <1>2, RecordClasses, Tuples
  <1>6. /\ log \in Logs /\ path = "gpx"
        /\ EachCsvHas(log) /\ (safe[log] = {} \/ \E g \in Ways : Has(log, Csv[g]))
        /\ ~(log > started)
    BY <1>2, <1>5 DEF RecordInv, Logs
  <1>7. UNCHANGED <<enabled, log, points, increment, buffer, opened, path, started, safe>>
    BY DEF CreateGpx, wayVars, exportVars, countVars, stateVars
  <1>8. \/ /\ Write(log, "gpx", {}) /\ steps' \in Exporting(try)
           /\ mishap' = mishap /\ spoilt' = spoilt
        \/ /\ disk' = disk /\ mishap'
           /\ \/ steps' \in Creating(2) /\ spoilt' = spoilt
              \/ steps' \in Deleting1 /\ spoilt' = spoilt \cup {log}
    <2>1. Then(<< <<"export", try>> >>) => steps' \in Exporting(try)
      <3>1. Deleting1 \subseteq Seq(Pairs) /\ <<"export", try>> \in Pairs
        BY PlansAreSequences, PairsThere DEF Deleting1, Names
      <3> QED
        BY <1>1, <1>4, <3>1, Stepped DEF Exporting
    <2>2. TryAgain(try) => \/ steps' \in Creating(2) /\ spoilt' = spoilt
                           \/ steps' \in Deleting1 /\ spoilt' = spoilt \cup {log}
      BY <1>1, <1>4, TriesAgain
    <2> QED
      BY <1>6, <2>1, <2>2 DEF CreateGpx, Succeeds, Fails, failVars
  <1>9. /\ DiskType' /\ Elsewhere
        /\ \A g \in Ways : Csv[g] \in DOMAIN disk'[log] <=> Csv[g] \in DOMAIN disk[log]
        /\ \A g \in Ways : Csv[g] \in DOMAIN disk[log] => disk'[log][Csv[g]] = disk[log][Csv[g]]
    <2>1. CASE disk' = disk
      BY <2>1 DEF DiskType, Elsewhere
    <2>2. CASE Write(log, "gpx", {})
      BY <1>6, <2>2, WriteFacts
    <2> QED
      BY <1>8, <2>1, <2>2
  <1>10. /\ \A l \in Logs, g \in Ways : Has(l, Csv[g])' <=> Has(l, Csv[g])
         /\ \A l \in Logs, g \in Ways : Has(l, Csv[g]) => disk'[l][Csv[g]] = disk[l][Csv[g]]
    BY <1>9 DEF Has, Elsewhere
  <1>11. DiskInv'
    <2>1. \A l \in Logs \ spoilt' : l = log => Covered(l)'
      <3> SUFFICES ASSUME NEW l \in Logs \ spoilt', l = log
                   PROVE  Covered(l)'
        OBVIOUS
      <3>1. EachCsvHas(l)' /\ (safe'[l] = {} \/ \E g \in Ways : Has(l, Csv[g])')
        BY <1>6, <1>7, <1>10 DEF EachCsvHas
      <3> QED
        BY <3>1, CoveredByCsv
    <2> QED
      BY <1>6, <1>7, <1>8, <1>9, <2>1, DiskKept DEF Elsewhere
  <1>12. FilesInv'
    <2>1. \A p \in safe'[log] : p \in points
      BY <1>2, <1>7 DEF RecordInv
    <2> QED
      BY <1>2, <1>3, <1>7, <1>8, <1>10, <2>1, KindFacts, ExportGoesOn
  <1> QED
    BY <1>5, <1>6, <1>7, <1>8, <1>9, <1>10, <1>11, <1>12

LEMMA ExportStep ==
    ASSUME IInv, NEW try \in Ways, Export(try), enabled
    PROVE  /\ DiskType' /\ DiskInv' /\ FilesInv'
           /\ steps \notin Lasting
           /\ opened' \subseteq {g \in Ways : Has(log, Csv[g])'}
           /\ spoilt' \subseteq Logs /\ safe' \in [Logs -> SUBSET Points]
  <1> USE TypeParts, KindFacts
  <1>1. Doing("export", try)
    BY DEF Export
  <1>2. enabled /\ RecordInv /\ steps \in Lasting \cup Closing \cup Exported /\ steps # <<>>
        /\ Head(steps) = <<"export", try>>
    BY <1>1, WhoseStep
  <1>3. steps \in Exporting(try) /\ steps \in Closing
    BY <1>2, RecordHeads, KindFacts DEF Closing
  <1>4. Tail(steps) \in Deleting1 /\ Deleting1 \subseteq Seq(Pairs)
    BY <1>3, PlanParts, PlansAreSequences DEF Deleting1
  <1>5. steps \notin Lasting \cup Exported
    BY <1>2, RecordClasses, Tuples
  <1>6. /\ log \in Logs /\ path = "gpx" /\ safe[log] \subseteq points
        /\ ~(log > started)
    BY <1>2, <1>5 DEF RecordInv, Logs
  <1>7. UNCHANGED <<enabled, log, points, increment, buffer, opened, path, started>>
    BY DEF Export, wayVars, exportVars, countVars, stateVars
  <1>8. \/ /\ Write(log, "gpx", points) /\ steps' \in Deleting1
           /\ safe' = [safe EXCEPT ![log] = @ \cup points]
           /\ mishap' = mishap /\ spoilt' = spoilt
        \/ /\ disk' = disk /\ mishap' /\ safe' = safe
           /\ \/ steps' \in Creating(2) /\ spoilt' = spoilt
              \/ steps' \in Deleting1 /\ spoilt' = spoilt \cup {log}
    <2>1. Done => steps' \in Deleting1
      BY <1>1, <1>4, Stepped
    <2>2. TryAgain(try) => \/ steps' \in Creating(2) /\ spoilt' = spoilt
                           \/ steps' \in Deleting1 /\ spoilt' = spoilt \cup {log}
      BY <1>1, <1>4, TriesAgain
    <2> QED
      BY <1>6, <2>1, <2>2 DEF Export, Succeeds, Fails, failVars
  <1>9. /\ DiskType' /\ Elsewhere
        /\ \A g \in Ways : Csv[g] \in DOMAIN disk'[log] <=> Csv[g] \in DOMAIN disk[log]
        /\ \A g \in Ways : Csv[g] \in DOMAIN disk[log] => disk'[log][Csv[g]] = disk[log][Csv[g]]
        /\ Write(log, "gpx", points) => "gpx" \in DOMAIN disk'[log] /\ disk'[log]["gpx"] = points
    <2>1. CASE disk' = disk /\ ~Write(log, "gpx", points)
      BY <2>1 DEF DiskType, Elsewhere
    <2>2. CASE Write(log, "gpx", points)
      BY <1>6, <2>2, WriteFacts
    <2> QED
      BY <1>8, <2>1, <2>2
  <1>10. /\ \A l \in Logs, g \in Ways : Has(l, Csv[g])' <=> Has(l, Csv[g])
         /\ \A l \in Logs, g \in Ways : Has(l, Csv[g]) => disk'[l][Csv[g]] = disk[l][Csv[g]]
    BY <1>9 DEF Has, Elsewhere
  <1>11. /\ safe' \in [Logs -> SUBSET Points]
         /\ \A l \in Logs : l # log => safe'[l] = safe[l]
         /\ safe'[log] \subseteq points
         /\ Write(log, "gpx", points) /\ steps' \in Deleting1 =>
               /\ "gpx" \in DOMAIN disk'[log]
               /\ \A p \in safe'[log] : p \in disk'[log]["gpx"]
    BY <1>6, <1>8, <1>9
  <1>12. DiskInv'
    <2>1. CASE disk' = disk /\ safe' = safe
      BY <1>7, <1>8, <2>1, DiskSame
    <2>2. CASE Write(log, "gpx", points) /\ steps' \in Deleting1
      <3>1. \A l \in Logs \ spoilt' : l = log => Covered(l)'
        <4> SUFFICES ASSUME NEW l \in Logs \ spoilt', l = log
                     PROVE  Covered(l)'
          OBVIOUS
        <4>1. GpxHas(l)'
          BY <1>11, <2>2 DEF GpxHas, InGpx, Has
        <4> QED
          BY <4>1, CoveredByGpx
      <3> QED
        BY <1>6, <1>7, <1>8, <1>9, <1>11, <3>1, DiskKept DEF Elsewhere
    <2> QED
      BY <1>8, <2>1, <2>2
  <1>13. FilesInv'
    <2>1. \/ /\ steps' \in Creating(2) /\ safe' = safe
          \/ /\ steps' \in Deleting1
             /\ log \notin spoilt' => GpxHas(log)' /\ Has(log, "gpx")'
      BY <1>7, <1>8, <1>11 DEF GpxHas, InGpx, Has
    <2> QED
      BY <1>2, <1>3, <1>7, <1>8, <1>10, <1>11, <2>1, ExportGoesOn
  <1> QED
    BY <1>5, <1>6, <1>7, <1>8, <1>9, <1>10, <1>11, <1>12, <1>13

-----------------------------------------------------------------------------
(* The steps of the rescue.                                                *)

\* What the pass that is at a step knows.
LEMMA PassFacts ==
    ASSUME NEW f \in Ways, PassInv(f), NEW name, NEW g, Head(steps) = <<name, g>>
    PROVE  /\ ~mishap /\ f = 2 => Only({}, 1)
           /\ \A l \in left : Has(l, Csv[f])
           /\ name = "next" => g = f /\ steps \in Nexts(f) /\ (~mishap => Only(left, f))
           /\ name # "next" => log \in Logs \ left
           /\ name = "move" => g = f /\ steps \in Moving(f) /\ Has(log, Csv[f]) /\ mishap
           /\ name \in {"read", "create", "export", "remove"} =>
                 Has(log, Csv[f]) /\ (~mishap => Only(left \cup {log}, f))
           /\ name = "read" => g = f /\ steps \in Reading(f)
           /\ name = "create" => g = 2 /\ steps \in RescueCreating(f)
           /\ name = "export" => g = 2 /\ steps \in RescueExporting(f)
           /\ name \in {"create", "export"} =>
                 /\ points = disk[log][Csv[f]]
                 /\ path \in {"gpx", Gpx[f]}
                 /\ path = "gpx" /\ log \notin spoilt => EachCsvHas(log)
           /\ name = "remove" => g = f /\ steps \in Removing(f) /\ RescuedInv
           /\ name = "remove-other" => /\ f = 1 /\ steps \in RemovingOther /\ RescuedInv
                                       /\ ~mishap => Only(left, 1)
  <1>1. steps \in Passing(f)
    BY PassClass
  <1>2. /\ name = "next" => g = f /\ steps \in Nexts(f)
        /\ name = "read" => g = f /\ steps \in Reading(f)
        /\ name = "move" => g = f /\ steps \in Moving(f)
        /\ name = "remove" => g = f /\ steps \in Removing(f)
        /\ name = "create" => g = 2 /\ steps \in RescueCreating(f)
        /\ name = "export" => g = 2 /\ steps \in RescueExporting(f)
        /\ name = "remove-other" => steps \in RemovingOther
    BY <1>1, PassHeads
  <1>3. CASE steps \in Nexts(f) /\ (~mishap => Only(left, f))
    <2>1. name = "next"
      BY <1>3, RescueParts, Tuples
    <2> QED
      BY <1>2, <1>3, <2>1 DEF PassInv
  <1>4. CASE log \in Logs \ left /\ FileInv(f)
    <2>1. CASE steps \in Moving(f) /\ Has(log, Csv[f]) /\ mishap
      <3>1. name = "move"
        BY <2>1, RescueParts, Tuples
      <3> QED
        BY <1>2, <1>4, <2>1, <3>1 DEF PassInv
    <2>2. CASE /\ ~mishap => Only(left \cup {log}, f)
               /\ Has(log, Csv[f])
               /\ steps \in Reading(f)
      <3>1. name = "read"
        BY <2>2, RescueParts, Tuples
      <3> QED
        BY <1>2, <1>4, <2>2, <3>1 DEF PassInv
    <2>3. CASE /\ ~mishap => Only(left \cup {log}, f)
               /\ Has(log, Csv[f])
               /\ steps \in RescueCreating(f) \cup RescueExporting(f)
               /\ points = disk[log][Csv[f]]
               /\ path \in {"gpx", Gpx[f]}
               /\ path = "gpx" /\ log \notin spoilt => EachCsvHas(log)
      <3>1. name \in {"create", "export"}
        BY <2>3, RescueParts, Tuples
      <3> QED
        BY <1>2, <1>4, <2>3, <3>1 DEF PassInv
    <2>4. CASE /\ ~mishap => Only(left \cup {log}, f)
               /\ Has(log, Csv[f])
               /\ steps \in Removing(f) /\ RescuedInv
      <3>1. name = "remove"
        BY <2>4, RescueParts, Tuples
      <3> QED
        BY <1>2, <1>4, <2>4, <3>1 DEF PassInv
    <2>5. CASE /\ f = 1 /\ steps \in RemovingOther /\ RescuedInv
               /\ ~mishap => Only(left, 1)
      <3>1. name = "remove-other"
        BY <2>5, RescueParts, Tuples
      <3> QED
        BY <1>2, <1>4, <2>5, <3>1 DEF PassInv
    <2> QED
      BY <1>4, <2>1, <2>2, <2>3, <2>4, <2>5 DEF FileInv
  <1> QED
    BY <1>3, <1>4 DEF PassInv

\* The pass that is at a step.
LEMMA PassOf ==
    ASSUME IInv, NEW name, NEW g, Doing(name, g), ~enabled,
           name \in {"next", "read", "move", "remove", "create", "export", "remove-other"}
    PROVE  \E f \in Ways : PassInv(f) /\ opened = {} /\ Head(steps) = <<name, g>>
  BY WhoseStep

LEMMA ScanStep ==
    ASSUME IInv, NEW f \in Ways, Scan(f)
    PROVE  DiskInv' /\ FilesInv' /\ ~enabled /\ opened' = {} /\ left' \subseteq Logs
  <1> USE TypeParts, KindFacts
  <1>1. Doing("scan", f)
    BY DEF Scan
  <1>2. ~enabled /\ opened = {} /\ ScanInv /\ steps # <<>> /\ Head(steps) = <<"scan", f>>
    BY <1>1, WhoseStep
  <1>3. steps \in (IF f = 1 THEN Scanning1 ELSE Scanning2)
    BY <1>2, ScanHeads DEF ScanInv
  <1>4. Tail(steps) \in Passed(f)
    BY <1>3, RescueParts DEF Passed, Nothing
  <1>5. steps' \in Nexts(f)
    <2>1. Passed(f) \subseteq Seq(Pairs) /\ <<"next", f>> \in Pairs
      BY ClassesAreSequences, PairsThere DEF Names
    <2> QED
      BY <1>1, <1>4, <2>1, Stepped DEF Scan, Nexts
  <1>6. /\ UNCHANGED <<enabled, opened, log, disk, started, safe, spoilt, mishap>>
        /\ left' = {l \in Logs : Has(l, Csv[f])}
    BY DEF Scan, wayVars, countVars, history, failVars, stateVars
  <1>7. DiskInv'
    BY <1>6, DiskSame
  <1>8. PassInv(f)'
    <2>1. ~mishap /\ f = 2 => Only({}, 1)
      BY <1>2, <1>3 DEF ScanInv
    <2> QED
      BY <1>5, <1>6, <2>1 DEF PassInv, Only, Has
  <1> QED
    BY <1>2, <1>6, <1>7, <1>8 DEF FilesInv, IdleInv

LEMMA RescueStep ==
    ASSUME IInv, NEW f \in Ways, Rescue(f)
    PROVE  DiskInv' /\ FilesInv' /\ ~enabled /\ opened' = {} /\ left' \subseteq Logs
           /\ log' \in Logs \cup {0} /\ points' \subseteq Points
  <1> USE TypeParts, KindFacts
  <1>1. Doing("next", f)
    BY DEF Rescue
  <1>2. ~enabled
    BY <1>1, WhoseStep
  <1>3. PICK g \in Ways : PassInv(g) /\ opened = {} /\ Head(steps) = <<"next", f>>
    BY <1>1, <1>2, PassOf
  <1>4. /\ ~mishap /\ f = 2 => Only({}, 1)
        /\ \A l \in left : Has(l, Csv[f])
        /\ steps \in Nexts(f) /\ (~mishap => Only(left, f))
    BY <1>3, PassFacts
  <1>5. Tail(steps) \in Passed(f) /\ Passed(f) \subseteq Seq(Pairs)
    BY <1>4, RescueParts, ClassesAreSequences
  <1>6. /\ UNCHANGED <<enabled, opened, disk, started, safe, spoilt, mishap>>
        /\ left \subseteq Logs
    BY DEF Rescue, countVars, history, failVars, stateVars, IInv, TypeOK
  <1>7. DiskInv'
    BY <1>6, DiskSame
  <1>8. CASE left = {}
    <2>1. steps' \in Passed(f) /\ path' = "gpx" /\ log' = 0 /\ points' = {} /\ left' = left
      BY <1>1, <1>5, <1>8, Stepped DEF Rescue
    <2>2. \A l \in Logs : ~mishap => ~Has(l, Csv[f])
      BY <1>4, <1>8 DEF Only
    <2>3. CASE f = 1
      <3>1. steps' \in Scanning2
        BY <2>1, <2>3 DEF Passed
      <3>2. ScanInv'
        BY <1>6, <2>1, <2>2, <2>3, <3>1 DEF ScanInv, Only, Has
      <3> QED
        BY <1>2, <1>3, <1>6, <1>7, <1>8, <2>1, <3>2 DEF FilesInv, IdleInv
    <2>4. CASE f = 2
      <3>1. steps' \in Nothing
        BY <2>1, <2>4 DEF Passed
      <3>2. \A h \in Ways, l \in Logs : ~mishap => ~Has(l, Csv[h])
        BY <1>4, <2>2, <2>4 DEF Only
      <3>3. RestInv'
        BY <1>6, <2>1, <3>1, <3>2 DEF RestInv, Only, Has
      <3> QED
        BY <1>2, <1>3, <1>6, <1>7, <1>8, <2>1, <3>3 DEF FilesInv, IdleInv
    <2> QED
      BY <2>3, <2>4
  <1>9. CASE left # {}
    <2>1. /\ log' \in left /\ left' = left \ {log'} /\ points' = points
          /\ steps' \in Reading(f)
      <3>1. <<"read", f>> \in Pairs /\ <<"next", f>> \in Pairs
        BY PairsThere DEF Names
      <3> QED
        BY <1>1, <1>5, <1>9, <3>1, Stepped DEF Rescue, Reading, Nexts
    <2>2. FileInv(f)'
      BY <1>4, <1>6, <2>1 DEF FileInv, Only, Has
    <2>3. PassInv(f)'
      BY <1>4, <1>6, <2>1, <2>2 DEF PassInv, Only, Has
    <2> QED
      BY <1>2, <1>3, <1>6, <1>7, <2>1, <2>3 DEF FilesInv, IdleInv
  <1> QED
    BY <1>8, <1>9

LEMMA ReadStep ==
    ASSUME IInv, NEW f \in Ways, Read(f)
    PROVE  DiskInv' /\ FilesInv' /\ ~enabled /\ opened' = {}
           /\ points' \subseteq Points /\ path' \in Kinds
  <1> USE TypeParts, KindFacts
  <1>1. Doing("read", f)
    BY DEF Read
  <1>2. ~enabled
    BY <1>1, WhoseStep
  <1>3. PICK g \in Ways : PassInv(g) /\ opened = {} /\ Head(steps) = <<"read", f>>
    BY <1>1, <1>2, PassOf
  <1>4. /\ ~mishap /\ f = 2 => Only({}, 1)
        /\ \A l \in left : Has(l, Csv[f])
        /\ log \in Logs \ left /\ Has(log, Csv[f]) /\ (~mishap => Only(left \cup {log}, f))
        /\ steps \in Reading(f)
    <2>1. g = f /\ log \in Logs \ left /\ steps \in Reading(g)
      BY <1>3, PassFacts
    <2>2. Has(log, Csv[g]) /\ (~mishap => Only(left \cup {log}, g))
      BY <1>3, PassFacts
    <2>3. (~mishap /\ g = 2 => Only({}, 1)) /\ \A l \in left : Has(l, Csv[g])
      BY <1>3, PassFacts
    <2> QED
      BY <2>1, <2>2, <2>3
  <1>5. Tail(steps) \in Nexts(f) /\ Nexts(f) \subseteq Seq(Pairs)
    BY <1>4, RescueParts, PlansAreSequences DEF Nexts
  <1>6. UNCHANGED <<enabled, opened, log, disk, left, started, safe, spoilt>>
    BY DEF Read, countVars, stateVars
  <1>7. DiskInv'
    BY <1>6, DiskSame
  <1>8. path \in Kinds /\ ExportPath(log, f) \in Kinds /\ disk[log][Csv[f]] \subseteq Points
    BY <1>4 DEF ExportPath, IInv, TypeOK, DiskType, Has
  <1>9. CASE /\ points' = disk[log][Csv[f]] /\ path' = ExportPath(log, f)
             /\ Then(<< <<"create", 2>>, <<"remove", f>> >>) /\ mishap' = mishap
    <2>1. steps' \in RescueCreating(f)
      <3>1. <<"create", 2>> \in Pairs /\ <<"remove", f>> \in Pairs
        BY PairsThere DEF Names
      <3> QED
        BY <1>1, <1>5, <1>9, <3>1, Stepped DEF RescueCreating, Removing
    <2>2. path' \in {"gpx", Gpx[f]}
      BY <1>9 DEF ExportPath
    <2>3. path' = "gpx" /\ log \notin spoilt => EachCsvHas(log)
      <3>1. path' = "gpx" => ~Has(log, "gpx")
        BY <1>9 DEF ExportPath
      <3>2. log \notin spoilt => Covered(log)
        BY <1>4 DEF DiskInv
      <3> QED
        BY <3>1, <3>2 DEF Covered, EachCsvHas, InGpx, Has
    <2>4. FileInv(f)'
      BY <1>4, <1>6, <1>9, <2>1, <2>2, <2>3 DEF FileInv, Only, Has, EachCsvHas
    <2>5. PassInv(f)'
      BY <1>4, <1>6, <1>9, <2>4 DEF PassInv, Only, Has
    <2> QED
      BY <1>2, <1>3, <1>6, <1>7, <1>8, <1>9, <2>5 DEF FilesInv, IdleInv
  <1>10. CASE points' = points /\ path' = path /\ Then(<< <<"move", f>> >>) /\ mishap'
    <2>1. steps' \in Moving(f)
      <3>1. <<"move", f>> \in Pairs
        BY PairsThere DEF Names
      <3> QED
        BY <1>1, <1>5, <1>10, <3>1, Stepped DEF Moving
    <2>2. PassInv(f)'
      BY <1>4, <1>6, <1>10, <2>1 DEF PassInv, FileInv, Has
    <2> QED
      BY <1>2, <1>3, <1>6, <1>7, <1>8, <1>10, <2>2 DEF FilesInv, IdleInv
  <1> QED
    BY <1>9, <1>10 DEF Read, Succeeds, Fails, failVars

\* What a step of the rescue on the export of a log leaves as it was.
CsvKept ==
    /\ \A l \in Logs, g \in Ways : Has(l, Csv[g])' <=> Has(l, Csv[g])
    /\ \A l \in Logs, g \in Ways : Has(l, Csv[g]) => disk'[l][Csv[g]] = disk[l][Csv[g]]

LEMMA CsvKeptBy ==
    ASSUME DiskType, log \in Logs, NEW f \in Ways, path \in {"gpx", Gpx[f]}, NEW ps,
           ps \subseteq Points, Write(log, path, ps)
    PROVE  /\ DiskType' /\ Elsewhere /\ CsvKept
           /\ DOMAIN disk'[log] = DOMAIN disk[log] \cup {path}
           /\ disk'[log][path] = ps
           /\ path # "gpx" => \A p : InGpx(log, p) => "gpx" \in DOMAIN disk'[log] /\ p \in disk'[log]["gpx"]
  <1> USE KindFacts
  <1>1. path \in Kinds
    OBVIOUS
  <1>2. /\ DiskType' /\ Elsewhere
        /\ DOMAIN disk'[log] = DOMAIN disk[log] \cup {path}
        /\ disk'[log][path] = ps
        /\ \A k \in DOMAIN disk[log] : k # path => disk'[log][k] = disk[log][k]
    BY <1>1, WriteFacts
  <1>3. \A g \in Ways : Csv[g] # path
    OBVIOUS
  <1>4. CsvKept
    <2> SUFFICES ASSUME NEW l \in Logs, NEW g \in Ways
                 PROVE  /\ Csv[g] \in DOMAIN disk'[l] <=> Csv[g] \in DOMAIN disk[l]
                        /\ Csv[g] \in DOMAIN disk[l] => disk'[l][Csv[g]] = disk[l][Csv[g]]
      BY DEF CsvKept, Has
    <2>1. CASE l # log
      BY <1>2, <2>1 DEF Elsewhere
    <2>2. CASE l = log
      BY <1>2, <1>3, <2>2
    <2> QED
      BY <2>1, <2>2
  <1>5. path # "gpx" => \A p : InGpx(log, p) => "gpx" \in DOMAIN disk'[log] /\ p \in disk'[log]["gpx"]
    BY <1>2 DEF InGpx, Has
  <1> QED
    BY <1>2, <1>4, <1>5

\* A pass goes on when only exports have been written.
LEMMA PassGoesOn ==
    ASSUME NEW f \in Ways, PassInv(f), UNCHANGED <<log, left>>, log \in Logs \ left, CsvKept,
           left \subseteq Logs, mishap' \/ mishap' = mishap, FileInv(f)'
    PROVE  PassInv(f)'
  BY KindFacts DEF PassInv, CsvKept, Only

LEMMA RescueCreateStep ==
    ASSUME IInv, NEW try \in Ways, CreateGpx(try), ~enabled
    PROVE  DiskType' /\ DiskInv' /\ FilesInv' /\ opened' = {} /\ spoilt' \subseteq Logs
  <1> USE TypeParts, KindFacts
  <1>1. Doing("create", try)
    BY DEF CreateGpx
  <1>2. PICK f \in Ways : PassInv(f) /\ opened = {} /\ Head(steps) = <<"create", try>>
    BY <1>1, PassOf
  <1>3. /\ log \in Logs \ left /\ try = 2 /\ steps \in RescueCreating(f)
        /\ Has(log, Csv[f]) /\ (~mishap => Only(left \cup {log}, f))
        /\ points = disk[log][Csv[f]]
        /\ path \in {"gpx", Gpx[f]}
        /\ path = "gpx" /\ log \notin spoilt => EachCsvHas(log)
    <2>1. log \in Logs \ left /\ try = 2 /\ steps \in RescueCreating(f)
      BY <1>2, PassFacts
    <2>2. Has(log, Csv[f]) /\ (~mishap => Only(left \cup {log}, f))
      BY <1>2, PassFacts
    <2>3. /\ points = disk[log][Csv[f]]
          /\ path \in {"gpx", Gpx[f]}
          /\ path = "gpx" /\ log \notin spoilt => EachCsvHas(log)
      BY <1>2, PassFacts
    <2> QED
      BY <2>1, <2>2, <2>3
  <1>4. Tail(steps) \in Removing(f) /\ Removing(f) \subseteq Seq(Pairs)
    BY <1>3, RescueParts, PlansAreSequences DEF Removing
  <1>5. /\ UNCHANGED <<enabled, opened, log, points, path, left, started, safe>>
        /\ ~(log > started)
    BY <1>3, BeforeStarted DEF CreateGpx, wayVars, exportVars, countVars, stateVars
  <1>6. CASE /\ Write(log, path, {}) /\ Then(<< <<"export", try>> >>)
             /\ mishap' = mishap /\ spoilt' = spoilt
    <2>1. steps' \in RescueExporting(f)
      <3>1. <<"export", try>> \in Pairs
        BY PairsThere DEF Names
      <3> QED
        BY <1>1, <1>3, <1>4, <1>6, <3>1, Stepped DEF RescueExporting
    <2>2. /\ DiskType' /\ Elsewhere /\ CsvKept
          /\ path # "gpx" => \A p : InGpx(log, p) => "gpx" \in DOMAIN disk'[log] /\ p \in disk'[log]["gpx"]
      <3>1. PICK ps : ps = {}
        OBVIOUS
      <3>2. DiskType /\ log \in Logs /\ ps \subseteq Points
        BY <1>3, <3>1
      <3>3. Write(log, path, ps) /\ path \in {"gpx", Gpx[f]}
        BY <1>3, <1>6, <3>1
      <3>4. /\ DiskType' /\ Elsewhere /\ CsvKept
            /\ path \in DOMAIN disk'[log] /\ disk'[log][path] = ps
            /\ path # "gpx" => \A p : InGpx(log, p) => "gpx" \in DOMAIN disk'[log] /\ p \in disk'[log]["gpx"]
        BY <3>2, <3>3, CsvKeptBy
      <3> QED
        BY <3>4
    <2>3. /\ Has(log, Csv[f])' /\ points' = (disk[log][Csv[f]])'
          /\ path' = "gpx" /\ log' \notin spoilt' => EachCsvHas(log)'
          /\ ~mishap' => Only(left \cup {log}, f)'
      BY <1>3, <1>5, <1>6, <2>2 DEF CsvKept, EachCsvHas, Only
    <2>4. PassInv(f)'
      <3>1. FileInv(f)'
        BY <1>3, <1>5, <2>1, <2>3 DEF FileInv
      <3> QED
        BY <1>2, <1>3, <1>5, <1>6, <2>2, <3>1, PassGoesOn
    <2>5. \A l \in Logs \ spoilt' : l = log => Covered(l)'
      <3> SUFFICES ASSUME NEW l \in Logs \ spoilt', l = log, NEW p \in safe'[l]
                   PROVE  /\ \E kind \in DOMAIN disk'[l] : p \in disk'[l][kind]
                          /\ \A g \in Ways : Has(l, Csv[g])' =>
                                p \in disk'[l][Csv[g]] \/ InGpx(l, p)'
        BY DEF Covered
      <3>1. l \notin spoilt /\ p \in safe[log] /\ Covered(log)
        BY <1>3, <1>5, <1>6 DEF DiskInv
      <3>2. CASE path = "gpx"
        BY <1>3, <1>5, <1>6, <2>2, <3>1, <3>2 DEF EachCsvHas, CsvKept, Has
      <3>3. CASE path # "gpx"
        BY <1>3, <1>5, <2>2, <3>1, <3>3 DEF Covered, CsvKept, Has, InGpx
      <3> QED
        BY <3>2, <3>3
    <2>6. DiskInv'
      BY <1>5, <1>6, <2>2, <2>5, DiskKept DEF Elsewhere
    <2> QED
      BY <1>2, <1>5, <1>6, <2>2, <2>4, <2>6 DEF FilesInv, IdleInv
  <1>7. CASE disk' = disk /\ TryAgain(try) /\ mishap'
    <2>1. steps' \in Removing(f) /\ spoilt' = spoilt \cup {log}
      BY <1>1, <1>3, <1>4, <1>7, Stepped DEF TryAgain
    <2>2. CsvKept
      BY <1>7 DEF CsvKept, Has
    <2>3. FileInv(f)'
      BY <1>3, <1>5, <1>7, <2>1 DEF FileInv, RescuedInv, Has
    <2>4. PassInv(f)'
      BY <1>2, <1>3, <1>5, <1>7, <2>2, <2>3, PassGoesOn
    <2>5. DiskInv'
      BY <1>5, <1>7, <2>1, DiskSame
    <2>6. DiskType'
      BY <1>7 DEF DiskType
    <2> QED
      BY <1>2, <1>3, <1>5, <2>1, <2>4, <2>5, <2>6 DEF FilesInv, IdleInv
  <1> QED
    BY <1>6, <1>7 DEF CreateGpx, Succeeds, Fails, failVars

LEMMA RescueExportStep ==
    ASSUME IInv, NEW try \in Ways, Export(try), ~enabled
    PROVE  DiskType' /\ DiskInv' /\ FilesInv' /\ opened' = {} /\ spoilt' \subseteq Logs /\ safe' = safe
  <1> USE TypeParts, KindFacts
  <1>1. Doing("export", try)
    BY DEF Export
  <1>2. PICK f \in Ways : PassInv(f) /\ opened = {} /\ Head(steps) = <<"export", try>>
    BY <1>1, PassOf
  <1>3. /\ log \in Logs \ left /\ try = 2 /\ steps \in RescueExporting(f)
        /\ Has(log, Csv[f]) /\ (~mishap => Only(left \cup {log}, f))
        /\ points = disk[log][Csv[f]]
        /\ path \in {"gpx", Gpx[f]}
        /\ path = "gpx" /\ log \notin spoilt => EachCsvHas(log)
    <2>1. log \in Logs \ left /\ try = 2 /\ steps \in RescueExporting(f)
      BY <1>2, PassFacts
    <2>2. Has(log, Csv[f]) /\ (~mishap => Only(left \cup {log}, f))
      BY <1>2, PassFacts
    <2>3. /\ points = disk[log][Csv[f]]
          /\ path \in {"gpx", Gpx[f]}
          /\ path = "gpx" /\ log \notin spoilt => EachCsvHas(log)
      BY <1>2, PassFacts
    <2> QED
      BY <2>1, <2>2, <2>3
  <1>4. Tail(steps) \in Removing(f) /\ Removing(f) \subseteq Seq(Pairs)
    BY <1>3, RescueParts, PlansAreSequences DEF Removing
  <1>5. /\ UNCHANGED <<enabled, opened, log, points, path, left, started, safe>>
        /\ ~(log > started)
    BY <1>3, BeforeStarted DEF Export, wayVars, exportVars, countVars, stateVars
  <1>6. CASE Write(log, path, points) /\ Done /\ mishap' = mishap /\ spoilt' = spoilt
    <2>1. steps' \in Removing(f)
      BY <1>1, <1>4, <1>6, Stepped
    <2>2. /\ DiskType' /\ Elsewhere /\ CsvKept
          /\ path \in DOMAIN disk'[log] /\ disk'[log][path] = points
          /\ path # "gpx" => \A p : InGpx(log, p) => "gpx" \in DOMAIN disk'[log] /\ p \in disk'[log]["gpx"]
      <3>1. DiskType /\ log \in Logs /\ points \subseteq Points
        BY <1>3
      <3>2. Write(log, path, points)
        BY <1>6
      <3> QED
        BY <1>3, <3>1, <3>2, CsvKeptBy
    <2>3. log \notin spoilt =>
             \A p \in safe[log] :
                /\ p \in points \/ ("gpx" \in DOMAIN disk'[log] /\ p \in disk'[log]["gpx"])
                /\ \A g \in Ways : Has(log, Csv[g]) =>
                       \/ p \in disk[log][Csv[g]]
                       \/ "gpx" \in DOMAIN disk'[log] /\ p \in disk'[log]["gpx"]
      <3> SUFFICES ASSUME log \notin spoilt, NEW p \in safe[log]
                   PROVE  /\ p \in points \/ ("gpx" \in DOMAIN disk'[log] /\ p \in disk'[log]["gpx"])
                          /\ \A g \in Ways : Has(log, Csv[g]) =>
                                 \/ p \in disk[log][Csv[g]]
                                 \/ "gpx" \in DOMAIN disk'[log] /\ p \in disk'[log]["gpx"]
        OBVIOUS
      <3>1. Covered(log)
        BY <1>3 DEF DiskInv
      <3>2. CASE path = "gpx"
        BY <1>3, <2>2, <3>2 DEF EachCsvHas
      <3>3. CASE path # "gpx"
        BY <1>3, <2>2, <3>1, <3>3 DEF Covered
      <3> QED
        BY <3>2, <3>3
    <2>4. RescuedInv'
      BY <1>3, <1>5, <1>6, <2>2, <2>3 DEF RescuedInv, Has, InGpx
    <2>5. FileInv(f)'
      BY <1>3, <1>5, <1>6, <2>1, <2>2, <2>4 DEF FileInv, CsvKept, Only
    <2>6. PassInv(f)'
      BY <1>2, <1>3, <1>5, <1>6, <2>2, <2>5, PassGoesOn
    <2>7. \A l \in Logs \ spoilt' : l = log => Covered(l)'
      <3> SUFFICES ASSUME NEW l \in Logs \ spoilt', l = log, NEW p \in safe'[l]
                   PROVE  /\ \E kind \in DOMAIN disk'[l] : p \in disk'[l][kind]
                          /\ \A g \in Ways : Has(l, Csv[g])' =>
                                p \in disk'[l][Csv[g]] \/ InGpx(l, p)'
        BY DEF Covered
      <3>1. l \notin spoilt /\ p \in safe[log]
        BY <1>5, <1>6
      <3> QED
        BY <2>2, <2>3, <3>1 DEF CsvKept, Has, InGpx
    <2>8. DiskInv'
      BY <1>5, <1>6, <2>2, <2>7, DiskKept DEF Elsewhere
    <2> QED
      BY <1>2, <1>5, <1>6, <2>2, <2>6, <2>8 DEF FilesInv, IdleInv
  <1>7. CASE disk' = disk /\ TryAgain(try) /\ mishap'
    <2>1. steps' \in Removing(f) /\ spoilt' = spoilt \cup {log}
      BY <1>1, <1>3, <1>4, <1>7, Stepped DEF TryAgain
    <2>2. CsvKept
      BY <1>7 DEF CsvKept, Has
    <2>3. FileInv(f)'
      BY <1>3, <1>5, <1>7, <2>1 DEF FileInv, RescuedInv, Has
    <2>4. PassInv(f)'
      BY <1>2, <1>3, <1>5, <1>7, <2>2, <2>3, PassGoesOn
    <2>5. DiskInv'
      BY <1>5, <1>7, <2>1, DiskSame
    <2>6. DiskType'
      BY <1>7 DEF DiskType
    <2> QED
      BY <1>2, <1>3, <1>5, <2>1, <2>4, <2>5, <2>6 DEF FilesInv, IdleInv
  <1>8. safe' = safe
    BY DEF Export
  <1> QED
    BY <1>6, <1>7, <1>8 DEF Export, Succeeds, Fails, failVars

LEMMA RemoveStep ==
    ASSUME IInv, NEW f \in Ways, RemoveCsv(f)
    PROVE  DiskType' /\ DiskInv' /\ FilesInv' /\ ~enabled /\ opened' = {}
  <1> USE TypeParts, KindFacts
  <1>1. Doing("remove", f)
    BY DEF RemoveCsv
  <1>2. ~enabled
    BY <1>1, WhoseStep
  <1>3. PICK g \in Ways : PassInv(g) /\ opened = {} /\ Head(steps) = <<"remove", f>>
    BY <1>1, <1>2, PassOf
  <1>4. /\ ~mishap /\ f = 2 => Only({}, 1)
        /\ \A l \in left : Has(l, Csv[f])
        /\ log \in Logs \ left /\ Has(log, Csv[f]) /\ (~mishap => Only(left \cup {log}, f))
        /\ steps \in Removing(f) /\ RescuedInv
    <2>1. g = f /\ log \in Logs \ left /\ steps \in Removing(g) /\ RescuedInv
      BY <1>3, PassFacts
    <2>2. Has(log, Csv[g]) /\ (~mishap => Only(left \cup {log}, g))
      BY <1>3, PassFacts
    <2>3. (~mishap /\ g = 2 => Only({}, 1)) /\ \A l \in left : Has(l, Csv[g])
      BY <1>3, PassFacts
    <2> QED
      BY <2>1, <2>2, <2>3
  <1>5. Tail(steps) \in Nexts(f) /\ Nexts(f) \subseteq Seq(Pairs)
    BY <1>4, RescueParts, PlansAreSequences DEF Nexts
  <1>6. /\ UNCHANGED <<enabled, opened, log, path, left, started, safe, spoilt>>
        /\ ~(log > started)
    BY <1>4, BeforeStarted DEF RemoveCsv, wayVars, exportVars, countVars, stateVars
  <1>7. CASE /\ Remove(log, Csv[f]) /\ mishap' = mishap
             /\ Then(IF f = 1 THEN << <<"remove-other", 2>> >> ELSE <<>>)
    <2>1. steps' \in (IF f = 1 THEN RemovingOther ELSE Nexts(2))
      <3>1. <<"remove-other", 2>> \in Pairs
        BY PairsThere DEF Names
      <3>2. CASE f = 1
        BY <1>1, <1>5, <1>7, <3>1, <3>2, Stepped DEF RemovingOther
      <3>3. CASE f = 2
        BY <1>1, <1>5, <1>7, <3>3, Stepped DEF Done
      <3> QED
        BY <3>2, <3>3
    <2>2. /\ DiskType' /\ Elsewhere
          /\ DOMAIN disk'[log] = DOMAIN disk[log] \ {Csv[f]}
          /\ \A k \in DOMAIN disk[log] : k # Csv[f] => disk'[log][k] = disk[log][k]
      BY <1>4, <1>7, RemoveFacts
    <2>3. /\ \A p : InGpx(log, p) => "gpx" \in DOMAIN disk'[log] /\ p \in disk'[log]["gpx"]
          /\ log \notin spoilt => /\ path \in {"gpx"} \cup Range(Gpx)
                                  /\ path \in DOMAIN disk'[log]
                                  /\ \A p \in safe[log] :
                                        \/ p \in disk'[log][path]
                                        \/ "gpx" \in DOMAIN disk'[log] /\ p \in disk'[log]["gpx"]
      BY <1>4, <2>2 DEF RescuedInv, InGpx, Has
    <2>4. RescuedInv'
      BY <1>6, <2>3 DEF RescuedInv, InGpx, Has
    <2>5. /\ \A l \in Logs, h \in Ways : Has(l, Csv[h])' => Has(l, Csv[h])
          /\ ~Has(log, Csv[f])'
          /\ \A l \in left : Has(l, Csv[f])'
      BY <1>4, <1>6, <2>2 DEF Elsewhere, Has
    <2>6. PassInv(f)'
      <3>1. CASE f = 1
        <4>1. FileInv(f)'
          BY <1>4, <1>6, <1>7, <2>1, <2>4, <2>5, <3>1 DEF FileInv, Only
        <4> QED
          BY <1>4, <1>6, <2>5, <3>1, <4>1 DEF PassInv
      <3>2. CASE f = 2
        BY <1>4, <1>6, <1>7, <2>1, <2>5, <3>2 DEF PassInv, Only
      <3> QED
        BY <3>1, <3>2
    <2>7. \A l \in Logs \ spoilt' : l = log => Covered(l)'
      <3> SUFFICES ASSUME NEW l \in Logs \ spoilt', l = log, NEW p \in safe'[l]
                   PROVE  /\ \E kind \in DOMAIN disk'[l] : p \in disk'[l][kind]
                          /\ \A h \in Ways : Has(l, Csv[h])' =>
                                p \in disk'[l][Csv[h]] \/ InGpx(l, p)'
        BY DEF Covered
      <3>1. l \notin spoilt /\ p \in safe[log] /\ Covered(log)
        BY <1>4, <1>6 DEF DiskInv
      <3>2. \E kind \in DOMAIN disk'[l] : p \in disk'[l][kind]
        BY <2>3, <3>1
      <3>3. ASSUME NEW h \in Ways, Has(l, Csv[h])'
            PROVE  p \in disk'[l][Csv[h]] \/ InGpx(l, p)'
        BY <2>2, <2>3, <3>1, <3>3 DEF Covered, Has, InGpx
      <3> QED
        BY <3>2, <3>3
    <2>8. DiskInv'
      BY <1>6, <2>2, <2>7, DiskKept DEF Elsewhere
    <2> QED
      BY <1>2, <1>3, <1>6, <2>2, <2>6, <2>8 DEF FilesInv, IdleInv
  <1>8. CASE disk' = disk /\ Then(<< <<"move", f>> >>) /\ mishap'
    <2>1. steps' \in Moving(f)
      <3>1. <<"move", f>> \in Pairs
        BY PairsThere DEF Names
      <3> QED
        BY <1>1, <1>5, <1>8, <3>1, Stepped DEF Moving
    <2>2. PassInv(f)'
      BY <1>4, <1>6, <1>8, <2>1 DEF PassInv, FileInv, Has
    <2>3. DiskInv' /\ DiskType'
      BY <1>6, <1>8, DiskSame DEF DiskType
    <2> QED
      BY <1>2, <1>3, <1>6, <2>2, <2>3 DEF FilesInv, IdleInv
  <1> QED
    BY <1>7, <1>8 DEF RemoveCsv, Succeeds, Fails, failVars

\* When a temporary file has been removed the other is one less to be covered.
LEMMA RemoveOtherStep ==
    ASSUME IInv, RemoveOther
    PROVE  DiskType' /\ DiskInv' /\ FilesInv' /\ ~enabled /\ opened' = {}
  <1> USE TypeParts, KindFacts
  <1>1. Doing("remove-other", 2)
    BY DEF RemoveOther
  <1>2. ~enabled
    BY <1>1, WhoseStep
  <1>3. PICK g \in Ways : PassInv(g) /\ opened = {} /\ Head(steps) = <<"remove-other", 2>>
    BY <1>1, <1>2, PassOf
  <1>4. /\ g = 1 /\ \A l \in left : Has(l, Csv[1])
        /\ log \in Logs \ left /\ (~mishap => Only(left, 1))
        /\ steps \in RemovingOther /\ RescuedInv
    <2>1. g = 1 /\ log \in Logs \ left /\ steps \in RemovingOther /\ RescuedInv
      BY <1>3, PassFacts
    <2>2. (~mishap => Only(left, 1)) /\ \A l \in left : Has(l, Csv[g])
      BY <1>3, PassFacts
    <2> QED
      BY <2>1, <2>2
  <1>5. Tail(steps) \in Nexts(1) /\ Nexts(1) \subseteq Seq(Pairs)
    BY <1>4, RescueParts, PlansAreSequences DEF Nexts
  <1>6. /\ UNCHANGED <<enabled, opened, log, path, left, started, safe, spoilt>>
        /\ Remove(log, Csv[2]) \/ disk' = disk
        /\ mishap' \/ mishap' = mishap
        /\ steps' \in Nexts(1)
    BY <1>1, <1>5, Stepped DEF RemoveOther, wayVars, exportVars, countVars, stateVars, Succeeds, Fails,
      failVars
  <1>7. /\ DiskType' /\ Elsewhere
        /\ DOMAIN disk'[log] \subseteq DOMAIN disk[log]
        /\ \A k \in DOMAIN disk[log] : k # Csv[2] => k \in DOMAIN disk'[log]
        /\ \A k \in DOMAIN disk'[log] : disk'[log][k] = disk[log][k]
    <2>1. CASE disk' = disk
      BY <2>1 DEF DiskType, Elsewhere
    <2>2. CASE Remove(log, Csv[2])
      BY <1>4, <2>2, RemoveFacts
    <2> QED
      BY <1>6, <2>1, <2>2
  <1>8. PassInv(1)'
    <2>1. \A l \in Logs : Has(l, Csv[1])' <=> Has(l, Csv[1])
      BY <1>4, <1>6, <1>7 DEF Elsewhere, Has
    <2> QED
      BY <1>4, <1>6, <2>1 DEF PassInv, Only
  <1>9. \A l \in Logs \ spoilt' : l = log => Covered(l)'
    <2> SUFFICES ASSUME NEW l \in Logs \ spoilt', l = log, NEW p \in safe'[l]
                 PROVE  /\ \E kind \in DOMAIN disk'[l] : p \in disk'[l][kind]
                        /\ \A h \in Ways : Has(l, Csv[h])' =>
                              p \in disk'[l][Csv[h]] \/ InGpx(l, p)'
      BY DEF Covered
    <2>1. l \notin spoilt /\ p \in safe[log] /\ Covered(log)
      BY <1>4, <1>6 DEF DiskInv
    <2>2. \E kind \in {path, "gpx"} : kind \in DOMAIN disk'[l] /\ p \in disk'[l][kind]
      BY <1>4, <1>7, <2>1 DEF RescuedInv, InGpx, Has
    <2>3. ASSUME NEW h \in Ways, Has(l, Csv[h])'
          PROVE  p \in disk'[l][Csv[h]] \/ InGpx(l, p)'
      BY <1>7, <2>1, <2>3 DEF Covered, Has, InGpx
    <2> QED
      BY <2>2, <2>3
  <1>10. DiskInv'
    <2>1. log > started => DOMAIN disk'[log] = {} /\ safe'[log] = {}
      BY <1>4, <1>6, <1>7 DEF DiskInv
    <2> QED
      BY <1>6, <1>7, <1>9, <2>1, DiskKept DEF Elsewhere
  <1> QED
    BY <1>2, <1>3, <1>6, <1>7, <1>8, <1>10 DEF FilesInv, IdleInv

LEMMA MoveStep ==
    ASSUME IInv, NEW f \in Ways, MoveCsv(f)
    PROVE  DiskType' /\ DiskInv' /\ FilesInv' /\ ~enabled /\ opened' = {}
  <1> USE TypeParts, KindFacts
  <1>1. Doing("move", f)
    BY DEF MoveCsv
  <1>2. ~enabled
    BY <1>1, WhoseStep
  <1>3. PICK g \in Ways : PassInv(g) /\ opened = {} /\ Head(steps) = <<"move", f>>
    BY <1>1, <1>2, PassOf
  <1>4. /\ mishap /\ \A l \in left : Has(l, Csv[f])
        /\ log \in Logs \ left /\ Has(log, Csv[f])
        /\ steps \in Moving(f)
    <2>1. g = f /\ log \in Logs \ left /\ steps \in Moving(g) /\ Has(log, Csv[g]) /\ mishap
      BY <1>3, PassFacts
    <2>2. \A l \in left : Has(l, Csv[g])
      BY <1>3, PassFacts
    <2> QED
      BY <2>1, <2>2
  <1>5. Tail(steps) \in Nexts(f) /\ Nexts(f) \subseteq Seq(Pairs)
    BY <1>4, RescueParts, PlansAreSequences DEF Nexts
  <1>6. /\ UNCHANGED <<enabled, opened, log, path, left, started, safe, spoilt, mishap>>
        /\ steps' \in Nexts(f)
        /\ ~(log > started)
    BY <1>1, <1>4, <1>5, Stepped, BeforeStarted
      DEF MoveCsv, wayVars, exportVars, countVars, stateVars, history, failVars
  <1>7. CASE disk' = disk
    <2>1. PassInv(f)'
      BY <1>4, <1>6, <1>7 DEF PassInv, Has
    <2>2. DiskInv' /\ DiskType'
      BY <1>6, <1>7, DiskSame DEF DiskType
    <2> QED
      BY <1>2, <1>3, <1>6, <2>1, <2>2 DEF FilesInv, IdleInv
  <1>8. CASE disk' = [disk EXCEPT ![log] = With(Without(@, Csv[f]), Old[f], @[Csv[f]])]
    <2>1. /\ DiskType' /\ Elsewhere
          /\ DOMAIN disk'[log] = (DOMAIN disk[log] \ {Csv[f]}) \cup {Old[f]}
          /\ disk'[log][Old[f]] = disk[log][Csv[f]]
          /\ \A k \in DOMAIN disk[log] :
                k # Old[f] /\ k # Csv[f] => disk'[log][k] = disk[log][k]
      BY <1>4, <1>8, MoveFacts
    <2>2. \A l \in left : Has(l, Csv[f])'
      BY <1>4, <2>1 DEF Elsewhere, Has
    <2>3. PassInv(f)'
      BY <1>4, <1>6, <2>2 DEF PassInv
    <2>4. \A l \in Logs \ spoilt' : l = log => Covered(l)'
      <3> SUFFICES ASSUME NEW l \in Logs \ spoilt', l = log, NEW p \in safe'[l]
                   PROVE  /\ \E kind \in DOMAIN disk'[l] : p \in disk'[l][kind]
                          /\ \A h \in Ways : Has(l, Csv[h])' =>
                                p \in disk'[l][Csv[h]] \/ InGpx(l, p)'
        BY DEF Covered
      <3>1. l \notin spoilt /\ p \in safe[log] /\ Covered(log)
        BY <1>4, <1>6 DEF DiskInv
      <3>2. InGpx(log, p) => "gpx" \in DOMAIN disk'[log] /\ p \in disk'[log]["gpx"]
        BY <2>1 DEF InGpx, Has
      <3>3. p \in disk[log][Csv[f]] \/ InGpx(log, p)
        BY <1>4, <3>1 DEF Covered
      <3>4. \E kind \in {Old[f], "gpx"} : kind \in DOMAIN disk'[l] /\ p \in disk'[l][kind]
        BY <2>1, <3>2, <3>3
      <3>5. ASSUME NEW h \in Ways, Has(l, Csv[h])'
            PROVE  p \in disk'[l][Csv[h]] \/ InGpx(l, p)'
        BY <2>1, <3>1, <3>2, <3>5 DEF Covered, Has, InGpx
      <3> QED
        BY <3>4, <3>5
    <2>5. DiskInv'
      BY <1>6, <2>1, <2>4, DiskKept DEF Elsewhere
    <2> QED
      BY <1>2, <1>3, <1>6, <2>1, <2>3, <2>5 DEF FilesInv, IdleInv
  <1> QED
    BY <1>7, <1>8 DEF MoveCsv

\* Between two steps of the thread: nothing, or a log that is recorded.
LEMMA AtIdle ==
    ASSUME IInv, Idle
    PROVE  /\ enabled => RecordInv /\ steps \in Lasting /\ steps \notin Exported
                         /\ EachCsvHas(log) /\ (safe[log] = {} \/ \E f \in Ways : Has(log, Csv[f]))
           /\ ~enabled => RestInv /\ opened = {}
  <1>1. steps = <<>> /\ steps \in Nothing
    BY DEF Idle, Nothing
  <1>2. CASE enabled
    <2>1. steps \in Lasting /\ steps \notin Closing \cup Exported
      BY <1>1, RecordClasses DEF Lasting
    <2>2. RecordInv
      BY <1>2 DEF IInv, FilesInv
    <2> QED
      BY <1>2, <2>1, <2>2 DEF RecordInv
  <1>3. CASE ~enabled
    <2>1. ~ScanInv
      BY <1>1, ScanHeads DEF ScanInv
    <2>2. ASSUME NEW f \in Ways, PassInv(f)
          PROVE  FALSE
      <3>1. steps \in Passing(f)
        BY <2>2, PassClass
      <3> QED
        BY <1>1, <3>1 DEF Passing, Nexts, Reading, Moving, RescueCreating, RescueExporting, Removing,
          RemovingOther, Opens
    <2> QED
      BY <1>3, <2>1, <2>2 DEF IInv, FilesInv, IdleInv
  <1> QED
    BY <1>2, <1>3

-----------------------------------------------------------------------------
(* The steps of the thread keep the invariant.                             *)

GuiType ==
    /\ {recording, paused} \subseteq BOOLEAN
    /\ calls \in Seq({"set-name", "start", "stop", "pause", "unpause", "shutdown"})
    /\ answers \in Nat /\ Len(calls) + answers <= MaxCalls + 1
    /\ process \in {"off", "up", "closing"}

CoreType ==
    /\ {enabled, halted, mishap} \subseteq BOOLEAN
    /\ log \in Logs \cup {0} /\ started \in 0..MaxLogs
    /\ points \in SUBSET Points /\ taken \in 0..MaxPoints
    /\ {increment, buffer} \subseteq [Ways -> SUBSET Points]
    /\ opened \subseteq {f \in Ways : enabled /\ Has(log, Csv[f])}
    /\ path \in Kinds /\ left \subseteq Logs
    /\ DiskType
    /\ failures \in 0..MaxFailures
    /\ safe \in [Logs -> SUBSET Points] /\ spoilt \subseteq Logs

LEMMA TypeSplit ==
    /\ IInv => GuiType /\ CoreType /\ CallsInv /\ PageInv /\ DiskInv /\ FilesInv
    /\ GuiType' /\ CoreType' /\ CallsInv' /\ PageInv' /\ DiskInv' /\ FilesInv' => IInv'
  <1>1. ASSUME IInv
        PROVE  GuiType /\ CoreType /\ CallsInv /\ PageInv /\ DiskInv /\ FilesInv
    BY <1>1 DEF IInv, TypeOK, GuiType, CoreType, DiskType
  <1>2. ASSUME GuiType', CoreType', CallsInv', PageInv', DiskInv', FilesInv'
        PROVE  IInv'
    <2>1. steps' \in Seq(Pairs)
      <3>1. enabled' => steps' \in Seq(Pairs)
        BY <1>2, ClassesAreSequences DEF FilesInv, RecordInv
      <3>2. ~enabled' => steps' \in Seq(Pairs)
        <4>1. CASE RestInv' \/ ScanInv'
          BY <4>1, ClassesAreSequences DEF RestInv, ScanInv
        <4>2. ASSUME NEW f \in Ways, PassInv(f)'
              PROVE  steps' \in Seq(Pairs)
          BY <4>2, ClassesAreSequences DEF PassInv, FileInv, Passing
        <4> QED
          BY <1>2, <4>1, <4>2 DEF FilesInv, IdleInv
      <3> QED
        BY <3>1, <3>2
    <2>2. TypeOK'
      BY <1>2, <2>1 DEF TypeOK, GuiType, CoreType, DiskType, Pairs
    <2> QED
      BY <1>2, <2>2 DEF IInv
  <1> QED
    BY <1>1, <1>2

\* What the page knows, while the thread does what it has to do.
LEMMA GuiKept ==
    ASSUME IInv, NEW name, NEW f, Doing(name, f), UNCHANGED <<guiVars, process>>,
           enabled /\ steps \in Lasting => enabled' /\ steps' \in Lasting
    PROVE  GuiType' /\ CallsInv' /\ PageInv'
  <1>1. steps # <<>> /\ GuiType /\ CallsInv /\ PageInv
    BY WhoseStep, TypeSplit
  <1>2. UNCHANGED <<recording, paused, calls, answers, process>> /\ process # "off"
    BY <1>1 DEF guiVars, CallsInv
  <1>3. GuiType' /\ CallsInv'
    BY <1>1, <1>2 DEF GuiType, CallsInv
  <1>4. PageInv'
    BY <1>1, <1>2 DEF PageInv, NameComing, StartComing, Goes, NoStopAfter
  <1> QED
    BY <1>3, <1>4

LEMMA Failing ==
    ASSUME CoreType, Succeeds \/ Fails
    PROVE  mishap' \in BOOLEAN /\ failures' \in 0..MaxFailures
  <1>1. MaxFailures \in Nat
    BY TracklogAssumption
  <1>2. mishap \in BOOLEAN /\ failures \in 0..MaxFailures
    BY DEF CoreType
  <1>3. CASE Succeeds
    BY <1>2, <1>3 DEF Succeeds, failVars
  <1>4. CASE Fails
    <2>1. mishap' = TRUE /\ failures < MaxFailures /\ failures' = failures + 1
      BY <1>4 DEF Fails
    <2>2. failures' \in 0..MaxFailures
      BY <1>1, <1>2, <2>1
    <2> QED
      BY <2>1, <2>2
  <1> QED
    BY <1>3, <1>4

LEMMA RecordSteps ==
    ASSUME IInv, NEW f \in Ways, Open(f) \/ Flush(f) \/ Delete(f)
    PROVE  IInv'
  <1>1. CoreType
    BY TypeSplit
  <1>2. CASE Open(f)
    <2>1. /\ DiskType' /\ DiskInv' /\ FilesInv'
          /\ enabled /\ steps' \in Lasting
          /\ opened' \subseteq {g \in Ways : Has(log, Csv[g])'}
      BY <1>2, OpenStep
    <2>2. /\ Doing("open", f) /\ UNCHANGED <<guiVars, process>> /\ (Succeeds \/ Fails)
          /\ UNCHANGED <<enabled, halted, log, points, increment, buffer, path, left, started, taken,
                         safe, spoilt>>
      BY <1>2 DEF Open, stateVars, exportVars, countVars
    <2>3. GuiType' /\ CallsInv' /\ PageInv'
      BY <2>1, <2>2, GuiKept
    <2>4. CoreType'
      BY <1>1, <2>1, <2>2, Failing DEF CoreType
    <2> QED
      BY <2>1, <2>3, <2>4, TypeSplit
  <1>3. CASE Flush(f)
    <2>1. /\ DiskType' /\ DiskInv' /\ FilesInv'
          /\ enabled /\ (steps \in Lasting => steps' \in Lasting)
          /\ opened' \subseteq {g \in Ways : Has(log, Csv[g])'}
          /\ increment' \in [Ways -> SUBSET Points] /\ buffer' \in [Ways -> SUBSET Points]
          /\ safe' \in [Logs -> SUBSET Points]
      BY <1>3, FlushStep
    <2>2. /\ Doing("flush", f) /\ UNCHANGED <<guiVars, process>> /\ (Succeeds \/ Fails)
          /\ UNCHANGED <<enabled, halted, log, points, path, left, started, taken, spoilt>>
      BY <1>3 DEF Flush, stateVars, exportVars, countVars
    <2>3. GuiType' /\ CallsInv' /\ PageInv'
      BY <2>1, <2>2, GuiKept
    <2>4. CoreType'
      BY <1>1, <2>1, <2>2, Failing DEF CoreType
    <2> QED
      BY <2>1, <2>3, <2>4, TypeSplit
  <1>4. CASE Delete(f)
    <2>1. /\ DiskType' /\ DiskInv' /\ FilesInv'
          /\ enabled /\ steps \notin Lasting
          /\ opened' \subseteq {g \in Ways : Has(log, Csv[g])'}
      BY <1>4, DeleteStep
    <2>2. /\ Doing("delete", f) /\ UNCHANGED <<guiVars, process>> /\ (Succeeds \/ Fails)
          /\ UNCHANGED <<enabled, halted, log, points, increment, buffer, path, left, started, taken,
                         safe, spoilt>>
      BY <1>4 DEF Delete, stateVars, exportVars, countVars
    <2>3. GuiType' /\ CallsInv' /\ PageInv'
      BY <2>1, <2>2, GuiKept
    <2>4. CoreType'
      BY <1>1, <2>1, <2>2, Failing DEF CoreType
    <2> QED
      BY <2>1, <2>3, <2>4, TypeSplit
  <1> QED
    BY <1>2, <1>3, <1>4

LEMMA EndSteps ==
    ASSUME IInv, Stopped \/ \E name \in {"pause", "unpause"} : SetPaused(name)
    PROVE  IInv'
  <1>1. CoreType
    BY TypeSplit
  <1>2. CASE Stopped
    <2>1. DiskInv' /\ FilesInv' /\ enabled /\ steps \notin Lasting /\ opened' = {}
      BY <1>2, StoppedStep
    <2>2. /\ Doing("stopped", 0) /\ UNCHANGED <<guiVars, process>>
          /\ enabled' = FALSE /\ log' = 0 /\ points' = {}
          /\ increment' = NoPoints /\ buffer' = NoPoints
          /\ UNCHANGED <<halted, path, left, disk, started, taken, safe, spoilt, mishap, failures>>
      BY <1>2 DEF Stopped, exportVars, countVars, history, failVars
    <2>3. GuiType' /\ CallsInv' /\ PageInv'
      BY <2>1, <2>2, GuiKept
    <2>4. CoreType'
      BY <1>1, <2>1, <2>2 DEF CoreType, DiskType, NoPoints
    <2> QED
      BY <2>1, <2>3, <2>4, TypeSplit
  <1>3. ASSUME NEW name \in {"pause", "unpause"}, SetPaused(name)
        PROVE  IInv'
    <2>1. DiskInv' /\ FilesInv' /\ enabled /\ steps' \in Lasting
      BY <1>3, SetPausedStep
    <2>2. /\ Doing(name, 0) /\ UNCHANGED <<guiVars, process>> /\ halted' \in BOOLEAN
          /\ UNCHANGED <<enabled, log, points, increment, buffer, opened, path, left, disk, started, taken,
                         safe, spoilt, mishap, failures>>
      BY <1>3 DEF SetPaused, wayVars, exportVars, countVars, history, failVars
    <2>3. GuiType' /\ CallsInv' /\ PageInv'
      BY <2>1, <2>2, GuiKept
    <2>4. CoreType'
      BY <1>1, <2>2 DEF CoreType, DiskType, Has
    <2> QED
      BY <2>1, <2>3, <2>4, TypeSplit
  <1> QED
    BY <1>2, <1>3

LEMMA ExportSteps ==
    ASSUME IInv, NEW try \in Ways, CreateGpx(try) \/ Export(try)
    PROVE  IInv'
  <1>1. CoreType
    BY TypeSplit
  <1>2. CASE CreateGpx(try)
    <2>1. /\ DiskType' /\ DiskInv' /\ FilesInv'
          /\ enabled => steps \notin Lasting
          /\ opened' \subseteq {g \in Ways : enabled /\ Has(log, Csv[g])'}
          /\ spoilt' \subseteq Logs
      BY <1>2, CreateStep, RescueCreateStep
    <2>2. /\ Doing("create", try) /\ UNCHANGED <<guiVars, process>> /\ (Succeeds \/ Fails)
          /\ UNCHANGED <<enabled, halted, log, points, increment, buffer, path, left, started, taken,
                         safe>>
      BY <1>2 DEF CreateGpx, wayVars, stateVars, exportVars, countVars
    <2>3. GuiType' /\ CallsInv' /\ PageInv'
      BY <2>1, <2>2, GuiKept
    <2>4. CoreType'
      BY <1>1, <2>1, <2>2, Failing DEF CoreType
    <2> QED
      BY <2>1, <2>3, <2>4, TypeSplit
  <1>3. CASE Export(try)
    <2>1. /\ DiskType' /\ DiskInv' /\ FilesInv'
          /\ enabled => steps \notin Lasting
          /\ opened' \subseteq {g \in Ways : enabled /\ Has(log, Csv[g])'}
          /\ spoilt' \subseteq Logs /\ safe' \in [Logs -> SUBSET Points]
      <3>1. CASE enabled
        BY <1>3, <3>1, ExportStep
      <3>2. CASE ~enabled
        BY <1>1, <1>3, <3>2, RescueExportStep DEF CoreType
      <3> QED
        BY <3>1, <3>2
    <2>2. /\ Doing("export", try) /\ UNCHANGED <<guiVars, process>> /\ (Succeeds \/ Fails)
          /\ UNCHANGED <<enabled, halted, log, points, increment, buffer, path, left, started, taken>>
      BY <1>3 DEF Export, wayVars, stateVars, exportVars, countVars
    <2>3. GuiType' /\ CallsInv' /\ PageInv'
      BY <2>1, <2>2, GuiKept
    <2>4. CoreType'
      BY <1>1, <2>1, <2>2, Failing DEF CoreType
    <2> QED
      BY <2>1, <2>3, <2>4, TypeSplit
  <1> QED
    BY <1>2, <1>3

LEMMA RescueSteps ==
    ASSUME IInv, \/ RemoveOther
                 \/ \E f \in Ways : Scan(f) \/ Rescue(f) \/ Read(f) \/ RemoveCsv(f) \/ MoveCsv(f)
    PROVE  IInv'
  <1>1. CoreType
    BY TypeSplit
  <1>2. ASSUME NEW f \in Ways, Scan(f)
        PROVE  IInv'
    <2>1. DiskInv' /\ FilesInv' /\ ~enabled /\ opened' = {} /\ left' \subseteq Logs
      BY <1>2, ScanStep
    <2>2. /\ Doing("scan", f) /\ UNCHANGED <<guiVars, process>>
          /\ UNCHANGED <<enabled, halted, log, points, increment, buffer, path, disk, started, taken,
                         safe, spoilt, mishap, failures>>
      BY <1>2 DEF Scan, wayVars, stateVars, countVars, history, failVars
    <2>3. GuiType' /\ CallsInv' /\ PageInv'
      BY <2>1, <2>2, GuiKept
    <2>4. CoreType'
      BY <1>1, <2>1, <2>2 DEF CoreType, DiskType
    <2> QED
      BY <2>1, <2>3, <2>4, TypeSplit
  <1>3. ASSUME NEW f \in Ways, Rescue(f)
        PROVE  IInv'
    <2>1. DiskInv' /\ FilesInv' /\ ~enabled /\ opened' = {} /\ left' \subseteq Logs
          /\ log' \in Logs \cup {0} /\ points' \subseteq Points
      BY <1>3, RescueStep
    <2>2. /\ Doing("next", f) /\ UNCHANGED <<guiVars, process>> /\ path' \in {"gpx", path}
          /\ UNCHANGED <<enabled, halted, increment, buffer, disk, started, taken,
                         safe, spoilt, mishap, failures>>
      BY <1>3 DEF Rescue, stateVars, countVars, history, failVars
    <2>3. GuiType' /\ CallsInv' /\ PageInv'
      BY <2>1, <2>2, GuiKept
    <2>4. CoreType'
      BY <1>1, <2>1, <2>2, KindFacts DEF CoreType, DiskType
    <2> QED
      BY <2>1, <2>3, <2>4, TypeSplit
  <1>4. ASSUME NEW f \in Ways, Read(f)
        PROVE  IInv'
    <2>1. DiskInv' /\ FilesInv' /\ ~enabled /\ opened' = {}
          /\ points' \subseteq Points /\ path' \in Kinds
      BY <1>4, ReadStep
    <2>2. /\ Doing("read", f) /\ UNCHANGED <<guiVars, process>> /\ (Succeeds \/ Fails)
          /\ UNCHANGED <<enabled, halted, log, increment, buffer, left, disk, started, taken,
                         safe, spoilt>>
      BY <1>4 DEF Read, stateVars, countVars
    <2>3. GuiType' /\ CallsInv' /\ PageInv'
      BY <2>1, <2>2, GuiKept
    <2>4. CoreType'
      BY <1>1, <2>1, <2>2, Failing DEF CoreType, DiskType
    <2> QED
      BY <2>1, <2>3, <2>4, TypeSplit
  <1>5. ASSUME NEW f \in Ways, RemoveCsv(f)
        PROVE  IInv'
    <2>1. DiskType' /\ DiskInv' /\ FilesInv' /\ ~enabled /\ opened' = {}
      BY <1>5, RemoveStep
    <2>2. /\ Doing("remove", f) /\ UNCHANGED <<guiVars, process>> /\ (Succeeds \/ Fails)
          /\ UNCHANGED <<enabled, halted, log, points, increment, buffer, path, left, started, taken,
                         safe, spoilt>>
      BY <1>5 DEF RemoveCsv, wayVars, stateVars, exportVars, countVars
    <2>3. GuiType' /\ CallsInv' /\ PageInv'
      BY <2>1, <2>2, GuiKept
    <2>4. CoreType'
      BY <1>1, <2>1, <2>2, Failing DEF CoreType
    <2> QED
      BY <2>1, <2>3, <2>4, TypeSplit
  <1>6. ASSUME NEW f \in Ways, MoveCsv(f)
        PROVE  IInv'
    <2>1. DiskType' /\ DiskInv' /\ FilesInv' /\ ~enabled /\ opened' = {}
      BY <1>6, MoveStep
    <2>2. /\ Doing("move", f) /\ UNCHANGED <<guiVars, process>>
          /\ UNCHANGED <<enabled, halted, log, points, increment, buffer, path, left, started, taken,
                         safe, spoilt, mishap, failures>>
      BY <1>6 DEF MoveCsv, wayVars, stateVars, exportVars, countVars, history, failVars
    <2>3. GuiType' /\ CallsInv' /\ PageInv'
      BY <2>1, <2>2, GuiKept
    <2>4. CoreType'
      BY <1>1, <2>1, <2>2 DEF CoreType
    <2> QED
      BY <2>1, <2>3, <2>4, TypeSplit
  <1>7. CASE RemoveOther
    <2>1. DiskType' /\ DiskInv' /\ FilesInv' /\ ~enabled /\ opened' = {}
      BY <1>7, RemoveOtherStep
    <2>2. /\ Doing("remove-other", 2) /\ UNCHANGED <<guiVars, process>> /\ (Succeeds \/ Fails)
          /\ UNCHANGED <<enabled, halted, log, points, increment, buffer, path, left, started, taken,
                         safe, spoilt>>
      BY <1>7 DEF RemoveOther, wayVars, stateVars, exportVars, countVars
    <2>3. GuiType' /\ CallsInv' /\ PageInv'
      BY <2>1, <2>2, GuiKept
    <2>4. CoreType'
      BY <1>1, <2>1, <2>2, Failing DEF CoreType
    <2> QED
      BY <2>1, <2>3, <2>4, TypeSplit
  <1> QED
    BY <1>2, <1>3, <1>4, <1>5, <1>6, <1>7

-----------------------------------------------------------------------------
(* The calls, the timers and the process.                                  *)

CallNames == {"set-name", "start", "stop", "pause", "unpause", "shutdown"}

LEMMA CallAppended ==
    ASSUME GuiType, NEW name \in CallNames, Call(name)
    PROVE  /\ calls' \in Seq(CallNames) /\ Len(calls') = Len(calls) + 1
           /\ \A i \in 1..Len(calls) : calls'[i] = calls[i]
           /\ calls'[Len(calls) + 1] = name
           /\ Len(calls) \in Nat
  BY DEF GuiType, Call, CallNames

LEMMA CallServed ==
    ASSUME GuiType, NEW name, Serving(name)
    PROVE  /\ calls' \in Seq(CallNames) /\ Len(calls') = Len(calls) - 1
           /\ \A i \in 1..(Len(calls) - 1) : calls'[i] = calls[i + 1]
           /\ calls[1] = name
           /\ Len(calls) \in Nat \ {0}
  <1>1. calls \in Seq(CallNames) /\ calls # <<>> /\ Head(calls) = name /\ calls' = Tail(calls)
    BY DEF GuiType, Serving, CallNames
  <1> QED
    BY <1>1

\* Nothing has happened but in the GUI.
LEMMA FilesSame ==
    ASSUME DiskInv, FilesInv, process' # "off" => process # "off",
           UNCHANGED <<stateVars, wayVars, steps, exportVars, disk, countVars, history>>
    PROVE  DiskInv' /\ FilesInv'
  <1>1. UNCHANGED <<enabled, log, points, increment, buffer, opened, steps, path, left, disk, started,
                    safe, spoilt, mishap>>
    BY DEF stateVars, wayVars, exportVars, countVars, history, failVars
  <1>2. DiskInv'
    BY <1>1, DiskSame
  <1>3. CASE enabled
    <2>1. RecordInv'
      BY <1>1, <1>3 DEF FilesInv, RecordInv, Only, EachCsvHas, GpxHas, InGpx, Has
    <2> QED
      BY <1>1, <1>2, <1>3, <2>1 DEF FilesInv
  <1>4. CASE ~enabled /\ RestInv
    BY <1>1, <1>2, <1>4 DEF FilesInv, IdleInv, RestInv, Only, Has
  <1>5. CASE ~enabled /\ ScanInv
    BY <1>1, <1>2, <1>5 DEF FilesInv, IdleInv, ScanInv, Only, Has
  <1>6. CASE ~enabled /\ \E f \in Ways : PassInv(f)
    <2>1. PICK f \in Ways : PassInv(f)
      BY <1>6
    <2>2. RescuedInv => RescuedInv'
      BY <1>1 DEF RescuedInv, Has, InGpx
    <2>3. FileInv(f) => FileInv(f)'
      BY <1>1, <2>2 DEF FileInv, Only, Has, EachCsvHas
    <2>4. PassInv(f)'
      BY <1>1, <2>1, <2>3 DEF PassInv, Only, Has
    <2> QED
      BY <1>1, <1>2, <1>6, <2>4 DEF FilesInv, IdleInv
  <1> QED
    BY <1>3, <1>4, <1>5, <1>6 DEF FilesInv, IdleInv

LEMMA CoreSame ==
    ASSUME CoreType, UNCHANGED <<stateVars, wayVars, exportVars, disk, countVars, history>>
    PROVE  CoreType'
  BY DEF CoreType, DiskType, Has, stateVars, wayVars, exportVars, countVars, history, failVars

LEMMA GuiSteps ==
    ASSUME IInv, ClickRecord \/ ClickPause \/ NameSet \/ Close
    PROVE  IInv'
  <1>1. GuiType /\ CoreType /\ CallsInv /\ PageInv /\ DiskInv /\ FilesInv
    BY TypeSplit
  <1>2. /\ UNCHANGED <<stateVars, wayVars, steps, exportVars, disk, countVars, history>>
        /\ process = "up"
    BY DEF ClickRecord, ClickPause, NameSet, Close, CanCall
  <1>3. DiskInv' /\ FilesInv' /\ CoreType'
    BY <1>1, <1>2, FilesSame, CoreSame
  <1>4. enabled' = enabled /\ steps' = steps
    BY <1>2 DEF stateVars
  <1>5. MaxCalls \in Nat
    BY TracklogAssumption
  <1>6. CASE ClickRecord
    <2>1. PICK name \in {"stop", "set-name"} :
             /\ Call(name) /\ name = (IF recording THEN "stop" ELSE "set-name")
      BY <1>6 DEF ClickRecord
    <2>2. /\ Len(calls) + answers < MaxCalls /\ recording' = ~recording /\ paused' = FALSE
          /\ UNCHANGED <<answers, process>>
      BY <1>6 DEF ClickRecord, CanCall
    <2>3. /\ calls' \in Seq(CallNames) /\ Len(calls') = Len(calls) + 1
          /\ \A i \in 1..Len(calls) : calls'[i] = calls[i]
          /\ calls'[Len(calls) + 1] = name
          /\ Len(calls) \in Nat
      BY <1>1, <2>1, CallAppended DEF CallNames
    <2>4. recording' \in BOOLEAN /\ paused' \in BOOLEAN /\ (recording' => ~recording)
      BY <2>2
    <2>5. GuiType' /\ CallsInv'
      BY <1>1, <1>2, <1>5, <2>1, <2>2, <2>3, <2>4 DEF GuiType, CallsInv, CallNames
    <2>6. PageInv'
      <3>1. recording' => name = "set-name"
        BY <2>1, <2>4
      <3>2. Len(calls) + 1 \in 1..Len(calls')
        BY <2>3
      <3> QED
        BY <2>3, <3>1, <3>2 DEF PageInv, NameComing
    <2> QED
      BY <1>3, <2>5, <2>6, TypeSplit
  <1>7. CASE ClickPause
    <2>1. PICK name \in {"pause", "unpause"} : Call(name)
      BY <1>7 DEF ClickPause
    <2>2. /\ Len(calls) + answers < MaxCalls /\ paused' = ~paused
          /\ UNCHANGED <<recording, answers, process>>
      BY <1>7 DEF ClickPause, CanCall
    <2>3. /\ calls' \in Seq(CallNames) /\ Len(calls') = Len(calls) + 1
          /\ \A i \in 1..Len(calls) : calls'[i] = calls[i]
          /\ calls'[Len(calls) + 1] = name
          /\ Len(calls) \in Nat
      BY <1>1, <2>1, CallAppended DEF CallNames
    <2>4. GuiType' /\ CallsInv'
      BY <1>1, <1>2, <1>5, <2>1, <2>2, <2>3 DEF GuiType, CallsInv, CallNames
    <2>5. /\ NameComing => NameComing'
          /\ StartComing => StartComing'
          /\ Goes => Goes'
      <3>1. \A i \in 1..Len(calls') : i \in 1..Len(calls) \/ i = Len(calls) + 1
        BY <2>3
      <3>2. 1..Len(calls) \subseteq 1..Len(calls')
        BY <2>3
      <3>3. \A i : NoStopAfter(i) => NoStopAfter(i)'
        BY <2>1, <2>3, <3>1 DEF NoStopAfter
      <3> QED
        BY <1>4, <2>2, <2>3, <3>2, <3>3 DEF NameComing, StartComing, Goes
    <2>6. PageInv'
      BY <1>1, <2>2, <2>5 DEF PageInv
    <2> QED
      BY <1>3, <2>4, <2>6, TypeSplit
  <1>8. CASE NameSet
    <2>1. /\ Call("start") /\ answers > 0 /\ answers' = answers - 1
          /\ UNCHANGED <<recording, paused, process>>
      BY <1>8 DEF NameSet
    <2>2. /\ calls' \in Seq(CallNames) /\ Len(calls') = Len(calls) + 1
          /\ \A i \in 1..Len(calls) : calls'[i] = calls[i]
          /\ calls'[Len(calls) + 1] = "start"
          /\ Len(calls) \in Nat
      BY <1>1, <2>1, CallAppended DEF CallNames
    <2>3. GuiType' /\ CallsInv'
      BY <1>1, <1>2, <1>5, <2>1, <2>2 DEF GuiType, CallsInv, CallNames
    <2>4. StartComing'
      <3>1. Len(calls) + 1 \in 1..Len(calls')
        BY <2>2
      <3>2. \A j \in 1..Len(calls') : ~(Len(calls) + 1 < j)
        BY <2>2
      <3>3. PICK k : k = Len(calls) + 1
        OBVIOUS
      <3>4. k \in 1..Len(calls') /\ calls'[k] = "start" /\ NoStopAfter(k)'
        BY <2>2, <3>1, <3>2, <3>3 DEF NoStopAfter
      <3> QED
        BY <3>4 DEF StartComing
    <2>5. PageInv'
      BY <2>4 DEF PageInv
    <2> QED
      BY <1>3, <2>3, <2>5, TypeSplit
  <1>9. CASE Close
    <2>1. Call("shutdown") /\ process' = "closing" /\ UNCHANGED <<recording, paused, answers>>
      BY <1>9 DEF Close
    <2>2. calls' \in Seq(CallNames) /\ Len(calls') = Len(calls) + 1 /\ Len(calls) \in Nat
      BY <1>1, <2>1, CallAppended DEF CallNames
    <2>3. GuiType' /\ CallsInv'
      BY <1>1, <1>2, <1>5, <2>1, <2>2 DEF GuiType, CallsInv, CallNames
    <2>4. PageInv'
      BY <2>1 DEF PageInv
    <2> QED
      BY <1>3, <2>3, <2>4, TypeSplit
  <1> QED
    BY <1>6, <1>7, <1>8, <1>9

\* The thread begins something new: what is on the disk and in memory stays.
LEMMA PlanMade ==
    ASSUME IInv, Idle, UNCHANGED <<enabled, wayVars, exportVars, disk, started, safe, spoilt, mishap>>,
           process' # "off" => process # "off",
           enabled => steps' \in Nothing \cup Saving1 \cup Stopping1,
           ~enabled => steps' \in Nothing \cup Exiting
    PROVE  DiskInv' /\ FilesInv'
  <1>1. UNCHANGED <<enabled, log, points, increment, buffer, opened, path, left, disk, started,
                    safe, spoilt, mishap>>
    BY DEF wayVars, exportVars
  <1>2. DiskInv'
    BY <1>1, DiskSame, TypeSplit
  <1>3. CASE enabled
    <2>1. /\ RecordInv /\ EachCsvHas(log)
          /\ safe[log] = {} \/ \E f \in Ways : Has(log, Csv[f])
      BY <1>3, AtIdle
    <2>2. steps' \notin Opening1 \cup Opening2
      <3>1. ASSUME steps' \in Opening1 \cup Opening2
            PROVE  FALSE
        <4>1. steps' # <<>> /\ \E f : Head(steps') = <<"open", f>>
          BY <3>1, PlanParts DEF Opening1, Opening2, Opens
        <4>2. steps' \in Saving1 \cup Stopping1
          BY <1>3, <4>1 DEF Nothing
        <4>3. Head(steps') = <<"flush", 1>>
          BY <4>2, PlanParts
        <4> QED
          BY <4>1, <4>3, Tuples
      <3> QED
        BY <3>1
    <2>3. steps' \in Lasting \cup Closing
      BY <1>3 DEF Lasting, Closing
    <2>4. RecordInv'
      BY <1>1, <2>1, <2>2, <2>3 DEF RecordInv, Only, EachCsvHas, Has
    <2> QED
      BY <1>1, <1>2, <1>3, <2>4 DEF FilesInv
  <1>4. CASE ~enabled
    <2>1. RestInv /\ opened = {}
      BY <1>4, AtIdle
    <2>2. RestInv'
      BY <1>1, <1>4, <2>1 DEF RestInv, Only, Has
    <2> QED
      BY <1>1, <1>2, <1>4, <2>1, <2>2 DEF FilesInv, IdleInv
  <1> QED
    BY <1>3, <1>4 DEF IInv, TypeOK

\* A new log is begun.
LEMMA LogBegun ==
    ASSUME IInv, Start, ~enabled
    PROVE  DiskInv' /\ FilesInv' /\ CoreType' /\ (NoStopAfter(0)' => Goes')
  <1> USE TypeParts, KindFacts
  <1>1. Idle /\ RestInv /\ opened = {} /\ process # "off" /\ CoreType
    <2>1. Idle /\ calls # <<>>
      BY DEF Start, Serving
    <2> QED
      BY <2>1, AtIdle, TypeSplit DEF CallsInv
  <1>2. /\ started < MaxLogs /\ started' = started + 1 /\ enabled' = TRUE
        /\ log' = started' /\ points' = {}
        /\ increment' = NoPoints /\ buffer' = NoPoints /\ opened' = {}
        /\ steps' = << <<"open", 1>>, <<"open", 2>> >>
        /\ UNCHANGED <<path, left, disk, safe, spoilt, mishap, failures, halted, taken>>
    BY DEF Start, Serving, exportVars, history, failVars
  <1>3. steps' \in Opening1 /\ steps' \in Lasting
    BY <1>2, Plans DEF Lasting
  <1>4. started' \in Logs /\ started' \in 0..MaxLogs /\ started' > started /\ started \in Nat
        /\ MaxLogs \in Nat
    BY <1>2, TracklogAssumption DEF Logs
  <1>5. DOMAIN disk[started'] = {} /\ safe[started'] = {}
    BY <1>4 DEF DiskInv
  <1>6. DiskInv'
    <2>1. \A l \in Logs : l > started' => l > started
      BY <1>2, <1>4 DEF Logs
    <2> QED
      BY <1>2, <2>1 DEF DiskInv, Covered, Has, InGpx
  <1>7. RecordInv'
    <2>1. ~mishap' => \A f \in Ways : Only(IF f \in opened THEN {log} ELSE {}, f)'
      BY <1>1, <1>2 DEF RestInv, Only, Has
    <2>2. EachCsvHas(log)' /\ safe'[log'] = {} /\ \A f \in Ways : ~Has(log, Csv[f])'
      BY <1>2, <1>5 DEF EachCsvHas, Has
    <2> QED
      BY <1>1, <1>2, <1>3, <1>4, <2>1, <2>2 DEF RecordInv, RestInv, NoPoints
  <1>8. CoreType'
    BY <1>1, <1>2, <1>4 DEF CoreType, DiskType, NoPoints
  <1> QED
    BY <1>2, <1>3, <1>6, <1>7, <1>8 DEF FilesInv, Goes

\* What the page knows, when the next call is run.
LEMMA PageServed ==
    ASSUME IInv, NEW name, Serving(name), process = "up", recording
    PROVE  \/ answers > 0
           \/ name = "set-name"
           \/ \E i \in 1..Len(calls') : calls'[i] = "set-name"
           \/ StartComing'
           \/ name = "start" /\ NoStopAfter(0)'
           \/ Goes /\ name # "stop" /\ NoStopAfter(0)'
  <1>1. GuiType /\ PageInv
    BY TypeSplit
  <1>2. /\ Len(calls') = Len(calls) - 1 /\ Len(calls) \in Nat \ {0}
        /\ \A i \in 1..(Len(calls) - 1) : calls'[i] = calls[i + 1]
        /\ calls[1] = name
    BY <1>1, CallServed
  <1>3. ASSUME NEW i \in 1..Len(calls)
        PROVE  i = 1 \/ (i - 1 \in 1..Len(calls') /\ calls'[i - 1] = calls[i])
    BY <1>2
  <1>4. ASSUME NEW i \in Nat, NoStopAfter(i + 1)
        PROVE  \A j \in 1..Len(calls') : i < j => calls'[j] # "stop"
    <2> SUFFICES ASSUME NEW j \in 1..Len(calls'), i < j
                 PROVE  calls'[j] # "stop"
      OBVIOUS
    <2>1. j + 1 \in 1..Len(calls) /\ i + 1 < j + 1 /\ calls'[j] = calls[j + 1]
      BY <1>2
    <2> QED
      BY <1>4, <2>1 DEF NoStopAfter
  <1>5. CASE NameComing
    BY <1>2, <1>3, <1>5 DEF NameComing
  <1>6. CASE StartComing
    <2>1. PICK i \in 1..Len(calls) : calls[i] = "start" /\ NoStopAfter(i)
      BY <1>6 DEF StartComing
    <2>2. CASE i = 1
      <3>1. NoStopAfter(0 + 1)
        BY <2>1, <2>2
      <3>2. \A j \in 1..Len(calls') : 0 < j => calls'[j] # "stop"
        BY <1>4, <3>1
      <3> QED
        BY <1>2, <2>1, <2>2, <3>2 DEF NoStopAfter
    <2>3. CASE i # 1
      <3>1. PICK k \in Nat : k = i - 1 /\ k + 1 = i
        BY <1>2, <2>3
      <3>2. k \in 1..Len(calls') /\ calls'[k] = "start"
        BY <1>3, <2>1, <2>3, <3>1
      <3>3. \A j \in 1..Len(calls') : k < j => calls'[j] # "stop"
        BY <1>4, <2>1, <3>1
      <3> QED
        BY <3>2, <3>3 DEF StartComing, NoStopAfter
    <2> QED
      BY <2>2, <2>3
  <1>7. CASE Goes
    <2>1. name # "stop"
      BY <1>2, <1>7 DEF Goes, NoStopAfter
    <2>2. NoStopAfter(0 + 1)
      BY <1>2, <1>7 DEF Goes, NoStopAfter
    <2>3. \A j \in 1..Len(calls') : 0 < j => calls'[j] # "stop"
      BY <1>4, <2>2
    <2> QED
      BY <1>7, <2>1, <2>3 DEF NoStopAfter
  <1> QED
    BY <1>1, <1>5, <1>6, <1>7 DEF PageInv

LEMMA CallServedTypes ==
    ASSUME IInv, NEW name, Serving(name), answers' = answers \/ (name = "set-name" /\ answers' = answers + 1)
    PROVE  /\ GuiType' /\ CallsInv'
           /\ Idle /\ process # "off" /\ (process = "up" => name # "shutdown")
           /\ UNCHANGED <<recording, process>>
  <1>1. GuiType /\ CallsInv
    BY TypeSplit
  <1>2. /\ calls' \in Seq(CallNames) /\ Len(calls') = Len(calls) - 1
        /\ \A i \in 1..(Len(calls) - 1) : calls'[i] = calls[i + 1]
        /\ calls[1] = name
        /\ Len(calls) \in Nat \ {0}
    BY <1>1, CallServed
  <1>3. Idle /\ calls # <<>> /\ UNCHANGED <<recording, paused, process>>
    BY DEF Serving
  <1>4. MaxCalls \in Nat /\ 1 \in 1..Len(calls)
    BY <1>2, TracklogAssumption
  <1>5. process # "off" /\ (process = "up" => name # "shutdown")
    BY <1>1, <1>2, <1>3, <1>4 DEF CallsInv
  <1>6. GuiType'
    BY <1>1, <1>2, <1>3, <1>4 DEF GuiType, CallNames
  <1>7. CallsInv'
    <2>1. process = "up" => Len(calls') + answers' <= MaxCalls
      BY <1>1, <1>2, <1>4 DEF CallsInv, GuiType
    <2>2. process = "up" => \A i \in 1..Len(calls') : calls'[i] # "shutdown"
      BY <1>1, <1>2 DEF CallsInv
    <2> QED
      BY <1>3, <1>5, <2>1, <2>2 DEF CallsInv
  <1> QED
    BY <1>3, <1>5, <1>6, <1>7

LEMMA CallSteps ==
    ASSUME IInv, \/ SetName \/ Start \/ StopLogging \/ LogShutdown
                 \/ \E name \in {"pause", "unpause"} : Pause(name)
    PROVE  IInv'
  <1>1. GuiType /\ CoreType /\ CallsInv /\ PageInv /\ DiskInv /\ FilesInv
    BY TypeSplit
  <1>2. \A f : <<"exit", f>> = <<"exit", f>>
    OBVIOUS
  <1>3. /\ Saving1 \subseteq Lasting /\ <<>> \in Lasting /\ <<>> \in Nothing
    BY DEF Lasting, Nothing
  <1>4. ASSUME NEW name, Serving(name), UNCHANGED <<enabled, halted, wayVars, started>>
        PROVE  /\ CoreType'
               /\ UNCHANGED <<enabled, wayVars, exportVars, disk, started, safe, spoilt, mishap, process>>
    <2>1. UNCHANGED <<exportVars, disk, taken, history>> /\ process' = process
      BY <1>4 DEF Serving
    <2>2. UNCHANGED <<stateVars, countVars>>
      BY <1>4, <2>1 DEF stateVars, countVars
    <2> QED
      BY <1>1, <1>4, <2>1, <2>2, CoreSame DEF history, failVars
  <1>5. CASE SetName
    <2>1. /\ Serving("set-name") /\ answers' = answers + 1 /\ UNCHANGED <<steps, enabled, halted, wayVars, started>>
      BY <1>5 DEF SetName, stateVars
    <2>2. GuiType' /\ CallsInv' /\ Idle /\ process # "off"
      BY <2>1, CallServedTypes
    <2>3. /\ CoreType'
          /\ UNCHANGED <<enabled, wayVars, exportVars, disk, started, safe, spoilt, mishap, process>>
      BY <1>4, <2>1
    <2>4. DiskInv' /\ FilesInv'
      <3>1. steps' \in Nothing
        BY <1>3, <2>1, <2>2 DEF Idle
      <3> QED
        BY <2>2, <2>3, <3>1, PlanMade
    <2>5. PageInv'
      BY <1>1, <2>1 DEF PageInv, NameComing, GuiType
    <2> QED
      BY <2>2, <2>3, <2>4, <2>5, TypeSplit
  <1>6. CASE Start
    <2>1. Serving("start") /\ answers' = answers
      BY <1>6 DEF Start
    <2>2. GuiType' /\ CallsInv' /\ Idle /\ process # "off" /\ UNCHANGED <<recording, process>>
      BY <2>1, CallServedTypes
    <2>3. /\ DiskInv' /\ FilesInv' /\ CoreType'
          /\ NoStopAfter(0)' => Goes'
      <3>1. CASE enabled
        <4>1. UNCHANGED <<enabled, wayVars, steps, started, halted>>
          BY <1>6, <3>1 DEF Start
        <4>2. /\ CoreType'
              /\ UNCHANGED <<enabled, wayVars, exportVars, disk, started, safe, spoilt, mishap, process>>
          BY <1>4, <2>1, <4>1
        <4>3. steps' \in Nothing /\ steps' \in Lasting
          BY <1>3, <2>2, <4>1 DEF Idle
        <4>4. DiskInv' /\ FilesInv'
          BY <2>2, <3>1, <4>2, <4>3, PlanMade
        <4> QED
          BY <3>1, <4>1, <4>2, <4>3, <4>4 DEF Goes
      <3>2. CASE ~enabled
        BY <1>6, <3>2, LogBegun
      <3> QED
        BY <3>1, <3>2
    <2>4. PageInv'
      <3> SUFFICES ASSUME process = "up", recording
                   PROVE  NameComing' \/ StartComing' \/ Goes'
        BY <2>2 DEF PageInv
      <3>1. \/ answers > 0
            \/ \E i \in 1..Len(calls') : calls'[i] = "set-name"
            \/ StartComing'
            \/ NoStopAfter(0)'
        BY <2>1, PageServed
      <3> QED
        BY <2>1, <2>3, <3>1 DEF NameComing
    <2> QED
      BY <2>2, <2>3, <2>4, TypeSplit
  <1>7. CASE StopLogging
    <2>1. /\ Serving("stop") /\ UNCHANGED <<answers, enabled, halted, wayVars, started>>
          /\ steps' = IF enabled THEN Stop ELSE <<>>
      BY <1>7 DEF StopLogging, stateVars
    <2>2. GuiType' /\ CallsInv' /\ Idle /\ process # "off" /\ UNCHANGED <<recording, process>>
      BY <2>1, CallServedTypes
    <2>3. /\ CoreType'
          /\ UNCHANGED <<enabled, wayVars, exportVars, disk, started, safe, spoilt, mishap, process>>
      BY <1>4, <2>1
    <2>4. DiskInv' /\ FilesInv'
      <3>1. IF enabled THEN steps' \in Stopping1 ELSE steps' \in Nothing
        BY <1>3, <2>1, Plans
      <3> QED
        BY <2>2, <2>3, <3>1, PlanMade
    <2>5. PageInv'
      <3> SUFFICES ASSUME process = "up", recording
                   PROVE  NameComing' \/ StartComing' \/ Goes'
        BY <2>2 DEF PageInv
      <3>1. \/ answers > 0
            \/ \E i \in 1..Len(calls') : calls'[i] = "set-name"
            \/ StartComing'
        BY <2>1, PageServed
      <3> QED
        BY <2>1, <3>1 DEF NameComing
    <2> QED
      BY <2>2, <2>3, <2>4, <2>5, TypeSplit
  <1>8. CASE LogShutdown
    <2>1. /\ Serving("shutdown") /\ UNCHANGED <<answers, enabled, halted, wayVars, started>>
          /\ steps' = Append(IF enabled THEN Stop ELSE <<>>, <<"exit", 0>>)
      BY <1>8 DEF LogShutdown, stateVars
    <2>2. GuiType' /\ CallsInv' /\ Idle /\ process # "off" /\ process # "up" /\ UNCHANGED <<recording, process>>
      BY <2>1, CallServedTypes
    <2>3. /\ CoreType'
          /\ UNCHANGED <<enabled, wayVars, exportVars, disk, started, safe, spoilt, mishap, process>>
      BY <1>4, <2>1
    <2>4. DiskInv' /\ FilesInv'
      <3>1. IF enabled THEN steps' \in Stopping1 ELSE steps' \in Exiting
        BY <2>1, Plans
      <3> QED
        BY <2>2, <2>3, <3>1, PlanMade
    <2>5. PageInv'
      BY <2>2 DEF PageInv
    <2> QED
      BY <2>2, <2>3, <2>4, <2>5, TypeSplit
  <1>9. ASSUME NEW name \in {"pause", "unpause"}, Pause(name)
        PROVE  IInv'
    <2>1. /\ Serving(name) /\ UNCHANGED <<answers, enabled, halted, wayVars, started>>
          /\ steps' = IF enabled THEN Append(Flushes, <<name, 0>>) ELSE <<>>
      BY <1>9 DEF Pause, stateVars
    <2>2. GuiType' /\ CallsInv' /\ Idle /\ process # "off" /\ UNCHANGED <<recording, process>>
      BY <2>1, CallServedTypes
    <2>3. /\ CoreType'
          /\ UNCHANGED <<enabled, wayVars, exportVars, disk, started, safe, spoilt, mishap, process>>
      BY <1>4, <2>1
    <2>4. IF enabled THEN steps' \in Saving1 ELSE steps' \in Nothing
      BY <1>3, <2>1, Plans
    <2>5. DiskInv' /\ FilesInv'
      BY <2>2, <2>3, <2>4, PlanMade
    <2>6. PageInv'
      <3> SUFFICES ASSUME process = "up", recording
                   PROVE  NameComing' \/ StartComing' \/ Goes'
        BY <2>2 DEF PageInv
      <3>1. \/ answers > 0
            \/ \E i \in 1..Len(calls') : calls'[i] = "set-name"
            \/ StartComing'
            \/ Goes /\ NoStopAfter(0)'
        BY <2>1, PageServed
      <3>2. Goes /\ NoStopAfter(0)' => Goes'
        BY <1>3, <2>3, <2>4 DEF Goes
      <3> QED
        BY <2>1, <3>1, <3>2 DEF NameComing
    <2> QED
      BY <2>2, <2>3, <2>5, <2>6, TypeSplit
  <1> QED
    BY <1>5, <1>6, <1>7, <1>8, <1>9

LEMMA TimerSteps ==
    ASSUME IInv, UpdateLog \/ SaveLog
    PROVE  IInv'
  <1> USE KindFacts
  <1>1. GuiType /\ CoreType /\ CallsInv /\ PageInv /\ DiskInv /\ FilesInv
    BY TypeSplit
  <1>2. Idle /\ enabled /\ UNCHANGED <<guiVars, process, enabled, halted>>
    BY DEF UpdateLog, SaveLog, stateVars
  <1>3. /\ RecordInv /\ steps \in Lasting /\ EachCsvHas(log)
        /\ safe[log] = {} \/ \E f \in Ways : Has(log, Csv[f])
        /\ steps = <<>>
    BY <1>2, AtIdle DEF Idle
  <1>4. UNCHANGED <<recording, paused, calls, answers, process>>
    BY <1>2 DEF guiVars
  <1>5. GuiType' /\ CallsInv'
    BY <1>1, <1>2, <1>4 DEF GuiType, CallsInv
  <1>6. steps' \in Lasting => PageInv'
    BY <1>1, <1>2, <1>4 DEF PageInv, NameComing, StartComing, Goes, NoStopAfter
  <1>7. CASE UpdateLog
    <2>1. /\ taken < MaxPoints /\ taken' = taken + 1 /\ points' = points \cup {taken'}
          /\ increment' = [f \in Ways |-> increment[f] \cup {taken'}]
          /\ UNCHANGED <<log, buffer, opened, steps, path, left, disk, started, safe, spoilt, mishap,
                         failures>>
      BY <1>7 DEF UpdateLog, exportVars, history, failVars
    <2>2. taken' \in Points /\ taken' \in 0..MaxPoints
      <3>1. MaxPoints \in Nat
        BY TracklogAssumption
      <3> QED
        BY <1>1, <2>1, <3>1 DEF CoreType, Points
    <2>3. CoreType'
      BY <1>1, <1>2, <2>1, <2>2 DEF CoreType, DiskType, Has
    <2>4. DiskInv'
      BY <1>1, <2>1, DiskSame
    <2>5. RecordInv'
      <3>1. \A f \in Ways : increment'[f] \subseteq points' /\ buffer'[f] \subseteq points'
        BY <1>3, <2>1 DEF RecordInv
      <3>2. steps' \notin Opening1 \cup Opening2
        BY <1>3, <2>1 DEF Opening1, Opening2, Opens
      <3>3. \A f \in Ways : Has(log, Csv[f])' => (disk[log][Csv[f]])' \subseteq points'
        BY <1>3, <2>1 DEF RecordInv, Has
      <3> QED
        BY <1>3, <2>1, <3>1, <3>2, <3>3 DEF RecordInv, Only, EachCsvHas, Has
    <2> QED
      BY <1>2, <1>3, <1>5, <1>6, <2>1, <2>3, <2>4, <2>5, TypeSplit DEF FilesInv
  <1>8. CASE SaveLog
    <2>1. /\ steps' = Flushes
          /\ UNCHANGED <<stateVars, wayVars, exportVars, disk, countVars, history>>
      BY <1>8 DEF SaveLog
    <2>2. CoreType'
      BY <1>1, <2>1, CoreSame
    <2>3. steps' \in Saving1 /\ steps' \in Lasting
      BY <2>1, Plans DEF Lasting
    <2>4. DiskInv' /\ FilesInv'
      BY <1>2, <2>1, <2>3, PlanMade DEF countVars, history, failVars
    <2> QED
      BY <1>5, <1>6, <2>2, <2>3, <2>4, TypeSplit
  <1> QED
    BY <1>7, <1>8

LEMMA ProcessSteps ==
    ASSUME IInv, StartUp \/ Exit \/ KillProcess
    PROVE  IInv'
  <1>1. GuiType /\ CoreType /\ CallsInv /\ PageInv /\ DiskInv /\ FilesInv
    BY TypeSplit
  <1>2. MaxCalls \in Nat /\ MaxCalls # 0
    BY TracklogAssumption
  <1>3. CASE StartUp
    <2>1. /\ process = "off" /\ process' = "up" /\ steps' = << <<"scan", 1>>, <<"scan", 2>> >>
          /\ mishap' = FALSE
          /\ UNCHANGED <<recording, paused, calls, answers, enabled, halted, log, points, increment,
                         buffer, opened, path, left, disk, started, taken, safe, spoilt, failures>>
      BY <1>3 DEF StartUp, guiVars, stateVars, wayVars, exportVars, countVars
    <2>2. steps = <<>> /\ calls = <<>> /\ answers = 0 /\ ~enabled /\ ~recording
      BY <1>1, <2>1 DEF CallsInv
    <2>3. RestInv /\ opened = {}
      BY <2>2, AtIdle DEF Idle
    <2>4. steps' \in Scanning1 /\ steps' \notin Scanning2
      <3>1. steps' \in Scanning1
        BY <2>1, Plans
      <3>2. Head(steps') = <<"scan", 1>>
        BY <3>1, RescueParts
      <3> QED
        BY <3>1, <3>2, RescueParts, Tuples
    <2>5. DiskInv'
      BY <1>1, <2>1, DiskSame
    <2>6. FilesInv'
      BY <2>1, <2>2, <2>3, <2>4 DEF FilesInv, IdleInv, ScanInv, RestInv
    <2>7. CoreType'
      BY <1>1, <2>1 DEF CoreType, DiskType, Has
    <2>8. GuiType' /\ CallsInv' /\ PageInv'
      BY <1>1, <1>2, <2>1, <2>2 DEF GuiType, CallsInv, PageInv
    <2> QED
      BY <2>5, <2>6, <2>7, <2>8, TypeSplit
  <1>4. CASE End
    <2>1. /\ process' = "off" /\ steps' = <<>>
          /\ recording' = FALSE /\ paused' = FALSE /\ calls' = <<>> /\ answers' = 0
          /\ enabled' = FALSE /\ halted' = FALSE
          /\ log' = 0 /\ points' = {} /\ increment' = NoPoints /\ buffer' = NoPoints /\ opened' = {}
          /\ path' = "gpx" /\ left' = {}
          /\ UNCHANGED <<disk, started, taken, safe, spoilt, mishap, failures>>
      BY <1>4 DEF End, countVars, history, failVars
    <2>2. DiskInv'
      BY <1>1, <2>1, DiskSame
    <2>3. FilesInv'
      BY <2>1 DEF FilesInv, IdleInv, RestInv, Nothing
    <2>4. CoreType'
      BY <1>1, <2>1, KindFacts DEF CoreType, DiskType, NoPoints
    <2>5. GuiType' /\ CallsInv' /\ PageInv'
      <3>1. calls' \in Seq(CallNames) /\ Len(calls') = 0
        BY <2>1
      <3>2. {recording', paused'} \subseteq BOOLEAN /\ process' \in {"off", "up", "closing"}
        BY <2>1
      <3>3. answers' \in Nat /\ Len(calls') + answers' <= MaxCalls + 1
        BY <1>2, <2>1, <3>1
      <3>4. GuiType'
        BY <3>1, <3>2, <3>3 DEF GuiType, CallNames
      <3>5. CallsInv' /\ PageInv'
        BY <2>1 DEF CallsInv, PageInv
      <3> QED
        BY <3>4, <3>5
    <2> QED
      BY <2>2, <2>3, <2>4, <2>5, TypeSplit
  <1> QED
    BY <1>3, <1>4 DEF Exit, KillProcess

-----------------------------------------------------------------------------
(* The theorems.                                                           *)

LEMMA InvInit ==
    ASSUME Init
    PROVE  IInv
  <1>1. /\ recording = FALSE /\ paused = FALSE /\ calls = <<>> /\ answers = 0
        /\ enabled = FALSE /\ halted = FALSE
        /\ log = 0 /\ points = {} /\ increment = NoPoints /\ buffer = NoPoints /\ opened = {}
        /\ path = "gpx" /\ left = {}
        /\ process = "off" /\ steps = <<>>
        /\ disk = [l \in Logs |-> [kind \in {} |-> {}]]
        /\ started = 0 /\ taken = 0
        /\ safe = [l \in Logs |-> {}] /\ spoilt = {}
        /\ mishap = FALSE /\ failures = 0
    BY DEF Init, Fresh
  <1>2. {MaxLogs, MaxPoints, MaxCalls, MaxFailures} \subseteq Nat
    BY TracklogAssumption
  <1>3. DiskType /\ \A l \in Logs : DOMAIN disk[l] = {}
    BY <1>1 DEF DiskType
  <1>4. TypeOK
    <2>1. calls \in Seq(CallNames) /\ Len(calls) = 0 /\ steps \in Seq(Names \X (Ways \cup {0}))
      BY <1>1
    <2>2. \A l \in Logs : disk[l] \in [DOMAIN disk[l] -> SUBSET Points] /\ DOMAIN disk[l] \subseteq Kinds
      BY <1>3 DEF DiskType
    <2>3. increment \in [Ways -> SUBSET Points] /\ buffer \in [Ways -> SUBSET Points]
      BY <1>1 DEF NoPoints
    <2>4. safe \in [Logs -> SUBSET Points] /\ path \in Kinds /\ DOMAIN disk = Logs
      BY <1>1, KindFacts
    <2>5. /\ {recording, paused, enabled, halted, mishap} \subseteq BOOLEAN
          /\ process \in {"off", "up", "closing"} /\ opened \subseteq {f \in Ways : enabled /\ Has(log, Csv[f])}
      BY <1>1
    <2>6. /\ answers \in Nat /\ Len(calls) + answers <= MaxCalls + 1
          /\ log \in Logs \cup {0} /\ started \in 0..MaxLogs
          /\ points \in SUBSET Points /\ taken \in 0..MaxPoints
          /\ left \subseteq Logs /\ failures \in 0..MaxFailures /\ spoilt \subseteq Logs
      BY <1>1, <1>2, <2>1
    <2> QED
      BY <2>1, <2>2, <2>3, <2>4, <2>5, <2>6 DEF TypeOK, CallNames
  <1>5. CallsInv /\ PageInv
    BY <1>1 DEF CallsInv, PageInv
  <1>6. DiskInv
    BY <1>1, <1>3 DEF DiskInv, Covered
  <1>7. FilesInv
    BY <1>1 DEF FilesInv, IdleInv, RestInv, Nothing
  <1> QED
    BY <1>4, <1>5, <1>6, <1>7 DEF IInv

LEMMA InvNext ==
    ASSUME IInv, [Next]_vars
    PROVE  IInv'
  <1>1. ASSUME ClickRecord \/ ClickPause \/ NameSet \/ Close
        PROVE  IInv'
    BY <1>1, GuiSteps
  <1>2. ASSUME \/ SetName \/ Start \/ StopLogging \/ LogShutdown
               \/ \E name \in {"pause", "unpause"} : Pause(name)
        PROVE  IInv'
    BY <1>2, CallSteps
  <1>3. ASSUME Stopped \/ \E name \in {"pause", "unpause"} : SetPaused(name)
        PROVE  IInv'
    BY <1>3, EndSteps
  <1>4. ASSUME UpdateLog \/ SaveLog
        PROVE  IInv'
    BY <1>4, TimerSteps
  <1>5. ASSUME NEW f \in Ways, Open(f) \/ Flush(f) \/ Delete(f)
        PROVE  IInv'
    BY <1>5, RecordSteps
  <1>6. ASSUME NEW f \in Ways, CreateGpx(f) \/ Export(f)
        PROVE  IInv'
    BY <1>6, ExportSteps
  <1>7. ASSUME \/ RemoveOther
               \/ \E f \in Ways : Scan(f) \/ Rescue(f) \/ Read(f) \/ RemoveCsv(f) \/ MoveCsv(f)
        PROVE  IInv'
    BY <1>7, RescueSteps
  <1>8. ASSUME StartUp \/ Exit \/ KillProcess
        PROVE  IInv'
    BY <1>8, ProcessSteps
  <1>9. ASSUME UNCHANGED vars
        PROVE  IInv'
    <2>1. GuiType /\ CoreType /\ CallsInv /\ PageInv /\ DiskInv /\ FilesInv
      BY TypeSplit
    <2>2. /\ UNCHANGED <<stateVars, wayVars, steps, exportVars, disk, countVars, history>>
          /\ UNCHANGED <<recording, paused, calls, answers, process, enabled>>
      BY <1>9 DEF vars, guiVars, stateVars
    <2>3. DiskInv' /\ FilesInv' /\ CoreType'
      BY <2>1, <2>2, FilesSame, CoreSame
    <2>4. GuiType' /\ CallsInv' /\ PageInv'
      BY <2>1, <2>2 DEF GuiType, CallsInv, PageInv, NameComing, StartComing, Goes, NoStopAfter
    <2> QED
      BY <2>3, <2>4, TypeSplit
  <1> QED
    BY <1>1, <1>2, <1>3, <1>4, <1>5, <1>6, <1>7, <1>8, <1>9 DEF Next

\* The types, the calls under way, the page, the files of every log and the plan
\* of the thread fit together in every state, whatever fails or is killed.
THEOREM Invariance == Spec => []IInv
  BY InvInit, InvNext, PTL DEF Spec

\* Whatever fails or kills modRana, and however often, a saved point of a log
\* whose export has not failed is in some file of the log.
THEOREM SavedPointsSurvive == Spec => []SavedSurvives
  <1>1. IInv => SavedSurvives
    BY DEF IInv, DiskInv, Covered, SavedSurvives
  <1> QED
    BY <1>1, Invariance, PTL

\* Unless a step has failed since modRana was started, the rescue leaves no
\* temporary file behind.
THEOREM NothingIsLeftToRescue == Spec => []AllRescued
  <1>1. IInv => AllRescued
    <2> SUFFICES ASSUME IInv, process = "up", Idle, ~mishap, NEW l \in Logs, NEW f \in Ways,
                        Has(l, Csv[f])
                 PROVE  enabled /\ l = log
      BY DEF AllRescued
    <2>1. CASE enabled
      <3>1. Only(IF f \in opened THEN {log} ELSE {}, f)
        BY <2>1, AtIdle DEF RecordInv
      <3> QED
        BY <2>1, <3>1 DEF Only
    <2>2. CASE ~enabled
      <3>1. Only({}, f)
        BY <2>2, AtIdle DEF RestInv
      <3> QED
        BY <3>1 DEF Only
    <2> QED
      BY <2>1, <2>2
  <1> QED
    BY <1>1, Invariance, PTL

\* When all that the page has called and was told has been run and the page shows
\* a recording, a log is recorded.
THEOREM PageShowsRecording == Spec => []ShownIsEnabled
  <1>1. IInv => ShownIsEnabled
    <2> SUFFICES ASSUME IInv, Quiet, recording
                 PROVE  enabled
      BY DEF ShownIsEnabled, IInv
    <2>1. answers = 0 /\ Len(calls) = 0 /\ process = "up"
      BY DEF Quiet, IInv, TypeOK
    <2>2. ~NameComing /\ ~StartComing
      BY <2>1 DEF NameComing, StartComing
    <2> QED
      BY <2>1, <2>2 DEF IInv, PageInv, Goes
  <1> QED
    BY <1>1, Invariance, PTL

=============================================================================
