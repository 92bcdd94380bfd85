------------------------------ MODULE Options ------------------------------
(***************************************************************************)
(* The persistent dictionary of modRana (modrana.py): get(), set(), the    *)
(* watches, the key modifiers that make an option depend on the mode, and  *)
(* loading and saving at startup and shutdown.                             *)
(*                                                                         *)
(* Saving truncates options.bin before it is written.  The key modifiers   *)
(* are in force only after all modules were constructed; what a module     *)
(* sets or watches in its constructor goes by the plain value.  Nothing    *)
(* adds a modifier any more (addKeyModifier() has no caller): they come    *)
(* with the options files of older versions.                               *)
(***************************************************************************)
EXTENDS Naturals, FiniteSets

CONSTANTS
    Keys,        \* options that are saved
    Modes,       \* car, foot, ...: the values of the option "mode"
    DefaultMode, \* "car"
    Plain,       \* the slot of an option in self.d; those of "<key>#multi" are modes
    Values,
    NoValue,     \* the option is not set
    Watchers,    \* callbacks, each on one option
    KeyOf,       \* [Watchers -> Keys]
    NotTold,     \* the watch is not registered yet
    OldFile,     \* the options files the first start may find
    MaxSets      \* bound on calls of set()

ASSUME OptionsAssumption ==
    /\ DefaultMode \in Modes
    /\ Plain \notin Modes
    /\ NoValue \notin Values
    /\ NotTold \notin Values \cup {NoValue}
    /\ KeyOf \in [Watchers -> Keys]
    /\ MaxSets \in Nat

VARIABLES
    phase,     \* "off", "starting", "up" or "saving"
    value,     \* self.d and its "#multi" dictionaries
    mode,      \* self.d["mode"]
    modified,  \* self.keyModifiers: the modes an option has a value of its own for
    pending,   \* self.d["keyModifiers"], before it becomes self.keyModifiers
    loadingOK, \* self.optLoadingOK
    told,      \* the value each watcher was called with last
    unaware,   \* history: watchers called before the modifiers were in force, or not
               \* reached when their option was set, and not called since
    options,   \* options.bin
    touched,   \* options set in this run
    saved,     \* history: what get() returned for each option and mode when
               \* options.bin was written; nothing if that was cut short
    sets       \* number of calls of set()

Slots == Modes \cup {Plain}
Slotted == [Keys -> [Slots -> Values \cup {NoValue}]]
Empty == [k \in Keys |-> [s \in Slots |-> NoValue]]
Unmodified == [k \in Keys |-> {}]

\* What an older version may have left can be loaded.
ASSUME OldFileAssumption ==
    OldFile \subseteq [whole : {TRUE}, value : Slotted, mode : Modes,
                       modified : [Keys -> SUBSET Modes]]

\* Contents of options.bin; a torn or missing one cannot be loaded.
File(whole, v, m, x) == [whole |-> whole, value |-> v, mode |-> m, modified |-> x]
Unreadable == File(FALSE, Empty, DefaultMode, Unmodified)

memoryVars == <<value, mode, modified, pending, loadingOK, told, unaware, touched>>
optionVars == <<phase, memoryVars, options, saved, sets>>

\* get() under given modifiers: the value of the mode if the option has one
\* for it, else the plain one.
Slot(x, k, m) == IF m \in x[k] THEN m ELSE Plain
Get(v, x, k, m) == v[k][Slot(x, k, m)]
Answers(v, x) == [k \in Keys |-> [m \in Modes |-> Get(v, x, k, m)]]

Forget ==
    /\ value' = Empty
    /\ mode' = DefaultMode
    /\ modified' = Unmodified
    /\ pending' = Unmodified
    /\ loadingOK' = FALSE
    /\ told' = [w \in Watchers |-> NotTold]
    /\ unaware' = {}
    /\ touched' = {}

OptionsInit ==
    /\ phase = "off"
    /\ value = Empty
    /\ mode = DefaultMode
    /\ modified = Unmodified
    /\ pending = Unmodified
    /\ loadingOK = FALSE
    /\ told = [w \in Watchers |-> NotTold]
    /\ unaware = {}
    /\ options \in OldFile \cup {Unreadable}
    /\ touched = {}
    /\ saved = Answers(options.value, options.modified)
    /\ sets = 0

-----------------------------------------------------------------------------
(* Startup.                                                                *)

\* _load_options(): all of the file, or, whatever is wrong with it, nothing.
Load ==
    /\ phase = "off"
    /\ phase' = "starting"
    /\ loadingOK' = options.whole
    /\ value' = options.value
    /\ mode' = options.mode
    /\ pending' = options.modified
    /\ UNCHANGED <<modified, told, unaware, touched, options, saved, sets>>

\* watch() with runNow, by a constructor or by firstTime().
Watch(w) ==
    /\ phase \in {"starting", "up"}
    /\ told[w] = NotTold
    /\ told' = [told EXCEPT ![w] = Get(value, modified, KeyOf[w], mode)]
    /\ UNCHANGED <<phase, value, mode, modified, pending, loadingOK, unaware, touched,
                   options, saved, sets>>

\* _modules_loaded_pre_first_time(): nobody is told that options with
\* modifiers have other values from here on.
Restore ==
    /\ phase = "starting"
    /\ phase' = "up"
    /\ modified' = pending
    /\ unaware' = unaware \cup {w \in Watchers : told[w] # NotTold /\ pending[KeyOf[w]] # {}}
    /\ UNCHANGED <<value, mode, pending, loadingOK, told, touched, options, saved, sets>>

-----------------------------------------------------------------------------
(* Setting.                                                                *)

Due(keys) == {w \in Watchers : told[w] # NotTold /\ KeyOf[w] \in keys}

\* A walk over the watchers that are due reaches them all; if a callback raises,
\* which nothing catches, it is the last.  (In which order they are called is
\* left open.)
Walks(due) == {called \in SUBSET due : due # {} => called # {}}

\* _notify_watcher() for each of the options: a watcher that is reached is called
\* with what get() returns by then.
Notify(due, called, v, m) ==
    /\ told' = [w \in Watchers |->
                   IF w \in called THEN Get(v, modified, KeyOf[w], m) ELSE told[w]]
    /\ unaware' = (unaware \ called) \cup (due \ called)

Set(k, x) ==
    LET new == [value EXCEPT ![k][Slot(modified, k, mode)] = x]
    IN  /\ phase \in {"starting", "up"}
        /\ sets < MaxSets
        /\ value' = new
        /\ \E called \in Walks(Due({k})) : Notify(Due({k}), called, new, mode)
        /\ touched' = touched \cup {k}
        /\ sets' = sets + 1
        /\ UNCHANGED <<phase, mode, modified, pending, loadingOK, options, saved>>

\* Mutant: only options with a value for the new mode are looked at.
ChangedByNewMode(m) == {k \in Keys : m \in modified[k]}

\* The options whose value may change with the mode: those with a value of
\* their own for the new mode or for the old one.
ChangedBy(m) == {k \in Keys : {m, mode} \cap modified[k] # {}}

\* set("mode", m) and the watch on it, _mode_changed_cb(), which is not reached if
\* the GUI's own watch of the mode raises before it.
SetMode(m) ==
    /\ phase = "up"
    /\ sets < MaxSets
    /\ mode' = m
    /\ \E called \in SUBSET Due(ChangedBy(m)) : Notify(Due(ChangedBy(m)), called, value, m)
    /\ sets' = sets + 1
    /\ UNCHANGED <<phase, value, modified, pending, loadingOK, touched, options, saved>>

-----------------------------------------------------------------------------
(* Shutdown.                                                               *)

\* _save_options() opens the file for writing, which truncates it.
BeginSave ==
    /\ phase = "up"
    /\ phase' = "saving"
    /\ options' = Unreadable
    /\ saved' = Answers(Empty, Unmodified)
    /\ UNCHANGED <<memoryVars, sets>>

\* Mutant: the modifiers that were loaded are not saved.
SavedValuesOnly == File(TRUE, value, mode, Unmodified)

Saved == File(TRUE, value, mode, modified)

EndSave ==
    /\ phase = "saving"
    /\ phase' = "off"
    /\ options' = Saved
    /\ saved' = Answers(value, modified)
    /\ Forget
    /\ UNCHANGED sets

\* The process ends before anything is saved or in the middle of it: a kill,
\* sys.exit(), or a save that failed.
Die ==
    /\ phase # "off"
    /\ phase' = "off"
    /\ Forget
    /\ UNCHANGED <<options, saved, sets>>

OptionsTypeOK ==
    /\ phase \in {"off", "starting", "up", "saving"}
    /\ value \in Slotted
    /\ mode \in Modes
    /\ modified \in [Keys -> SUBSET Modes]
    /\ pending \in [Keys -> SUBSET Modes]
    /\ loadingOK \in BOOLEAN
    /\ told \in [Watchers -> Values \cup {NoValue, NotTold}]
    /\ unaware \in SUBSET Watchers
    /\ options \in [whole : BOOLEAN, value : Slotted, mode : Modes,
                    modified : [Keys -> SUBSET Modes]]
    /\ touched \in SUBSET Keys
    /\ saved \in [Keys -> [Modes -> Values \cup {NoValue}]]
    /\ sets \in 0..MaxSets

\* While modRana runs every watcher was last told what get() returns now,
\* through mode changes that change many options at once.  Excepted are, until
\* they are called again, those that registered in a constructor for an option
\* with modifiers, as Restore tells nobody, and those behind a watcher that raised.
WatchersKnow ==
    /\ OptionsTypeOK
    /\ phase = "up" =>
          \A w \in Watchers \ unaware :
              told[w] # NotTold => told[w] = Get(value, modified, KeyOf[w], mode)

\* A run begins with what the last one ended with: an option nobody has set
\* yet has the value it had when options.bin was written, in every mode and
\* whatever kills came since; only a save that was cut short loses it.
OptionsSurvive ==
    phase = "up" =>
        \A k \in Keys \ touched : \A m \in Modes :
            Get(value, modified, k, m) = saved[k][m]

=============================================================================
