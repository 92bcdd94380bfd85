----------------------------- MODULE MCProfile -----------------------------
(***************************************************************************)
(* Profile on a small instance: one option with values of its own for some *)
(* modes, two watchers of it, and one configuration file whose default     *)
(* gets a new revision with each version: an edit can be renamed twice.    *)
(***************************************************************************)
EXTENDS Profile, TLC

CONSTANTS k1, car, foot, w1, w2, one, two, file1

MCKeys == {k1}
MCModes == {car, foot}
MCWatchers == {w1, w2}
MCKeyOf == [w \in MCWatchers |-> k1]
MCValues == {one, two}
MCConfigs == {file1}
MCDefaultRev == [c \in MCConfigs |-> [v \in 1..MaxVersion |-> v]]

\* What an older version left: every value, with modifiers for any modes.
MCOldFile ==
    {File(TRUE, [k \in MCKeys |-> v], car, [k \in MCKeys |-> x]) :
        v \in [MCModes \cup {Plain} -> Values], x \in SUBSET MCModes}

WatcherSymmetry == Permutations(MCWatchers) \cup Permutations(MCValues)

=============================================================================
