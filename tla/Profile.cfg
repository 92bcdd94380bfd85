\* Starts, edits, upgrades, failures and kills of one profile folder.
SPECIFICATION ProfileSpec
CONSTANTS
    k1 = k1
    car = car
    foot = foot
    w1 = w1
    w2 = w2
    file1 = file1
    Plain = plain
    NoValue = none
    NotTold = untold
    one = one
    two = two
    Values <- MCValues
    Keys <- MCKeys
    Modes <- MCModes
    DefaultMode = car
    Watchers <- MCWatchers
    KeyOf <- MCKeyOf
    OldFile <- MCOldFile
    MaxSets = 2
    Configs <- MCConfigs
    MaxVersion = 3
    DefaultRev <- MCDefaultRev
    MaxEdits = 1
SYMMETRY WatcherSymmetry
INVARIANTS
    WatchersKnow
    OptionsSurvive
    EditSurvives
    UpgradedWhenRecorded
