\* Two logs, with two failures and any kills among the steps of recording, export and rescue.
SPECIFICATION Spec
CONSTANTS
    MaxLogs = 2
    MaxPoints = 1
    MaxCalls = 2
    MaxFailures = 2
INVARIANTS
    SavedSurvives
    AllRescued
    ShownIsEnabled
