\* No failures: does the page show what is recorded?
SPECIFICATION Spec
CONSTANTS
    MaxLogs = 2
    MaxPoints = 1
    MaxCalls = 2
    MaxFailures = 0
INVARIANTS
    ShownIsRecorded
