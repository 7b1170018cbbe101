SPECIFICATION BackfillSpec
CONSTANTS
    Jobs = {1, 2, 3, 4}
    Outcome <- MCOutcome
    Started = {2, 3, 4}
    Day <- MCDay
    Specs <- MCSpecs
    NoCompiler = {"curl"}
    Timings <- MCTimings
    Workers = {w1}
    Backfill = backfill
    KnownResults = {"success"}
    MaxRetries = 1
    MaxDeliveries <- MCMaxDeliveries
    Faults = {"request", "error", "process", "pod"}
    MaxFaults = 1
INVARIANTS TypeOK
PROPERTIES ImplementsFactStore StartedIsRecorded
