SPECIFICATION FairSpec
CONSTANTS
    i1 = i1
    i2 = i2
    Instances = {i1, i2}
    Hooks = {1}
    Retries = 1
    BATCH = 2
    MaxEvents = 1
    MaxManual = 1
    MaxChanges = 1
    MaxFailures = 1
INVARIANTS
    OneSender
PROPERTIES
    GivesUpAfterEveryRetry
    FinishedStaysFinished
    EveryDeliveryEnds
CHECK_DEADLOCK FALSE
