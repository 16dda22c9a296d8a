SPECIFICATION FairSpec
CONSTANTS
    MaxEvents = 3
    Ticks = {t1, t2}
    Limit = 2
    MaxFailures = 1
INVARIANTS TypeOK PublishedWasAdded AddedAgainOnlyAfterFailure
PROPERTIES EveryEventIsProcessed
CHECK_DEADLOCK FALSE
