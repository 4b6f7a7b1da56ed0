CONSTANTS
    Producers <- MCProducers
    MaxPush = 1
SPECIFICATION FairSpec
PROPERTY FinishStopsConsumer
CHECK_DEADLOCK FALSE
