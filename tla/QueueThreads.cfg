CONSTANTS
    Producers <- MCProducers
    MaxPush = 3
SPECIFICATION FairSpec
INVARIANTS
    FifoOrder
    NoLostPush
PROPERTIES
    PushedIsPopped
    FinishWakesWaiter
CHECK_DEADLOCK FALSE
