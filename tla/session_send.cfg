CONSTANTS
    Producers = {p1, p2}
    IoThreads = {t1, t2}
    MaxQueue = 2
    MaxCalls = 6
SPECIFICATION FairSpec
\* The producers stop after MaxCalls, and a race may end the process.
CHECK_DEADLOCK FALSE
INVARIANTS TypeOK OneSender NoLostWakeup BuffersHeld DeliveredInOrder NothingLost PendingBounded
PROPERTIES ImplementsChannel PeerReadsAllDelivered QueueServed OverflowCloses
