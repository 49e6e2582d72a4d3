CONSTANTS
    main = main
    w1 = w1
    w2 = w2
    s1 = s1
    s2 = s2
    a = a
    b = b
    Workers = {w1, w2}
    Starter = main
    Stoppers = {s1, s2}
    Sessions = {a, b}
    MaxStarts = 2
SPECIFICATION FairSpec
\* Start is called MaxStarts times, and a race may end the process.
CHECK_DEADLOCK FALSE
INVARIANTS TypeOK OneAcceptLoop AcceptLoopAlive SessionOwned OneStopper
PROPERTIES ImplementsPool StopAdvances  StopTerminates
