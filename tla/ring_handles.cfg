CONSTANTS
    Handles = {h1, h2, h3, h4}
    Buffers = {b1, b2}
    NoBuffer = NoBuffer
SPECIFICATION FairSpec
\* All scopes end.
CHECK_DEADLOCK FALSE
INVARIANTS TypeOK OneHolder SettledOnce
PROPERTY ReservationEnds
