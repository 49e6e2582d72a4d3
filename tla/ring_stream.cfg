CONSTANTS
    Capacity = 6
    Bytes = {0, 1}
SPECIFICATION Spec
INVARIANTS TypeOK WriterOverwritesNothing HandlesStayValid UnreadIsReadable HalfFits
PROPERTY ImplementsStream
