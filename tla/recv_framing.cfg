CONSTANTS
    Capacity = 8
    MinWritable = 4
    HeaderSize = 2
    MaxPacketSize = 4
SPECIFICATION Spec
INVARIANTS TypeOK RoomToReceive InStep
