\* The capacity of the code, and a stream long enough to overrun it.
CONSTANTS
    MAX_BUFFER_SIZE = 10
    MaxPackets = 15
SPECIFICATION QueueSpec
INVARIANTS
    NoLostWakeup
PROPERTIES
    EveryPacketIsHandled
    ImplementsLossyFifo
