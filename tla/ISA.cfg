CONSTANTS
    ByteBits = 1
    Regs <- MCRegs
    Values <- MCValues
    MemValues <- MCMemValues
    Addrs <- MCAddrs
    Imms <- MCImms
    MaxSteps = 1
SPECIFICATION Spec
CHECK_DEADLOCK FALSE
INVARIANTS TypeOK DivisionIdentity ProductHalves WordOpsAreWords
PROPERTIES AmosExchange JumpsLink
