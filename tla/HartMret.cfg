CONSTANTS
    AddrSpace = 8
    LowSpace = 4
    CodeAddrs = {0, 3, 6}
    FetchFaults <- MCFetchFaults
    ExecFaults <- MCExecFaults
    CsrBitValues <- MCCsrBitValues
    CsrCauses <- MCCsrCauses
    MaxCsrWrites = 2
SPECIFICATION Spec
INVARIANT MachineHandlerReturns
