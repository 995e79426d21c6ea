------------------------------- MODULE MCBus -------------------------------
(* A register of CLINT and two of PLIC, those of the port, the last address *)
(* of PLIC, whose neighbour is RHR, an address of CLINT with no register    *)
(* and one in RAM.                                                          *)
EXTENDS Bus

MCStdin == <<{0}, {1}>>
MCStoreValues == {{}, {0, 5}}
MCAddresses ==
    {CLINT_MTIME, PLIC_SENABLE, PLIC_SCLAIM, UART_RHR, UART_LCR, UART_LSR, CLINT_BASE,
     PLIC_BASE + PLIC_SIZE - 1, \h10000}
=============================================================================
