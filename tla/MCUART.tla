------------------------------- MODULE MCUART -------------------------------
(* Two different bytes on stdin, and a guest that stores to LSR a byte with *)
(* RX set and one without.                                                  *)
EXTENDS UART

MCStdin == <<{0}, {1}>>
MCStoreValues == {{}, {0, 5}}
=============================================================================
