------------------------------- MODULE MCISA -------------------------------
(* Bytes of one bit, so words of four and registers of eight: zero, one,    *)
(* the largest and smallest signed word and register, their neighbours and  *)
(* some values in between, on two registers beside x0.                      *)
EXTENDS ISA

MCRegs == {0, 1, 2}
MCValues == {0, 1, 2, 7, 8, 100, 127, 128, 248, 255}
MCMemValues == {107, 200}
MCAddrs == {0, 1, 4, 8}
MCImms == {1, 127, 250}
=============================================================================
