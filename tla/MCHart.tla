------------------------------- MODULE MCHart -------------------------------
(* A hart of eight addresses, four of them beyond 32 bits.  The values      *)
(* written to the bit CSRs make each of these happen: interrupts enabled,   *)
(* pending and delegated in every mode, delegated and undelegated           *)
(* exceptions, every MPP, a bit that ~1U masks off.                         *)
EXTENDS Hart

MCFetchFaults == {254}
MCExecFaults == {3, 7}
MCCsrBitValues == {{3, 11}, {0, 1, 9, 40}}
MCCsrCauses == {2}
=============================================================================
