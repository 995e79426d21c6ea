------------------------------ MODULE Mailbox ------------------------------
(***************************************************************************)
(* What the serial port promises the guest about standard input: a box for *)
(* one byte.  Bytes come into it in the order of the input, none is left   *)
(* out and none is replaced before the guest has given the box free.  When *)
(* the input is used up its last byte comes again, whenever the box is     *)
(* free: the port has no way to say that there is nothing more.  If there  *)
(* was no input at all, the byte that comes is any.                        *)
(***************************************************************************)
EXTENDS Naturals, Sequences

CONSTANT Stdin   \* the bytes of standard input

VARIABLES
    full,  \* the byte in the box has not been given free
    byte,  \* what is in the box
    sent   \* number of bytes of the input that have been in the box

vars == <<full, byte, sent>>

Init == full = FALSE /\ byte = {} /\ sent = 0

Deliver ==
    /\ ~full
    /\ full' = TRUE
    /\ \/ sent < Len(Stdin) /\ sent' = sent + 1 /\ byte' = Stdin[sent + 1]
       \/ /\ sent = Len(Stdin) /\ sent' = sent
          /\ byte' \in IF sent = 0 THEN SUBSET (0 .. 7) ELSE {Stdin[sent]}

Take == full /\ full' = FALSE /\ UNCHANGED <<byte, sent>>

Next == Deliver \/ Take

Safe == Init /\ [][Next]_vars

Spec == Safe /\ WF_vars(Deliver)
=============================================================================
