----------------------------- MODULE UARTProofs -----------------------------
(***************************************************************************)
(* What holds of UART for every input and every guest: types, the flow     *)
(* control of the receive register and the transmitter's ready bit.        *)
(***************************************************************************)
EXTENDS UART, TLAPS

(* The steps of the port, and what it sees of an access of the guest to     *)
(* something else on the bus: only the result changes.                      *)
SharedNext == Next \/ \E e \in ReturnException : WrongSize(e)

(* The constructor leaves bytes in the registers. *)
LEMMA InitType == Init => TypeOK
<1> SUFFICES ASSUME Init PROVE TypeOK
  OBVIOUS
<1>1. {} \in Byte /\ {TX} \in Byte /\ Bits \in Byte
  BY DEF Byte, Bits, TX
<1>2. uart_mem \in [Regs -> Byte] /\ c \in Byte
  BY <1>1 DEF Init
<1>3. Len(Stdin) \in Nat
  BY UARTAssumption
<1>4. taken \in 0 .. Len(Stdin) /\ nstores \in 0 .. MaxLsrStores
  BY <1>3, UARTAssumption DEF Init
<1>5. rtmp \in Byte /\ gtmp \in Byte
  BY <1>1 DEF Init
<1> QED
  BY <1>2, <1>4, <1>5, Zenon DEF Init, TypeOK, ReturnException

(* No access of either thread puts anything but a byte in a register. *)
LEMMA StepType == TypeOK /\ [SharedNext]_vars => TypeOK'
<1> SUFFICES ASSUME TypeOK, [SharedNext]_vars PROVE TypeOK'
  OBVIOUS
<1> USE UARTAssumption DEF TypeOK, guest, reader
<1>1. CASE Get
  BY <1>1 DEF Get
<1>2. CASE Spin
  BY <1>2 DEF Spin
<1>3. CASE Put
  BY <1>3 DEF Put
<1>4. CASE LoadLsr
  BY <1>4 DEF LoadLsr, Regs
<1>5. CASE StoreLsr
  <2>1. Raised(rtmp) \in Byte
    BY DEF Raised, Byte, Bits, RX
  <2> QED
    BY <1>5, <2>1 DEF StoreLsr
<1>6. ASSUME NEW r \in Regs, Load8(r) PROVE TypeOK'
  BY <1>6 DEF Load8, ReturnException
<1>7. CASE Load8Rhr
  BY <1>7 DEF Load8Rhr, Regs
<1>8. CASE ClearRx
  <2>1. Lowered(gtmp) \in Byte
    BY DEF Lowered, Byte
  <2> QED
    BY <1>8, <2>1 DEF ClearRx
<1>9. CASE ReadRhr
  BY <1>9 DEF ReadRhr, ReturnException
<1>10. ASSUME NEW r \in Regs, NEW v \in StoreValues, Store8(r, v) PROVE TypeOK'
  <2>1. nstores' \in 0 .. MaxLsrStores
    BY <1>10 DEF Store8
  <2>2. uart_mem' \in [Regs -> Byte]
    BY <1>10 DEF Store8
  <2>3. acked' \in BOOLEAN /\ polite' \in BOOLEAN
    BY <1>10 DEF Store8
  <2> QED
    BY <1>10, <2>1, <2>2, <2>3 DEF Store8, ReturnException
<1>11. ASSUME NEW e \in ReturnException, WrongSize(e) PROVE TypeOK'
  BY <1>11 DEF WrongSize, ReturnException
<1>12. CASE UNCHANGED vars
  BY <1>12 DEF vars
<1> QED
  BY <1>1, <1>2, <1>3, <1>4, <1>5, <1>6, <1>7, <1>8, <1>9, <1>10, <1>11, <1>12
     DEF SharedNext, Next, Reader, Guest, ReturnException

(* Every step of either thread keeps the registers bytes and the two        *)
(* threads in their code.                                                   *)
THEOREM TypeCorrect == Spec => []TypeOK
<1>1. [Next]_vars => [SharedNext]_vars
  BY DEF SharedNext
<1> QED
  BY <1>1, InitType, StepType, PTL DEF Spec

-----------------------------------------------------------------------------
(* While the reader is not writing, RX is off only if the guest turned it   *)
(* off; once the reader has seen it off, the guest has acknowledged.        *)
FlowInv ==
    /\ rpc \in {"get", "spin"} /\ RX \notin uart_mem["LSR"] => acked
    /\ rpc = "put" => acked

(* RX is off at first and nothing is waiting in RHR. *)
LEMMA InitFlow == Init => FlowInv
BY DEF Init, FlowInv

(* Neither thread lowers RX behind the back of the other without the        *)
(* acknowledgement.                                                         *)
LEMMA StepFlow == TypeOK /\ FlowInv /\ [SharedNext]_vars => FlowInv'
<1> SUFFICES ASSUME TypeOK, FlowInv, [SharedNext]_vars PROVE FlowInv'
  OBVIOUS
<1> USE DEF FlowInv, TypeOK, guest, reader
<1>1. CASE Get
  BY <1>1 DEF Get
<1>2. CASE Spin
  BY <1>2 DEF Spin, SpinDone
<1>3. CASE Put
  BY <1>3 DEF Put
<1>4. CASE LoadLsr
  BY <1>4 DEF LoadLsr
<1>5. CASE StoreLsr
  <2>1. RX \in uart_mem'["LSR"]
    BY <1>5 DEF StoreLsr, Raised, Regs
  <2> QED
    BY <1>5, <2>1 DEF StoreLsr
<1>6. ASSUME NEW r \in Regs, Load8(r) PROVE FlowInv'
  BY <1>6 DEF Load8
<1>7. CASE Load8Rhr
  BY <1>7 DEF Load8Rhr
<1>8. CASE ClearRx
  BY <1>8 DEF ClearRx
<1>9. CASE ReadRhr
  BY <1>9 DEF ReadRhr
<1>10. ASSUME NEW r \in Regs, NEW v \in StoreValues, Store8(r, v) PROVE FlowInv'
  <2>1. CASE r = "LSR"
    BY <1>10, <2>1 DEF Store8, Regs
  <2>2. CASE r # "LSR"
    BY <1>10, <2>2 DEF Store8, Regs
  <2> QED
    BY <2>1, <2>2
<1>11. ASSUME NEW e \in ReturnException, WrongSize(e) PROVE FlowInv'
  BY <1>11 DEF WrongSize
<1>12. CASE UNCHANGED vars
  BY <1>12 DEF vars
<1> QED
  BY <1>1, <1>2, <1>3, <1>4, <1>5, <1>6, <1>7, <1>8, <1>9, <1>10, <1>11, <1>12
     DEF SharedNext, Next, Reader, Guest, ReturnException

(* The reader thread's busy-wait is a correct flow control on the guest's   *)
(* side of RHR: no interleaving overwrites a byte that was not acknowledged *)
(* by clearing RX.                                                          *)
THEOREM FlowControl == Spec => AckedBeforeOverwrite
<1>1. [Next]_vars => [SharedNext]_vars
  BY DEF SharedNext
<1>2. FlowInv => (rpc = "put" /\ rpc' = "load_lsr" => acked)
  BY DEF FlowInv
<1> QED
  BY <1>1, <1>2, InitFlow, StepFlow, TypeCorrect, PTL DEF Spec, AckedBeforeOverwrite

-----------------------------------------------------------------------------
(* The copies of LSR that the two read-modify-writes hold have TX too. *)
TxInv ==
    nstores = 0 => /\ TX \in uart_mem["LSR"]
                   /\ rpc = "store_lsr" => TX \in rtmp
                   /\ gpc = "clear" => TX \in gtmp

(* The constructor sets TX. *)
LEMMA InitTx == Init => TxInv
BY DEF Init, TxInv, Regs

(* Both read-modify-writes of LSR carry TX over. *)
LEMMA StepTx == TypeOK /\ TxInv /\ [SharedNext]_vars => TxInv'
<1> SUFFICES ASSUME TypeOK, TxInv, [SharedNext]_vars PROVE TxInv'
  OBVIOUS
<1> USE DEF TxInv, TypeOK, guest, reader
<1>1. CASE Get
  BY <1>1 DEF Get
<1>2. CASE Spin
  BY <1>2 DEF Spin
<1>3. CASE Put
  BY <1>3 DEF Put, Regs
<1>4. CASE LoadLsr
  BY <1>4 DEF LoadLsr
<1>5. CASE StoreLsr
  BY <1>5 DEF StoreLsr, Raised, Regs
<1>6. ASSUME NEW r \in Regs, Load8(r) PROVE TxInv'
  BY <1>6 DEF Load8
<1>7. CASE Load8Rhr
  BY <1>7 DEF Load8Rhr
<1>8. CASE ClearRx
  BY <1>8 DEF ClearRx, Lowered, Regs, RX, TX
<1>9. CASE ReadRhr
  BY <1>9 DEF ReadRhr
<1>10. ASSUME NEW r \in Regs, NEW v \in StoreValues, Store8(r, v) PROVE TxInv'
  <2>1. CASE r = "LSR"
    BY <1>10, <2>1 DEF Store8
  <2>2. CASE r # "LSR"
    BY <1>10, <2>2 DEF Store8, Regs
  <2> QED
    BY <2>1, <2>2
<1>11. ASSUME NEW e \in ReturnException, WrongSize(e) PROVE TxInv'
  BY <1>11 DEF WrongSize
<1>12. CASE UNCHANGED vars
  BY <1>12 DEF vars
<1> QED
  BY <1>1, <1>2, <1>3, <1>4, <1>5, <1>6, <1>7, <1>8, <1>9, <1>10, <1>11, <1>12
     DEF SharedNext, Next, Reader, Guest, ReturnException

(* A guest that leaves LSR alone is always told it may transmit: neither of *)
(* the two unlocked read-modify-writes of LSR can drop the bit.             *)
THEOREM TransmitterStaysReady == Spec => []TransmitterReady
<1>1. [Next]_vars => [SharedNext]_vars
  BY DEF SharedNext
<1>2. TxInv => TransmitterReady
  BY DEF TxInv, TransmitterReady
<1> QED
  BY <1>1, <1>2, InitTx, StepTx, TypeCorrect, PTL DEF Spec

=============================================================================
