----------------------------- MODULE BusProofs -----------------------------
(***************************************************************************)
(* What holds of the bus for every standard input, every set of addresses  *)
(* and every data: the guest reaches the right device with each access, so *)
(* the registers of CLINT, PLIC and the port read back; what UARTProofs    *)
(* shows of the port alone holds behind the bus; and the port, with both   *)
(* its threads, implements the safety of the mailbox.                      *)
(***************************************************************************)
EXTENDS Bus, UARTProofs

-----------------------------------------------------------------------------
(* Bus::load and Bus::store take the one device whose range holds the       *)
(* address.                                                                 *)
LEMMA TargetIsOnlyFit ==
    ASSUME NEW a, NEW i \in 1 .. 3,
           \A j \in 1 .. 3 : InRange(Devices[j], a) <=> j = i
    PROVE  Target(a) = Devices[i]
<1> DEFINE fits == {j \in 1 .. Len(Devices) : InRange(Devices[j], a)}
<1>1. Len(Devices) = 3
  BY DEF Devices
<1>2. fits = {i}
  BY <1>1
<1>3. (CHOOSE k \in fits : \A j \in fits : k <= j) = i
  BY <1>2
<1> QED
  BY <1>2, <1>3 DEF Target

(* The ranges of the three devices, in the order of the vector. *)
LEMMA Ranges ==
    ASSUME NEW a \in Nat
    PROVE  /\ InRange(Devices[1], a) <=> a >= CLINT_BASE /\ a < CLINT_BASE + CLINT_SIZE
           /\ InRange(Devices[2], a) <=> a >= PLIC_BASE /\ a < PLIC_BASE + PLIC_SIZE
           /\ InRange(Devices[3], a) <=> a >= UART_BASE /\ a < UART_BASE + UART_SIZE
BY DEF InRange, Devices, Base, Size

(* Every register lies in the range of its own device and of no other. *)
LEMMA RegisterTargets ==
    /\ \A a \in ClintRegs : Target(a) = "CLINT"
    /\ \A a \in PlicRegs : Target(a) = "PLIC"
    /\ \A a \in {UART_RHR, UART_LSR, UART_LCR} : Target(a) = "UART"
<1> USE DEF CLINT_BASE, CLINT_SIZE, PLIC_BASE, PLIC_SIZE, UART_BASE, UART_SIZE
<1>1. ASSUME NEW a \in ClintRegs PROVE Target(a) = "CLINT"
  <2>1. a \in Nat /\ a >= CLINT_BASE /\ a < CLINT_BASE + CLINT_SIZE
    BY DEF ClintRegs, CLINT_MTIME, CLINT_MTIMECMP
  <2>2. \A j \in 1 .. 3 : InRange(Devices[j], a) <=> j = 1
    BY <2>1, Ranges
  <2> QED
    BY <2>2, TargetIsOnlyFit DEF Devices
<1>2. ASSUME NEW a \in PlicRegs PROVE Target(a) = "PLIC"
  <2>1. a \in Nat /\ a >= PLIC_BASE /\ a < PLIC_BASE + PLIC_SIZE
    BY DEF PlicRegs, PLIC_PENDING, PLIC_SENABLE, PLIC_SPRIORITY, PLIC_SCLAIM
  <2>2. \A j \in 1 .. 3 : InRange(Devices[j], a) <=> j = 2
    BY <2>1, Ranges
  <2> QED
    BY <2>2, TargetIsOnlyFit DEF Devices
<1>3. ASSUME NEW a \in {UART_RHR, UART_LSR, UART_LCR} PROVE Target(a) = "UART"
  <2>1. a \in Nat /\ a >= UART_BASE /\ a < UART_BASE + UART_SIZE
    BY DEF UART_RHR, UART_LSR, UART_LCR
  <2>2. \A j \in 1 .. 3 : InRange(Devices[j], a) <=> j = 3
    BY <2>1, Ranges
  <2> QED
    BY <2>2, TargetIsOnlyFit DEF Devices
<1> QED
  BY <1>1, <1>2, <1>3

(* The port's registers by their addresses. *)
LEMMA PortRegisters ==
    /\ RegAt(UART_RHR) = "RHR" /\ RegAt(UART_LSR) = "LSR" /\ RegAt(UART_LCR) = "LCR"
    /\ \A a \in Addresses : Target(a) = "UART" =>
          RegAt(a) \in Regs /\ (RegAt(a) = "LCR" <=> a = UART_LCR)
                            /\ (RegAt(a) = "RHR" <=> a = UART_RHR)
<1>1. UART_RHR # UART_LSR /\ UART_RHR # UART_LCR /\ UART_LSR # UART_LCR
  BY DEF UART_RHR, UART_LSR, UART_LCR, UART_BASE
<1>2. RegAt(UART_RHR) = "RHR" /\ RegAt(UART_LSR) = "LSR" /\ RegAt(UART_LCR) = "LCR"
  BY <1>1 DEF RegAt
<1> QED
  BY <1>1, <1>2, BusAssumption DEF Regs

-----------------------------------------------------------------------------
(* Whatever happens on the bus, the port sees a step of its own or an       *)
(* access that goes elsewhere.                                              *)
LEMMA BusStepsOfPort == [BusNext]_busVars => [SharedNext]_vars
<1> SUFFICES ASSUME [BusNext]_busVars PROVE [SharedNext]_vars
  OBVIOUS
<1> USE DEF SharedNext
<1>1. ASSUME NEW e \in ReturnException, Answer(e) PROVE SharedNext
  BY <1>1 DEF Answer, WrongSize
<1>2. ASSUME NEW a \in Addresses, NEW sz \in Sizes, LoadCell(a, sz) PROVE SharedNext
  BY <1>1, <1>2 DEF LoadCell, LoadAnswer, ReturnException
<1>3. ASSUME NEW a \in Addresses, NEW sz \in Sizes, LoadPort(a, sz) PROVE SharedNext
  <2>1. CASE sz # 8
    BY <1>3, <2>1 DEF LoadPort, ReturnException
  <2>2. CASE sz = 8 /\ a = UART_RHR
    BY <1>3, <2>2 DEF LoadPort, Next, Guest
  <2>3. CASE sz = 8 /\ a # UART_RHR
    BY <1>3, <2>3, PortRegisters DEF LoadPort, Next, Guest
  <2> QED
    BY <2>1, <2>2, <2>3
<1>4. ASSUME NEW a \in Addresses, LoadRam(a) PROVE SharedNext
  BY <1>1, <1>4 DEF LoadRam, ReturnException
<1>5. ASSUME NEW a \in Addresses, StoreRam(a) PROVE SharedNext
  BY <1>1, <1>5 DEF StoreRam, ReturnException
<1>6. ASSUME NEW a \in Addresses, NEW sz \in Sizes, NEW d \in Data, StoreCell(a, d, sz)
      PROVE  SharedNext
  BY <1>1, <1>6 DEF StoreCell, StoreAnswer, ReturnException
<1>7. ASSUME NEW a \in Addresses, NEW sz \in Sizes, NEW b \in StoreValues, StorePort(a, b, sz)
      PROVE  SharedNext
  <2>1. CASE sz # 8
    BY <1>7, <2>1 DEF StorePort, ReturnException
  <2>2. CASE sz = 8
    BY <1>7, <2>2, PortRegisters DEF StorePort, Next, Guest
  <2> QED
    BY <2>1, <2>2
<1>8. CASE PollPort
  BY <1>8 DEF PollPort
<1>9. CASE PortStep
  BY <1>9 DEF PortStep, Next, Guest
<1>10. CASE UNCHANGED busVars
  BY <1>10 DEF busVars
<1> QED
  BY <1>2, <1>3, <1>4, <1>5, <1>6, <1>7, <1>8, <1>9, <1>10 DEF BusNext

(* Behind the bus too the registers of the port stay bytes. *)
THEOREM BusTypeCorrect == BusSpec => []TypeOK
<1>1. BusInit => Init
  BY DEF BusInit
<1> QED
  BY <1>1, InitType, StepType, BusStepsOfPort, PTL DEF BusSpec

(* Behind the bus too no byte in RHR is overwritten before it was           *)
(* acknowledged, whatever else the guest does on the bus.                   *)
THEOREM BusFlowControl == BusSpec => AckedBeforeOverwrite
<1>1. BusInit => Init
  BY DEF BusInit
<1>2. FlowInv => (rpc = "put" /\ rpc' = "load_lsr" => acked)
  BY DEF FlowInv
<1>3. UNCHANGED busVars => UNCHANGED vars
  BY DEF busVars
<1> QED
  BY <1>1, <1>2, <1>3, InitFlow, StepFlow, BusStepsOfPort, BusTypeCorrect, PTL
     DEF BusSpec, AckedBeforeOverwrite

(* Behind the bus too the transmitter stays ready. *)
THEOREM BusTransmitterReady == BusSpec => []TransmitterReady
<1>1. BusInit => Init
  BY DEF BusInit
<1>2. TxInv => TransmitterReady
  BY DEF TxInv, TransmitterReady
<1> QED
  BY <1>1, <1>2, InitTx, StepTx, BusStepsOfPort, BusTypeCorrect, PTL DEF BusSpec

-----------------------------------------------------------------------------
(* Register by register what RegistersReadBack says through Bus::load. *)
CellInv ==
    /\ DOMAIN last = ClintRegs \cup PlicRegs \cup {UART_LCR}
    /\ \A a \in ClintRegs : clint[a] = last[a]
    /\ \A a \in PlicRegs : plic[a] = last[a]
    /\ uart_mem["LCR"] = last[UART_LCR]

(* The registers of the three devices have different addresses, since they  *)
(* have different targets.                                                  *)
LEMMA RegistersDiffer ==
    /\ \A a \in ClintRegs, b \in PlicRegs : a # b
    /\ \A a \in ClintRegs \cup PlicRegs : a # UART_LCR
BY RegisterTargets

(* The constructors leave every register of CLINT and PLIC, and LCR, 0. *)
LEMMA InitCells == BusInit => CellInv
BY RegistersDiffer DEF BusInit, Init, CellInv, Regs

(* No access changes LCR but a store of a byte to it. *)
LEMMA LcrKept ==
    ASSUME TypeOK, Reader \/ (\E r \in Regs : Load8(r)) \/ Load8Rhr \/ ClearRx \/ ReadRhr
                   \/ (\E e \in ReturnException : WrongSize(e))
    PROVE  uart_mem'["LCR"] = uart_mem["LCR"]
<1> USE DEF TypeOK, Regs
<1>1. CASE Reader
  BY <1>1 DEF Reader, Get, Spin, Put, LoadLsr, StoreLsr
<1>2. CASE \E r \in Regs : Load8(r)
  BY <1>2 DEF Load8
<1>3. CASE Load8Rhr \/ ClearRx \/ ReadRhr
  BY <1>3 DEF Load8Rhr, ClearRx, ReadRhr
<1>4. CASE \E e \in ReturnException : WrongSize(e)
  BY <1>4 DEF WrongSize
<1> QED
  BY <1>1, <1>2, <1>3, <1>4

(* CLINT::store and PLIC::store: a store reaches the register it names, if  *)
(* its size is right, and no other.                                         *)
LEMMA StoreCellKeeps ==
    ASSUME CellInv, NEW a \in Addresses, NEW d \in Data, NEW sz \in Sizes, StoreCell(a, d, sz)
    PROVE  CellInv'
<1> USE DEF CellInv
<1>1. UNCHANGED uart_mem
  BY DEF StoreCell, Answer
<1>2. Target(a) # "UART"
  BY DEF StoreCell
<1>3. a # UART_LCR
  BY <1>2, RegisterTargets
<1>4. last' = [x \in DOMAIN last |-> IF x = a /\ sz = 64 THEN d ELSE last[x]]
  BY DEF StoreCell
<1>5. \A x \in ClintRegs : clint'[x] = last'[x]
  <2> SUFFICES ASSUME NEW x \in ClintRegs PROVE clint'[x] = last'[x]
    OBVIOUS
  <2>1. CASE Target(a) = "CLINT" /\ sz = 64
    BY <1>4, <2>1 DEF StoreCell, StoredClint, ClintStore64
  <2>2. CASE ~(Target(a) = "CLINT" /\ sz = 64)
    <3>1. ~(x = a /\ sz = 64)
      BY <2>2, RegisterTargets
    <3> QED
      BY <1>4, <2>2, <3>1 DEF StoreCell, StoredClint
  <2> QED
    BY <2>1, <2>2
<1>6. \A x \in PlicRegs : plic'[x] = last'[x]
  <2> SUFFICES ASSUME NEW x \in PlicRegs PROVE plic'[x] = last'[x]
    OBVIOUS
  <2>1. CASE Target(a) = "PLIC" /\ sz = 64
    BY <1>4, <2>1 DEF StoreCell, StoredPlic, PlicStore64
  <2>2. CASE ~(Target(a) = "PLIC" /\ sz = 64)
    <3>1. ~(x = a /\ sz = 64)
      BY <2>2, RegisterTargets
    <3> QED
      BY <1>4, <2>2, <3>1 DEF StoreCell, StoredPlic
  <2> QED
    BY <2>1, <2>2
<1>7. uart_mem'["LCR"] = last'[UART_LCR]
  BY <1>1, <1>3, <1>4
<1> QED
  BY <1>4, <1>5, <1>6, <1>7

(* UART::store: a byte store to LCR is what LCR reads back; a store of      *)
(* another size is refused.                                                 *)
LEMMA StorePortKeeps ==
    ASSUME TypeOK, CellInv, NEW a \in Addresses, NEW b \in StoreValues, NEW sz \in Sizes,
           StorePort(a, b, sz)
    PROVE  CellInv'
<1> USE DEF CellInv
<1>1. Target(a) = "UART" /\ UNCHANGED <<clint, plic>>
  BY DEF StorePort
<1>2. last' = [x \in DOMAIN last |-> IF x = a /\ sz = 8 THEN b ELSE last[x]]
  BY DEF StorePort
<1>3. \A x \in ClintRegs \cup PlicRegs : last'[x] = last[x]
  BY <1>1, <1>2, RegisterTargets
<1>4. uart_mem'["LCR"] = last'[UART_LCR]
  <2>1. CASE sz # 8
    <3>1. UNCHANGED uart_mem
      BY <2>1 DEF StorePort, WrongSize
    <3> QED
      BY <2>1, <3>1, <1>2
  <2>2. CASE sz = 8 /\ a = UART_LCR
    <3>1. uart_mem' = [uart_mem EXCEPT !["LCR"] = b]
      BY <2>2, <1>1, PortRegisters DEF StorePort, Store8
    <3> QED
      BY <2>2, <3>1, <1>2 DEF TypeOK, Regs
  <2>3. CASE sz = 8 /\ a # UART_LCR
    <3>1. RegAt(a) # "LCR"
      BY <2>3, <1>1, PortRegisters
    <3>2. uart_mem'["LCR"] = uart_mem["LCR"]
      BY <2>3, <3>1 DEF StorePort, Store8, TypeOK, Regs
    <3> QED
      BY <2>3, <3>2, <1>2
  <2> QED
    BY <2>1, <2>2, <2>3
<1> QED
  BY <1>1, <1>2, <1>3, <1>4

(* Nothing else that happens on the bus touches these registers: not the    *)
(* reader thread, not a load, not an access to RAM, and not the claim that  *)
(* the interrupt poll stores with a size the PLIC refuses.                  *)
LEMMA StepCells == TypeOK /\ CellInv /\ [BusNext]_busVars => CellInv'
<1> SUFFICES ASSUME TypeOK, CellInv, [BusNext]_busVars PROVE CellInv'
  OBVIOUS
<1>1. ASSUME UNCHANGED <<clint, plic, last>>, uart_mem'["LCR"] = uart_mem["LCR"] PROVE CellInv'
  BY <1>1 DEF CellInv
<1>2. ASSUME NEW e, Answer(e) PROVE uart_mem'["LCR"] = uart_mem["LCR"]
  BY <1>2 DEF Answer
<1>3. ASSUME NEW a \in Addresses, NEW sz \in Sizes, LoadCell(a, sz) PROVE CellInv'
  BY <1>1, <1>2, <1>3 DEF LoadCell, cells
<1>4. ASSUME NEW a \in Addresses, NEW sz \in Sizes, LoadPort(a, sz) PROVE CellInv'
  <2>1. uart_mem'["LCR"] = uart_mem["LCR"]
    BY <1>4, PortRegisters, LcrKept DEF LoadPort, ReturnException
  <2> QED
    BY <1>1, <1>4, <2>1 DEF LoadPort, cells
<1>5. ASSUME NEW a \in Addresses, LoadRam(a) \/ StoreRam(a) PROVE CellInv'
  BY <1>1, <1>2, <1>5 DEF LoadRam, StoreRam, cells
<1>6. CASE PollPort
  <2>1. plic' = plic
    BY <1>6 DEF PollPort, StoredPlic, UART_IRQ
  <2> QED
    BY <1>1, <1>6, <2>1 DEF PollPort, vars
<1>7. CASE PortStep
  <2>1. uart_mem'["LCR"] = uart_mem["LCR"]
    BY <1>7, LcrKept DEF PortStep
  <2> QED
    BY <1>1, <1>7, <2>1 DEF PortStep, cells
<1>8. CASE UNCHANGED busVars
  BY <1>1, <1>8 DEF busVars, vars, cells
<1> QED
  BY <1>3, <1>4, <1>5, <1>6, <1>7, <1>8, StoreCellKeeps, StorePortKeeps DEF BusNext

(* Every register of CLINT and PLIC, and LCR, reads back what the guest     *)
(* stored in it last with the size its device accepts, whatever addresses   *)
(* and data it uses and whatever the reader thread and the poll do.         *)
THEOREM RegistersKept == BusSpec => []RegistersReadBack
<1>1. CellInv => RegistersReadBack
  <2> SUFFICES ASSUME CellInv, NEW a \in DOMAIN last PROVE Value(a) = last[a]
    BY DEF RegistersReadBack
  <2>1. CASE a \in ClintRegs
    BY <2>1, RegisterTargets DEF CellInv, Value, ClintLoad64
  <2>2. CASE a \in PlicRegs
    BY <2>2, RegisterTargets DEF CellInv, Value, PlicLoad64
  <2>3. CASE a = UART_LCR
    BY <2>3, RegisterTargets, PortRegisters DEF CellInv, Value
  <2> QED
    BY <2>1, <2>2, <2>3 DEF CellInv
<1> QED
  BY <1>1, InitCells, StepCells, BusTypeCorrect, PTL DEF BusSpec

-----------------------------------------------------------------------------
(* Where the reader is in stdin: between `cin >> c' and the store to RHR it *)
(* holds the next byte, or the last one again once stdin has ended.         *)
MailInv ==
    /\ delivered \in Nat
    /\ taken > 0 => c = Stdin[taken]
    /\ rpc \in {"get", "load_lsr", "store_lsr"} => delivered = taken
    /\ rpc \in {"spin", "put"} => \/ taken = delivered + 1
                                  \/ delivered = taken /\ taken = Len(Stdin)

(* Nothing has been read at first. *)
LEMMA InitMail == BusInit => MailInv
BY DEF BusInit, Init, MailInv

(* A guest's access, to whatever device, leaves the reader where it is and  *)
(* RHR as it is, and can only give the box free.                            *)
LEMMA GuestGivesFree ==
    ASSUME TypeOK, [BusNext]_busVars, ~PortStep
    PROVE  /\ UNCHANGED <<reader, delivered>>
           /\ uart_mem'["RHR"] = uart_mem["RHR"]
           /\ acked => acked'
<1> DEFINE Kept == /\ UNCHANGED <<reader, delivered>>
                   /\ uart_mem'["RHR"] = uart_mem["RHR"]
                   /\ acked => acked'
<1>1. ASSUME NEW e, Answer(e) \/ WrongSize(e)
      PROVE  UNCHANGED <<reader, uart_mem, acked>>
  BY <1>1 DEF Answer, WrongSize
<1>2. ASSUME NEW a \in Addresses, NEW sz \in Sizes, LoadCell(a, sz)
      PROVE  Kept
  BY <1>1, <1>2 DEF LoadCell
<1>3. ASSUME NEW a \in Addresses, NEW sz \in Sizes, LoadPort(a, sz)
      PROVE  Kept
  BY <1>1, <1>3 DEF LoadPort, Load8, Load8Rhr
<1>4. ASSUME NEW a \in Addresses, LoadRam(a) \/ StoreRam(a)
      PROVE  Kept
  BY <1>1, <1>4 DEF LoadRam, StoreRam
<1>5. ASSUME NEW a \in Addresses, NEW sz \in Sizes, NEW d \in Data, StoreCell(a, d, sz)
      PROVE  Kept
  BY <1>1, <1>5 DEF StoreCell
<1>6. ASSUME NEW a \in Addresses, NEW sz \in Sizes, NEW b \in StoreValues, StorePort(a, b, sz)
      PROVE  Kept
  <2>1. CASE sz # 8
    BY <1>1, <1>6, <2>1 DEF StorePort
  <2>2. CASE sz = 8
    <3>1. Store8(RegAt(a), b) /\ UNCHANGED delivered
      BY <1>6, <2>2 DEF StorePort
    <3> QED
      BY <3>1 DEF Store8, TypeOK, Regs
  <2> QED
    BY <2>1, <2>2
<1>7. ASSUME PollPort PROVE Kept
  BY <1>7 DEF PollPort, vars, reader
<1>8. ASSUME UNCHANGED busVars PROVE Kept
  BY <1>8 DEF busVars, vars, reader
<1> HIDE DEF Kept
<1>9. Kept
  BY <1>2, <1>3, <1>4, <1>5, <1>6, <1>7, <1>8 DEF BusNext
<1> QED
  BY <1>9 DEF Kept

(* The reader thread delivers what it took, in order. *)
LEMMA StepMail == TypeOK /\ MailInv /\ [BusNext]_busVars => MailInv'
<1> SUFFICES ASSUME TypeOK, MailInv, [BusNext]_busVars PROVE MailInv'
  OBVIOUS
<1> USE UARTAssumption
<1>1. CASE ~PortStep
  BY <1>1, GuestGivesFree DEF MailInv, reader
<1>2. CASE PortStep
  <2> USE DEF PortStep, MailInv, TypeOK
  <2>1. CASE Get
    BY <1>2, <2>1 DEF Get
  <2>2. CASE Spin
    BY <1>2, <2>2 DEF Spin, SpinDone
  <2>3. CASE Put
    BY <1>2, <2>3 DEF Put
  <2>4. CASE LoadLsr \/ StoreLsr
    BY <1>2, <2>4 DEF LoadLsr, StoreLsr
  <2>5. CASE ClearRx \/ ReadRhr
    BY <1>2, <2>5 DEF ClearRx, ReadRhr, reader
  <2> QED
    BY <1>2, <2>1, <2>2, <2>3, <2>4, <2>5 DEF Reader
<1> QED
  BY <1>1, <1>2

(* One step of the bus is a delivery, the taking of a byte, or nothing to   *)
(* the mailbox.                                                             *)
LEMMA MailboxStep ==
    ASSUME TypeOK, FlowInv, MailInv, [BusNext]_busVars
    PROVE  [Port!Next]_(Port!vars)
<1> USE DEF Port!vars, Port!Next
<1>1. ASSUME UNCHANGED delivered, uart_mem'["RHR"] = uart_mem["RHR"], acked => acked',
             acked' \in BOOLEAN
      PROVE  [Port!Next]_(Port!vars)
  <2>1. CASE acked
    <3>1. UNCHANGED acked
      BY <1>1, <2>1 DEF TypeOK
    <3> QED
      BY <1>1, <3>1
  <2>2. CASE ~acked /\ ~acked'
    <3>1. UNCHANGED acked
      BY <1>1, <2>2 DEF TypeOK
    <3> QED
      BY <1>1, <3>1
  <2>3. CASE ~acked /\ acked'
    BY <1>1, <2>3 DEF Port!Take
  <2> QED
    BY <2>1, <2>2, <2>3
<1>2. acked' \in BOOLEAN
  BY StepType, BusStepsOfPort DEF TypeOK
<1>3. CASE ~PortStep
  BY <1>1, <1>2, <1>3, GuestGivesFree
<1>4. CASE PortStep /\ Put
  <2>1. acked /\ ~acked' /\ acked' = FALSE
    BY <1>4 DEF Put, FlowInv, TypeOK
  <2>2. uart_mem'["RHR"] = c
    BY <1>4 DEF Put, TypeOK, Regs
  <2>3. delivered' = taken
    BY <1>4 DEF Put, PortStep
  <2>4. CASE taken = delivered + 1
    <3>1. delivered < Len(Stdin) /\ c = Stdin[delivered + 1]
      BY <2>4, UARTAssumption DEF MailInv, TypeOK
    <3> QED
      BY <2>1, <2>2, <2>3, <2>4, <3>1 DEF Port!Deliver
  <2>5. CASE delivered = taken /\ taken = Len(Stdin)
    <3>1. c \in IF delivered = 0 THEN SUBSET (0 .. 7) ELSE {Stdin[delivered]}
      BY <2>5, UARTAssumption DEF MailInv, TypeOK, Byte, Bits
    <3> QED
      BY <2>1, <2>2, <2>3, <2>5, <3>1 DEF Port!Deliver
  <2> QED
    BY <1>4, <2>4, <2>5 DEF MailInv, Put
<1>5. CASE PortStep /\ ~Put
  <2>1. delivered' = delivered
    BY <1>5 DEF PortStep, Reader, Get, Spin, LoadLsr, StoreLsr, ClearRx, ReadRhr, reader
  <2>2. uart_mem'["RHR"] = uart_mem["RHR"]
    BY <1>5 DEF PortStep, Reader, Get, Spin, LoadLsr, StoreLsr, ClearRx, ReadRhr, TypeOK, Regs
  <2>3. acked => acked'
    BY <1>5 DEF PortStep, Reader, Get, Spin, LoadLsr, StoreLsr, ClearRx, ReadRhr
  <2> QED
    BY <1>1, <1>2, <2>1, <2>2, <2>3
<1> QED
  BY <1>3, <1>4, <1>5

(* The port behind the bus, with its two threads and their unlocked         *)
(* accesses, implements the safety of the mailbox: the bytes of stdin in    *)
(* order, none left out, none replaced before the guest has cleared RX.     *)
THEOREM MailboxImplemented == BusSpec => Port!Safe
<1>1. BusInit => Init /\ Port!Init
  BY DEF BusInit, Init, Port!Init, Regs
<1>2. TypeOK /\ FlowInv /\ MailInv /\ [BusNext]_busVars => [Port!Next]_(Port!vars)
  BY MailboxStep
<1> QED
  BY <1>1, <1>2, InitFlow, StepFlow, InitMail, StepMail, BusStepsOfPort, BusTypeCorrect, PTL
     DEF BusSpec, Port!Safe
=============================================================================
