----------------------------- MODULE HartProofs -----------------------------
(***************************************************************************)
(* Theorems about Hart, for every address space, set of exceptions and     *)
(* value that CSR instructions write.                                      *)
(***************************************************************************)
EXTENDS Hart, TLAPS

(* `pc -= 4' in trap() and `pc += 4' in run() cancel, wrapping included.    *)
LEMMA IncDec ==
    ASSUME NEW w \in Addrs
    PROVE  Inc(w) \in Addrs /\ Dec(w) \in Addrs /\ Inc(Dec(w)) = w
BY HartAssumption DEF Addrs, Inc, Dec

LEMMA LowType ==
    ASSUME NEW w \in Addrs
    PROVE  Low(w) \in Addrs /\ (w < LowSpace => Low(w) = w - (w % 2))
<1> DEFINE l == w % LowSpace
<1>1. LowSpace \in Nat /\ LowSpace > 0 /\ AddrSpace \in Nat /\ LowSpace <= AddrSpace /\ w \in Nat
  BY HartAssumption DEF Addrs
<1>2. l \in 0 .. LowSpace - 1 /\ (w < LowSpace => l = w)
  BY <1>1
<1>3. Low(w) = l - (l % 2)
  BY DEF Low
<1> HIDE DEF l
<1>4. l - (l % 2) \in 0 .. l
  BY <1>2
<1>5. Low(w) \in Addrs
  BY <1>1, <1>2, <1>3, <1>4 DEF Addrs
<1>6. ASSUME w < LowSpace PROVE Low(w) = w - (w % 2)
  <2>1. l = w
    BY <1>2, <1>6
  <2> QED
    BY <1>3, <2>1
<1> QED
  BY <1>5, <1>6

(* The vectors of an interrupt are addresses. *)
LEMMA VectorType ==
    ASSUME TypeOK, NEW tvec \in AddrCsrs, NEW i \in Nat
    PROVE  VectorOf(tvec, i) \in Addrs
<1> DEFINE n == IF word[tvec] % 2 = 1 THEN 4 * i ELSE 0
<1>1. Low(word[tvec]) \in Nat /\ n \in Nat
  BY LowType DEF TypeOK, Addrs
<1>2. VectorOf(tvec, i) = (Low(word[tvec]) + n) % AddrSpace
  BY DEF VectorOf
<1> HIDE DEF n
<1>3. Low(word[tvec]) + n \in Nat
  BY <1>1
<1> QED
  BY <1>2, <1>3, HartAssumption DEF Addrs

(* check_pending_interrupt returns one of the pending interrupts. *)
LEMMA NextInterruptType ==
    ASSUME Pending # {}
    PROVE  NextInterrupt \in Pending /\ NextInterrupt \in Interrupts
<1>1. Pending \subseteq Interrupts
  BY DEF Pending
<1>2. Interrupts = {1, 3, 5, 7, 9, 11}
  BY DEF Interrupts
<1>3. Rank[11] = 1 /\ Rank[3] = 2 /\ Rank[7] = 3 /\ Rank[9] = 4 /\ Rank[1] = 5 /\ Rank[5] = 6
  BY DEF Rank, Interrupts
<1>4. \E i \in Pending : \A j \in Pending : Rank[i] <= Rank[j]
  <2>1. CASE 11 \in Pending
    <3>1. \A j \in Pending : Rank[11] <= Rank[j]
      BY <1>1, <1>2, <1>3, <2>1
    <3> QED
      BY <2>1, <3>1
  <2>2. CASE 3 \in Pending /\ Pending \cap {11} = {}
    <3>1. \A j \in Pending : Rank[3] <= Rank[j]
      BY <1>1, <1>2, <1>3, <2>2
    <3> QED
      BY <2>2, <3>1
  <2>3. CASE 7 \in Pending /\ Pending \cap {11, 3} = {}
    <3>1. \A j \in Pending : Rank[7] <= Rank[j]
      BY <1>1, <1>2, <1>3, <2>3
    <3> QED
      BY <2>3, <3>1
  <2>4. CASE 9 \in Pending /\ Pending \cap {11, 3, 7} = {}
    <3>1. \A j \in Pending : Rank[9] <= Rank[j]
      BY <1>1, <1>2, <1>3, <2>4
    <3> QED
      BY <2>4, <3>1
  <2>5. CASE 1 \in Pending /\ Pending \cap {11, 3, 7, 9} = {}
    <3>1. \A j \in Pending : Rank[1] <= Rank[j]
      BY <1>1, <1>2, <1>3, <2>5
    <3> QED
      BY <2>5, <3>1
  <2>6. CASE 5 \in Pending /\ Pending \cap {11, 3, 7, 9, 1} = {}
    <3>1. \A j \in Pending : Rank[5] <= Rank[j]
      BY <1>1, <1>2, <1>3, <2>6
    <3> QED
      BY <2>6, <3>1
  <2> QED
    BY <1>1, <1>2, <2>1, <2>2, <2>3, <2>4, <2>5, <2>6
<1> QED
  BY <1>1, <1>4 DEF NextInterrupt

-----------------------------------------------------------------------------
(* The invariant: types, and the two frames.  The Machine frame alone is    *)
(* inductive; the Supervisor frame needs that a delegated trap never comes  *)
(* from Machine mode, which GoesToS provides.                               *)
Inv == TypeOK /\ MachineFrameIntact /\ SupervisorFrameIntact /\ ExceptionEntersHandler

LEMMA InitInv == Init => Inv
<1> SUFFICES ASSUME Init PROVE Inv
  OBVIOUS
<1>1. 0 \in Addrs /\ 0 \in Causes /\ User \in Modes /\ 0 \in 0 .. MaxCsrWrites
  BY HartAssumption DEF Addrs, Causes, InterruptBit, User, Modes
<1>2. TypeOK
  <2>1. pc \in Addrs /\ NoFrame \in Frames /\ NoEntry \in [by : {"none"}, at : Addrs]
    BY <1>1, HartAssumption DEF Init, Addrs, NoFrame, Frames, NoEntry
  <2> QED
    BY <1>1, <2>1 DEF Init, TypeOK
<1> QED
  BY <1>2 DEF Init, Inv, MachineFrameIntact, SupervisorFrameIntact, ExceptionEntersHandler,
     NoFrame, NoEntry

(* Bit sets written by a trap or a return are bit sets again. *)
LEMMA StatusType ==
    ASSUME NEW b \in SUBSET (0 .. 63), NEW m \in Modes
    PROVE  /\ TrapMstatus(b, m) \in SUBSET (0 .. 63)
           /\ TrapSstatus(b, m) \in SUBSET (0 .. 63)
           /\ MretMstatus(b) \in SUBSET (0 .. 63)
           /\ SretSstatus(b) \in SUBSET (0 .. 63)
<1>1. {MIE, MPIE, SIE, SPIE, SPP} \cup MPP \subseteq 0 .. 63
  BY DEF MIE, MPIE, SIE, SPIE, SPP, MPP
<1>2. PrevBits(m) \subseteq 0 .. 63
  BY DEF PrevBits, MPP
<1> QED
  BY <1>1, <1>2 DEF TrapMstatus, TrapSstatus, MretMstatus, SretSstatus

(* MSTATUS after a trap: interrupts masked, MPP and MPIE as they were.      *)
LEMMA TrapMstatusIs ==
    ASSUME NEW b \in SUBSET (0 .. 63), NEW m \in Modes
    PROVE  /\ MIE \notin TrapMstatus(b, m)
           /\ MppOf(TrapMstatus(b, m)) = m
           /\ (MPIE \in TrapMstatus(b, m)) = (MIE \in b)
<1>1. MIE = 3 /\ MPIE = 7 /\ MPP = {11, 12}
  BY DEF MIE, MPIE, MPP
<1>2. PrevBits(m) \subseteq {11, 12}
  BY <1>1 DEF PrevBits
<1>3. MIE \notin TrapMstatus(b, m) /\ (MPIE \in TrapMstatus(b, m) <=> MIE \in b)
  BY <1>1, <1>2 DEF TrapMstatus, LowBits
<1>4. /\ (11 \in TrapMstatus(b, m) <=> 11 \in PrevBits(m))
      /\ (12 \in TrapMstatus(b, m) <=> 12 \in PrevBits(m))
  BY <1>1 DEF TrapMstatus
<1>5. MppOf(TrapMstatus(b, m)) = m
  BY <1>1, <1>4 DEF MppOf, PrevBits, Modes, User, Supervisor, Machine
<1> QED
  BY <1>3, <1>5

LEMMA TrapSstatusIs ==
    ASSUME NEW b \in SUBSET (0 .. 63), NEW m \in {User, Supervisor}
    PROVE  /\ SIE \notin TrapSstatus(b, m)
           /\ (SPP \in TrapSstatus(b, m)) = (m = Supervisor)
           /\ (SPIE \in TrapSstatus(b, m)) = (SIE \in b)
BY DEF TrapSstatus, SIE, SPP, SPIE, User, Supervisor

-----------------------------------------------------------------------------
(* What EnterS and EnterM leave: well-typed registers and intact frames.    *)
Entered ==
    /\ mode' \in Modes
    /\ bits' \in [BitCsrs -> SUBSET (0 .. 63)]
    /\ word' \in [AddrCsrs -> Addrs]
    /\ cause' \in [CauseCsrs -> Causes]
    /\ mframe' \in Frames /\ sframe' \in Frames
    /\ MachineFrameIntact' /\ SupervisorFrameIntact'

LEMMA FrameType ==
    ASSUME NEW m \in Modes, NEW p \in Addrs, NEW b, NEW k, NEW c \in Causes
    PROVE  [on |-> TRUE, mode |-> m, pc |-> p, ie |-> k \in b, cause |-> c] \in Frames
<1>1. (k \in b) \in BOOLEAN
  OBVIOUS
<1>2. ASSUME NEW v \in BOOLEAN
      PROVE  [on |-> TRUE, mode |-> m, pc |-> p, ie |-> v, cause |-> c] \in Frames
  BY DEF Frames
<1> QED
  BY <1>1, <1>2

LEMMA EnterSFrames ==
    ASSUME Inv, NEW b \in [BitCsrs -> SUBSET (0 .. 63)], NEW c \in Causes,
           b["MSTATUS"] = bits["MSTATUS"], b["SSTATUS"] = bits["SSTATUS"],
           mode \in {User, Supervisor}, EnterS(b, pc, c)
    PROVE  Entered
<1> USE DEF BitCsrs, AddrCsrs, CauseCsrs
<1>1. mode \in Modes /\ mode # Machine /\ Supervisor \in Modes /\ pc \in Addrs
  BY DEF Inv, TypeOK, Modes, User, Supervisor, Machine
<1>2. b["SSTATUS"] \in SUBSET (0 .. 63)
  OBVIOUS
<1>3. bits' = [b EXCEPT !["SSTATUS"] = TrapSstatus(b["SSTATUS"], mode)]
  BY DEF EnterS
<1>4. TrapSstatus(b["SSTATUS"], mode) \in SUBSET (0 .. 63)
  BY <1>1, <1>2, StatusType
<1>5. /\ bits' \in [BitCsrs -> SUBSET (0 .. 63)]
      /\ bits'["SSTATUS"] = TrapSstatus(b["SSTATUS"], mode)
      /\ bits'["MSTATUS"] = bits["MSTATUS"]
  BY <1>3, <1>4
<1>6. word' \in [AddrCsrs -> Addrs] /\ word'["SEPC"] = Low(pc) /\ word'["MEPC"] = word["MEPC"]
  BY <1>1, LowType DEF Inv, TypeOK, EnterS
<1>7. cause' \in [CauseCsrs -> Causes] /\ cause'["SCAUSE"] = c
  BY DEF Inv, TypeOK, EnterS
<1>8. sframe' = [on |-> TRUE, mode |-> mode, pc |-> pc, ie |-> SIE \in b["SSTATUS"], cause |-> c]
  BY DEF EnterS, Frame
<1>9. sframe' \in Frames /\ mframe' \in Frames /\ ~mframe'.on
  <2>1. sframe' \in Frames
    BY <1>1, <1>8, FrameType
  <2>2. mframe' \in Frames /\ mframe' = mframe /\ ~mframe.on
    BY <1>1 DEF Inv, TypeOK, EnterS, MachineFrameIntact
  <2> QED
    BY <2>1, <2>2
<1>10. SupervisorFrameIntact'
  BY <1>2, <1>5, <1>6, <1>7, <1>8, TrapSstatusIs DEF SupervisorFrameIntact
<1>11. MachineFrameIntact'
  BY <1>9 DEF MachineFrameIntact
<1> QED
  BY <1>1, <1>5, <1>6, <1>7, <1>9, <1>10, <1>11 DEF Entered, EnterS

LEMMA EnterMFrames ==
    ASSUME Inv, NEW b \in [BitCsrs -> SUBSET (0 .. 63)], NEW c \in Causes,
           b["MSTATUS"] = bits["MSTATUS"], b["SSTATUS"] = bits["SSTATUS"],
           EnterM(b, pc, c)
    PROVE  Entered
<1> USE DEF BitCsrs, AddrCsrs, CauseCsrs
<1>1. mode \in Modes /\ Machine \in Modes /\ pc \in Addrs
  BY DEF Inv, TypeOK, Modes
<1>2. b["MSTATUS"] \in SUBSET (0 .. 63)
  OBVIOUS
<1>3. bits' = [b EXCEPT !["MSTATUS"] = TrapMstatus(b["MSTATUS"], mode)]
  BY DEF EnterM
<1>4. TrapMstatus(b["MSTATUS"], mode) \in SUBSET (0 .. 63)
  BY <1>1, <1>2, StatusType
<1>5. /\ bits' \in [BitCsrs -> SUBSET (0 .. 63)]
      /\ bits'["MSTATUS"] = TrapMstatus(b["MSTATUS"], mode)
      /\ bits'["SSTATUS"] = bits["SSTATUS"]
  BY <1>3, <1>4
<1>6. word' \in [AddrCsrs -> Addrs] /\ word'["MEPC"] = Low(pc) /\ word'["SEPC"] = word["SEPC"]
  BY <1>1, LowType DEF Inv, TypeOK, EnterM
<1>7. /\ cause' \in [CauseCsrs -> Causes] /\ cause'["MCAUSE"] = c
      /\ cause'["SCAUSE"] = cause["SCAUSE"]
  BY DEF Inv, TypeOK, EnterM
<1>8. mframe' = [on |-> TRUE, mode |-> mode, pc |-> pc, ie |-> MIE \in b["MSTATUS"], cause |-> c]
  BY DEF EnterM, Frame
<1>9. sframe' \in Frames /\ mframe' \in Frames /\ sframe' = sframe /\ mode' = Machine
  <2>1. mframe' \in Frames
    BY <1>1, <1>8, FrameType
  <2> QED
    BY <2>1 DEF Inv, TypeOK, EnterM
<1>10. MachineFrameIntact'
  BY <1>1, <1>2, <1>5, <1>6, <1>7, <1>8, <1>9, TrapMstatusIs DEF MachineFrameIntact
<1>11. SupervisorFrameIntact'
  BY <1>5, <1>6, <1>7, <1>9 DEF Inv, SupervisorFrameIntact
<1> QED
  BY <1>1, <1>5, <1>6, <1>7, <1>9, <1>10, <1>11 DEF Entered

(* trap(), from the fetch or from an instruction. *)
LEMMA TrapFrames ==
    ASSUME Inv, NEW e \in 0 .. 255, NEW d, Trap(e, d)
    PROVE  Entered /\ TrapTarget(d) \in Addrs
<1>1. e \in Causes /\ bits \in [BitCsrs -> SUBSET (0 .. 63)]
  BY DEF Causes, InterruptBit, Inv, TypeOK
<1>2. ASSUME GoesToS(d) PROVE Entered
  BY <1>1, <1>2, EnterSFrames DEF Trap, GoesToS
<1>3. ASSUME ~GoesToS(d) PROVE Entered
  BY <1>1, <1>3, EnterMFrames DEF Trap
<1>4. TrapTarget(d) \in Addrs
  BY LowType DEF TrapTarget, Inv, TypeOK, AddrCsrs
<1> QED
  BY <1>2, <1>3, <1>4

(* take_interrupt(), after the pending bit has been cleared. *)
LEMMA TakeInterruptFrames ==
    ASSUME Inv, NEW i \in Interrupts, NEW d, NEW m \in SUBSET (0 .. 63),
           TakeInterrupt(i, d, [bits EXCEPT !["MIP"] = m])
    PROVE  Entered /\ pc' \in Addrs /\ entry' \in [by : {"interrupt"}, at : Addrs]
<1> DEFINE b == [bits EXCEPT !["MIP"] = m]
<1>1. /\ b \in [BitCsrs -> SUBSET (0 .. 63)]
      /\ b["MSTATUS"] = bits["MSTATUS"] /\ b["SSTATUS"] = bits["SSTATUS"]
  BY DEF Inv, TypeOK, BitCsrs
<1>2. InterruptBit + i \in Causes /\ i \in Nat
  BY DEF Causes, InterruptBit, Interrupts
<1>3. ASSUME GoesToS(d) PROVE Entered
  BY <1>1, <1>2, <1>3, EnterSFrames DEF TakeInterrupt, GoesToS
<1>4. ASSUME ~GoesToS(d) PROVE Entered
  BY <1>1, <1>2, <1>4, EnterMFrames DEF TakeInterrupt
<1>5. InterruptTarget(i, d) \in Addrs
  BY <1>2, VectorType DEF InterruptTarget, Inv, AddrCsrs
<1>6. pc' \in Addrs /\ entry' \in [by : {"interrupt"}, at : Addrs]
  BY <1>5, IncDec DEF TakeInterrupt
<1> QED
  BY <1>3, <1>4, <1>6

-----------------------------------------------------------------------------
(* Each action preserves the invariant. *)

LEMMA PollInv == Inv /\ Poll => Inv'
<1> SUFFICES ASSUME Inv, Poll PROVE Inv'
  OBVIOUS
<1>1. CASE Masked /\ UNCHANGED <<mode, pc, bits, word, cause, uart_irq, mframe, sframe, entry>>
  BY <1>1 DEF Inv, TypeOK, MachineFrameIntact, SupervisorFrameIntact, ExceptionEntersHandler, Poll
<1>2. ASSUME ~Masked PROVE ~mframe.on
  BY <1>2 DEF Masked, Inv, MachineFrameIntact
<1>3. PolledMip \in SUBSET (0 .. 63)
  BY DEF PolledMip, Inv, TypeOK, BitCsrs, SupervisorExternalInterrupt
<1>4. CASE /\ ~Masked /\ Pending = {}
           /\ bits' = [bits EXCEPT !["MIP"] = PolledMip]
           /\ uart_irq' = FALSE
           /\ UNCHANGED <<mode, pc, word, cause, mframe, sframe, entry>>
  <2>1. /\ bits' \in [BitCsrs -> SUBSET (0 .. 63)]
        /\ bits'["MSTATUS"] = bits["MSTATUS"] /\ bits'["SSTATUS"] = bits["SSTATUS"]
    BY <1>3, <1>4 DEF Inv, TypeOK, BitCsrs
  <2>2. TypeOK'
    BY <1>4, <2>1 DEF Inv, TypeOK, Poll
  <2> QED
    BY <1>4, <2>1, <2>2 DEF Inv, MachineFrameIntact, SupervisorFrameIntact,
       ExceptionEntersHandler, Poll
<1>5. CASE /\ ~Masked /\ Pending # {}
           /\ uart_irq' = FALSE
           /\ \E d \in Delegated(InterruptBit + NextInterrupt) :
                 TakeInterrupt(NextInterrupt, d,
                               [bits EXCEPT !["MIP"] = (PolledMip \cap LowBits) \ {NextInterrupt}])
  <2>1. NextInterrupt \in Interrupts
    BY <1>5, NextInterruptType
  <2>2. (PolledMip \cap LowBits) \ {NextInterrupt} \in SUBSET (0 .. 63)
    BY <1>3
  <2>3. Entered /\ pc' \in Addrs /\ entry' \in [by : {"interrupt"}, at : Addrs]
    BY <1>5, <2>1, <2>2, TakeInterruptFrames
  <2>4. TypeOK'
    BY <1>5, <2>3 DEF Entered, Inv, TypeOK, Poll
  <2>5. ExceptionEntersHandler'
    BY <2>3 DEF ExceptionEntersHandler
  <2> QED
    BY <2>3, <2>4, <2>5 DEF Inv, Entered
<1> QED
  BY <1>1, <1>4, <1>5 DEF Poll

LEMMA FetchInv == Inv /\ Fetch => Inv'
<1> SUFFICES ASSUME Inv, Fetch PROVE Inv'
  OBVIOUS
<1>1. TypeOK'
  BY HartAssumption DEF Inv, TypeOK, Fetch, NoEntry, Addrs
<1> QED
  BY <1>1 DEF Inv, MachineFrameIntact, SupervisorFrameIntact, ExceptionEntersHandler, Fetch

LEMMA FetchFaultInv ==
    ASSUME Inv, NEW e \in FetchFaults, FetchFault(e)
    PROVE  Inv'
<1>1. PICK d \in Delegated(e) : Trap(e, d) /\ pc' = Dec(TrapTarget(d))
  BY DEF FetchFault, TrapPc
<1>2. e \in 0 .. 255
  BY HartAssumption
<1>3. Entered /\ pc' \in Addrs
  BY <1>1, <1>2, TrapFrames, IncDec
<1>4. entry' = NoEntry /\ entry' \in [by : {"none"}, at : Addrs]
  BY HartAssumption DEF FetchFault, NoEntry, Addrs
<1>5. TypeOK'
  BY <1>3, <1>4 DEF Entered, Inv, TypeOK, FetchFault
<1> QED
  BY <1>3, <1>4, <1>5 DEF Inv, Entered, ExceptionEntersHandler, NoEntry

LEMMA RaiseInv ==
    ASSUME Inv, NEW e \in ExecFaults, Raise(e)
    PROVE  Inv'
<1>1. PICK d \in Delegated(e) : /\ Trap(e, d)
                               /\ pc' = Inc(Dec(TrapTarget(d)))
                               /\ entry' = [by |-> "exception", at |-> TrapTarget(d)]
  BY DEF Raise, TrapPc
<1>2. e \in 0 .. 255
  BY HartAssumption
<1>3. Entered /\ TrapTarget(d) \in Addrs
  BY <1>1, <1>2, TrapFrames
<1>4. pc' = TrapTarget(d)
  BY <1>1, <1>3, IncDec
<1>5. TypeOK'
  BY <1>1, <1>3, <1>4 DEF Entered, Inv, TypeOK, Raise
<1>6. ExceptionEntersHandler'
  BY <1>1, <1>4 DEF ExceptionEntersHandler
<1> QED
  BY <1>3, <1>5, <1>6 DEF Inv, Entered

(* By the time an instruction executes, Fetch has consumed the entry of the *)
(* last exception, so that the instruction may change pc.                   *)
NoExceptionOutstanding == stage = "exec" => entry.by # "exception"

LEMMA NextOutstanding == Inv /\ NoExceptionOutstanding /\ [Next]_vars => NoExceptionOutstanding'
BY DEF NoExceptionOutstanding, Next, Poll, Fetch, FetchFault, Abort, Compute, Execute, ECALL, Raise,
   MRET, SRET, CsrBits, CSRRW, CSRRS, CSRRC, CsrAddr, CsrCause, CsrStep, Terminated, vars, NoEntry

LEMMA MretInv == Inv /\ NoExceptionOutstanding /\ MRET => Inv'
<1> SUFFICES ASSUME Inv, NoExceptionOutstanding, MRET PROVE Inv'
  OBVIOUS
<1> USE DEF BitCsrs, AddrCsrs, CauseCsrs
<1>1. NoFrame \in Frames /\ ~NoFrame.on
  BY HartAssumption DEF NoFrame, Frames, Modes, User, Causes, InterruptBit, Addrs
<1>2. word["MEPC"] \in Addrs /\ bits["MSTATUS"] \in SUBSET (0 .. 63) /\ Machine \in Modes
  BY DEF Inv, TypeOK, Modes
<1>3. MretMstatus(bits["MSTATUS"]) \in SUBSET (0 .. 63)
  BY <1>2, StatusType
<1>4. entry.by # "exception"
  BY DEF MRET, NoExceptionOutstanding
<1>5. CASE MppOf(bits["MSTATUS"]) \in {0, 1}
  <2>1. /\ bits' \in [BitCsrs -> SUBSET (0 .. 63)] /\ bits'["SSTATUS"] = bits["SSTATUS"]
    BY <1>3, <1>5 DEF Inv, TypeOK, MRET
  <2>2. mode' \in Modes /\ pc' \in Addrs /\ mframe' \in Frames /\ ~mframe'.on
    BY <1>1, <1>2, <1>5, IncDec DEF MRET, MretMode, Modes
  <2>3. TypeOK'
    BY <1>5, <2>1, <2>2 DEF Inv, TypeOK, MRET
  <2> QED
    BY <1>4, <2>1, <2>2, <2>3 DEF Inv, MRET, MachineFrameIntact, SupervisorFrameIntact,
       ExceptionEntersHandler
<1>6. CASE ~(MppOf(bits["MSTATUS"]) \in {0, 1})
  <2>1. TypeOK'
    BY <1>2, <1>6, IncDec DEF Inv, TypeOK, MRET
  <2> QED
    BY <1>6, <2>1 DEF Inv, MRET, MachineFrameIntact, SupervisorFrameIntact,
       ExceptionEntersHandler
<1> QED
  BY <1>5, <1>6

LEMMA SretInv == Inv /\ NoExceptionOutstanding /\ SRET => Inv'
<1> SUFFICES ASSUME Inv, NoExceptionOutstanding, SRET PROVE Inv'
  OBVIOUS
<1> USE DEF BitCsrs, AddrCsrs, CauseCsrs
<1>1. NoFrame \in Frames /\ ~NoFrame.on
  BY HartAssumption DEF NoFrame, Frames, Modes, User, Causes, InterruptBit, Addrs
<1>2. word["SEPC"] \in Addrs /\ bits["SSTATUS"] \in SUBSET (0 .. 63) /\ User \in Modes
  BY DEF Inv, TypeOK, Modes
<1>3. SretSstatus(bits["SSTATUS"]) \in SUBSET (0 .. 63)
  BY <1>2, StatusType
<1>4. bits' \in [BitCsrs -> SUBSET (0 .. 63)]
  BY <1>3 DEF Inv, TypeOK, SRET
<1>5. mode' \in Modes /\ pc' \in Addrs /\ ~mframe'.on /\ ~sframe'.on
  BY <1>1, <1>2, IncDec DEF SRET, Modes
<1>6. TypeOK'
  BY <1>1, <1>4, <1>5 DEF Inv, TypeOK, SRET, Execute
<1> QED
  BY <1>5, <1>6 DEF Inv, SRET, MachineFrameIntact, SupervisorFrameIntact,
     ExceptionEntersHandler, NoExceptionOutstanding, Execute

(* A CSR instruction that does not name MSTATUS or SSTATUS leaves it alone; *)
(* a write of SIE goes to MIE.                                              *)
LEMMA StoreCsrFrame ==
    ASSUME Inv, NEW c \in BitCsrs \cup {"SIE"}, NEW b \in SUBSET (0 .. 63)
    PROVE  /\ StoreCsr(c, b) \in [BitCsrs -> SUBSET (0 .. 63)]
           /\ c # "MSTATUS" => StoreCsr(c, b)["MSTATUS"] = bits["MSTATUS"]
           /\ c # "SSTATUS" => StoreCsr(c, b)["SSTATUS"] = bits["SSTATUS"]
<1> USE DEF BitCsrs
<1>1. bits \in [BitCsrs -> SUBSET (0 .. 63)]
  BY DEF Inv, TypeOK
<1> DEFINE mie == (bits["MIE"] \cap LogicalNot(bits["MIDELEG"])) \cup (b \cap bits["MIDELEG"])
<1>2. mie \in SUBSET (0 .. 63)
  BY <1>1
<1>3. CASE c = "SIE"
  <2>1. StoreCsr(c, b) = [bits EXCEPT !["MIE"] = mie]
    BY <1>3 DEF StoreCsr
  <2> HIDE DEF mie
  <2> QED
    BY <1>1, <1>2, <1>3, <2>1
<1>4. CASE c # "SIE"
  BY <1>1, <1>4 DEF StoreCsr
<1> QED
  BY <1>3, <1>4

(* The common part of the CSR instructions. *)
LEMMA CsrStepInv ==
    ASSUME Inv, NoExceptionOutstanding, NEW c, CsrStep(c),
           bits' \in [BitCsrs -> SUBSET (0 .. 63)], word' \in [AddrCsrs -> Addrs],
           cause' \in [CauseCsrs -> Causes],
           c # "MSTATUS" => bits'["MSTATUS"] = bits["MSTATUS"],
           c # "SSTATUS" => bits'["SSTATUS"] = bits["SSTATUS"],
           c # "MEPC" => word'["MEPC"] = word["MEPC"],
           c # "SEPC" => word'["SEPC"] = word["SEPC"],
           c # "MCAUSE" => cause'["MCAUSE"] = cause["MCAUSE"],
           c # "SCAUSE" => cause'["SCAUSE"] = cause["SCAUSE"]
    PROVE  Inv'
<1>1. NoFrame \in Frames /\ ~NoFrame.on
  BY HartAssumption DEF NoFrame, Frames, Modes, User, Causes, InterruptBit, Addrs
<1>2. pc' \in Addrs /\ nwrites' \in 0 .. MaxCsrWrites
  BY HartAssumption, IncDec DEF CsrStep, Inv, TypeOK
<1>3. mframe' \in Frames /\ sframe' \in Frames
  BY <1>1 DEF CsrStep, Inv, TypeOK
<1>4. TypeOK'
  BY <1>2, <1>3 DEF CsrStep, Execute, Inv, TypeOK
<1>5. MachineFrameIntact'
  BY <1>1 DEF CsrStep, Inv, MachineFrameIntact
<1>6. SupervisorFrameIntact'
  BY <1>1 DEF CsrStep, Inv, SupervisorFrameIntact
<1>7. ExceptionEntersHandler'
  BY DEF CsrStep, Execute, ExceptionEntersHandler, NoExceptionOutstanding
<1> QED
  BY <1>4, <1>5, <1>6, <1>7 DEF Inv

LEMMA CsrBitsInv ==
    ASSUME Inv, NoExceptionOutstanding, NEW c \in BitCsrs \cup {"SIE"}, NEW v \in CsrBitValues,
           CsrBits(c, v)
    PROVE  Inv'
<1>1. v \in SUBSET (0 .. 63) /\ LoadCsr(c) \in SUBSET (0 .. 63)
  BY HartAssumption DEF LoadCsr, Inv, TypeOK, BitCsrs
<1>2. PICK b \in SUBSET (0 .. 63) : 
           CsrStep(c) /\ bits' = StoreCsr(c, b) /\ word' = word /\ cause' = cause
  <2>1. LoadCsr(c) \cup v \in SUBSET (0 .. 63) /\ LoadCsr(c) \cap LogicalNot(v) \in SUBSET (0 .. 63)
    BY <1>1
  <2> QED
    BY <1>1, <2>1 DEF CsrBits, CSRRW, CSRRS, CSRRC
<1>3. word' \in [AddrCsrs -> Addrs] /\ cause' \in [CauseCsrs -> Causes]
  BY <1>2 DEF Inv, TypeOK
<1> QED
  BY <1>2, <1>3, StoreCsrFrame, CsrStepInv

LEMMA CsrAddrInv ==
    ASSUME Inv, NoExceptionOutstanding, NEW c \in AddrCsrs, NEW w \in Addrs, CsrAddr(c, w)
    PROVE  Inv'
<1>1. /\ CsrStep(c) /\ bits' = bits /\ cause' = cause /\ word' \in [AddrCsrs -> Addrs]
      /\ c # "MEPC" => word'["MEPC"] = word["MEPC"]
      /\ c # "SEPC" => word'["SEPC"] = word["SEPC"]
  BY DEF CsrAddr, Inv, TypeOK, AddrCsrs
<1>2. bits' \in [BitCsrs -> SUBSET (0 .. 63)] /\ cause' \in [CauseCsrs -> Causes]
  BY <1>1 DEF Inv, TypeOK
<1> QED
  BY <1>1, <1>2, CsrStepInv

LEMMA CsrCauseInv ==
    ASSUME Inv, NoExceptionOutstanding, NEW c \in CauseCsrs, NEW v \in CsrCauses, CsrCause(c, v)
    PROVE  Inv'
<1>1. v \in Causes
  BY HartAssumption DEF Causes, InterruptBit
<1>2. /\ CsrStep(c) /\ bits' = bits /\ word' = word /\ cause' \in [CauseCsrs -> Causes]
      /\ c # "MCAUSE" => cause'["MCAUSE"] = cause["MCAUSE"]
      /\ c # "SCAUSE" => cause'["SCAUSE"] = cause["SCAUSE"]
  BY <1>1 DEF CsrCause, Inv, TypeOK, CauseCsrs
<1>3. bits' \in [BitCsrs -> SUBSET (0 .. 63)] /\ word' \in [AddrCsrs -> Addrs]
  BY <1>2 DEF Inv, TypeOK
<1> QED
  BY <1>2, <1>3, CsrStepInv

LEMMA NextInv == Inv /\ NoExceptionOutstanding /\ [Next]_vars => Inv'
<1> SUFFICES ASSUME Inv, NoExceptionOutstanding, [Next]_vars PROVE Inv'
  OBVIOUS
<1>1. CASE Poll
  BY <1>1, PollInv
<1>2. CASE Fetch
  BY <1>2, FetchInv
<1>3. CASE \E e \in FetchFaults : FetchFault(e)
  BY <1>3, FetchFaultInv
<1>4. CASE Abort
  BY <1>4 DEF Abort, Inv, TypeOK, MachineFrameIntact, SupervisorFrameIntact, ExceptionEntersHandler
<1>5. CASE \E w \in CodeAddrs \cup {Inc(pc)} : Compute(w)
  <2>1. pc' \in Addrs
    BY <1>5, HartAssumption, IncDec DEF Compute, Inv, TypeOK, Addrs
  <2> QED
    BY <1>5, <2>1 DEF Compute, Execute, Inv, TypeOK, MachineFrameIntact, SupervisorFrameIntact,
       ExceptionEntersHandler, NoExceptionOutstanding
<1>6. CASE ECALL
  <2>1. pc' \in Addrs
    BY <1>6, IncDec DEF ECALL, Inv, TypeOK
  <2> QED
    BY <1>6, <2>1 DEF ECALL, Execute, Inv, TypeOK, MachineFrameIntact, SupervisorFrameIntact,
       ExceptionEntersHandler, NoExceptionOutstanding
<1>7. CASE \E e \in ExecFaults : Raise(e)
  BY <1>7, RaiseInv
<1>8. CASE MRET
  BY <1>8, MretInv
<1>9. CASE SRET
  BY <1>9, SretInv
<1>10. CASE \E c \in BitCsrs \cup {"SIE"}, v \in CsrBitValues : CsrBits(c, v)
  BY <1>10, CsrBitsInv
<1>11. CASE \E c \in AddrCsrs, w \in CodeAddrs : CsrAddr(c, w)
  BY <1>11, CsrAddrInv, HartAssumption DEF Addrs
<1>13. CASE \E c \in CauseCsrs, v \in CsrCauses : CsrCause(c, v)
  BY <1>13, CsrCauseInv
<1>12. CASE Terminated \/ UNCHANGED vars
  BY <1>12 DEF Terminated, vars, Inv, TypeOK, MachineFrameIntact, SupervisorFrameIntact,
     ExceptionEntersHandler
<1> QED
  BY <1>1, <1>2, <1>3, <1>4, <1>5, <1>6, <1>7, <1>8, <1>9, <1>10, <1>11, <1>12, <1>13 DEF Next

LEMMA InvariantHolds == Spec => [](Inv /\ NoExceptionOutstanding)
<1>1. Init => Inv /\ NoExceptionOutstanding
  BY InitInv DEF Init, NoExceptionOutstanding
<1>2. (Inv /\ NoExceptionOutstanding) /\ [Next]_vars => (Inv /\ NoExceptionOutstanding)'
  BY NextInv, NextOutstanding
<1> QED
  BY <1>1, <1>2, PTL DEF Spec

-----------------------------------------------------------------------------
(* The registers of the hart keep their types. *)
THEOREM TypeCorrect == Spec => []TypeOK
<1>1. Inv => TypeOK
  BY DEF Inv
<1> QED
  BY <1>1, InvariantHolds, PTL

(* A Machine handler finds what trap() or take_interrupt() saved until it   *)
(* changes it itself.                                                       *)
THEOREM FramesIntact == Spec => []MachineFrameIntact
<1>1. Inv => MachineFrameIntact
  BY DEF Inv
<1> QED
  BY <1>1, InvariantHolds, PTL

(* So does a Supervisor handler, across nested traps into Machine mode and  *)
(* their MRET.                                                              *)
THEOREM SupervisorFramesIntact == Spec => []SupervisorFrameIntact
<1>1. Inv => SupervisorFrameIntact
  BY DEF Inv
<1> QED
  BY <1>1, InvariantHolds, PTL

(* An instruction that raises an exception is followed by its handler. *)
THEOREM ExceptionsHandled == Spec => []ExceptionEntersHandler
<1>1. Inv => ExceptionEntersHandler
  BY DEF Inv
<1> QED
  BY <1>1, InvariantHolds, PTL

(* A trap that ends in Machine mode went through EnterM. *)
LEMMA ToMachine ==
    ASSUME NEW b, NEW c, NEW d, mode' = Machine,
           IF GoesToS(d) THEN EnterS(b, pc, c) ELSE EnterM(b, pc, c)
    PROVE  ~GoesToS(d) /\ mframe'.on /\ mframe'.mode = mode /\ mframe'.pc = pc
BY DEF EnterS, EnterM, Frame, Supervisor, Machine

(* Machine mode is entered by traps alone, at MTVEC. *)
THEOREM MachineEntry == Spec => MachineOnlyByTrap
<1> DEFINE Entry == mode # Machine /\ mode' = Machine
                    => /\ mframe'.on /\ mframe'.mode = mode /\ mframe'.pc = pc
                       /\ pc' \in {Low(word["MTVEC"]), Dec(Low(word["MTVEC"]))}
                                  \cup {Dec(VectorOf("MTVEC", i)) : i \in Interrupts}
<1>1. Inv /\ [Next]_vars => [Entry]_vars
  <2> SUFFICES ASSUME Inv, Next, mode # Machine, mode' = Machine PROVE Entry
    OBVIOUS
  <2>1. CASE Poll
    <3>1. Pending # {}
      BY <2>1 DEF Poll
    <3>2. PICK d : TakeInterrupt(NextInterrupt, d,
                                 [bits EXCEPT !["MIP"] = (PolledMip \cap LowBits) \ {NextInterrupt}])
      BY <2>1, <3>1 DEF Poll
    <3>3. ~GoesToS(d) /\ mframe'.on /\ mframe'.mode = mode /\ mframe'.pc = pc
      BY <3>2, ToMachine DEF TakeInterrupt
    <3>4. pc' = Dec(VectorOf("MTVEC", NextInterrupt))
      BY <3>2, <3>3 DEF TakeInterrupt, InterruptTarget
    <3> QED
      BY <3>1, <3>3, <3>4, NextInterruptType
  <2>2. CASE \E e \in FetchFaults : FetchFault(e)
    <3>1. PICK e, d : Trap(e, d) /\ pc' = Dec(TrapTarget(d))
      BY <2>2 DEF FetchFault, TrapPc
    <3>2. ~GoesToS(d) /\ mframe'.on /\ mframe'.mode = mode /\ mframe'.pc = pc
      BY <3>1, ToMachine DEF Trap
    <3> QED
      BY <3>1, <3>2 DEF TrapTarget
  <2>3. CASE \E e \in ExecFaults : Raise(e)
    <3>1. PICK e, d : Trap(e, d) /\ pc' = Inc(Dec(TrapTarget(d)))
      BY <2>3 DEF Raise, TrapPc
    <3>2. ~GoesToS(d) /\ mframe'.on /\ mframe'.mode = mode /\ mframe'.pc = pc
      BY <3>1, ToMachine DEF Trap
    <3>3. Low(word["MTVEC"]) \in Addrs
      BY LowType DEF Inv, TypeOK, AddrCsrs
    <3> QED
      BY <3>1, <3>2, <3>3, IncDec DEF TrapTarget
  <2>4. ASSUME mode' = mode PROVE Entry
    BY <2>4
  <2>5. CASE MRET
    BY <2>4, <2>5 DEF MRET, MretMode, User, Supervisor, Machine
  <2>6. CASE SRET
    BY <2>6 DEF SRET, User, Supervisor, Machine
  <2> QED
    BY <2>1, <2>2, <2>3, <2>4, <2>5, <2>6 DEF Next, Fetch, Abort, Compute, ECALL, CsrBits, CSRRW,
       CSRRS, CSRRC, CsrAddr, CsrCause, CsrStep, Terminated, vars
<1> QED
  BY <1>1, InvariantHolds, PTL DEF Spec, MachineOnlyByTrap

(* MRET and SRET resume what the trap interrupted. *)
THEOREM Resumption == Spec => ReturnResumes
<1> DEFINE Resume ==
             /\ stage = "exec" /\ op' = "MRET" /\ mframe.on /\ mframe.mode # Machine
                => /\ mode' = mframe.mode
                   /\ mframe.pc < LowSpace => pc' = mframe.pc - (mframe.pc % 2)
                   /\ (MIE \in bits'["MSTATUS"]) = mframe.ie
             /\ stage = "exec" /\ op' = "SRET" /\ sframe.on
                => /\ mode' = sframe.mode
                   /\ sframe.pc < LowSpace => pc' = sframe.pc - (sframe.pc % 2)
                   /\ (SIE \in bits'["SSTATUS"]) = sframe.ie
<1>1. Inv /\ [Next]_vars => [Resume]_vars
  <2> SUFFICES ASSUME Inv, Next PROVE Resume
    OBVIOUS
  <2> USE DEF BitCsrs, AddrCsrs, CauseCsrs
  <2>1. ASSUME stage = "exec", op' = "MRET", mframe.on, mframe.mode # Machine
        PROVE  /\ mode' = mframe.mode
               /\ mframe.pc < LowSpace => pc' = mframe.pc - (mframe.pc % 2)
               /\ (MIE \in bits'["MSTATUS"]) = mframe.ie
    <3>1. MRET
      BY <2>1 DEF Next, Poll, Fetch, FetchFault, Abort, Compute, Execute, ECALL, Raise, SRET,
         CsrBits, CSRRW, CSRRS, CSRRC, CsrAddr, CsrCause, CsrStep, Terminated
    <3>2. /\ MppOf(bits["MSTATUS"]) = mframe.mode /\ (MPIE \in bits["MSTATUS"]) = mframe.ie
          /\ word["MEPC"] = Low(mframe.pc) /\ word["MEPC"] \in Addrs
          /\ mframe.pc \in Addrs /\ mframe.mode \in {0, 1}
      BY <2>1 DEF Inv, TypeOK, MachineFrameIntact, Frames, Modes, User, Supervisor, Machine
    <3>3. mode' = mframe.mode /\ (mframe.pc < LowSpace => pc' = mframe.pc - (mframe.pc % 2))
      BY <3>1, <3>2, IncDec, LowType DEF MRET, MretMode, User, Supervisor
    <3>4. bits'["MSTATUS"] = MretMstatus(bits["MSTATUS"])
      BY <3>1, <3>2 DEF MRET, Inv, TypeOK
    <3>5. MIE \in MretMstatus(bits["MSTATUS"]) <=> MPIE \in bits["MSTATUS"]
      BY DEF MretMstatus, MIE, MPIE, MPP
    <3> QED
      BY <3>2, <3>3, <3>4, <3>5
  <2>2. ASSUME stage = "exec", op' = "SRET", sframe.on
        PROVE  /\ mode' = sframe.mode
               /\ sframe.pc < LowSpace => pc' = sframe.pc - (sframe.pc % 2)
               /\ (SIE \in bits'["SSTATUS"]) = sframe.ie
    <3>1. SRET
      BY <2>2 DEF Next, Poll, Fetch, FetchFault, Abort, Compute, Execute, ECALL, Raise, MRET,
         CsrBits, CSRRW, CSRRS, CSRRC, CsrAddr, CsrCause, CsrStep, Terminated
    <3>2. /\ (SPP \in bits["SSTATUS"]) = (sframe.mode = Supervisor)
          /\ (SPIE \in bits["SSTATUS"]) = sframe.ie
          /\ word["SEPC"] = Low(sframe.pc) /\ word["SEPC"] \in Addrs /\ sframe.pc \in Addrs
          /\ sframe.mode \in {User, Supervisor}
      BY <2>2 DEF Inv, TypeOK, SupervisorFrameIntact, Frames
    <3>3. mode' = sframe.mode /\ (sframe.pc < LowSpace => pc' = sframe.pc - (sframe.pc % 2))
      BY <3>1, <3>2, IncDec, LowType DEF SRET
    <3>4. bits'["SSTATUS"] = SretSstatus(bits["SSTATUS"])
      BY <3>1 DEF SRET, Inv, TypeOK
    <3>5. SIE \in SretSstatus(bits["SSTATUS"]) <=> SPIE \in bits["SSTATUS"]
      BY DEF SretSstatus, SIE, SPIE, SPP
    <3> QED
      BY <3>2, <3>3, <3>4, <3>5
  <2> QED
    BY <2>1, <2>2
<1> QED
  BY <1>1, InvariantHolds, PTL DEF Spec, ReturnResumes
=============================================================================
