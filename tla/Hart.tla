-------------------------------- MODULE Hart --------------------------------
(***************************************************************************)
(* The hart of vemu as test_emu builds it (src/VEmu.cpp): the loop of      *)
(* run(), the privilege mode, the control and status registers (CSRs) that *)
(* traps use, trap(), check_pending_interrupt(), take_interrupt(), MRET,   *)
(* SRET and the CSR instructions.                                          *)
(*                                                                         *)
(* One iteration of run() is three steps: Poll (interrupts, and the end of *)
(* a test), Fetch, and one of the Execute actions; stage says which is     *)
(* next.  What memory holds and what the integer registers hold is not     *)
(* modelled: a fetch may return any result the bus can return, and every   *)
(* instruction may come next with any operand.                             *)
(*                                                                         *)
(* The program counter and the address CSRs are byte addresses that wrap   *)
(* like a uint64_t; bit 0 of MTVEC and STVEC selects vectored mode.  The   *)
(* bits of MSTATUS, SSTATUS, MIE, MIP, MIDELEG and MEDELEG are sets of bit *)
(* numbers.  Traps mask with ~1U and the like, whose upper 32 bits are     *)
(* zero: what such a mask leaves is Low of an address and LowBits of a bit *)
(* set.                                                                    *)
(***************************************************************************)
EXTENDS Integers

CONSTANTS
    AddrSpace,      \* number of addresses, 2^64 in the code
    LowSpace,       \* number of those that 32 bits can hold, 2^32 in the code
    CodeAddrs,      \* entry points, jump targets and values left in address CSRs
    FetchFaults,    \* the exceptions that get_4byte_aligned_instr() can return
    ExecFaults,     \* the exceptions that the instructions can return
    CsrBitValues,   \* the values that CSR instructions write to bit CSRs
    CsrCauses,      \* the values that CSR instructions leave in MCAUSE and SCAUSE
    MaxCsrWrites    \* bound: CSR instructions in a behaviour

ASSUME HartAssumption ==
    /\ AddrSpace \in Nat /\ AddrSpace >= 4 /\ AddrSpace % 4 = 0
    /\ LowSpace \in 2 .. AddrSpace /\ LowSpace % 2 = 0
    /\ CodeAddrs \subseteq 0 .. AddrSpace - 1
    /\ FetchFaults \subseteq {5, 253, 254}
    /\ ExecFaults \subseteq {0, 2, 3, 4, 5, 6, 7, 253, 254}
    /\ CsrBitValues \subseteq SUBSET (0 .. 63)
    /\ CsrCauses \subseteq 0 .. 512
    /\ MaxCsrWrites \in Nat

Addrs == 0 .. AddrSpace - 1
User == 0
Supervisor == 1
Machine == 3
Modes == {User, Supervisor, Machine}

BitCsrs == {"MSTATUS", "SSTATUS", "MIE", "MIP", "MIDELEG", "MEDELEG"}
AddrCsrs == {"MTVEC", "STVEC", "MEPC", "SEPC"}
CauseCsrs == {"MCAUSE", "SCAUSE"}

(* Positions in MSTATUS, SSTATUS (defs.h). *)
MIE == 3
MPIE == 7
MPP == {11, 12}
SIE == 1
SPIE == 5
SPP == 8

(* enum Interrupt, and the exceptions of enum ReturnException that end the  *)
(* emulator after the trap (is_fatal).                                      *)
SupervisorExternalInterrupt == 9
Interrupts == {1, 3, 5, 7, 9, 11}
InterruptBit == 256   \* stands for 1 << 63, the top bit of MCAUSE
Causes == 0 .. 2 * InterruptBit

Fatal == {0, 1, 5, 6, 7}

VARIABLES
    mode,            \* privilege mode
    pc,              \* program counter
    bits, word,      \* csrs: the bit sets and the addresses
    cause,           \* csrs: MCAUSE and SCAUSE
    uart_irq,        \* UART::interrupting, which its constructor leaves unset
    test_flag_done,  \* an ECALL has ended the test
    stage,           \* "top", "fetch", "exec"; "returned", "exited", "aborted"
    nwrites,         \* CSR instructions executed, bounded by MaxCsrWrites
    \* History variables, read by the properties only:
    op,              \* the last instruction executed
    mframe, sframe,  \* what the last trap into each mode interrupted
    entry            \* the handler the last trap was to enter

vars == <<mode, pc, bits, word, cause, uart_irq, test_flag_done, stage, nwrites,
          op, mframe, sframe, entry>>

-----------------------------------------------------------------------------
(* `pc += 4' and `pc -= 4' on a uint64_t. *)
IncUnwrapped(w) == w + 4
Inc(w) == IF w + 4 < AddrSpace THEN w + 4 ELSE w + 4 - AddrSpace
Dec(w) == IF w < 4 THEN w + AddrSpace - 4 ELSE w - 4

(* What `& ~1U' leaves of an address and of a bit set: bit 0 is cleared and *)
(* so are the bits above 31.  RAM lies in the low addresses, the pc may not. *)
Low(w) == LET l == w % LowSpace IN l - (l % 2)
LowBits == 0 .. 31

NoFrame == [on |-> FALSE, mode |-> User, pc |-> 0, ie |-> FALSE, cause |-> 0]
Frame(m, p, ie, c) == [on |-> TRUE, mode |-> m, pc |-> p, ie |-> ie, cause |-> c]
NoEntry == [by |-> "none", at |-> 0]

(* MPP of a value of MSTATUS. *)
MppOf(b) == (IF 11 \in b THEN 1 ELSE 0) + (IF 12 \in b THEN 2 ELSE 0)

(* The MPP bits that trap() stores for the mode it interrupts. *)
PrevBits(m) == IF m = User THEN {} ELSE IF m = Supervisor THEN {11} ELSE MPP

(* csrs[MSTATUS], csrs[SSTATUS] after a trap in mode m. *)
TrapMstatusKeepsMie(b, m) ==
    ((b \cap LowBits) \ ({MPIE} \cup MPP)) \cup (IF MIE \in b THEN {MPIE} ELSE {}) \cup PrevBits(m)
TrapMstatus(b, m) ==
    ((b \cap LowBits) \ ({MIE, MPIE} \cup MPP)) \cup (IF MIE \in b THEN {MPIE} ELSE {})
                                               \cup PrevBits(m)
TrapSstatus(b, m) ==
    ((b \cap LowBits) \ {SIE, SPIE, SPP}) \cup (IF SIE \in b THEN {SPIE} ELSE {})
                                           \cup (IF m = User THEN {} ELSE {SPP})

(* csrs[MSTATUS] after MRET and csrs[SSTATUS] after SRET. *)
MretMstatus(b) == (b \ ({MIE} \cup MPP)) \cup (IF MPIE \in b THEN {MIE} ELSE {}) \cup {MPIE}
SretSstatusForgets(b) == (b \ {SPP}) \cup {SPIE}
SretSstatus(b) == (b \ {SIE, SPP}) \cup (IF SPIE \in b THEN {SIE} ELSE {}) \cup {SPIE}

(* do_deleg.  Shifting MEDELEG by 64 or more is undefined: the processor    *)
(* takes the count modulo 64, an optimiser may assume anything.  The cause  *)
(* of an interrupt has bit 63 set, so its count always is out of range.     *)
Delegated(c) ==
    IF c < 64 THEN {c \in bits["MEDELEG"]} ELSE {FALSE, (c % 64) \in bits["MEDELEG"]}

(* The part that trap() and take_interrupt() share: the registers, with b   *)
(* the CSR bits at the time, p the interrupted pc and c the cause.          *)
EnterS(b, p, c) ==
    /\ mode' = Supervisor
    /\ bits' = [b EXCEPT !["SSTATUS"] = TrapSstatus(@, mode)]
    /\ word' = [word EXCEPT !["SEPC"] = Low(p)]
    /\ cause' = [cause EXCEPT !["SCAUSE"] = c]
    /\ sframe' = Frame(mode, p, SIE \in b["SSTATUS"], c)
    /\ mframe' = mframe
EnterM(b, p, c) ==
    /\ mode' = Machine
    /\ bits' = [b EXCEPT !["MSTATUS"] = TrapMstatus(@, mode)]
    /\ word' = [word EXCEPT !["MEPC"] = Low(p)]
    /\ cause' = [cause EXCEPT !["MCAUSE"] = c]
    /\ mframe' = Frame(mode, p, MIE \in b["MSTATUS"], c)
    /\ sframe' = sframe

(* Whether a trap with this answer of the delegation register goes to S.    *)
GoesToSAlways(d) == d
GoesToS(d) == mode \in {User, Supervisor} /\ d

(* trap(e): the handler's address, and the pc, which it leaves 4 below.     *)
TrapTarget(d) == Low(IF GoesToS(d) THEN word["STVEC"] ELSE word["MTVEC"])
TrapPcAtTarget(d) == TrapTarget(d)
TrapPc(d) == Dec(TrapTarget(d))
Trap(e, d) == IF GoesToS(d) THEN EnterS(bits, pc, e) ELSE EnterM(bits, pc, e)

(* take_interrupt(i), with b the CSR bits after the pending bit is cleared. *)
(* The vector is 4 * cause, from which the top bit of the cause shifts out. *)
VectorOf(tvec, i) ==
    (Low(word[tvec]) + (IF word[tvec] % 2 = 1 THEN 4 * i ELSE 0)) % AddrSpace
InterruptTarget(i, d) == IF GoesToS(d) THEN VectorOf("STVEC", i) ELSE VectorOf("MTVEC", i)
TakeInterrupt(i, d, b) ==
    /\ IF GoesToS(d) THEN EnterS(b, pc, InterruptBit + i) ELSE EnterM(b, pc, InterruptBit + i)
    /\ pc' = Dec(InterruptTarget(i, d))
    /\ entry' = [by |-> "interrupt", at |-> InterruptTarget(i, d)]

-----------------------------------------------------------------------------
(* The constructor: every CSR is zero but MISA, and the hart is in User.    *)
Init ==
    /\ mode = User
    /\ pc \in CodeAddrs
    /\ bits = [c \in BitCsrs |-> {}]
    /\ word = [c \in AddrCsrs |-> 0]
    /\ cause = [c \in CauseCsrs |-> 0]
    /\ uart_irq \in BOOLEAN
    /\ test_flag_done = FALSE
    /\ stage = "top"
    /\ nwrites = 0
    /\ op = "none"
    /\ mframe = NoFrame
    /\ sframe = NoFrame
    /\ entry = NoEntry

(* check_pending_interrupt: the mode's own enable bit hides everything.     *)
Masked ==
    \/ mode = Machine /\ MIE \notin bits["MSTATUS"]
    \/ mode = Supervisor /\ SIE \notin bits["SSTATUS"]

(* The order in which check_pending_interrupt looks at the pending bits.    *)
Rank == [i \in Interrupts |-> CASE i = 11 -> 1 [] i = 3 -> 2 [] i = 7 -> 3
                                [] i = 9 -> 4 [] i = 1 -> 5 [] i = 5 -> 6]

(* MIP once the UART has been asked. *)
PolledMip == bits["MIP"] \cup (IF uart_irq THEN {SupervisorExternalInterrupt} ELSE {})
Pending == PolledMip \cap bits["MIE"] \cap Interrupts
NextInterrupt == CHOOSE i \in Pending : \A j \in Pending : Rank[i] <= Rank[j]

(* run(): up to the test of test_flag_done. *)
Poll ==
    /\ stage = "top"
    /\ stage' = IF test_flag_done THEN "returned" ELSE "fetch"
    /\ \/ /\ Masked
          /\ UNCHANGED <<mode, pc, bits, word, cause, uart_irq, mframe, sframe, entry>>
       \/ /\ ~Masked /\ Pending = {}
          /\ bits' = [bits EXCEPT !["MIP"] = PolledMip]
          /\ uart_irq' = FALSE
          /\ UNCHANGED <<mode, pc, word, cause, mframe, sframe, entry>>
       \/ /\ ~Masked /\ Pending # {}
          /\ uart_irq' = FALSE
          /\ \E d \in Delegated(InterruptBit + NextInterrupt) :
                TakeInterrupt(NextInterrupt, d,
                              [bits EXCEPT !["MIP"] = (PolledMip \cap LowBits) \ {NextInterrupt}])
    /\ op' = "none"
    /\ UNCHANGED <<test_flag_done, nwrites>>

(* run(): the fetch.  After a fault that is not fatal the loop goes on to   *)
(* execute the word that was returned with it, at the pc trap() has set.    *)
Fetch ==
    /\ stage = "fetch"
    /\ stage' = "exec"
    /\ entry' = NoEntry
    /\ UNCHANGED <<mode, pc, bits, word, cause, uart_irq, test_flag_done, nwrites, op,
                   mframe, sframe>>

FetchFault(e) ==
    /\ stage = "fetch"
    /\ stage' = IF e \in Fatal THEN "exited" ELSE "exec"
    /\ \E d \in Delegated(e) : Trap(e, d) /\ pc' = TrapPc(d)
    /\ entry' = NoEntry
    /\ UNCHANGED <<uart_irq, test_flag_done, nwrites, op>>

(* An assert or an uncaught exception, in the fetch or in an instruction.   *)
Abort ==
    /\ stage \in {"fetch", "exec"}
    /\ stage' = "aborted"
    /\ op' = "abort"
    /\ UNCHANGED <<mode, pc, bits, word, cause, uart_irq, test_flag_done, nwrites,
                   mframe, sframe, entry>>

-----------------------------------------------------------------------------
(* Execute, and the `pc += 4' that ends the iteration. *)
Execute(name) == stage = "exec" /\ stage' = "top" /\ op' = name

(* An instruction that only changes registers or memory; a jump or branch.  *)
(* JALR clears bit 0 of its target, the other offsets are even.             *)
Compute(target) ==
    /\ Execute("compute")
    /\ target % 2 \in {0, pc % 2}
    /\ pc' = target
    /\ UNCHANGED <<mode, bits, word, cause, uart_irq, test_flag_done, nwrites, mframe, sframe, entry>>

ECALL ==
    /\ Execute("ECALL")
    /\ test_flag_done' = TRUE
    /\ pc' = Inc(pc)
    /\ UNCHANGED <<mode, bits, word, cause, uart_irq, nwrites, mframe, sframe, entry>>

(* An instruction that returns the exception e. *)
Raise(e) ==
    /\ stage = "exec" /\ op' = "raise"
    /\ stage' = IF e \in Fatal THEN "exited" ELSE "top"
    /\ \E d \in Delegated(e) :
          /\ Trap(e, d)
          /\ pc' = Inc(TrapPc(d))
          /\ entry' = [by |-> "exception", at |-> TrapTarget(d)]
    /\ UNCHANGED <<uart_irq, test_flag_done, nwrites>>

(* MRET: only MPP 00 and 01 are understood, the other two abort. *)
MretModeMachine(p) == IF p = 0 THEN User ELSE Machine
MretMode(p) == IF p = 0 THEN User ELSE Supervisor
MRET ==
    /\ stage = "exec" /\ op' = "MRET"
    /\ IF MppOf(bits["MSTATUS"]) \in {0, 1}
       THEN /\ stage' = "top"
            /\ mode' = MretMode(MppOf(bits["MSTATUS"]))
            /\ pc' = Inc(Dec(word["MEPC"]))
            /\ bits' = [bits EXCEPT !["MSTATUS"] = MretMstatus(@)]
            /\ mframe' = NoFrame
       ELSE /\ stage' = "aborted"
            /\ pc' = Dec(word["MEPC"])
            /\ UNCHANGED <<mode, bits, mframe>>
    /\ UNCHANGED <<word, cause, uart_irq, test_flag_done, nwrites, sframe, entry>>

SRET ==
    /\ Execute("SRET")
    /\ mode' = IF SPP \in bits["SSTATUS"] THEN Supervisor ELSE User
    /\ pc' = Inc(Dec(word["SEPC"]))
    /\ bits' = [bits EXCEPT !["SSTATUS"] = SretSstatus(@)]
    /\ sframe' = NoFrame
    /\ mframe' = NoFrame
    /\ UNCHANGED <<word, cause, uart_irq, test_flag_done, nwrites, entry>>

(* load_csr and store_csr: SIE is a view of MIE.  The logical `!' keeps at  *)
(* most bit 0 of MIE, so every other enable bit is lost with the write.     *)
LogicalNot(b) == IF b = {} THEN {0} ELSE {}
LoadCsr(c) == IF c = "SIE" THEN bits["MIE"] \cap bits["MIDELEG"] ELSE bits[c]
StoreCsr(c, b) ==
    IF c = "SIE"
    THEN [bits EXCEPT !["MIE"] = (@ \cap LogicalNot(bits["MIDELEG"])) \cup (b \cap bits["MIDELEG"])]
    ELSE [bits EXCEPT ![c] = b]

(* The program's own writes end the claim of a history frame.              *)
CsrStep(c) ==
    /\ Execute("CSR")
    /\ nwrites < MaxCsrWrites /\ nwrites' = nwrites + 1
    /\ pc' = Inc(pc)
    /\ mframe' = IF c \in {"MSTATUS", "MEPC", "MCAUSE"} THEN NoFrame ELSE mframe
    /\ sframe' = IF c \in {"SSTATUS", "SEPC", "SCAUSE"} THEN NoFrame ELSE sframe
    /\ UNCHANGED <<mode, uart_irq, test_flag_done, entry>>

(* CSRRW, CSRRS, CSRRC and their immediate forms, v being the operand.      *)
CSRRW(c, v) == CsrStep(c) /\ bits' = StoreCsr(c, v)
CSRRS(c, v) == CsrStep(c) /\ bits' = StoreCsr(c, LoadCsr(c) \cup v)
CSRRC(c, v) == CsrStep(c) /\ bits' = StoreCsr(c, LoadCsr(c) \cap LogicalNot(v))
CsrBits(c, v) == (CSRRW(c, v) \/ CSRRS(c, v) \/ CSRRC(c, v)) /\ UNCHANGED <<word, cause>>

(* The same on an address or a cause: the three forms can leave any value.  *)
CsrAddr(c, w) == CsrStep(c) /\ word' = [word EXCEPT ![c] = w] /\ UNCHANGED <<bits, cause>>
CsrCause(c, v) == CsrStep(c) /\ cause' = [cause EXCEPT ![c] = v] /\ UNCHANGED <<bits, word>>

Terminated == stage \in {"returned", "exited", "aborted"} /\ UNCHANGED vars

Next ==
    \/ Poll
    \/ Fetch
    \/ \E e \in FetchFaults : FetchFault(e)
    \/ Abort
    \/ \E w \in CodeAddrs \cup {Inc(pc)} : Compute(w)
    \/ ECALL
    \/ \E e \in ExecFaults : Raise(e)
    \/ MRET
    \/ SRET
    \/ \E c \in BitCsrs \cup {"SIE"}, v \in CsrBitValues : CsrBits(c, v)
    \/ \E c \in AddrCsrs, w \in CodeAddrs : CsrAddr(c, w)
    \/ \E c \in CauseCsrs, v \in CsrCauses : CsrCause(c, v)
    \/ Terminated

Spec == Init /\ [][Next]_vars

-----------------------------------------------------------------------------
Frames == [on : BOOLEAN, mode : Modes, pc : Addrs, ie : BOOLEAN, cause : Causes]

(* The privilege mode is one of the three of enum Mode and every register   *)
(* holds a value of its kind; the hart is in one of the stages of run().    *)
TypeOK ==
    /\ mode \in Modes
    /\ pc \in Addrs
    /\ bits \in [BitCsrs -> SUBSET (0 .. 63)]
    /\ word \in [AddrCsrs -> Addrs]
    /\ cause \in [CauseCsrs -> Causes]
    /\ uart_irq \in BOOLEAN
    /\ test_flag_done \in BOOLEAN
    /\ stage \in {"top", "fetch", "exec", "returned", "exited", "aborted"}
    /\ nwrites \in 0 .. MaxCsrWrites
    /\ op \in {"none", "compute", "ECALL", "raise", "MRET", "SRET", "CSR", "abort"}
    /\ mframe \in Frames
    /\ sframe \in Frames
    /\ entry \in [by : {"none", "exception", "interrupt"}, at : Addrs]

(* From a trap into Machine mode until the handler returns or rewrites      *)
(* MSTATUS, MEPC or MCAUSE itself, the hart stays in Machine mode with      *)
(* interrupts masked, and MPP, MPIE, MEPC and MCAUSE still describe what    *)
(* was interrupted, whatever else the handler does (trap, take_interrupt).  *)
MachineFrameIntact ==
    mframe.on =>
        /\ mode = Machine
        /\ MIE \notin bits["MSTATUS"]
        /\ MppOf(bits["MSTATUS"]) = mframe.mode
        /\ (MPIE \in bits["MSTATUS"]) = mframe.ie
        /\ word["MEPC"] = Low(mframe.pc)
        /\ cause["MCAUSE"] = mframe.cause

(* The same for a delegated trap: SIE is off and SPP, SPIE, SEPC and SCAUSE *)
(* describe a User or Supervisor program until SRET or a CSR instruction    *)
(* that writes SSTATUS, SEPC or SCAUSE, also across traps into Machine mode *)
(* and their MRET in between.                                               *)
SupervisorFrameIntact ==
    sframe.on =>
        /\ sframe.mode \in {User, Supervisor}
        /\ SIE \notin bits["SSTATUS"]
        /\ (SPP \in bits["SSTATUS"]) = (sframe.mode = Supervisor)
        /\ (SPIE \in bits["SSTATUS"]) = sframe.ie
        /\ word["SEPC"] = Low(sframe.pc)
        /\ cause["SCAUSE"] = sframe.cause

(* A handler that returns resumes what was interrupted: the same mode, the  *)
(* same interrupt enable and, if it was in the 32 bits that trap() and      *)
(* take_interrupt() keep of it, the same pc, rounded down to an even        *)
(* address: an odd pc, which an odd entry point or MEPC can set, resumes a  *)
(* byte lower (MRET from a User or Supervisor trap, SRET from any).         *)
ReturnResumes ==
    [][/\ stage = "exec" /\ op' = "MRET" /\ mframe.on /\ mframe.mode # Machine
          => /\ mode' = mframe.mode
             /\ mframe.pc < LowSpace => pc' = mframe.pc - (mframe.pc % 2)
             /\ (MIE \in bits'["MSTATUS"]) = mframe.ie
       /\ stage = "exec" /\ op' = "SRET" /\ sframe.on
          => /\ mode' = sframe.mode
             /\ sframe.pc < LowSpace => pc' = sframe.pc - (sframe.pc % 2)
             /\ (SIE \in bits'["SSTATUS"]) = sframe.ie]_vars

(* Machine mode is entered by a trap alone, which sends the hart to MTVEC's *)
(* handler: no instruction of a User or Supervisor program, MRET and SRET   *)
(* included, leaves it in Machine mode at an address of its choice.         *)
MachineOnlyByTrap ==
    [][mode # Machine /\ mode' = Machine
         => /\ mframe'.on /\ mframe'.mode = mode /\ mframe'.pc = pc
            /\ pc' \in {Low(word["MTVEC"]), Dec(Low(word["MTVEC"]))}
                       \cup {Dec(VectorOf("MTVEC", i)) : i \in Interrupts}]_vars

(* An exception raised by an instruction enters its handler: the next       *)
(* instruction fetched is the first of STVEC's or MTVEC's handler, unless   *)
(* an interrupt is taken first.                                             *)
ExceptionEntersHandler ==
    entry.by = "exception" /\ stage \in {"top", "fetch"} => pc = entry.at

(* "PC is set to the respective exception handler" (take_interrupt): when   *)
(* an interrupt has been taken, the next instruction fetched is the first   *)
(* of the handler.                                                          *)
InterruptEntersHandler ==
    entry.by = "interrupt" /\ stage = "fetch" => pc = entry.at

(* "MPP is a two-bit field. 00 -> User, 01 -> Supervisor, 11 -> Machine"    *)
(* (trap): a handler that returns to Machine mode can do so.                *)
MachineHandlerReturns ==
    ~(stage = "aborted" /\ op = "MRET" /\ mframe.on /\ mframe.mode = Machine)
=============================================================================
