-------------------------------- MODULE ISA --------------------------------
(***************************************************************************)
(* What the integer, multiply/divide and atomic instructions of vemu       *)
(* compute (the instruction methods of src/VEmu.cpp) on the register file  *)
(* (src/RegFile.cpp), the program counter and memory.                      *)
(*                                                                         *)
(* A register is a number below 2^XLEN, the value of its 64 bits taken as  *)
(* unsigned; S and SW read it, or its low word, as two's complement.  The  *)
(* widths are multiples of ByteBits, 8 in the code, so that a byte, a half *)
(* word, a word and a double word stay in proportion in a small instance.  *)
(* C++ integer overflow is taken to wrap, which is what the compiled       *)
(* instructions do.                                                        *)
(*                                                                         *)
(* Memory is one aligned double word.  The bus (Bus::load, Bus::store) may *)
(* refuse any access with an exception, as MMU and the devices do.         *)
(***************************************************************************)
EXTENDS Integers

CONSTANTS
    ByteBits,   \* bits in a byte: 8
    Regs,       \* the registers, 0 included: 0 .. 31
    Values,     \* the values of registers at the start
    MemValues,  \* the values of memory at the start
    Addrs,      \* the addresses of loads and stores
    Imms,       \* the sign-extended immediates
    MaxSteps    \* bound: instructions in a behaviour

(* Powers of two: a shift by k, and the range of k bits. *)
Pow2[k \in Nat] == IF k = 0 THEN 1 ELSE 2 * Pow2[k - 1]

XLEN == 8 * ByteBits
WLEN == 4 * ByteBits
X == Pow2[XLEN]
W == Pow2[WLEN]

ASSUME ISAAssumption ==
    /\ ByteBits \in Nat \ {0} /\ MaxSteps \in Nat
    /\ \E k \in 0 .. ByteBits : ByteBits = Pow2[k]
    /\ 0 \in Regs /\ Values \subseteq 0 .. X - 1 /\ Imms \subseteq 0 .. X - 1
    /\ MemValues \subseteq 0 .. X - 1 /\ Addrs \subseteq 0 .. X - 1

VARIABLES
    iregs,   \* the integer registers
    pc,      \* the program counter
    mem,     \* the double word at address 0
    fflags,  \* the divide-by-zero bit of csrs[FFLAGS]
    n,       \* instructions executed, up to MaxSteps
    last     \* history: the last instruction and its result

vars == <<iregs, pc, mem, fflags, n, last>>

-----------------------------------------------------------------------------
(* Conversions.  Reg and RegW are the register values of an int64_t and of  *)
(* an int32_t, SextFrom that of the low b bits.                             *)
SextFrom(x, b) == IF x % Pow2[b] < Pow2[b - 1] THEN x % Pow2[b] ELSE (x % Pow2[b]) + X - Pow2[b]
S(x) == IF x < X \div 2 THEN x ELSE x - X
UW(x) == x % W
SW(x) == IF UW(x) < W \div 2 THEN UW(x) ELSE UW(x) - W
Reg(z) == z % X
RegW(z) == SextFrom(z, WLEN)
Bool(p) == IF p THEN 1 ELSE 0

(* The C++ operators &, | and ^ on two numbers of at most XLEN bits, and    *)
(* the number that has the given bits.                                      *)
Bit(x, k) == (x \div Pow2[k]) % 2
OfBits(bit) ==
    LET sum[k \in 0 .. XLEN] == IF k = 0 THEN 0 ELSE sum[k - 1] + bit[k - 1] * Pow2[k - 1]
    IN  sum[XLEN]
BitAnd(x, y) == OfBits([k \in 0 .. XLEN - 1 |-> Bit(x, k) * Bit(y, k)])
BitOr(x, y) == OfBits([k \in 0 .. XLEN - 1 |-> Bool(Bit(x, k) + Bit(y, k) > 0)])
BitXor(x, y) == OfBits([k \in 0 .. XLEN - 1 |-> (Bit(x, k) + Bit(y, k)) % 2])

(* The C++ operators / and % round towards zero. *)
Abs(z) == IF z < 0 THEN -z ELSE z
QuotientFloor(a, b) == IF b > 0 THEN a \div b ELSE (-a) \div (-b)
Quotient(a, b) == IF (a < 0) = (b < 0) THEN Abs(a) \div Abs(b) ELSE -(Abs(a) \div Abs(b))
Remainder(a, b) == a - b * Quotient(a, b)

(* ADDI .. ANDI and SLLI .. SRAIW: the immediate is already sign-extended.  *)
OpImmSet == {"ADDI", "ADDIW", "SLTI", "SLTIU", "XORI", "ORI", "ANDI"}
OpImm(op, a, imm) ==
    CASE op = "ADDI" -> Reg(S(a) + S(imm))
      [] op = "ADDIW" -> RegW(S(a) + S(imm))
      [] op = "SLTI" -> Bool(S(a) < S(imm))
      [] op = "SLTIU" -> Bool(a < imm)
      [] op = "XORI" -> BitXor(a, imm)
      [] op = "ORI" -> BitOr(a, imm)
      [] op = "ANDI" -> BitAnd(a, imm)

ShiftImmSet == {"SLLI", "SRLI", "SRAI", "SLLIW", "SRLIW", "SRAIW"}
ShiftImm(op, a, imm) ==
    CASE op = "SLLI" -> Reg(a * Pow2[imm % XLEN])
      [] op = "SRLI" -> a \div Pow2[imm % XLEN]
      [] op = "SRAI" -> Reg(S(a) \div Pow2[imm % XLEN])
      [] op = "SLLIW" -> RegW(UW(a) * Pow2[imm % WLEN])
      [] op = "SRLIW" -> RegW(UW(a) \div Pow2[imm % WLEN])
      [] op = "SRAIW" -> RegW(SW(a) \div Pow2[imm % WLEN])

AddSet == {"ADD", "ADDW", "SUB", "SUBW"}
Add(op, a, b) ==
    CASE op = "ADD" -> Reg(S(a) + S(b))
      [] op = "ADDW" -> RegW(SW(a) + SW(b))
      [] op = "SUB" -> Reg(S(a) - S(b))
      [] op = "SUBW" -> RegW(SW(a) - SW(b))

ShiftLeftSet == {"SLL", "SLLW", "SLT", "SLTU", "XOR"}
ShiftLeft(op, a, b) ==
    CASE op = "SLL" -> Reg(a * Pow2[b % XLEN])
      [] op = "SLLW" -> RegW(UW(a) * Pow2[b % WLEN])
      [] op = "SLT" -> Bool(S(a) < S(b))
      [] op = "SLTU" -> Bool(a < b)
      [] op = "XOR" -> BitXor(a, b)

(* MULHSU multiplies the two as unsigned 128-bit numbers, rs1 extended with *)
(* its sign.                                                                *)
MulSet == {"MUL", "MULW", "MULH", "MULHU", "MULHSU"}
MulUnsigned(op, a, b) == IF op = "MUL" THEN Reg(a * b) ELSE IF op = "MULW" THEN RegW(UW(a) * UW(b)) ELSE (a * b) \div X
Mul(op, a, b) ==
    CASE op = "MUL" -> Reg(S(a) * S(b))
      [] op = "MULW" -> RegW(SW(a) * SW(b))
      [] op = "MULH" -> Reg((S(a) * S(b)) \div X)
      [] op = "MULHU" -> Reg((a * b) \div X)
      [] op = "MULHSU" -> Reg((((S(a) % (X * X)) * b) % (X * X)) \div X)

DivSet == {"DIV", "DIVU", "DIVW", "DIVUW"}
DivRounding(op, a, b) ==
    CASE op = "DIV" -> IF b = 0 THEN X - 1 ELSE Reg(QuotientFloor(S(a), S(b)))
      [] op = "DIVU" -> IF b = 0 THEN X - 1 ELSE Reg(a \div b)
      [] op = "DIVW" -> IF SW(b) = 0 THEN X - 1 ELSE RegW(QuotientFloor(SW(a), SW(b)))
      [] op = "DIVUW" -> IF UW(b) = 0 THEN X - 1 ELSE RegW(UW(a) \div UW(b))
Div(op, a, b) ==
    CASE op = "DIV" -> IF b = 0 THEN X - 1
                       ELSE IF S(a) = -(X \div 2) /\ S(b) = -1 THEN a
                       ELSE Reg(Quotient(S(a), S(b)))
      [] op = "DIVU" -> IF b = 0 THEN X - 1 ELSE Reg(a \div b)
      [] op = "DIVW" -> IF SW(b) = 0 THEN X - 1
                        ELSE IF SW(a) = -(W \div 2) /\ SW(b) = -1 THEN RegW(a)
                        ELSE RegW(Quotient(SW(a), SW(b)))
      [] op = "DIVUW" -> IF UW(b) = 0 THEN X - 1 ELSE RegW(UW(a) \div UW(b))

ZeroDivisor(op, b) == IF op \in {"DIV", "DIVU"} THEN b = 0 ELSE UW(b) = 0

RemSet == {"REM", "REMU", "REMW", "REMUW"}
Rem(op, a, b) ==
    CASE op = "REM" -> IF b = 0 THEN a
                       ELSE IF S(a) = -(X \div 2) /\ S(b) = -1 THEN 0
                       ELSE Reg(Remainder(S(a), S(b)))
      [] op = "REMU" -> IF b = 0 THEN a ELSE Reg(a % b)
      [] op = "REMW" -> IF SW(b) = 0 THEN RegW(a)
                        ELSE IF SW(a) = -(W \div 2) /\ SW(b) = -1 THEN 0
                        ELSE Reg(Remainder(SW(a), SW(b)))
      [] op = "REMUW" -> IF UW(b) = 0 THEN RegW(a) ELSE RegW(UW(a) % UW(b))

ShiftRightSet == {"SRL", "SRLW", "SRA", "SRAW"}
ShiftRightWide(op, a, b) ==
    CASE op \in {"SRL", "SRLW"} -> a \div Pow2[b % XLEN]
      [] op \in {"SRA", "SRAW"} -> Reg(S(a) \div Pow2[b % XLEN])
ShiftRight(op, a, b) ==
    CASE op = "SRL" -> a \div Pow2[b % XLEN]
      [] op = "SRLW" -> RegW(UW(a) \div Pow2[b % WLEN])
      [] op = "SRA" -> Reg(S(a) \div Pow2[b % XLEN])
      [] op = "SRAW" -> RegW(SW(a) \div Pow2[b % WLEN])

OrAndSet == {"OR", "AND"}
OrAnd(op, a, b) == IF op = "OR" THEN BitOr(a, b) ELSE BitAnd(a, b)

OpRegSet == AddSet \cup ShiftLeftSet \cup MulSet \cup DivSet \cup RemSet \cup ShiftRightSet \cup OrAndSet
OpReg(op, a, b) ==
    CASE op \in AddSet -> Add(op, a, b)
      [] op \in ShiftLeftSet -> ShiftLeft(op, a, b)
      [] op \in MulSet -> Mul(op, a, b)
      [] op \in DivSet -> Div(op, a, b)
      [] op \in RemSet -> Rem(op, a, b)
      [] op \in ShiftRightSet -> ShiftRight(op, a, b)
      [] op \in OrAndSet -> OrAnd(op, a, b)

-----------------------------------------------------------------------------
(* The value that an atomic memory operation stores, from the loaded value  *)
(* and register rs2.                                                        *)
AmoSetW == {"AMOSWAPW", "AMOADDW", "AMOANDW", "AMOORW", "AMOXORW"}
AmoW(op, t, b) ==
    CASE op = "AMOSWAPW" -> UW(b)
      [] op = "AMOADDW" -> (SW(t) + SW(b)) % W
      [] op = "AMOANDW" -> BitAnd(UW(t), UW(b))
      [] op = "AMOORW" -> BitOr(UW(t), UW(b))
      [] op = "AMOXORW" -> BitXor(UW(t), UW(b))

AmoMinMaxSetW == {"AMOMINW", "AMOMAXW", "AMOMINUW", "AMOMAXUW"}
AmoMinMaxW(op, t, b) ==
    CASE op = "AMOMINW" -> IF SW(t) < SW(b) THEN UW(t) ELSE UW(b)
      [] op = "AMOMAXW" -> IF SW(t) > SW(b) THEN UW(t) ELSE UW(b)
      [] op = "AMOMINUW" -> IF UW(t) < UW(b) THEN UW(t) ELSE UW(b)
      [] op = "AMOMAXUW" -> IF UW(t) > UW(b) THEN UW(t) ELSE UW(b)

AmoSetD == {"AMOSWAPD", "AMOADDD", "AMOXORD", "AMOANDD", "AMOORD"}
AmoD(op, t, b) ==
    CASE op = "AMOSWAPD" -> b
      [] op = "AMOADDD" -> Reg(S(t) + S(b))
      [] op = "AMOXORD" -> BitXor(t, b)
      [] op = "AMOANDD" -> BitAnd(t, b)
      [] op = "AMOORD" -> BitOr(t, b)

AmoMinMaxSetD == {"AMOMIND", "AMOMAXD", "AMOMINUD", "AMOMAXUD"}
AmoMinMaxD(op, t, b) ==
    CASE op = "AMOMIND" -> IF S(t) < S(b) THEN t ELSE b
      [] op = "AMOMAXD" -> IF S(t) > S(b) THEN t ELSE b
      [] op = "AMOMINUD" -> IF t < b THEN t ELSE b
      [] op = "AMOMAXUD" -> IF t > b THEN t ELSE b

AmoOps == AmoSetW \cup AmoMinMaxSetW \cup AmoSetD \cup AmoMinMaxSetD
AmoBytes(op) == IF op \in AmoSetW \cup AmoMinMaxSetW THEN 4 ELSE 8
Amo(op, t, b) ==
    CASE op \in AmoSetW -> AmoW(op, t, b)
      [] op \in AmoMinMaxSetW -> AmoMinMaxW(op, t, b)
      [] op \in AmoSetD -> AmoD(op, t, b)
      [] op \in AmoMinMaxSetD -> AmoMinMaxD(op, t, b)

-----------------------------------------------------------------------------
(* The nb bytes of memory at address a, and memory with them replaced. *)
MemBytes(a, nb) == (mem \div Pow2[ByteBits * a]) % Pow2[ByteBits * nb]
MemWith(a, nb, v) == mem + ((v % Pow2[ByteBits * nb]) - MemBytes(a, nb)) * Pow2[ByteBits * a]
InMemory(a, nb) == a <= 8 - nb

(* RegFile::store_reg. *)
StoreRegAny(rd, v) == [iregs EXCEPT ![rd] = v]
StoreReg(rd, v) == IF rd = 0 THEN iregs ELSE [iregs EXCEPT ![rd] = v]

Normal == "NormalExecutionReturn"
Last(op, rd, a, b, exc) == [op |-> op, rd |-> rd, a |-> a, b |-> b, exc |-> exc]

(* One instruction that does not jump; run() adds 4 to the pc.  a and b are *)
(* its operands, or its address and the value loaded or stored; exc is what *)
(* its method returns.                                                      *)
Step(op, rd, a, b, exc) ==
    /\ n' = n + 1
    /\ pc' = Reg(pc + 4)
    /\ last' = Last(op, rd, a, b, exc)

-----------------------------------------------------------------------------
(* RegFile::RegFile, after some instructions have given it values. *)
Init ==
    /\ iregs \in {f \in [Regs -> Values] : f[0] = 0}
    /\ pc = X - 4
    /\ mem \in MemValues
    /\ fflags = FALSE
    /\ n = 0
    /\ last = Last("none", 0, 0, 0, Normal)

ExecImm(op, rd, rs1, imm) ==
    /\ Step(op, rd, 0, 0, Normal)
    /\ iregs' = StoreReg(rd, IF op \in OpImmSet THEN OpImm(op, iregs[rs1], imm)
                                                 ELSE ShiftImm(op, iregs[rs1], imm))
    /\ UNCHANGED <<mem, fflags>>

(* Division by zero also raises the floating-point flag. *)
ExecReg(op, rd, rs1, rs2) ==
    /\ Step(op, rd, iregs[rs1], iregs[rs2], Normal)
    /\ iregs' = StoreReg(rd, OpReg(op, iregs[rs1], iregs[rs2]))
    /\ fflags' = (fflags \/ (op \in DivSet /\ ZeroDivisor(op, iregs[rs2])))
    /\ UNCHANGED mem

(* LUI and AUIPC. *)
ExecUpper(op, rd, imm) ==
    /\ Step(op, rd, 0, 0, Normal)
    /\ iregs' = StoreReg(rd, IF op = "LUI" THEN imm ELSE Reg(pc + imm))
    /\ UNCHANGED <<mem, fflags>>

(* An instruction that jumps to target, 4 below which run() resumes. *)
Jump(op, rd, a, b, target) ==
    /\ n' = n + 1
    /\ pc' = Reg(Reg(target - 4) + 4)
    /\ last' = Last(op, rd, a, b, Normal)
    /\ UNCHANGED <<mem, fflags>>

BranchSet == {"BEQ", "BNE", "BLT", "BGE", "BLTU", "BGEU"}
Taken(op, a, b) ==
    CASE op = "BEQ" -> a = b
      [] op = "BNE" -> a # b
      [] op = "BLT" -> S(a) < S(b)
      [] op = "BGE" -> S(a) >= S(b)
      [] op = "BLTU" -> a < b
      [] op = "BGEU" -> a >= b
Branch(op, rs1, rs2, imm) ==
    /\ Jump(op, 0, 0, 0, IF Taken(op, iregs[rs1], iregs[rs2]) THEN Reg(pc + imm) ELSE Reg(pc + 4))
    /\ UNCHANGED iregs

JAL(rd, imm) ==
    /\ Jump("JAL", rd, 0, 0, Reg(pc + imm))
    /\ iregs' = StoreReg(rd, Reg(pc + 4))

(* JALR reads rs1 before it writes rd, and clears bit 0 of the target.      *)
JalrBaseLate(rd, rs1) == IF rd = rs1 /\ rd # 0 THEN Reg(pc + 4) ELSE iregs[rs1]
JalrBase(rd, rs1) == iregs[rs1]
JALR(rd, rs1, imm) ==
    /\ LET t == Reg(JalrBase(rd, rs1) + imm) IN Jump("JALR", rd, iregs[rs1], imm, t - (t % 2))
    /\ iregs' = StoreReg(rd, Reg(pc + 4))

(* LBU, LHU, LWU and LD write rd only when the bus returns a value.         *)
UnsignedLoads == [LBU |-> 1, LHU |-> 2, LWU |-> 4, LD |-> 8]
LoadUnsigned(op, rd, a, ok) ==
    /\ ok => InMemory(a, UnsignedLoads[op])
    /\ Step(op, rd, a, IF ok THEN MemBytes(a, UnsignedLoads[op]) ELSE 0,
            IF ok THEN Normal ELSE "LoadAccessFault")
    /\ iregs' = IF ok THEN StoreReg(rd, MemBytes(a, UnsignedLoads[op])) ELSE iregs
    /\ UNCHANGED <<mem, fflags>>

(* LB, LH and LW call those, drop their exception and extend the sign of    *)
(* whatever rd then holds.                                                  *)
SignedLoads == [LB |-> 1, LH |-> 2, LW |-> 4]
LoadSigned(op, rd, a, ok) ==
    LET nb == SignedLoads[op]
        loaded == IF ok THEN StoreReg(rd, MemBytes(a, nb)) ELSE iregs
    IN  /\ ok => InMemory(a, nb)
        /\ Step(op, rd, a, IF ok THEN MemBytes(a, nb) ELSE 0, Normal)
        /\ iregs' = IF rd = 0 THEN iregs
                    ELSE [loaded EXCEPT ![rd] = SextFrom(@, ByteBits * nb)]
        /\ UNCHANGED <<mem, fflags>>

Stores == [SB |-> 1, SH |-> 2, SW |-> 4, SD |-> 8]
Store(op, a, rs2, ok) ==
    /\ ok => InMemory(a, Stores[op])
    /\ Step(op, 0, a, iregs[rs2], IF ok THEN Normal ELSE "StoreAMOAccessFault")
    /\ mem' = IF ok THEN MemWith(a, Stores[op], iregs[rs2]) ELSE mem
    /\ UNCHANGED <<iregs, fflags>>

(* LRW and LRD: no reservation is kept, and LRW does not extend the sign.   *)
LrBytes == [LRW |-> 4, LRD |-> 8]
LoadReserved(op, rd, a, ok) ==
    LET nb == LrBytes[op]
        aligned == a % nb = 0
    IN  /\ ok => InMemory(a, nb)
        /\ Step(op, rd, a, IF ok /\ aligned THEN MemBytes(a, nb) ELSE 0,
                IF ~aligned THEN "LoadAddressMisaligned"
                ELSE IF ok THEN Normal ELSE "LoadAccessFault")
        /\ iregs' = IF ok /\ aligned THEN StoreReg(rd, MemBytes(a, nb)) ELSE iregs
        /\ UNCHANGED <<mem, fflags>>

(* SCW and SCD report success whatever became of the store. *)
ScBytes == [SCW |-> 4, SCD |-> 8]
StoreConditional(op, rd, a, rs2, ok) ==
    LET nb == ScBytes[op]
        aligned == a % nb = 0
    IN  /\ ok => InMemory(a, nb)
        /\ Step(op, rd, a, iregs[rs2], IF ~aligned THEN "StoreAMOAddressMisaligned"
                                       ELSE IF ok THEN Normal ELSE "StoreAMOAccessFault")
        /\ mem' = IF ok /\ aligned THEN MemWith(a, nb, iregs[rs2]) ELSE mem
        /\ iregs' = IF aligned THEN StoreReg(rd, 0) ELSE iregs
        /\ UNCHANGED fflags

(* The AMO instructions read rs2, and keep what they load until they have   *)
(* stored; only then they write rd, with the sign of what was there.        *)
AmoOldValue(op, a) == IF AmoBytes(op) = 4 THEN SextFrom(MemBytes(a, 4), WLEN) ELSE MemBytes(a, 8)
AmoOperandLate(op, rd, a, rs2) == StoreReg(rd, AmoOldValue(op, a))[rs2]
AmoOperand(op, rd, a, rs2) == iregs[rs2]

(* They return at the first of a misaligned address, a refused load and a   *)
(* refused store.                                                           *)
AmoReturns(op, rd, a, rs2, exc) ==
    /\ Step(op, rd, a, iregs[rs2], exc)
    /\ UNCHANGED <<mem, iregs, fflags>>
AmoStores(op, rd, a, rs2) ==
    LET t == MemBytes(a, AmoBytes(op))
    IN  /\ Step(op, rd, a, iregs[rs2], Normal)
        /\ mem' = MemWith(a, AmoBytes(op), Amo(op, t, AmoOperand(op, rd, a, rs2)))
        /\ iregs' = StoreReg(rd, AmoOldValue(op, a))
        /\ UNCHANGED fflags
ExecAmo(op, rd, a, rs2, loads, stores) ==
    LET aligned == a % AmoBytes(op) = 0
    IN  /\ loads => InMemory(a, AmoBytes(op))
        /\ \/ ~aligned /\ AmoReturns(op, rd, a, rs2, "LoadAddressMisaligned")
           \/ aligned /\ ~loads /\ AmoReturns(op, rd, a, rs2, "LoadAccessFault")
           \/ aligned /\ loads /\ ~stores /\ AmoReturns(op, rd, a, rs2, "StoreAMOAccessFault")
           \/ aligned /\ loads /\ stores /\ AmoStores(op, rd, a, rs2)

Instruction ==
    \/ \E op \in OpImmSet \cup ShiftImmSet, rd, rs1 \in Regs, imm \in Imms : ExecImm(op, rd, rs1, imm)
    \/ \E op \in OpRegSet, rd, rs1, rs2 \in Regs : ExecReg(op, rd, rs1, rs2)
    \/ \E op \in {"LUI", "AUIPC"}, rd \in Regs, imm \in Imms : ExecUpper(op, rd, imm)
    \/ \E op \in BranchSet, rs1, rs2 \in Regs, imm \in Imms : Branch(op, rs1, rs2, imm)
    \/ \E rd \in Regs, imm \in Imms : JAL(rd, imm)
    \/ \E rd, rs1 \in Regs, imm \in Imms : JALR(rd, rs1, imm)
    \/ \E op \in DOMAIN UnsignedLoads, rd \in Regs, a \in Addrs, ok \in BOOLEAN : LoadUnsigned(op, rd, a, ok)
    \/ \E op \in DOMAIN SignedLoads, rd \in Regs, a \in Addrs, ok \in BOOLEAN : LoadSigned(op, rd, a, ok)
    \/ \E op \in DOMAIN Stores, a \in Addrs, rs2 \in Regs, ok \in BOOLEAN : Store(op, a, rs2, ok)
    \/ \E op \in DOMAIN LrBytes, rd \in Regs, a \in Addrs, ok \in BOOLEAN : LoadReserved(op, rd, a, ok)
    \/ \E op \in DOMAIN ScBytes, rd, rs2 \in Regs, a \in Addrs, ok \in BOOLEAN : StoreConditional(op, rd, a, rs2, ok)
    \/ \E op \in AmoOps, rd, rs2 \in Regs, a \in Addrs, loads, stores \in BOOLEAN : ExecAmo(op, rd, a, rs2, loads, stores)

Next == n < MaxSteps /\ Instruction

Spec == Init /\ [][Next]_vars

-----------------------------------------------------------------------------
(* Registers, memory and pc stay in their width, and register x0 stays zero *)
(* (store_reg) whatever instruction names it as its destination.            *)
TypeOK ==
    /\ iregs \in [Regs -> 0 .. X - 1] /\ iregs[0] = 0
    /\ pc \in 0 .. X - 1 /\ mem \in 0 .. X - 1
    /\ fflags \in BOOLEAN /\ n \in 0 .. MaxSteps

(* DIV .. DIVUW and REM .. REMUW agree with each other as RISC-V demands:   *)
(* dividend = divisor * quotient + remainder, the remainder is smaller than *)
(* the divisor and has the dividend's sign; division by zero gives -1 and   *)
(* the dividend; and the one overflow gives the dividend and 0.             *)
DividesExactly(a, b, q, r) ==
    /\ b = 0 => q = -1 /\ r = a
    /\ b # 0 => /\ Abs(r) < Abs(b) /\ (r = 0 \/ (r < 0) = (a < 0))
DivisionIdentity ==
    last.op \in DivSet \cup RemSet =>
        LET a == last.a
            b == last.b
            q(op) == Div(op, a, b)
            r(op) == Rem(op, a, b)
        IN  /\ DividesExactly(S(a), S(b), S(q("DIV")), S(r("REM")))
            /\ Reg(S(b) * S(q("DIV")) + S(r("REM"))) = a
            /\ b # 0 => a = b * q("DIVU") + r("REMU") /\ r("REMU") < b
            /\ b = 0 => q("DIVU") = X - 1 /\ r("REMU") = a
            /\ DividesExactly(SW(a), SW(b), S(q("DIVW")), S(r("REMW")))
            /\ UW(SW(b) * SW(q("DIVW")) + SW(r("REMW"))) = UW(a)
            /\ UW(b) # 0 => UW(a) = UW(b) * UW(q("DIVUW")) + UW(r("REMUW"))

(* MUL with MULH, MULHSU or MULHU are the two halves of the 128-bit product *)
(* of the operands read with the signs each promises.                       *)
ProductHalves ==
    last.op \in MulSet =>
        LET a == last.a
            b == last.b
            low == Mul("MUL", a, b)
        IN  /\ S(Mul("MULH", a, b)) * X + low = S(a) * S(b)
            /\ S(Mul("MULHSU", a, b)) * X + low = S(a) * b
            /\ Mul("MULHU", a, b) * X + low = a * b

(* The W instructions see only the low word of their operands and return a  *)
(* sign-extended word, division by zero and overflow included.              *)
WordOps == {"ADDW", "SUBW", "SLLW", "MULW", "DIVW", "DIVUW", "REMW", "REMUW", "SRLW", "SRAW"}
WordOpsAreWords ==
    last.op \in WordOps =>
        LET v == OpReg(last.op, last.a, last.b)
        IN  /\ v = RegW(v)
            /\ v = OpReg(last.op, RegW(last.a), UW(last.b))

(* An atomic operation exchanges: rd gets the old value, extended with its  *)
(* sign, and memory what the operation makes of the old value and of the    *)
(* operand as it was before, even when rd is the operand's register; no     *)
(* other register and no byte beside the operand changes.  What AND, OR and *)
(* XOR make of single bits is left to their definition.                     *)
NewBytes(a, nb) == (mem' \div Pow2[ByteBits * a]) % Pow2[ByteBits * nb]
Combines(op, t, u, v) ==
    /\ op \in {"AMOSWAPW", "AMOSWAPD"} => v = u
    /\ op \in {"AMOADDW", "AMOADDD"} => (v - t - u) % Pow2[ByteBits * AmoBytes(op)] = 0
    /\ op \in AmoMinMaxSetW \cup AmoMinMaxSetD => v \in {t, u}
    /\ op = "AMOMINW" => SW(v) <= SW(t) /\ SW(v) <= SW(u)
    /\ op = "AMOMAXW" => SW(v) >= SW(t) /\ SW(v) >= SW(u)
    /\ op = "AMOMIND" => S(v) <= S(t) /\ S(v) <= S(u)
    /\ op = "AMOMAXD" => S(v) >= S(t) /\ S(v) >= S(u)
    /\ op \in {"AMOMINUW", "AMOMINUD"} => v <= t /\ v <= u
    /\ op \in {"AMOMAXUW", "AMOMAXUD"} => v >= t /\ v >= u
AmoDone ==
    LET a == last'.a
        nb == AmoBytes(last'.op)
        t == MemBytes(a, nb)
    IN  /\ \A r \in Regs \ {last'.rd} : iregs'[r] = iregs[r]
        /\ last'.rd # 0 => S(iregs'[last'.rd]) = IF nb = 4 THEN SW(t) ELSE S(t)
        /\ mem' % Pow2[ByteBits * a] = mem % Pow2[ByteBits * a]
        /\ mem' \div Pow2[ByteBits * (a + nb)] = mem \div Pow2[ByteBits * (a + nb)]
        /\ Combines(last'.op, t, last'.b % Pow2[ByteBits * nb], NewBytes(a, nb))
AmosExchange == [][last'.op \in AmoOps /\ last'.exc = Normal => AmoDone]_vars

(* A call through a register returns: JAL and JALR leave in rd the address  *)
(* after the jump, and JALR goes to where rs1 pointed, even when rd is rs1. *)
JumpsLink ==
    [][/\ last'.op \in {"JAL", "JALR"} /\ last'.rd # 0 => iregs'[last'.rd] = Reg(pc + 4)
       /\ last'.op = "JALR" => /\ pc' % 2 = 0
                               /\ Reg(last'.a + last'.b) - pc' \in {0, 1}]_vars
=============================================================================
