------------------------------ MODULE Decoder ------------------------------
(***************************************************************************)
(* The instruction decoder (src/InstructionDecoder.cpp) with its two       *)
(* caches, and the table of methods that run() calls with its result       *)
(* (src/VEmu.cpp).  The decoder is one object for all emulators of the     *)
(* process, so its caches outlive a program.                               *)
(*                                                                         *)
(* A 32-bit word is the set of its bits: a mask is an intersection and a   *)
(* shift adds to every bit number.  The decoder's loops return the first   *)
(* name of a std::map that fits; here they are the set of the names that   *)
(* fit, which Unambiguous shows to have one member at most.                *)
(***************************************************************************)
EXTENDS Naturals, FiniteSets

CONSTANTS
    Programs,     \* the sets of words that one process may come to decode
    Disassembly   \* words with the name the disassembler gives them

Bits == 0 .. 31
Word == SUBSET Bits

ASSUME DecoderAssumption ==
    /\ Programs \subseteq SUBSET Word
    /\ \A d \in Disassembly : d[1] \in Word

VARIABLES
    program,               \* the words this process meets, in all programs it runs
    instr_cache,           \* decoded instructions, by word
    opcode_to_type_cache,  \* formats, by opcode
    hex_instr, curr_instr, \* the word fetched last, and what decode() made of it
    status                 \* "running", or "crashed" by an uncaught exception

vars == <<program, instr_cache, opcode_to_type_cache, hex_instr, curr_instr, status>>

-----------------------------------------------------------------------------
(* Words. *)
Shr(b, k) == {i - k : i \in {j \in b : j >= k}}
Shl(b, k) == {i + k : i \in b} \cap Bits
Sar(b, k) == Shr(b, k) \cup (IF 31 \in b THEN (32 - k) .. 31 ELSE {})

(* The value of a field of at most seven bits. *)
Num(b) ==
    LET bit(i) == IF i \in b THEN 2^i ELSE 0
    IN bit(0) + bit(1) + bit(2) + bit(3) + bit(4) + bit(5) + bit(6)

-----------------------------------------------------------------------------
(* The tables.  Keyed turns pairs of a value and the names that have it     *)
(* into the map from names to values that the source writes out.            *)
Keyed(groups) ==
    [n \in UNION {g[2] : g \in groups} |-> (CHOOSE g \in groups : n \in g[2])[1]]

i_opcodes == Keyed({
    <<\b0000011, {"LB", "LBU", "LH", "LHU", "LW", "LD", "LWU"}>>,
    <<\b0010011, {"ADDI", "SLTI", "SLTIU", "XORI", "ORI", "ANDI", "SLLI", "SRLI", "SRAI"}>>,
    <<\b0011011, {"ADDIW", "SLLIW", "SRLIW", "SRAIW"}>>,
    <<\b1100111, {"JALR"}>>,
    <<\b0001111, {"FENCE", "FENCEI"}>>,
    <<\b1110011, {"ECALL", "EBREAK", "CSRRW", "CSRRS", "CSRRC", "CSRRWI", "CSRRSI", "CSRRCI"}>>,
    <<\b0000111, {"FLW"}>>})

AM_OPCODE == \b0101111
FP_R_OPCODE == \b1010011

r_opcodes == Keyed({
    <<\b0110011, {"ADD", "SUB", "SLL", "SLT", "SLTU", "XOR", "SRL", "SRA", "OR", "AND",
                  "MUL", "MULH", "MULHSU", "MULHU", "DIV", "DIVU", "REM", "REMU"}>>,
    <<\b0111011, {"ADDW", "SUBW", "SLLW", "SRLW", "SRAW",
                  "MULW", "DIVW", "DIVUW", "REMW", "REMUW"}>>,
    <<AM_OPCODE, {"LRW", "SCW", "AMOSWAPW", "AMOADDW", "AMOXORW", "AMOANDW", "AMOORW",
                  "AMOMINW", "AMOMAXW", "AMOMINUW", "AMOMAXUW",
                  "LRD", "SCD", "AMOSWAPD", "AMOADDD", "AMOXORD", "AMOANDD", "AMOORD",
                  "AMOMIND", "AMOMAXD", "AMOMINUD", "AMOMAXUD"}>>,
    <<FP_R_OPCODE, {"FADDS", "FSUBS", "FMULS", "FDIVS", "FSQRTS", "FSGNJS", "FSGNJNS",
                    "FSGNJXS", "FMINS", "FMAXS", "FCVTWS", "FCVTWUS", "FMVXW", "FEQS",
                    "FLTS", "FLES", "FCLASSS", "FCVTSW", "FCVTSWU", "FMVWX",
                    "FCVTLS", "FCVTLUS", "FCVTSLU"}>>})

r4_opcodes == Keyed({
    <<\b1000011, {"FMADDS"}>>, <<\b1000111, {"FMSUBS"}>>,
    <<\b1001011, {"FNMSUBS"}>>, <<\b1001111, {"FNMADDS"}>>})
b_opcodes == Keyed({<<\b1100011, {"BEQ", "BNE", "BLT", "BGE", "BLTU", "BGEU"}>>})
s_opcodes == Keyed({<<\b0100011, {"SB", "SH", "SW", "SD"}>>, <<\b0100111, {"FSW"}>>})
j_opcodes == Keyed({<<\b1101111, {"JAL"}>>})
u_opcodes == Keyed({<<\b0110111, {"LUI"}>>, <<\b0010111, {"AUIPC"}>>})

i_funct3 == Keyed({
    <<0, {"LB", "ADDI", "ADDIW", "ECALL", "EBREAK", "FENCE", "JALR"}>>,
    <<1, {"LH", "SLLI", "SLLIW", "FENCEI", "CSRRW"}>>,
    <<2, {"LW", "SLTI", "CSRRS", "FLW"}>>,
    <<3, {"LD", "SLTIU", "CSRRC"}>>,
    <<4, {"LBU", "XORI"}>>,
    <<5, {"LHU", "SRLI", "SRAI", "SRLIW", "SRAIW", "CSRRWI"}>>,
    <<6, {"LWU", "ORI", "CSRRSI"}>>,
    <<7, {"ANDI", "CSRRCI"}>>})

r_funct3 == Keyed({
    <<0, {"ADD", "ADDW", "SUB", "SUBW", "MUL", "MULW",
          "FSGNJS", "FMINS", "FMVXW", "FLES", "FMVWX"}>>,
    <<1, {"SLL", "SLLW", "MULH", "FSGNJNS", "FMAXS", "FLTS", "FCLASSS"}>>,
    <<2, {"SLT", "MULHSU", "LRW", "SCW", "AMOSWAPW", "AMOADDW", "AMOXORW", "AMOANDW",
          "AMOORW", "AMOMINW", "AMOMAXW", "AMOMINUW", "AMOMAXUW", "FSGNJXS", "FEQS"}>>,
    <<3, {"SLTU", "MULHU", "LRD", "SCD", "AMOSWAPD", "AMOADDD", "AMOXORD", "AMOANDD",
          "AMOORD", "AMOMIND", "AMOMAXD", "AMOMINUD", "AMOMAXUD"}>>,
    <<4, {"XOR", "DIV", "DIVW"}>>,
    <<5, {"SRL", "SRLW", "SRA", "SRAW", "DIVU", "DIVUW"}>>,
    <<6, {"OR", "REM", "REMW"}>>,
    <<7, {"AND", "REMU", "REMUW"}>>})

b_funct3 == Keyed({
    <<0, {"BEQ"}>>, <<1, {"BNE"}>>, <<4, {"BLT"}>>, <<5, {"BGE"}>>, <<6, {"BLTU"}>>,
    <<7, {"BGEU"}>>})
s_funct3 == Keyed({<<0, {"SB"}>>, <<1, {"SH"}>>, <<2, {"SW", "FSW"}>>, <<3, {"SD"}>>})

(* The second FCVTLS of the source is ignored: the first of two equal keys  *)
(* of a std::map's initialiser is kept.                                     *)
r_funct7 == Keyed({
    <<\b0000000, {"ADD", "ADDW", "SLL", "SLLW", "SLT", "SLTU", "XOR", "SRL", "SRLW",
                  "OR", "AND", "AMOADDW", "AMOADDD", "FADDS"}>>,
    <<\b0000001, {"MUL", "MULH", "MULHSU", "MULHU", "DIV", "DIVU", "REM", "REMU",
                  "MULW", "DIVW", "DIVUW", "REMW", "REMUW"}>>,
    <<\b0000100, {"AMOSWAPW", "AMOSWAPD", "FSUBS"}>>,
    <<\b0001000, {"LRW", "LRD", "FMULS"}>>,
    <<\b0001100, {"SCW", "SCD", "FDIVS"}>>,
    <<\b0010000, {"AMOXORW", "AMOXORD", "FSGNJS", "FSGNJNS", "FSGNJXS"}>>,
    <<\b0010100, {"FMINS", "FMAXS"}>>,
    <<\b0100000, {"SUB", "SUBW", "SRA", "SRAW", "AMOORW", "AMOORD"}>>,
    <<\b0101100, {"FSQRTS"}>>,
    <<\b0110000, {"AMOANDW", "AMOANDD"}>>,
    <<\b1000000, {"AMOMINW", "AMOMIND"}>>,
    <<\b1010000, {"AMOMAXW", "AMOMAXD", "FEQS", "FLTS", "FLES"}>>,
    <<\b1100000, {"AMOMINUW", "AMOMINUD", "FCVTWS", "FCVTWUS", "FCVTLS", "FCVTLUS"}>>,
    <<\b1101000, {"FCVTSW", "FCVTSWU", "FCVTSLU"}>>,
    <<\b1110000, {"AMOMAXUW", "AMOMAXUD", "FMVXW", "FCLASSS"}>>,
    <<\b1111000, {"FMVWX"}>>})

i_funct7 == Keyed({
    <<\b0000000, {"SLLI", "SRLI", "SLLIW", "SRLIW"}>>, <<\b0100000, {"SRAI", "SRAIW"}>>})
i_funct6 == Keyed({<<\b000000, {"SLLI", "SRLI"}>>, <<\b010000, {"SRAI"}>>})

(* The members of IName. *)
INames ==
    UNION {DOMAIN i_opcodes, DOMAIN r_opcodes, DOMAIN r4_opcodes, DOMAIN b_opcodes,
           DOMAIN s_opcodes, DOMAIN j_opcodes, DOMAIN u_opcodes,
           {"FCVTSL", "SRET", "MRET", "XXX"}}

(* The keys of inst_string_names, which lists FMSUBS and FCVTLS twice and   *)
(* two names not at all, and those of inst_funcs, which leaves one out.     *)
NamedShort == INames \ {"FNMADDS", "FCVTSL", "AMOADDD"}
Named == INames \ {"FNMADDS", "FCVTSL"}
Methods == INames \ {"FSQRTS"}

-----------------------------------------------------------------------------
(* instr_type: the format of an opcode.  No opcode is in two tables. *)
ValuesOf(table) == {table[n] : n \in DOMAIN table}
instr_type(op) ==
    CASE op \in ValuesOf(i_opcodes) -> "I"
      [] op \in ValuesOf(j_opcodes) -> "J"
      [] op \in ValuesOf(s_opcodes) -> "S"
      [] op \in ValuesOf(b_opcodes) -> "B"
      [] op \in ValuesOf(r_opcodes) -> "R"
      [] op \in ValuesOf(r4_opcodes) -> "R4"
      [] op \in ValuesOf(u_opcodes) -> "U"
      [] OTHER -> "WRONG"

(* The immediates, as the source cuts them out and extends them.  Masking   *)
(* is unsigned, so only the shifts of a whole immediate copy the sign.      *)
imm_i(w) == Sar(w \cap 20 .. 31, 20)
imm_s(w) == Sar(Shl(Shr(w \cap 7 .. 11, 7) \cup Shr(w \cap 25 .. 31, 20), 20), 20)
BPieces(w) ==
    UNION {Shr(w \cap 8 .. 11, 7), Shr(w \cap 25 .. 30, 20), Shl(w \cap {7}, 4),
           Shr(w \cap {31}, 19)}
imm_bUnextended(w) == BPieces(w)
imm_b(w) == Sar(Shl(BPieces(w), 19), 19)
imm_u(w) == w \cap 12 .. 31
imm_j(w) ==
    LET pieces ==
            UNION {Shr(w \cap 21 .. 24, 20), Shr(w \cap 25 .. 30, 20), Shr(w \cap {20}, 9),
                   w \cap 12 .. 19, Shr(w \cap {31}, 11)}
    IN Sar(Shl(pieces, 11), 11)

get_immediate(w, t) ==
    CASE t = "I" -> imm_i(w)
      [] t = "J" -> imm_j(w)
      [] t = "B" -> imm_b(w)
      [] t = "S" -> imm_s(w)
      [] t = "U" -> imm_u(w)
      [] t \in {"R", "R4", "WRONG"} -> {}

(* RS3_MASK of defs.h is 0xF1000000: bit 27 is not in it. *)
RS3_MASK == {24} \cup 28 .. 31

get_fields(w, t) ==
    LET cut(mask, k) == Num(Shr(w \cap mask, k))
    IN [OPCode |-> cut(0 .. 6, 0), rd |-> cut(7 .. 11, 7), funct3 |-> cut(12 .. 14, 12),
        rs1 |-> cut(15 .. 19, 15), rs2 |-> cut(20 .. 24, 20), funct7 |-> cut(25 .. 31, 25),
        shamt32 |-> cut(20 .. 24, 20), shamt64 |-> cut(20 .. 25, 20),
        funct6 |-> cut(26 .. 31, 26), imm |-> get_immediate(w, t),
        funct2 |-> cut(25 .. 26, 25), rs3 |-> cut(RS3_MASK, 27)]

NoFields ==
    [OPCode |-> 0, rd |-> 0, funct3 |-> 0, rs1 |-> 0, rs2 |-> 0, funct7 |-> 0, shamt32 |-> 0,
     shamt64 |-> 0, funct6 |-> 0, imm |-> {}, funct2 |-> 0, rs3 |-> 0]

-----------------------------------------------------------------------------
(* The names that fit an instruction with the fields f, one definition for  *)
(* each decode_x.                                                           *)
WithoutAqRl(f7) == f7 - (f7 % 4)
FitsR(f) ==
    {n \in DOMAIN r_funct3 :
        /\ f.OPCode = r_opcodes[n] /\ f.funct3 = r_funct3[n]
        /\ \/ f.funct7 = r_funct7[n]
           \/ f.OPCode = AM_OPCODE /\ WithoutAqRl(f.funct7) = r_funct7[n]}

ignore_f3(f) ==
    f.funct7 \in {\b0000000, \b0000100, \b0001000, \b0001100, \b0101100, \b1100000, \b1101000}

FitsFpWithF3(f) ==
    {n \in DOMAIN r_funct3 :
        f.funct3 = r_funct3[n] /\ f.OPCode = r_opcodes[n] /\ f.funct7 = r_funct7[n]}

FitsFpWithoutF3(f) ==
    CASE f.funct7 = \b1100000 ->
           IF f.rs2 <= 3 THEN {<<"FCVTWS", "FCVTWUS", "FCVTLS", "FCVTLUS">>[f.rs2 + 1]} ELSE {}
      [] f.funct7 = \b1101000 ->
           IF f.rs2 <= 3 THEN {<<"FCVTSW", "FCVTSWU", "FCVTSL", "FCVTSLU">>[f.rs2 + 1]} ELSE {}
      [] OTHER ->
           {n \in DOMAIN r_funct7 : f.funct7 = r_funct7[n] /\ f.OPCode = r_opcodes[n]}

(* r4_funct2 is 0 for all of them. *)
FitsR4(f) == {n \in DOMAIN r4_opcodes : f.OPCode = r4_opcodes[n] /\ f.funct2 = 0}

ImmediateFitsAny(n, f) == TRUE
ImmediateFits(n, f) ==
    CASE n = "ECALL" -> f.imm = {}
      [] n = "EBREAK" -> f.imm = {0}
      [] n \in {"SLLIW", "SRLIW", "SRAIW"} -> f.funct7 = i_funct7[n]
      [] n \in {"SLLI", "SRLI", "SRAI"} -> f.funct6 = i_funct6[n]
      [] OTHER -> TRUE
FitsI(f) ==
    {n \in DOMAIN i_funct3 :
        f.OPCode = i_opcodes[n] /\ f.funct3 = i_funct3[n] /\ ImmediateFits(n, f)}

FitsB(f) == {n \in DOMAIN b_funct3 : f.OPCode = b_opcodes[n] /\ f.funct3 = b_funct3[n]}
FitsS(f) == {n \in DOMAIN s_funct3 : f.OPCode = s_opcodes[n] /\ f.funct3 = s_funct3[n]}
FitsJ(f) == {n \in DOMAIN j_opcodes : f.OPCode = j_opcodes[n]}
FitsU(f) == {n \in DOMAIN u_opcodes : f.OPCode = u_opcodes[n]}

FitsFp(f) == IF ignore_f3(f) THEN FitsFpWithoutF3(f) ELSE FitsFpWithF3(f)
Fits(t, f) ==
    CASE t = "R" -> IF f.OPCode = FP_R_OPCODE THEN FitsFp(f) ELSE FitsR(f)
      [] t = "R4" -> FitsR4(f)
      [] t = "I" -> FitsI(f)
      [] t = "S" -> FitsS(f)
      [] t = "B" -> FitsB(f)
      [] t = "U" -> FitsU(f)
      [] t = "J" -> FitsJ(f)

(* The result of decode() for a word of format t that is in no cache.  A    *)
(* word that fits nothing is XXX, of format R if decode_fp_without_f3 says  *)
(* so.                                                                      *)
Fresh(w, t) ==
    LET f == get_fields(w, t)
        fits == Fits(t, f)
        keepsType == t = "R" /\ f.OPCode = FP_R_OPCODE /\ ignore_f3(f)
    IN CASE t = "WRONG" -> [type |-> "WRONG", name |-> "XXX", f |-> NoFields]
         [] t # "WRONG" /\ fits = {} ->
              [type |-> IF keepsType THEN "R" ELSE "WRONG", name |-> "XXX", f |-> f]
         [] OTHER -> [type |-> t, name |-> CHOOSE n \in fits : TRUE, f |-> f]

-----------------------------------------------------------------------------
(* init_fixed_instrs: 0x30200073 and 0x10200073. *)
MretWord == {0, 1, 4, 5, 6, 21, 28, 29}
SretWord == {0, 1, 4, 5, 6, 21, 28}
Fixed(n, f7) ==
    [type |-> "R", name |-> n,
     f |-> [NoFields EXCEPT !.OPCode = \b1110011, !.rs2 = \b00010, !.funct7 = f7]]
NoFixedInstrs == [w \in {} |-> {}]
FixedInstrs ==
    [w \in {MretWord, SretWord} |->
        IF w = MretWord THEN Fixed("MRET", \b0011000) ELSE Fixed("SRET", \b0001000)]

(* Nothing has been fetched yet: an Instruction that is default-initialised *)
None == [type |-> "WRONG", name |-> "XXX", f |-> NoFields]

Init ==
    /\ program \in Programs
    /\ instr_cache = FixedInstrs
    /\ opcode_to_type_cache = [op \in {} |-> "WRONG"]
    /\ hex_instr = {} /\ curr_instr = None
    /\ status = "running"

CacheKeyLow(w) == w \cap 0 .. 19
CacheKey(w) == w

With(cache, key, value) ==
    [k \in DOMAIN cache \cup {key} |-> IF k = key THEN value ELSE cache[k]]

(* run() calls the method of the decoded name; a name without a method is   *)
(* an empty std::function, and calling it throws.                           *)
Dispatch(w, instr) ==
    /\ hex_instr' = w /\ curr_instr' = instr
    /\ status' = IF instr.name \in Methods THEN "running" ELSE "crashed"

Hit(w) ==
    /\ status = "running" /\ CacheKey(w) \in DOMAIN instr_cache
    /\ Dispatch(w, instr_cache[CacheKey(w)])
    /\ UNCHANGED <<program, instr_cache, opcode_to_type_cache>>

Opcode(w) == Num(w \cap 0 .. 6)
TypeOf(w) ==
    IF Opcode(w) \in DOMAIN opcode_to_type_cache
    THEN opcode_to_type_cache[Opcode(w)]
    ELSE instr_type(Opcode(w))

(* The words of no format are decoded again each time. *)
Miss(w) ==
    LET instr == Fresh(w, TypeOf(w)) IN
    /\ status = "running" /\ CacheKey(w) \notin DOMAIN instr_cache
    /\ instr.name \in Named
    /\ opcode_to_type_cache' = With(opcode_to_type_cache, Opcode(w), TypeOf(w))
    /\ instr_cache' =
         IF TypeOf(w) = "WRONG" THEN instr_cache ELSE With(instr_cache, CacheKey(w), instr)
    /\ Dispatch(w, instr)
    /\ UNCHANGED program

(* get_string_name: at() throws for a name that is not in the table, before *)
(* the instruction reaches the cache, and nobody catches it.                *)
MissThrows(w) ==
    /\ status = "running" /\ CacheKey(w) \notin DOMAIN instr_cache
    /\ Fresh(w, TypeOf(w)).name \notin Named
    /\ opcode_to_type_cache' = With(opcode_to_type_cache, Opcode(w), TypeOf(w))
    /\ hex_instr' = w
    /\ status' = "crashed"
    /\ UNCHANGED <<program, instr_cache, curr_instr>>

Crashed == status = "crashed" /\ UNCHANGED vars

Next ==
    \/ \E w \in program : Hit(w) \/ Miss(w) \/ MissThrows(w)
    \/ Crashed

Spec == Init /\ [][Next]_vars

-----------------------------------------------------------------------------
(* The two caches in front of the decoder are invisible: whatever was       *)
(* decoded before, in this program or another, run() gets for a word what   *)
(* decoding it afresh gives, and the two fixed encodings for MRET and SRET. *)
CacheIsTransparent ==
    status = "running" /\ hex_instr # {} =>
        curr_instr = IF hex_instr \in DOMAIN FixedInstrs
                     THEN FixedInstrs[hex_instr]
                     ELSE Fresh(hex_instr, instr_type(Opcode(hex_instr)))

(* No word fits two names, so the order in which the decode methods go      *)
(* through their tables does not matter.                                    *)
Unambiguous ==
    LET t == instr_type(Opcode(hex_instr))
    IN t # "WRONG" => Cardinality(Fits(t, get_fields(hex_instr, t))) <= 1

(* Every word that is not a floating-point instruction is answered with an  *)
(* instruction or with XXX, which raises an exception in the guest: no word *)
(* of RV64IMA, and no illegal one, ends the emulator with an exception of   *)
(* its own (get_string_name, the call through inst_funcs).                  *)
OnlyFloatStops ==
    status = "crashed" => Opcode(hex_instr) \in {FP_R_OPCODE} \cup ValuesOf(r4_opcodes)

(* The words of the repository's test programs get the name that their      *)
(* disassembly (tests/elf/*.dump) gives them.                               *)
AgreesWithDisassembly ==
    \A d \in Disassembly : hex_instr = d[1] => curr_instr.name = d[2]

(* The bit of the word that the RISC-V formats copy to bit i of the         *)
(* immediate; 32 is the constant 0.                                         *)
ImmediateBit(t, i) ==
    CASE t = "I" -> IF i <= 10 THEN 20 + i ELSE 31
      [] t = "S" -> IF i <= 4 THEN 7 + i ELSE IF i <= 10 THEN 20 + i ELSE 31
      [] t = "B" -> IF i = 0 THEN 32 ELSE IF i <= 4 THEN 7 + i
                    ELSE IF i <= 10 THEN 20 + i ELSE IF i = 11 THEN 7 ELSE 31
      [] t = "U" -> IF i <= 11 THEN 32 ELSE i
      [] t = "J" -> IF i = 0 THEN 32 ELSE IF i <= 10 THEN 20 + i
                    ELSE IF i = 11 THEN 20 ELSE IF i <= 19 THEN i ELSE 31
      [] OTHER -> 32

(* The masks and shifts of get_immediate put every bit of every format      *)
(* where the architecture has it, with the sign extended to 32 bits.        *)
ImmediatesMatchFormat ==
    status = "running" /\ curr_instr.type # "WRONG" =>
        curr_instr.f.imm = {i \in Bits : ImmediateBit(curr_instr.type, i) \in hex_instr}
=============================================================================
