----------------------------- MODULE MCDecoder -----------------------------
(* One word at a time: every opcode with every funct3, and for the opcodes  *)
(* in use every funct3 and funct7, with the values of rs2 that tell         *)
(* floating-point conversions and system instructions apart.  Then programs *)
(* of several words that share bits, for the caches.                        *)
EXTENDS Decoder

At(n, k) == {k + i : i \in {j \in 0 .. 15 : (n \div 2^j) % 2 = 1}}
Word2(high, low) == At(high, 16) \cup At(low, 0)

Opcodes ==
    UNION {ValuesOf(t) : t \in {i_opcodes, r_opcodes, r4_opcodes, b_opcodes, s_opcodes,
                                j_opcodes, u_opcodes}}
Plain == {At(op, 0) \cup At(f3, 12) : op \in 0 .. 127, f3 \in 0 .. 7}
Dense ==
    {UNION {At(op, 0), At(\b10101, 7), At(f3, 12), At(\b01100, 15), At(\b10010, 20), At(f7, 25)} :
        op \in Opcodes, f3 \in 0 .. 7, f7 \in 0 .. 127}
ByRs2 ==
    {UNION {At(op, 0), At(f3, 12), At(rs2, 20), At(f7, 25)} :
        op \in {FP_R_OPCODE, \b1110011}, f3 \in 0 .. 1, rs2 \in 0 .. 4, f7 \in 0 .. 127}

(* A sample of the listings in tests/elf: one word for most instructions there. *)
MCDisassembly == {
    <<Word2(\h0020, \h8733), "ADD">>, <<Word2(\hfff2, \h8293), "ADDI">>,
    <<Word2(\hfff3, \h839b), "ADDIW">>, <<Word2(\h0020, \h873b), "ADDW">>,
    <<Word2(\h0020, \hf733), "AND">>, <<Word2(\hf0f0, \hf713), "ANDI">>,
    <<Word2(\hffff, \he517), "AUIPC">>, <<Word2(\hfe20, \h8ee3), "BEQ">>,
    <<Word2(\hfe20, \hdee3), "BGE">>, <<Word2(\hfe20, \hfee3), "BGEU">>,
    <<Word2(\hfe20, \hcee3), "BLT">>, <<Word2(\hfe20, \heee3), "BLTU">>,
    <<Word2(\hfe52, \h14e3), "BNE">>, <<Word2(\hf140, \h2573), "CSRRS">>,
    <<Word2(\h3052, \h9073), "CSRRW">>, <<Word2(\h0000, \h0073), "ECALL">>,
    <<Word2(\h0ff0, \h000f), "FENCE">>, <<Word2(\h0000, \h100f), "FENCEI">>,
    <<Word2(\hff1f, \hf06f), "JAL">>, <<Word2(\hffc3, \h0067), "JALR">>,
    <<Word2(\hffd0, \h8703), "LB">>, <<Word2(\hffd0, \hc703), "LBU">>,
    <<Word2(\hfe80, \hb703), "LD">>, <<Word2(\he6c5, \h1503), "LH">>,
    <<Word2(\hffa0, \hd703), "LHU">>, <<Word2(\hffff, \h8137), "LUI">>,
    <<Word2(\hff40, \ha703), "LW">>, <<Word2(\hff40, \he703), "LWU">>,
    <<Word2(\h3020, \h0073), "MRET">>, <<Word2(\h0020, \he733), "OR">>,
    <<Word2(\hf0f0, \he713), "ORI">>, <<Word2(\hfe20, \h8ea3), "SB">>,
    <<Word2(\hfe20, \hb423), "SD">>, <<Word2(\he4a2, \h9223), "SH">>,
    <<Word2(\h0020, \h9733), "SLL">>, <<Word2(\h0352, \h9293), "SLLI">>,
    <<Word2(\h0000, \h971b), "SLLIW">>, <<Word2(\h0020, \h973b), "SLLW">>,
    <<Word2(\h0020, \ha733), "SLT">>, <<Word2(\h8000, \ha713), "SLTI">>,
    <<Word2(\h8000, \hb713), "SLTIU">>, <<Word2(\h0020, \hb733), "SLTU">>,
    <<Word2(\h4020, \hd733), "SRA">>, <<Word2(\h4010, \hd093), "SRAI">>,
    <<Word2(\h4000, \hd71b), "SRAIW">>, <<Word2(\h4020, \hd73b), "SRAW">>,
    <<Word2(\h0020, \hd733), "SRL">>, <<Word2(\h0000, \hd713), "SRLI">>,
    <<Word2(\h0000, \hd71b), "SRLIW">>, <<Word2(\h0020, \hd73b), "SRLW">>,
    <<Word2(\h40b5, \h0533), "SUB">>, <<Word2(\h4020, \h873b), "SUBW">>,
    <<Word2(\hfc3f, \h2223), "SW">>, <<Word2(\h0020, \hc733), "XOR">>,
    <<Word2(\hf0f0, \hc713), "XORI">>}

SameOpcode == {Word2(\h0102, \h8293), Word2(\h4012, \h8293), Word2(\h0102, \h9293)}
SameLow == {Word2(\h0020, \h8033), Word2(\h4020, \h8033), Word2(\h0220, \h8033), MretWord}
Mixed == {Word2(\h0000, \h0000), Word2(\h0000, \h0073), SretWord, Word2(\h0010, \h0073)}

MCPrograms ==
    {{w} : w \in UNION {Plain, Dense, ByRs2, {d[1] : d \in MCDisassembly}}}
        \cup {SameOpcode, SameLow, Mixed}
=============================================================================
