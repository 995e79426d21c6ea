--------------------------- MODULE DecoderProofs ---------------------------
(***************************************************************************)
(* What holds of the decoder for every set of words that a process may     *)
(* come to decode: its caches are invisible, its immediates are those of   *)
(* the architecture, only words of the floating-point opcodes can end the  *)
(* emulator, and no word fits two names.                                   *)
(***************************************************************************)
EXTENDS Decoder, FiniteSetTheorems, TLAPS

-----------------------------------------------------------------------------
(* What run() is to get for a word. *)
Expected(w) ==
    IF w \in DOMAIN FixedInstrs THEN FixedInstrs[w] ELSE Fresh(w, instr_type(Opcode(w)))

(* Each cache holds what would be computed in its place, and the two fixed  *)
(* encodings are always in theirs.                                          *)
CacheInv ==
    /\ \A op \in DOMAIN opcode_to_type_cache : opcode_to_type_cache[op] = instr_type(op)
    /\ \A w \in DOMAIN instr_cache : instr_cache[w] = Expected(w)
    /\ DOMAIN FixedInstrs \subseteq DOMAIN instr_cache
    /\ status = "running" => \/ curr_instr = Expected(hex_instr)
                             \/ hex_instr = {} /\ curr_instr = None

(* init_fixed_instrs fills the cache with the two encodings. *)
LEMMA InitCache == Init => CacheInv
BY DEF Init, CacheInv, Expected

(* The format that decode() works with is the opcode's, cached or not. *)
LEMMA TypeIsTrue ==
    ASSUME CacheInv, NEW w
    PROVE  TypeOf(w) = instr_type(Opcode(w))
BY DEF CacheInv, TypeOf

(* A word that is not cached is not one of the fixed ones, and what is      *)
(* cached for it is what run() gets this time.                              *)
LEMMA StepCache == CacheInv /\ [Next]_vars => CacheInv'
<1> SUFFICES ASSUME CacheInv, [Next]_vars PROVE CacheInv'
  OBVIOUS
<1>1. ASSUME NEW w \in program, Hit(w) PROVE CacheInv'
  BY <1>1 DEF CacheInv, Hit, Dispatch, CacheKey
<1>2. ASSUME NEW w \in program, Miss(w) PROVE CacheInv'
  <2>1. TypeOf(w) = instr_type(Opcode(w))
    BY TypeIsTrue
  <2>2. w \notin DOMAIN FixedInstrs
    BY <1>2 DEF Miss, CacheKey, CacheInv
  <2>3. Fresh(w, TypeOf(w)) = Expected(w)
    BY <2>1, <2>2 DEF Expected
  <2>4. \A op \in DOMAIN opcode_to_type_cache' : opcode_to_type_cache'[op] = instr_type(op)
    BY <1>2, <2>1 DEF Miss, With, CacheInv
  <2>5. /\ \A v \in DOMAIN instr_cache' : instr_cache'[v] = Expected(v)
        /\ DOMAIN FixedInstrs \subseteq DOMAIN instr_cache'
    BY <1>2, <2>3 DEF Miss, With, CacheKey, CacheInv
  <2>6. curr_instr' = Expected(w) /\ hex_instr' = w
    BY <1>2, <2>3 DEF Miss, Dispatch
  <2> QED
    BY <2>4, <2>5, <2>6 DEF CacheInv
<1>3. ASSUME NEW w \in program, MissThrows(w) PROVE CacheInv'
  <2>1. \A op \in DOMAIN opcode_to_type_cache' : opcode_to_type_cache'[op] = instr_type(op)
    BY <1>3, TypeIsTrue DEF MissThrows, With, CacheInv
  <2> QED
    BY <1>3, <2>1 DEF MissThrows, CacheInv
<1>4. CASE UNCHANGED vars
  BY <1>4 DEF vars, CacheInv
<1> QED
  BY <1>1, <1>2, <1>3, <1>4 DEF Next, Crashed

(* Whatever words a process has decoded before, in this program or an       *)
(* earlier one, run() gets for each word what decoding it afresh gives.     *)
THEOREM CachesInvisible == Spec => []CacheIsTransparent
<1>1. CacheInv => CacheIsTransparent
  BY DEF CacheInv, CacheIsTransparent, Expected
<1> QED
  BY <1>1, InitCache, StepCache, PTL DEF Spec

-----------------------------------------------------------------------------
(* The shifts, bit by bit. *)
LEMMA ShrBit ==
    ASSUME NEW b \in Word, NEW k \in Nat, NEW i \in Nat
    PROVE  i \in Shr(b, k) <=> i + k \in b
<1>1. ASSUME i \in Shr(b, k) PROVE i + k \in b
  <2>1. PICK j \in b : j >= k /\ i = j - k
    BY <1>1 DEF Shr
  <2>2. j \in Nat
    BY DEF Word, Bits
  <2>3. i + k = j
    BY <2>1, <2>2
  <2> QED
    BY <2>3
<1>2. ASSUME i + k \in b PROVE i \in Shr(b, k)
  <2>1. i + k >= k /\ (i + k) - k = i
    OBVIOUS
  <2> QED
    BY <1>2, <2>1 DEF Shr
<1> QED
  BY <1>1, <1>2

LEMMA MaskedShrBit ==
    ASSUME NEW w \in Word, NEW mask, NEW k \in Nat, NEW i \in Nat
    PROVE  i \in Shr(w \cap mask, k) <=> i + k \in w /\ i + k \in mask
<1>1. w \cap mask \in Word
  BY DEF Word
<1> QED
  BY <1>1, ShrBit

LEMMA ShlBit ==
    ASSUME NEW b \in Word, NEW k \in Nat, NEW i \in Nat
    PROVE  i \in Shl(b, k) <=> i <= 31 /\ i >= k /\ i - k \in b
<1>1. ASSUME i \in Shl(b, k) PROVE i <= 31 /\ i >= k /\ i - k \in b
  <2>1. PICK j \in b : i = j + k
    BY <1>1 DEF Shl
  <2>2. j \in Nat
    BY DEF Word, Bits
  <2>3. i - k = j /\ i >= k
    BY <2>1, <2>2
  <2>4. i <= 31
    BY <1>1 DEF Shl, Bits
  <2> QED
    BY <2>3, <2>4
<1>2. ASSUME i <= 31, i >= k, i - k \in b PROVE i \in Shl(b, k)
  <2>1. (i - k) + k = i /\ i \in Bits
    BY <1>2 DEF Bits
  <2> QED
    BY <1>2, <2>1 DEF Shl
<1> QED
  BY <1>1, <1>2

LEMMA SarBit ==
    ASSUME NEW b \in Word, NEW k \in 0 .. 31, NEW i \in Bits
    PROVE  i \in Sar(b, k) <=> IF i + k <= 31 THEN i + k \in b ELSE 31 \in b
<1>1. i \in Shr(b, k) <=> i + k \in b
  BY ShrBit DEF Bits
<1>2. i + k \in b => i + k <= 31
  BY DEF Word, Bits
<1> QED
  BY <1>1, <1>2 DEF Sar, Bits

LEMMA ShiftsAreWords ==
    ASSUME NEW b \in Word, NEW k \in 0 .. 31
    PROVE  Shr(b, k) \in Word /\ Shl(b, k) \in Word /\ Sar(b, k) \in Word
<1>1. ASSUME NEW i \in Shr(b, k) PROVE i \in Bits
  <2>1. PICK j \in b : j >= k /\ i = j - k
    BY DEF Shr
  <2> QED
    BY <2>1 DEF Word, Bits
<1>2. Shr(b, k) \in Word
  BY <1>1 DEF Word
<1>3. (32 - k) .. 31 \subseteq Bits
  BY DEF Bits
<1> QED
  BY <1>2, <1>3 DEF Shl, Sar, Word

(* A shift to the left and back copies the highest bit kept: the sign. *)
LEMMA SignExtended ==
    ASSUME NEW p \in Word, NEW k \in 0 .. 31, NEW i \in Bits
    PROVE  i \in Sar(Shl(p, k), k) <=> IF i + k <= 31 THEN i \in p ELSE 31 - k \in p
<1>1. Shl(p, k) \in Word
  BY ShiftsAreWords
<1>2. i \in Sar(Shl(p, k), k) <=> IF i + k <= 31 THEN i + k \in Shl(p, k) ELSE 31 \in Shl(p, k)
  BY <1>1, SarBit
<1>3. CASE i + k <= 31
  <2>1. i + k \in Nat /\ i + k >= k /\ (i + k) - k = i
    BY DEF Bits
  <2>2. i + k \in Shl(p, k) <=> i \in p
    BY <1>3, <2>1, ShlBit
  <2> QED
    BY <1>2, <1>3, <2>2
<1>4. CASE ~(i + k <= 31)
  <2>1. 31 \in Shl(p, k) <=> 31 - k \in p
    BY ShlBit
  <2> QED
    BY <1>2, <1>4, <2>1
<1> QED
  BY <1>3, <1>4

(* The immediates of the seven formats, as the architecture has them. *)
Immediate(t, w) == {i \in Bits : ImmediateBit(t, i) \in w}

LEMMA ImmI ==
    ASSUME NEW w \in Word
    PROVE  imm_i(w) = Immediate("I", w)
<1>1. w \cap 20 .. 31 \in Word
  BY DEF Word
<1>2. imm_i(w) \in Word
  BY <1>1, ShiftsAreWords DEF imm_i
<1>3. ASSUME NEW i \in Bits PROVE i \in imm_i(w) <=> ImmediateBit("I", i) \in w
  <2>1. i \in imm_i(w) <=>
          IF i + 20 <= 31 THEN i + 20 \in w \cap 20 .. 31 ELSE 31 \in w \cap 20 .. 31
    BY <1>1, SarBit DEF imm_i
  <2>2. i \in 0 .. 31
    BY DEF Bits
  <2>3. CASE i <= 10
    BY <2>1, <2>2, <2>3 DEF ImmediateBit
  <2>4. CASE i > 10
    BY <2>1, <2>2, <2>4 DEF ImmediateBit
  <2> QED
    BY <2>2, <2>3, <2>4
<1> QED
  BY <1>2, <1>3 DEF Immediate, Word

LEMMA ImmS ==
    ASSUME NEW w \in Word
    PROVE  imm_s(w) = Immediate("S", w)
<1> DEFINE p == Shr(w \cap 7 .. 11, 7) \cup Shr(w \cap 25 .. 31, 20)
<1>1. w \cap 7 .. 11 \in Word /\ w \cap 25 .. 31 \in Word
  BY DEF Word
<1>2. p \in Word
  <2>1. Shr(w \cap 7 .. 11, 7) \in Word /\ Shr(w \cap 25 .. 31, 20) \in Word
    BY <1>1, ShiftsAreWords
  <2> QED
    BY <2>1 DEF Word
<1>3. imm_s(w) = Sar(Shl(p, 20), 20) /\ imm_s(w) \in Word
  BY <1>2, ShiftsAreWords DEF imm_s
<1>4. ASSUME NEW j \in Nat
      PROVE  j \in p <=> (j + 7 \in w /\ j + 7 \in 7 .. 11) \/ (j + 20 \in w /\ j + 20 \in 25 .. 31)
  BY <1>1, ShrBit
<1> HIDE DEF p
<1>5. ASSUME NEW i \in Bits PROVE i \in imm_s(w) <=> ImmediateBit("S", i) \in w
  <2>1. i \in 0 .. 31
    BY DEF Bits
  <2>2. i \in imm_s(w) <=> IF i + 20 <= 31 THEN i \in p ELSE 11 \in p
    BY <1>2, <1>3, SignExtended
  <2>3. i \in p <=> (i + 7 \in w /\ i + 7 \in 7 .. 11) \/ (i + 20 \in w /\ i + 20 \in 25 .. 31)
    BY <2>1, <1>4
  <2>4. 11 \in p <=> 31 \in w
    BY <1>4
  <2>5. CASE i <= 4
    BY <2>1, <2>2, <2>3, <2>5 DEF ImmediateBit
  <2>6. CASE i > 4 /\ i <= 10
    BY <2>1, <2>2, <2>3, <2>6 DEF ImmediateBit
  <2>7. CASE i > 10
    BY <2>1, <2>2, <2>3, <2>4, <2>7 DEF ImmediateBit
  <2> QED
    BY <2>1, <2>5, <2>6, <2>7
<1> QED
  BY <1>3, <1>5 DEF Immediate, Word

LEMMA ImmB ==
    ASSUME NEW w \in Word
    PROVE  imm_b(w) = Immediate("B", w)
<1> DEFINE p == BPieces(w)
<1>1. /\ w \cap 8 .. 11 \in Word /\ w \cap 25 .. 30 \in Word
      /\ w \cap {7} \in Word /\ w \cap {31} \in Word
  BY DEF Word
<1>2. p \in Word
  <2>1. /\ Shr(w \cap 8 .. 11, 7) \in Word /\ Shr(w \cap 25 .. 30, 20) \in Word
        /\ Shl(w \cap {7}, 4) \in Word /\ Shr(w \cap {31}, 19) \in Word
    BY <1>1, ShiftsAreWords
  <2> QED
    BY <2>1 DEF Word, BPieces
<1>3. imm_b(w) = Sar(Shl(p, 19), 19) /\ imm_b(w) \in Word
  BY <1>2, ShiftsAreWords DEF imm_b
<1>4. ASSUME NEW j \in Nat, j <= 31
      PROVE  j \in p <=> \/ j + 7 \in w /\ j + 7 \in 8 .. 11
                         \/ j + 20 \in w /\ j + 20 \in 25 .. 30
                         \/ j - 4 \in w /\ j - 4 = 7
                         \/ j + 19 \in w /\ j + 19 = 31
  <2>1. j \in Shr(w \cap 8 .. 11, 7) <=> j + 7 \in w /\ j + 7 \in 8 .. 11
    BY MaskedShrBit
  <2>2. j \in Shr(w \cap 25 .. 30, 20) <=> j + 20 \in w /\ j + 20 \in 25 .. 30
    BY MaskedShrBit
  <2>3. j \in Shl(w \cap {7}, 4) <=> j - 4 \in w /\ j - 4 = 7
    BY <1>1, ShlBit
  <2>4. j \in Shr(w \cap {31}, 19) <=> j + 19 \in w /\ j + 19 \in {31}
    BY MaskedShrBit
  <2> QED
    BY <2>1, <2>2, <2>3, <2>4 DEF BPieces
<1> HIDE DEF p
<1>5. ASSUME NEW i \in Bits PROVE i \in imm_b(w) <=> ImmediateBit("B", i) \in w
  <2>1. i \in 0 .. 31
    BY DEF Bits
  <2>2. i \in imm_b(w) <=> IF i + 19 <= 31 THEN i \in p ELSE 12 \in p
    BY <1>2, <1>3, SignExtended
  <2>3. i \in p <=> \/ i + 7 \in w /\ i + 7 \in 8 .. 11
                    \/ i + 20 \in w /\ i + 20 \in 25 .. 30
                    \/ i - 4 \in w /\ i - 4 = 7
                    \/ i + 19 \in w /\ i + 19 = 31
    BY <2>1, <1>4
  <2>4. 12 \in p <=> 31 \in w
    BY <1>4
  <2>5. 32 \notin w
    BY DEF Word, Bits
  <2>6. CASE i = 0
    BY <2>1, <2>2, <2>3, <2>5, <2>6 DEF ImmediateBit
  <2>7. CASE i > 0 /\ i <= 4
    BY <2>1, <2>2, <2>3, <2>7 DEF ImmediateBit
  <2>8. CASE i > 4 /\ i <= 10
    BY <2>1, <2>2, <2>3, <2>8 DEF ImmediateBit
  <2>9. CASE i = 11
    BY <2>1, <2>2, <2>3, <2>9 DEF ImmediateBit
  <2>10. CASE i > 11
    BY <2>1, <2>2, <2>3, <2>4, <2>10 DEF ImmediateBit
  <2> QED
    BY <2>1, <2>6, <2>7, <2>8, <2>9, <2>10
<1> QED
  BY <1>3, <1>5 DEF Immediate, Word

LEMMA ImmU ==
    ASSUME NEW w \in Word
    PROVE  imm_u(w) = Immediate("U", w)
<1>1. 32 \notin w
  BY DEF Word, Bits
<1>2. ASSUME NEW i \in Bits PROVE i \in imm_u(w) <=> ImmediateBit("U", i) \in w
  BY <1>1 DEF ImmediateBit, imm_u, Bits
<1> QED
  BY <1>2 DEF Immediate, Word, imm_u

LEMMA ImmJ ==
    ASSUME NEW w \in Word
    PROVE  imm_j(w) = Immediate("J", w)
<1> DEFINE p == UNION {Shr(w \cap 21 .. 24, 20), Shr(w \cap 25 .. 30, 20), Shr(w \cap {20}, 9),
                       w \cap 12 .. 19, Shr(w \cap {31}, 11)}
<1>1. /\ w \cap 21 .. 24 \in Word /\ w \cap 25 .. 30 \in Word
      /\ w \cap {20} \in Word /\ w \cap {31} \in Word
  BY DEF Word
<1>2. p \in Word
  <2>1. /\ Shr(w \cap 21 .. 24, 20) \in Word /\ Shr(w \cap 25 .. 30, 20) \in Word
        /\ Shr(w \cap {20}, 9) \in Word /\ Shr(w \cap {31}, 11) \in Word
    BY <1>1, ShiftsAreWords
  <2> QED
    BY <2>1 DEF Word
<1>3. imm_j(w) = Sar(Shl(p, 11), 11) /\ imm_j(w) \in Word
  BY <1>2, ShiftsAreWords DEF imm_j
<1>4. ASSUME NEW j \in Nat, j <= 31
      PROVE  j \in p <=> \/ j + 20 \in w /\ j + 20 \in 21 .. 30
                         \/ j + 9 \in w /\ j + 9 = 20
                         \/ j \in w /\ j \in 12 .. 19
                         \/ j + 11 \in w /\ j + 11 = 31
  <2>1. j \in Shr(w \cap 21 .. 24, 20) <=> j + 20 \in w /\ j + 20 \in 21 .. 24
    BY MaskedShrBit
  <2>2. j \in Shr(w \cap 25 .. 30, 20) <=> j + 20 \in w /\ j + 20 \in 25 .. 30
    BY MaskedShrBit
  <2>3. j \in Shr(w \cap {20}, 9) <=> j + 9 \in w /\ j + 9 \in {20}
    BY MaskedShrBit
  <2>4. j \in Shr(w \cap {31}, 11) <=> j + 11 \in w /\ j + 11 \in {31}
    BY MaskedShrBit
  <2> QED
    BY <2>1, <2>2, <2>3, <2>4
<1> HIDE DEF p
<1>5. ASSUME NEW i \in Bits PROVE i \in imm_j(w) <=> ImmediateBit("J", i) \in w
  <2>1. i \in 0 .. 31
    BY DEF Bits
  <2>2. i \in imm_j(w) <=> IF i + 11 <= 31 THEN i \in p ELSE 20 \in p
    BY <1>2, <1>3, SignExtended
  <2>3. i \in p <=> \/ i + 20 \in w /\ i + 20 \in 21 .. 30
                    \/ i + 9 \in w /\ i + 9 = 20
                    \/ i \in w /\ i \in 12 .. 19
                    \/ i + 11 \in w /\ i + 11 = 31
    BY <2>1, <1>4
  <2>4. 20 \in p <=> 31 \in w
    BY <1>4
  <2>5. 32 \notin w
    BY DEF Word, Bits
  <2>6. CASE i = 0
    BY <2>1, <2>2, <2>3, <2>5, <2>6 DEF ImmediateBit
  <2>7. CASE i > 0 /\ i <= 10
    BY <2>1, <2>2, <2>3, <2>7 DEF ImmediateBit
  <2>8. CASE i = 11
    BY <2>1, <2>2, <2>3, <2>8 DEF ImmediateBit
  <2>9. CASE i > 11 /\ i <= 19
    BY <2>1, <2>2, <2>3, <2>9 DEF ImmediateBit
  <2>10. CASE i > 19
    BY <2>1, <2>2, <2>3, <2>4, <2>10 DEF ImmediateBit
  <2> QED
    BY <2>1, <2>6, <2>7, <2>8, <2>9, <2>10
<1> QED
  BY <1>3, <1>5 DEF Immediate, Word

(* get_immediate is the immediate of the format. *)
LEMMA ImmediateIsArchitectural ==
    ASSUME NEW w \in Word, NEW t \in {"I", "J", "S", "B", "R", "R4", "U"}
    PROVE  get_immediate(w, t) = Immediate(t, w)
<1>1. CASE t \in {"R", "R4"}
  <2>1. 32 \notin w
    BY DEF Word, Bits
  <2>2. Immediate(t, w) = {}
    BY <1>1, <2>1 DEF Immediate, ImmediateBit
  <2> QED
    BY <1>1, <2>2 DEF get_immediate
<1>2. CASE t \in {"I", "J", "S", "B", "U"}
  BY <1>2, ImmI, ImmJ, ImmS, ImmB, ImmU DEF get_immediate
<1> QED
  BY <1>1, <1>2

(* instr_type answers with a format or WRONG. *)
LEMMA TypesOfOpcodes ==
    ASSUME NEW op
    PROVE  instr_type(op) \in {"I", "J", "S", "B", "R", "R4", "U", "WRONG"}
BY Zenon DEF instr_type

(* So is the immediate of every decoded instruction, the fixed ones         *)
(* included, which have none.                                               *)
LEMMA ExpectedImmediate ==
    ASSUME NEW w \in Word, Expected(w).type # "WRONG"
    PROVE  Expected(w).f.imm = Immediate(Expected(w).type, w)
<1>1. CASE w \in DOMAIN FixedInstrs
  <2>1. Expected(w).type = "R" /\ Expected(w).f.imm = {}
    BY <1>1 DEF Expected, FixedInstrs, Fixed, NoFields
  <2> QED
    BY <2>1, ImmediateIsArchitectural DEF get_immediate
<1>2. CASE w \notin DOMAIN FixedInstrs
  <2> DEFINE t == instr_type(Opcode(w))
  <2>1. Expected(w) = Fresh(w, t)
    BY <1>2 DEF Expected
  <2>2. t \in {"I", "J", "S", "B", "R", "R4", "U", "WRONG"}
    BY TypesOfOpcodes
  <2> HIDE DEF t
  <2>3. t # "WRONG"
    BY <2>1 DEF Fresh
  <2>4. get_fields(w, t).imm = get_immediate(w, t)
    BY DEF get_fields
  <2>5. Fresh(w, t).f = get_fields(w, t) /\ Fresh(w, t).type = t
    <3> DEFINE f == get_fields(w, t)
    <3> HIDE DEF f
    <3>1. CASE Fits(t, f) = {}
      BY <2>1, <2>3, <3>1 DEF Fresh, f
    <3>2. CASE Fits(t, f) # {}
      BY <2>3, <3>2 DEF Fresh, f
    <3> QED
      BY <3>1, <3>2
  <2> QED
    BY <2>1, <2>2, <2>3, <2>4, <2>5, ImmediateIsArchitectural
<1> QED
  BY <1>1, <1>2

(* The process meets words only. *)
WordInv == program \subseteq Word /\ hex_instr \in Word

(* What is fetched is a word of the program. *)
LEMMA WordsDecoded == Spec => []WordInv
<1>1. Init => WordInv
  BY DecoderAssumption DEF Init, WordInv, Word
<1>2. WordInv /\ [Next]_vars => WordInv'
  BY DEF WordInv, Next, Hit, Miss, MissThrows, Dispatch, Crashed, vars
<1> QED
  BY <1>1, <1>2, PTL DEF Spec

(* The masks, shifts and sign extensions of get_immediate are right for     *)
(* every one of the 2^32 words and every state of the caches.               *)
THEOREM ImmediatesRight == Spec => []ImmediatesMatchFormat
<1>1. CacheInv /\ WordInv => ImmediatesMatchFormat
  <2> SUFFICES ASSUME CacheInv, WordInv, status = "running", curr_instr.type # "WRONG"
               PROVE  curr_instr.f.imm = Immediate(curr_instr.type, hex_instr)
    BY DEF ImmediatesMatchFormat, Immediate
  <2>1. curr_instr # None
    BY DEF None
  <2>2. curr_instr = Expected(hex_instr)
    BY <2>1 DEF CacheInv
  <2> QED
    BY <2>2, ExpectedImmediate DEF WordInv
<1> QED
  BY <1>1, InitCache, StepCache, WordsDecoded, PTL DEF Spec

-----------------------------------------------------------------------------
(* The names that have both a string and a method. *)
Callable == Named \cap Methods
Float == {FP_R_OPCODE} \cup ValuesOf(r4_opcodes)

(* Every name in the tables but those of floating-point instructions that   *)
(* are decoded without funct3 can be printed and called.                    *)
LEMMA TableNamesCallable ==
    /\ DOMAIN i_funct3 \subseteq Callable /\ DOMAIN r_funct3 \subseteq Callable
    /\ DOMAIN b_funct3 \subseteq Callable /\ DOMAIN s_funct3 \subseteq Callable
    /\ DOMAIN j_opcodes \subseteq Callable /\ DOMAIN u_opcodes \subseteq Callable
    /\ {"SRET", "MRET", "XXX"} \subseteq Callable
<1> DEFINE bad == {"FSQRTS", "FNMADDS", "FCVTSL"}
<1>1. DOMAIN i_funct3 \subseteq DOMAIN i_opcodes /\ DOMAIN i_funct3 \cap bad = {}
  BY DEF i_funct3, i_opcodes, Keyed
<1>2. DOMAIN r_funct3 \subseteq DOMAIN r_opcodes
  BY DEF r_funct3, r_opcodes, Keyed
<1>3. DOMAIN r_funct3 \cap bad = {}
  BY DEF r_funct3, Keyed
<1>4. DOMAIN b_funct3 \subseteq DOMAIN b_opcodes /\ DOMAIN b_funct3 \cap bad = {}
  BY DEF b_funct3, b_opcodes, Keyed
<1>5. DOMAIN s_funct3 \subseteq DOMAIN s_opcodes /\ DOMAIN s_funct3 \cap bad = {}
  BY DEF s_funct3, s_opcodes, Keyed
<1>6. DOMAIN j_opcodes \cap bad = {} /\ DOMAIN u_opcodes \cap bad = {}
  BY DEF j_opcodes, u_opcodes, Keyed
<1>7. ASSUME NEW n \in INames \ bad PROVE n \in Callable
  BY <1>7 DEF Callable, Named, Methods
<1>8. {"SRET", "MRET", "XXX"} \subseteq INames \ bad
  BY DEF INames
<1> QED
  BY <1>1, <1>2, <1>3, <1>4, <1>5, <1>6, <1>7, <1>8 DEF INames

(* Both ways in which decode() cuts out the opcode agree. *)
LEMMA OpcodeField ==
    ASSUME NEW w \in Word, NEW t
    PROVE  get_fields(w, t).OPCode = Opcode(w)
<1>1. Shr(w \cap 0 .. 6, 0) = w \cap 0 .. 6
  <2> DEFINE b == w \cap 0 .. 6
  <2>1. \A i \in b : i \in Nat /\ i - 0 = i
    OBVIOUS
  <2> QED
    BY <2>1 DEF Shr
<1> QED
  BY <1>1 DEF get_fields, Opcode

(* The decode methods of the formats that are not floating-point yield only *)
(* names that run() can call.                                               *)
LEMMA FitsCallable ==
    ASSUME NEW t \in {"I", "J", "S", "B", "R", "U"}, NEW f,
           t = "R" => f.OPCode # FP_R_OPCODE
    PROVE  Fits(t, f) \subseteq Callable
BY TableNamesCallable DEF Fits, FitsR, FitsI, FitsS, FitsB, FitsU, FitsJ

(* Format R4 is that of the four fused opcodes. *)
LEMMA FusedOpcodes ==
    ASSUME NEW op, instr_type(op) = "R4"
    PROVE  op \in ValuesOf(r4_opcodes)
BY DEF instr_type

(* A word of another opcode is always answered. *)
LEMMA ExpectedCallable ==
    ASSUME NEW w \in Word, Opcode(w) \notin Float
    PROVE  Expected(w).name \in Callable
<1>1. CASE w \in DOMAIN FixedInstrs
  <2>1. Expected(w).name \in {"MRET", "SRET"}
    BY <1>1 DEF Expected, FixedInstrs, Fixed
  <2> QED
    BY <2>1, TableNamesCallable
<1>2. CASE w \notin DOMAIN FixedInstrs
  <2> DEFINE t == instr_type(Opcode(w))
             f == get_fields(w, t)
  <2>1. Expected(w) = Fresh(w, t)
    BY <1>2 DEF Expected
  <2>2. t \in {"I", "J", "S", "B", "R", "U", "WRONG"}
    BY TypesOfOpcodes, FusedOpcodes DEF Float
  <2>3. f.OPCode # FP_R_OPCODE
    BY OpcodeField DEF Float
  <2> HIDE DEF t
  <2>4. CASE t = "WRONG"
    BY <2>1, <2>4, TableNamesCallable DEF Fresh
  <2>5. CASE t # "WRONG"
    <3>1. Fits(t, f) \subseteq Callable
      BY <2>2, <2>3, <2>5, FitsCallable
    <3> HIDE DEF f
    <3>2. CASE Fits(t, f) = {}
      BY <2>1, <2>5, <3>2, TableNamesCallable DEF Fresh, f
    <3>3. CASE Fits(t, f) # {}
      <4>1. Fresh(w, t).name = CHOOSE n \in Fits(t, f) : TRUE
        BY <2>5, <3>3 DEF Fresh, f
      <4>2. (CHOOSE n \in Fits(t, f) : TRUE) \in Fits(t, f)
        BY <3>3
      <4> QED
        BY <2>1, <3>1, <4>1, <4>2
    <3> QED
      BY <3>2, <3>3
  <2> QED
    BY <2>4, <2>5
<1> QED
  BY <1>1, <1>2

(* No word ends the emulator in get_string_name or in the call through      *)
(* inst_funcs, unless its opcode is one of the five floating-point ones.    *)
THEOREM OthersAnswered == Spec => []OnlyFloatStops
<1>1. Init => OnlyFloatStops
  BY DEF Init, OnlyFloatStops
<1>2. CacheInv /\ WordInv /\ OnlyFloatStops /\ [Next]_vars => OnlyFloatStops'
  <2> SUFFICES ASSUME CacheInv, WordInv, OnlyFloatStops, [Next]_vars PROVE OnlyFloatStops'
    OBVIOUS
  <2>1. ASSUME NEW w \in program, Opcode(w) \in Float, hex_instr' = w PROVE OnlyFloatStops'
    BY <2>1 DEF OnlyFloatStops, Float
  <2>2. ASSUME NEW w \in program, Opcode(w) \notin Float PROVE Expected(w).name \in Callable
    BY <2>2, ExpectedCallable DEF WordInv
  <2>3. ASSUME NEW w \in program, CacheKey(w) \notin DOMAIN instr_cache
        PROVE  Fresh(w, TypeOf(w)) = Expected(w)
    BY <2>3, TypeIsTrue DEF CacheInv, CacheKey, Expected
  <2>4. ASSUME NEW w \in program, Hit(w) PROVE OnlyFloatStops'
    <3>1. hex_instr' = w /\ (Expected(w).name \in Methods => status' = "running")
      BY <2>4 DEF Hit, Dispatch, CacheInv, CacheKey
    <3> QED
      BY <2>1, <2>2, <3>1 DEF OnlyFloatStops, Callable
  <2>5. ASSUME NEW w \in program, Miss(w) PROVE OnlyFloatStops'
    <3>1. hex_instr' = w /\ (Expected(w).name \in Methods => status' = "running")
      BY <2>3, <2>5 DEF Miss, Dispatch
    <3> QED
      BY <2>1, <2>2, <3>1 DEF OnlyFloatStops, Callable
  <2>6. ASSUME NEW w \in program, MissThrows(w) PROVE OnlyFloatStops'
    <3>1. hex_instr' = w /\ Expected(w).name \notin Named
      BY <2>3, <2>6 DEF MissThrows
    <3> QED
      BY <2>1, <2>2, <3>1 DEF Callable
  <2>7. CASE UNCHANGED vars
    BY <2>7 DEF vars, OnlyFloatStops
  <2> QED
    BY <2>4, <2>5, <2>6, <2>7 DEF Next, Crashed
<1> QED
  BY <1>1, <1>2, InitCache, StepCache, WordsDecoded, PTL DEF Spec

-----------------------------------------------------------------------------
(* A name is among those that a table gives the name's value. *)
LEMMA KeyedInverse ==
    ASSUME NEW groups, NEW n \in DOMAIN Keyed(groups)
    PROVE  \E g \in groups : n \in g[2] /\ Keyed(groups)[n] = g[1]
BY DEF Keyed

(* Every name of format R with a funct3 has an opcode and a funct7. *)
LEMMA RTables ==
    DOMAIN r_funct3 \subseteq DOMAIN r_opcodes /\ DOMAIN r_funct3 \subseteq DOMAIN r_funct7
<1>1. DOMAIN r_funct3 \subseteq DOMAIN r_opcodes
  BY DEF r_funct3, r_opcodes, Keyed
<1>2. DOMAIN r_funct3 \subseteq DOMAIN r_funct7
  BY DEF r_funct3, r_funct7, Keyed
<1> QED
  BY <1>1, <1>2

(* In format R no two names share opcode, funct3 and funct7. *)
LEMMA RKeysDistinctAt ==
    ASSUME NEW n \in DOMAIN r_funct3, NEW m \in DOMAIN r_funct3,
           NEW k \in {\b0110011, \b0111011, AM_OPCODE, FP_R_OPCODE},
           n \in DOMAIN r_opcodes, m \in DOMAIN r_opcodes,
           n \in DOMAIN r_funct7, m \in DOMAIN r_funct7,
           r_opcodes[n] = k, r_opcodes[m] = k, r_funct3[n] = r_funct3[m], r_funct7[n] = r_funct7[m]
    PROVE  n = m
<1>1. CASE k = \b0110011
  BY <1>1, KeyedInverse, SMTT(20) DEF r_funct3, r_funct7, r_opcodes, AM_OPCODE, FP_R_OPCODE
<1>2. CASE k = \b0111011
  BY <1>2, KeyedInverse, SMTT(20) DEF r_funct3, r_funct7, r_opcodes, AM_OPCODE, FP_R_OPCODE
<1>3. CASE k = AM_OPCODE
  BY <1>3, KeyedInverse, SMTT(20) DEF r_funct3, r_funct7, r_opcodes, AM_OPCODE, FP_R_OPCODE
<1>4. CASE k = FP_R_OPCODE
  BY <1>4, KeyedInverse, SMTT(20) DEF r_funct3, r_funct7, r_opcodes, AM_OPCODE, FP_R_OPCODE
<1> QED
  BY <1>1, <1>2, <1>3, <1>4

LEMMA RKeysDistinct ==
    ASSUME NEW n \in DOMAIN r_funct3, NEW m \in DOMAIN r_funct3,
           r_opcodes[n] = r_opcodes[m], r_funct3[n] = r_funct3[m], r_funct7[n] = r_funct7[m]
    PROVE  n = m
<1>1. /\ n \in DOMAIN r_opcodes /\ m \in DOMAIN r_opcodes
      /\ n \in DOMAIN r_funct7 /\ m \in DOMAIN r_funct7
  BY RTables
<1>2. r_opcodes[n] \in {\b0110011, \b0111011, AM_OPCODE, FP_R_OPCODE}
  BY <1>1, KeyedInverse DEF r_opcodes
<1> QED
  BY <1>1, <1>2, RKeysDistinctAt

(* The funct7 of an atomic instruction leaves aq and rl 0 ... *)
LEMMA AtomicsWithoutAqRl ==
    ASSUME NEW n \in DOMAIN r_funct3, r_opcodes[n] = AM_OPCODE
    PROVE  r_funct7[n] \in Nat /\ r_funct7[n] % 4 = 0
<1>1. n \in DOMAIN r_opcodes /\ n \in DOMAIN r_funct7
  BY RTables
<1> QED
  BY <1>1, KeyedInverse DEF r_funct7, r_opcodes, AM_OPCODE, FP_R_OPCODE

(* ... so that decode_r, which tries funct7 with and without them, finds    *)
(* one name at most.                                                        *)
LEMMA OneFitsR ==
    ASSUME NEW f, f.funct7 \in Nat, NEW n \in FitsR(f), NEW m \in FitsR(f)
    PROVE  n = m
<1>1. /\ n \in DOMAIN r_funct3 /\ m \in DOMAIN r_funct3
      /\ r_opcodes[n] = f.OPCode /\ r_opcodes[m] = f.OPCode
      /\ r_funct3[n] = r_funct3[m]
  BY DEF FitsR
<1>2. CASE f.OPCode = AM_OPCODE
  <2>1. WithoutAqRl(f.funct7) = r_funct7[n]
    BY <1>1, <1>2, AtomicsWithoutAqRl DEF FitsR, WithoutAqRl
  <2>2. WithoutAqRl(f.funct7) = r_funct7[m]
    BY <1>1, <1>2, AtomicsWithoutAqRl DEF FitsR, WithoutAqRl
  <2> QED
    BY <1>1, <2>1, <2>2, RKeysDistinct
<1>3. CASE f.OPCode # AM_OPCODE
  <2>1. r_funct7[n] = r_funct7[m]
    BY <1>3 DEF FitsR
  <2> QED
    BY <1>1, <2>1, RKeysDistinct
<1> QED
  BY <1>2, <1>3

(* Among the floating-point instructions that are told apart by funct7      *)
(* alone, no two share it.                                                  *)
LEMMA FpKeysDistinct ==
    ASSUME NEW n \in DOMAIN r_funct7, NEW m \in DOMAIN r_funct7,
           r_opcodes[n] = FP_R_OPCODE, r_opcodes[m] = FP_R_OPCODE, r_funct7[n] = r_funct7[m],
           r_funct7[n] \in {\b0000000, \b0000100, \b0001000, \b0001100, \b0101100}
    PROVE  n = m
<1>1. n \in DOMAIN r_opcodes /\ m \in DOMAIN r_opcodes
  BY DEF r_funct7, r_opcodes, Keyed
<1> QED
  BY <1>1, KeyedInverse DEF r_funct7, r_opcodes, AM_OPCODE, FP_R_OPCODE

LEMMA OneFitsFp ==
    ASSUME NEW f, f.OPCode = FP_R_OPCODE, NEW n \in FitsFp(f), NEW m \in FitsFp(f)
    PROVE  n = m
<1>1. CASE ~ignore_f3(f)
  <2>1. n \in FitsFpWithF3(f) /\ m \in FitsFpWithF3(f)
    BY <1>1 DEF FitsFp
  <2> QED
    BY <2>1, RKeysDistinct DEF FitsFpWithF3
<1>2. CASE ignore_f3(f) /\ f.funct7 \in {\b1100000, \b1101000}
  <2>1. n \in FitsFpWithoutF3(f) /\ m \in FitsFpWithoutF3(f)
    BY <1>2 DEF FitsFp
  <2> QED
    BY <1>2, <2>1 DEF FitsFpWithoutF3
<1>3. CASE ignore_f3(f) /\ f.funct7 \notin {\b1100000, \b1101000}
  <2>1. n \in FitsFpWithoutF3(f) /\ m \in FitsFpWithoutF3(f)
    BY <1>3 DEF FitsFp
  <2>2. f.funct7 \in {\b0000000, \b0000100, \b0001000, \b0001100, \b0101100}
    BY <1>3 DEF ignore_f3
  <2> QED
    BY <1>3, <2>1, <2>2, FpKeysDistinct DEF FitsFpWithoutF3
<1> QED
  BY <1>1, <1>2, <1>3

(* In format I three pairs share opcode and funct3, and what is left of the *)
(* word decides between the two.                                            *)
LEMMA OneFitsI ==
    ASSUME NEW f, NEW n \in FitsI(f), NEW m \in FitsI(f)
    PROVE  n = m
<1>1. n \in DOMAIN i_funct3 /\ m \in DOMAIN i_funct3
  BY DEF FitsI
<1>2. n \in DOMAIN i_opcodes /\ m \in DOMAIN i_opcodes
  BY <1>1 DEF i_funct3, i_opcodes, Keyed
<1>3. i_opcodes[n] = i_opcodes[m] /\ i_funct3[n] = i_funct3[m]
  BY DEF FitsI
<1>4. ImmediateFits(n, f) /\ ImmediateFits(m, f)
  BY DEF FitsI
<1>5. ASSUME n # m PROVE {n, m} \in {{"ECALL", "EBREAK"}, {"SRLI", "SRAI"}, {"SRLIW", "SRAIW"}}
  BY <1>1, <1>2, <1>3, <1>5, KeyedInverse DEF i_funct3, i_opcodes
<1>6. CASE {n, m} = {"ECALL", "EBREAK"}
  <2>1. f.imm = {} /\ f.imm = {0}
    BY <1>4, <1>6 DEF ImmediateFits
  <2> QED
    BY <2>1
<1>7. CASE {n, m} = {"SRLI", "SRAI"}
  <2>1. i_funct6["SRLI"] = \b000000 /\ i_funct6["SRAI"] = \b010000
    BY DEF i_funct6, Keyed
  <2> QED
    BY <1>4, <1>7, <2>1 DEF ImmediateFits
<1>8. CASE {n, m} = {"SRLIW", "SRAIW"}
  <2>1. i_funct7["SRLIW"] = \b0000000 /\ i_funct7["SRAIW"] = \b0100000
    BY DEF i_funct7, Keyed
  <2> QED
    BY <1>4, <1>8, <2>1 DEF ImmediateFits
<1> QED
  BY <1>5, <1>6, <1>7, <1>8

(* The tables of the other formats are one to one. *)
LEMMA OneFitsOther ==
    ASSUME NEW f, NEW n, NEW m, NEW t \in {"R4", "S", "B", "U", "J"},
           n \in Fits(t, f), m \in Fits(t, f)
    PROVE  n = m
<1>1. CASE t = "R4"
  <2>1. n \in DOMAIN r4_opcodes /\ m \in DOMAIN r4_opcodes /\ r4_opcodes[n] = r4_opcodes[m]
    BY <1>1 DEF Fits, FitsR4
  <2> QED
    BY <2>1, KeyedInverse DEF r4_opcodes
<1>2. CASE t = "S"
  <2>1. /\ n \in DOMAIN s_funct3 /\ m \in DOMAIN s_funct3
        /\ s_opcodes[n] = s_opcodes[m] /\ s_funct3[n] = s_funct3[m]
    BY <1>2 DEF Fits, FitsS
  <2>2. n \in DOMAIN s_opcodes /\ m \in DOMAIN s_opcodes
    BY <2>1 DEF s_funct3, s_opcodes, Keyed
  <2> QED
    BY <2>1, <2>2, KeyedInverse DEF s_funct3, s_opcodes
<1>3. CASE t = "B"
  <2>1. n \in DOMAIN b_funct3 /\ m \in DOMAIN b_funct3 /\ b_funct3[n] = b_funct3[m]
    BY <1>3 DEF Fits, FitsB
  <2> QED
    BY <2>1, KeyedInverse DEF b_funct3
<1>4. CASE t = "U"
  <2>1. n \in DOMAIN u_opcodes /\ m \in DOMAIN u_opcodes /\ u_opcodes[n] = u_opcodes[m]
    BY <1>4 DEF Fits, FitsU
  <2> QED
    BY <2>1, KeyedInverse DEF u_opcodes
<1>5. CASE t = "J"
  <2>1. n \in DOMAIN j_opcodes /\ m \in DOMAIN j_opcodes
    BY <1>5 DEF Fits, FitsJ
  <2> QED
    BY <2>1, KeyedInverse DEF j_opcodes
<1> QED
  BY <1>1, <1>2, <1>3, <1>4, <1>5

(* A set whose members are equal has one at most. *)
LEMMA AtMostOne ==
    ASSUME NEW S, \A n, m \in S : n = m
    PROVE  Cardinality(S) <= 1
<1>1. CASE S = {}
  BY <1>1, FS_EmptySet
<1>2. ASSUME NEW x \in S PROVE Cardinality(S) <= 1
  <2>1. S = {x}
    BY <1>2
  <2> QED
    BY <2>1, FS_Singleton
<1> QED
  BY <1>1, <1>2

(* No two names fit the same fields, whatever the word, so the order in     *)
(* which the decode methods go through their tables does not matter.        *)
LEMMA OneFits ==
    ASSUME NEW w \in Word, NEW t \in {"I", "J", "S", "B", "R", "R4", "U"},
           NEW n \in Fits(t, get_fields(w, t)), NEW m \in Fits(t, get_fields(w, t))
    PROVE  n = m
<1> DEFINE f == get_fields(w, t)
<1>1. f.funct7 \in Nat
  BY DEF get_fields, Num
<1> HIDE DEF f
<1>2. n \in Fits(t, f) /\ m \in Fits(t, f)
  BY DEF f
<1>3. CASE t = "R" /\ f.OPCode = FP_R_OPCODE
  <2>1. n \in FitsFp(f) /\ m \in FitsFp(f)
    BY <1>2, <1>3 DEF Fits
  <2> QED
    BY <1>3, <2>1, OneFitsFp
<1>4. CASE t = "R" /\ f.OPCode # FP_R_OPCODE
  <2>1. n \in FitsR(f) /\ m \in FitsR(f)
    BY <1>2, <1>4 DEF Fits
  <2> QED
    BY <1>1, <2>1, OneFitsR
<1>5. CASE t = "I"
  <2>1. n \in FitsI(f) /\ m \in FitsI(f)
    BY <1>2, <1>5 DEF Fits
  <2> QED
    BY <2>1, OneFitsI
<1>6. CASE t \in {"R4", "S", "B", "U", "J"}
  BY <1>2, <1>6, OneFitsOther
<1> QED
  BY <1>3, <1>4, <1>5, <1>6

(* For each of the 2^32 words the tables decide on one name or none. *)
THEOREM NamesUnambiguous == Spec => []Unambiguous
<1>1. WordInv => Unambiguous
  <2> SUFFICES ASSUME WordInv, NEW t, t = instr_type(Opcode(hex_instr)), t # "WRONG"
               PROVE  Cardinality(Fits(t, get_fields(hex_instr, t))) <= 1
    BY DEF Unambiguous
  <2>1. t \in {"I", "J", "S", "B", "R", "R4", "U"}
    BY TypesOfOpcodes
  <2>2. \A n, m \in Fits(t, get_fields(hex_instr, t)) : n = m
    BY <2>1, OneFits DEF WordInv
  <2> QED
    BY <2>2, AtMostOne
<1> QED
  BY <1>1, WordsDecoded, PTL
=============================================================================
