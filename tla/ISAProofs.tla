----------------------------- MODULE ISAProofs -----------------------------
(***************************************************************************)
(* Proofs that every property of ISA holds for every width of a byte that  *)
(* is a power of two, every set of registers, and behaviours of any        *)
(* length: first induction and the powers of two, then division and the    *)
(* conversions, then the instructions.                                     *)
(***************************************************************************)
EXTENDS ISA, WellFoundedInduction, TLAPS

-----------------------------------------------------------------------------
(* Induction over the natural numbers, for sets, from the least element of *)
(* the numbers outside the set.                                            *)
LEMMA LeastNumber ==
    ASSUME NEW T \in SUBSET Nat, T # {}
    PROVE  \E x \in T : \A y \in T : x <= y
<1> DEFINE R == OpToRel(<, Nat)
<1>1. IsWellFoundedOn(R, Nat)
  BY NatLessThanWellFounded
<1>2. \A x, y \in Nat : x < y => <<x, y>> \in R
  BY DEF OpToRel
<1> HIDE DEF R
<1>3. PICK x \in T : \A y \in T : <<y, x>> \notin R
  BY <1>1, WFMin
<1>4. ASSUME NEW y \in T PROVE x <= y
  <2>1. x \in Nat /\ y \in Nat
    OBVIOUS
  <2>2. ~ (y < x)
    BY <1>2, <1>3, <2>1
  <2> QED
    BY <2>1, <2>2
<1> QED
  BY <1>4

LEMMA SetInduction ==
    ASSUME NEW T, 0 \in T, \A k \in Nat : k \in T => k + 1 \in T
    PROVE  \A k \in Nat : k \in T
<1> SUFFICES ASSUME NEW z \in Nat, z \notin T PROVE FALSE
  OBVIOUS
<1>1. PICK x \in Nat \ T : \A y \in Nat \ T : x <= y
  BY LeastNumber
<1>2. x # 0 /\ x - 1 \in Nat /\ x - 1 \notin Nat \ T
  BY <1>1
<1> QED
  BY <1>1, <1>2

-----------------------------------------------------------------------------
(* The recursive definition of Pow2 defines a function: initial segments   *)
(* of it exist and agree with each other.                                  *)
Segment(g, m) ==
    g \in [0 .. m -> Nat] /\ g[0] = 1 /\ \A k \in 0 .. m - 1 : g[k + 1] = 2 * g[k]

LEMMA SegmentsExist ==
    \A m \in Nat : \E g : Segment(g, m)
<1> DEFINE T == {m \in Nat : \E g : Segment(g, m)}
<1>1. 0 \in T
  <2>1. Segment([k \in 0 .. 0 |-> 1], 0)
    BY DEF Segment
  <2> QED
    BY <2>1
<1>2. ASSUME NEW m \in Nat, m \in T PROVE m + 1 \in T
  <2>1. PICK g : Segment(g, m)
    BY <1>2
  <2>2. Segment([k \in 0 .. m + 1 |-> IF k = m + 1 THEN 2 * g[m] ELSE g[k]], m + 1)
    BY <2>1 DEF Segment
  <2> QED
    BY <2>2
<1> HIDE DEF T
<1>3. \A m \in Nat : m \in T
  BY <1>1, <1>2, SetInduction
<1> QED
  BY <1>3 DEF T

LEMMA SegmentsAgree ==
    ASSUME NEW m \in Nat, NEW l \in Nat, NEW g, NEW h, Segment(g, m), Segment(h, l)
    PROVE  \A k \in Nat : k <= m /\ k <= l => g[k] = h[k]
<1> DEFINE T == {k \in Nat : k <= m /\ k <= l => g[k] = h[k]}
<1>1. 0 \in T
  BY DEF Segment
<1>2. ASSUME NEW k \in Nat, k \in T PROVE k + 1 \in T
  BY <1>2 DEF Segment
<1> HIDE DEF T
<1>3. \A k \in Nat : k \in T
  BY <1>1, <1>2, SetInduction
<1> QED
  BY <1>3 DEF T

LEMMA Pow2Def ==
    Pow2 = [k \in Nat |-> IF k = 0 THEN 1 ELSE 2 * Pow2[k - 1]]
<1> DEFINE G(m) == CHOOSE g : Segment(g, m)
           f == [m \in Nat |-> G(m)[m]]
<1>1. \A m \in Nat : Segment(G(m), m)
  BY SegmentsExist
<1>2. f[0] = 1
  BY <1>1 DEF Segment
<1>3. ASSUME NEW k \in Nat, k # 0 PROVE f[k] = 2 * f[k - 1]
  <2>1. k - 1 \in Nat /\ Segment(G(k), k) /\ Segment(G(k - 1), k - 1)
    BY <1>1, <1>3
  <2> HIDE DEF G
  <2>2. G(k)[k - 1] = G(k - 1)[k - 1]
    BY <2>1, SegmentsAgree
  <2>3. G(k)[(k - 1) + 1] = 2 * G(k)[k - 1]
    BY <2>1 DEF Segment
  <2> QED
    BY <2>1, <2>2, <2>3
<1> HIDE DEF G
<1>4. f = [k \in Nat |-> IF k = 0 THEN 1 ELSE 2 * f[k - 1]]
  BY <1>2, <1>3
<1> HIDE DEF f
<1>5. \E p : p = [k \in Nat |-> IF k = 0 THEN 1 ELSE 2 * p[k - 1]]
  BY <1>4
<1> QED
  BY <1>5 DEF Pow2

LEMMA Pow2Step ==
    Pow2[0] = 1 /\ \A k \in Nat : Pow2[k + 1] = 2 * Pow2[k]
<1>1. Pow2[0] = 1
  BY Pow2Def
<1>2. ASSUME NEW k \in Nat PROVE Pow2[k + 1] = 2 * Pow2[k]
  <2>1. k + 1 \in Nat /\ k + 1 # 0 /\ (k + 1) - 1 = k
    OBVIOUS
  <2> QED
    BY <2>1, Pow2Def
<1> QED
  BY <1>1, <1>2

LEMMA Pow2Type ==
    \A k \in Nat : Pow2[k] \in Nat /\ Pow2[k] > k
<1> DEFINE T == {k \in Nat : Pow2[k] \in Nat /\ Pow2[k] > k}
<1>1. 0 \in T
  BY Pow2Step
<1>2. ASSUME NEW k \in Nat, k \in T PROVE k + 1 \in T
  BY <1>2, Pow2Step
<1> HIDE DEF T
<1>3. \A k \in Nat : k \in T
  BY <1>1, <1>2, SetInduction
<1> QED
  BY <1>3 DEF T

LEMMA Pow2Sum ==
    \A i, j \in Nat : Pow2[i + j] = Pow2[i] * Pow2[j]
<1> SUFFICES ASSUME NEW i \in Nat
             PROVE  \A j \in Nat : Pow2[i + j] = Pow2[i] * Pow2[j]
  OBVIOUS
<1> DEFINE T == {j \in Nat : Pow2[i + j] = Pow2[i] * Pow2[j]}
<1>1. 0 \in T
  <2>1. Pow2[i] \in Nat /\ i + 0 = i
    BY Pow2Type
  <2> QED
    BY <2>1, Pow2Step
<1>2. ASSUME NEW j \in Nat, j \in T PROVE j + 1 \in T
  <2>1. Pow2[i + (j + 1)] = 2 * Pow2[i + j]
    <3>1. i + j \in Nat /\ i + (j + 1) = (i + j) + 1
      OBVIOUS
    <3> QED
      BY <3>1, Pow2Step
  <2>2. Pow2[j + 1] = 2 * Pow2[j] /\ Pow2[i] \in Nat /\ Pow2[j] \in Nat
    BY Pow2Step, Pow2Type
  <2>3. 2 * (Pow2[i] * Pow2[j]) = Pow2[i] * (2 * Pow2[j])
    BY <2>2
  <2> QED
    BY <1>2, <2>1, <2>2, <2>3
<1> HIDE DEF T
<1>3. \A j \in Nat : j \in T
  BY <1>1, <1>2, SetInduction
<1> QED
  BY <1>3 DEF T

-----------------------------------------------------------------------------
(* The widths.  A word is half a register, and its width divides 2^WLEN.    *)
H == X \div 2
HW == W \div 2

LEMMA Widths ==
    /\ W \in Nat /\ X \in Nat /\ H \in Nat /\ HW \in Nat
    /\ W = 2 * HW /\ X = 2 * H /\ X = W * W /\ HW >= 8 /\ H >= 8
<1> USE ISAAssumption
<1>1. XLEN \in Nat /\ WLEN \in Nat /\ XLEN = WLEN + WLEN /\ WLEN >= 4
  BY DEF XLEN, WLEN
<1>2. W \in Nat /\ X \in Nat /\ X = W * W
  BY <1>1, Pow2Sum, Pow2Type DEF X, W
<1>3. W = 2 * Pow2[WLEN - 1] /\ Pow2[WLEN - 1] \in Nat
  <2>1. WLEN - 1 \in Nat /\ (WLEN - 1) + 1 = WLEN
    BY <1>1
  <2> QED
    BY <2>1, Pow2Step, Pow2Type DEF W
<1>4. Pow2[WLEN - 1] >= 8
  <2>1. WLEN - 4 \in Nat /\ 3 + (WLEN - 4) = WLEN - 1
    BY <1>1
  <2>2. Pow2[3] = 8
    <3>1. Pow2[0 + 1] = 2 /\ Pow2[1 + 1] = 2 * Pow2[0 + 1] /\ Pow2[2 + 1] = 2 * Pow2[1 + 1]
      BY Pow2Step
    <3> QED
      BY <3>1
  <2>3. Pow2[3 + (WLEN - 4)] = Pow2[3] * Pow2[WLEN - 4]
    BY <2>1, Pow2Sum
  <2>4. Pow2[WLEN - 4] \in Nat /\ Pow2[WLEN - 4] > 0
    BY <2>1, Pow2Type
  <2> QED
    BY <2>1, <2>2, <2>3, <2>4
<1>5. HW = Pow2[WLEN - 1]
  BY <1>3 DEF HW
<1>6. X = 2 * (HW * W) /\ HW * W \in Nat /\ HW * W >= 8
  BY <1>2, <1>3, <1>4, <1>5
<1>7. H = HW * W
  BY <1>6 DEF H
<1> QED
  BY <1>2, <1>3, <1>4, <1>5, <1>6, <1>7

LEMMA HalfWidths ==
    Pow2[WLEN] = W /\ Pow2[WLEN - 1] = HW /\ Pow2[XLEN] = X
<1>1. WLEN - 1 \in Nat /\ (WLEN - 1) + 1 = WLEN
  BY ISAAssumption DEF WLEN
<1>2. W = 2 * Pow2[WLEN - 1] /\ Pow2[WLEN - 1] \in Nat
  BY <1>1, Pow2Step, Pow2Type DEF W
<1> QED
  BY <1>2 DEF W, X, HW

-----------------------------------------------------------------------------
(* Division with a positive divisor.                                        *)
LEMMA DivMod ==
    ASSUME NEW a \in Int, NEW m \in Nat, m > 0
    PROVE  /\ a \div m \in Int /\ a % m \in Nat
           /\ a = m * (a \div m) + (a % m) /\ 0 <= a % m /\ a % m < m
  OBVIOUS

LEMMA Bounded ==
    ASSUME NEW m \in Nat, NEW k \in Int, NEW r \in Int, m * k = r, r < m, -m < r, m > 0
    PROVE  k = 0
<1>1. CASE k >= 1
  <2>1. m * k = m * (k - 1) + m /\ m * (k - 1) >= 0
    BY <1>1
  <2> QED
    BY <2>1
<1>2. CASE k <= -1
  <2>1. m * k = m * (k + 1) - m /\ m * (k + 1) <= 0
    BY <1>2
  <2> QED
    BY <2>1
<1> QED
  BY <1>1, <1>2

LEMMA DivModUnique ==
    ASSUME NEW m \in Nat, m > 0, NEW q \in Int, NEW r \in Int, 0 <= r, r < m,
           NEW a \in Int, a = m * q + r
    PROVE  a \div m = q /\ a % m = r
<1>1. /\ a \div m \in Int /\ a % m \in Nat
      /\ a = m * (a \div m) + (a % m) /\ 0 <= a % m /\ a % m < m
  BY DivMod
<1> DEFINE d == a \div m
           e == a % m
<1> HIDE DEF d, e
<1>2. d \in Int /\ e \in Nat /\ m * d + e = m * q + r /\ e < m
  BY <1>1 DEF d, e
<1>3. m * (q - d) = e - r
  BY <1>2
<1>4. q - d = 0
  BY <1>2, <1>3, Bounded
<1>5. d = q /\ e = r
  BY <1>2, <1>3, <1>4
<1> QED
  BY <1>5 DEF d, e

LEMMA ModShift ==
    ASSUME NEW a \in Int, NEW k \in Int, NEW m \in Nat, m > 0
    PROVE  (a + m * k) % m = a % m /\ (a + m * k) \div m = (a \div m) + k
<1> DEFINE d == a \div m
           e == a % m
<1> HIDE DEF d, e
<1>1. d \in Int /\ e \in Int /\ 0 <= e /\ e < m /\ a = m * d + e
  BY DivMod DEF d, e
<1>2. m * (d + k) = m * d + m * k
  BY <1>1
<1>3. m * k \in Int /\ a + m * k \in Int /\ d + k \in Int /\ a + m * k = m * (d + k) + e
  BY <1>1, <1>2
<1>4. (a + m * k) \div m = d + k /\ (a + m * k) % m = e
  BY <1>1, <1>3, DivModUnique
<1> QED
  BY <1>4 DEF d, e

LEMMA ModSmall ==
    ASSUME NEW m \in Nat, NEW a \in Int, 0 <= a, a < m
    PROVE  a % m = a /\ a \div m = 0
<1>1. a = m * 0 + a /\ m > 0
  OBVIOUS
<1> QED
  BY <1>1, DivModUnique

(* A word is the low half of a register. *)
LEMMA ModMod ==
    ASSUME NEW z \in Int
    PROVE  (z % X) % W = z % W
<1>1. X \in Nat /\ X > 0 /\ W \in Nat /\ W > 0 /\ X = W * W
  BY Widths
<1> DEFINE q == z \div X
           r == z % X
<1>2. q \in Int /\ z = X * q + r /\ r \in Int
  BY <1>1, DivMod
<1> SUFFICES r % W = z % W
  OBVIOUS
<1> HIDE DEF q, r
<1>3. W * (W * q) = X * q /\ W * q \in Int
  BY <1>1, <1>2
<1>4. z = r + W * (W * q)
  BY <1>1, <1>2, <1>3
<1>5. (r + W * (W * q)) % W = r % W
  BY <1>1, <1>2, <1>3, ModShift
<1> QED
  BY <1>4, <1>5

-----------------------------------------------------------------------------
(* The conversions. *)
Word64 == 0 .. X - 1

LEMMA RegType ==
    ASSUME NEW z \in Int
    PROVE  Reg(z) \in Word64
  BY Widths, DivMod DEF Reg, Word64

LEMMA SType ==
    ASSUME NEW a \in Word64
    PROVE  /\ S(a) \in Int /\ -H <= S(a) /\ S(a) < H
           /\ S(a) = a \/ S(a) = a - X
           /\ a \in Int /\ 0 <= a /\ a < X
           /\ S(a) >= 0 => S(a) = a
           /\ S(a) < 0 => S(a) = a - X
  BY Widths DEF S, H, Word64

LEMMA RegS ==
    ASSUME NEW a \in Word64
    PROVE  Reg(S(a)) = a
<1>1. X \in Nat /\ a \in Int /\ 0 <= a /\ a < X /\ a % X = a
  BY Widths, ModSmall DEF Word64
<1>2. (a + X * (-1)) % X = a % X
  BY <1>1, ModShift
<1>3. a + X * (-1) = a - X
  BY <1>1
<1> QED
  BY <1>1, <1>2, <1>3, SType DEF Reg

LEMMA SReg ==
    ASSUME NEW z \in Int, -H <= z, z < H
    PROVE  S(Reg(z)) = z
<1>1. X \in Nat /\ H \in Nat /\ X = 2 * H /\ X > 0 /\ X \div 2 = H
  BY Widths DEF H
<1>2. CASE z >= 0
  <2>1. z % X = z
    BY <1>1, <1>2, ModSmall
  <2> QED
    BY <1>1, <1>2, <2>1 DEF S, Reg
<1>3. CASE z < 0
  <2>1. (z + X * 1) % X = z % X
    BY <1>1, ModShift
  <2>2. z + X * 1 = z + X
    BY <1>1
  <2>3. (z + X) % X = z + X
    BY <1>1, <1>3, ModSmall
  <2>4. z % X = z + X
    BY <2>1, <2>2, <2>3
  <2> QED
    BY <1>1, <1>3, <2>4 DEF S, Reg
<1> QED
  BY <1>2, <1>3

LEMMA RegCongruent ==
    ASSUME NEW z \in Int, NEW k \in Int
    PROVE  Reg(z + X * k) = Reg(z)
<1>1. X \in Nat /\ X > 0
  BY Widths
<1> QED
  BY <1>1, ModShift DEF Reg

LEMMA UWType ==
    ASSUME NEW z \in Int
    PROVE  UW(z) \in Int /\ 0 <= UW(z) /\ UW(z) < W
  BY Widths, DivMod DEF UW

LEMMA SWType ==
    ASSUME NEW z \in Int
    PROVE  /\ SW(z) \in Int /\ -HW <= SW(z) /\ SW(z) < HW
           /\ SW(z) = UW(z) \/ SW(z) = UW(z) - W
           /\ SW(z) >= 0 => SW(z) = UW(z)
           /\ SW(z) < 0 => SW(z) = UW(z) - W
  BY Widths, UWType DEF SW, HW

LEMMA UWCongruent ==
    ASSUME NEW z \in Int, NEW k \in Int
    PROVE  UW(z + W * k) = UW(z)
<1>1. W \in Nat /\ W > 0
  BY Widths
<1> QED
  BY <1>1, ModShift DEF UW

LEMMA UWSmall ==
    ASSUME NEW z \in Int, 0 <= z, z < W
    PROVE  UW(z) = z
  BY Widths, ModSmall DEF UW

LEMMA UWUW ==
    ASSUME NEW z \in Int
    PROVE  UW(UW(z)) = UW(z)
  BY UWType, UWSmall

LEMMA UWSW ==
    ASSUME NEW z \in Int
    PROVE  UW(SW(z)) = UW(z)
<1>1. W \in Nat /\ UW(z) \in Int /\ UW(UW(z)) = UW(z)
  BY Widths, UWType, UWUW
<1>2. UW(UW(z) + W * (-1)) = UW(UW(z))
  BY <1>1, UWCongruent
<1>3. UW(z) + W * (-1) = UW(z) - W
  BY <1>1
<1> QED
  BY <1>1, <1>2, <1>3, SWType

LEMMA SWOfUW ==
    ASSUME NEW y \in Int, NEW z \in Int, UW(y) = UW(z)
    PROVE  SW(y) = SW(z)
  BY DEF SW

LEMMA SWSmall ==
    ASSUME NEW z \in Int, -HW <= z, z < HW
    PROVE  SW(z) = z
<1>1. W \in Nat /\ HW \in Nat /\ W = 2 * HW /\ W \div 2 = HW
  BY Widths DEF HW
<1>2. CASE z >= 0
  BY <1>1, <1>2, UWSmall DEF SW
<1>3. CASE z < 0
  <2>1. UW(z + W * 1) = UW(z) /\ z + W * 1 = z + W
    BY <1>1, UWCongruent
  <2>2. UW(z + W) = z + W
    BY <1>1, <1>3, UWSmall
  <2> QED
    BY <1>1, <1>3, <2>1, <2>2 DEF SW
<1> QED
  BY <1>2, <1>3

LEMMA RegSmall ==
    ASSUME NEW z \in Int, 0 <= z, z < X
    PROVE  Reg(z) = z
  BY Widths, ModSmall DEF Reg

(* The register value of a word: its signed value, in 64 bits. *)
LEMMA RegWIsRegSW ==
    ASSUME NEW z \in Int
    PROVE  RegW(z) = Reg(SW(z))
<1>1. /\ W \in Nat /\ HW \in Nat /\ W = 2 * HW /\ W \div 2 = HW /\ X \in Nat /\ HW > 0
      /\ W < X
  <2>1. W * W >= 2 * W
    BY Widths
  <2> QED
    BY <2>1, Widths DEF HW
<1>2. UW(z) \in Int /\ 0 <= UW(z) /\ UW(z) < W
  BY UWType
<1>3. RegW(z) = IF UW(z) < HW THEN UW(z) ELSE UW(z) + X - W
  BY HalfWidths DEF RegW, SextFrom, UW
<1>4. CASE UW(z) < HW
  <2>1. SW(z) = UW(z) /\ Reg(UW(z)) = UW(z)
    BY <1>1, <1>2, <1>4, RegSmall DEF SW
  <2> QED
    BY <1>3, <1>4, <2>1
<1>5. CASE ~(UW(z) < HW)
  <2>1. SW(z) = UW(z) - W
    BY <1>1, <1>2, <1>5 DEF SW
  <2>2. UW(z) - W \in Int /\ (UW(z) - W) + X * 1 = UW(z) + X - W
    BY <1>1, <1>2
  <2>3. Reg((UW(z) - W) + X * 1) = Reg(UW(z) - W)
    BY <2>2, RegCongruent
  <2>4. Reg(UW(z) + X - W) = UW(z) + X - W
    BY <1>1, <1>2, RegSmall
  <2> QED
    BY <1>3, <1>5, <2>1, <2>2, <2>3, <2>4
<1> QED
  BY <1>4, <1>5

LEMMA RegWFacts ==
    ASSUME NEW z \in Int
    PROVE  /\ RegW(z) \in Word64 /\ RegW(z) \in Int
           /\ S(RegW(z)) = SW(z)
           /\ UW(RegW(z)) = UW(z)
           /\ SW(RegW(z)) = SW(z)
           /\ RegW(RegW(z)) = RegW(z)
<1>1. /\ SW(z) \in Int /\ -HW <= SW(z) /\ SW(z) < HW /\ HW \in Nat /\ H \in Nat /\ X \in Nat
      /\ HW <= H
  <2>1. W * W >= W
    BY Widths
  <2> QED
    BY <2>1, Widths, SWType
<1>2. RegW(z) = Reg(SW(z)) /\ RegW(z) \in Word64 /\ RegW(z) \in Int
  BY <1>1, RegWIsRegSW, RegType DEF Word64
<1>3. S(RegW(z)) = SW(z)
  BY <1>1, <1>2, SReg
<1>4. UW(RegW(z)) = UW(z)
  BY <1>1, <1>2, ModMod, UWSW DEF Reg, UW
<1>5. SW(RegW(z)) = SW(z)
  BY <1>2, <1>4, SWOfUW
<1> QED
  BY <1>2, <1>3, <1>4, <1>5, RegWIsRegSW

LEMMA RegWOfUW ==
    ASSUME NEW y \in Int, NEW z \in Int, UW(y) = UW(z)
    PROVE  RegW(y) = RegW(z)
  BY SWOfUW, RegWIsRegSW

LEMMA RegWSmall ==
    ASSUME NEW z \in Int, -HW <= z, z < HW
    PROVE  RegW(z) = Reg(z)
  BY RegWIsRegSW, SWSmall

-----------------------------------------------------------------------------
(* Division that rounds towards zero. *)
LEMMA Truncates ==
    ASSUME NEW a \in Int, NEW b \in Int, b # 0
    PROVE  /\ Quotient(a, b) \in Int /\ Remainder(a, b) \in Int
           /\ Abs(Remainder(a, b)) < Abs(b)
           /\ Remainder(a, b) = 0 \/ (Remainder(a, b) < 0) = (a < 0)
           /\ b * Quotient(a, b) + Remainder(a, b) = a
<1> DEFINE m == Abs(b)
           d == Abs(a) \div m
           e == Abs(a) % m
           q == Quotient(a, b)
<1>1. m \in Nat /\ m > 0 /\ Abs(a) \in Nat /\ (m = b \/ m = -b) /\ (b < 0 <=> m = -b)
  BY DEF Abs
<1>2. d \in Int /\ e \in Nat /\ Abs(a) = m * d + e /\ e < m
  BY <1>1, DivMod
<1>3. q = IF (a < 0) = (b < 0) THEN d ELSE -d
  BY DEF Quotient
<1>4. Abs(a) = IF a < 0 THEN -a ELSE a
  BY DEF Abs
<1> HIDE DEF m, d, e, q
<1>5. b * q = IF a < 0 THEN -(m * d) ELSE m * d
  <2>1. b * q \in {m * d, -(m * d)}
    BY <1>1, <1>2, <1>3
  <2>2. CASE b < 0
    <3>1. b = -m
      BY <1>1, <2>2
    <3>2. (-m) * d = -(m * d) /\ (-m) * (-d) = m * d
      BY <1>1, <1>2
    <3> QED
      BY <1>3, <2>2, <3>1, <3>2
  <2>3. CASE ~(b < 0)
    <3>1. b = m
      BY <1>1, <2>3
    <3>2. m * (-d) = -(m * d)
      BY <1>1, <1>2
    <3> QED
      BY <1>3, <2>3, <3>1, <3>2
  <2> QED
    BY <2>2, <2>3
<1>6. q \in Int /\ b * q \in Int /\ m * d \in Int
  BY <1>2, <1>3, <1>1
<1>7. a - b * q = IF a < 0 THEN -e ELSE e
  BY <1>1, <1>2, <1>4, <1>5, <1>6
<1>8. Remainder(a, b) = a - b * q
  BY DEF Remainder, q
<1>9. Abs(Remainder(a, b)) = e /\ (Remainder(a, b) = 0 \/ (Remainder(a, b) < 0) = (a < 0))
  BY <1>2, <1>7, <1>8 DEF Abs
<1> QED
  BY <1>2, <1>6, <1>8, <1>9 DEF q, m

LEMMA QuotientRange ==
    ASSUME NEW a \in Int, NEW b \in Int, b # 0, NEW M \in Nat, M > 0, -M <= a, a < M,
           ~(a = -M /\ b = -1)
    PROVE  -M <= Quotient(a, b) /\ Quotient(a, b) < M
<1> DEFINE m == Abs(b)
           d == Abs(a) \div m
           e == Abs(a) % m
<1>1. m \in Nat /\ m > 0 /\ Abs(a) \in Nat /\ Abs(a) <= M
  BY DEF Abs
<1>2. d \in Int /\ Abs(a) >= m * d /\ d >= 0
  <2>1. Abs(a) \in Int /\ m \in Nat /\ m > 0
    BY <1>1
  <2> HIDE DEF m
  <2>2. d \in Int /\ e \in Nat /\ Abs(a) = m * d + e /\ e < m
    BY <2>1, DivMod
  <2> HIDE DEF d, e
  <2>3. ASSUME d < 0 PROVE FALSE
    <3>1. m * d = m * (d + 1) - m /\ m * (d + 1) <= 0
      BY <1>1, <2>2, <2>3
    <3> QED
      BY <1>1, <2>2, <3>1
  <2>4. m * d \in Int
    BY <1>1, <2>2
  <2> QED
    BY <1>1, <2>2, <2>3, <2>4
<1>3. Quotient(a, b) = IF (a < 0) = (b < 0) THEN d ELSE -d
  BY DEF Quotient
<1>4. CASE m = 1
  <2>1. d = Abs(a) /\ (b = 1 \/ b = -1)
    BY <1>1, <1>4 DEF Abs
  <2> HIDE DEF m, d
  <2> QED
    BY <1>1, <1>3, <2>1 DEF Abs
<1>5. CASE m >= 2
  <2> HIDE DEF m, d
  <2>1. m * d >= 2 * d
    BY <1>1, <1>2, <1>5
  <2>2. 2 * d <= M
    BY <1>1, <1>2, <2>1
  <2> QED
    BY <1>2, <1>3, <2>2
<1> HIDE DEF m
<1> QED
  BY <1>1, <1>4, <1>5

-----------------------------------------------------------------------------
(* A multiplication by a power of two, and the bits of a register. *)
LEMMA Pow2Bound ==
    ASSUME NEW b \in 0 .. XLEN
    PROVE  /\ Pow2[b] \in Nat /\ Pow2[b] > 0 /\ Pow2[b] <= X
           /\ Pow2[XLEN - b] \in Nat /\ Pow2[XLEN - b] > 0 /\ X = Pow2[b] * Pow2[XLEN - b]
<1>1. XLEN \in Nat
  BY ISAAssumption DEF XLEN
<1>2. b \in Nat /\ XLEN - b \in Nat /\ b + (XLEN - b) = XLEN
  BY <1>1
<1>3. Pow2[b] \in Nat /\ Pow2[b] > 0 /\ Pow2[XLEN - b] \in Nat /\ Pow2[XLEN - b] > 0
  BY <1>2, Pow2Type
<1>4. Pow2[b + (XLEN - b)] = Pow2[b] * Pow2[XLEN - b]
  BY <1>2, Pow2Sum
<1>5. X = Pow2[b] * Pow2[XLEN - b]
  BY <1>2, <1>4 DEF X
<1> DEFINE p == Pow2[b]
           r == Pow2[XLEN - b]
<1> HIDE DEF p, r
<1>6. p \in Nat /\ r \in Nat /\ p > 0 /\ r > 0
  BY <1>3 DEF p, r
<1>7. p * r = p + p * (r - 1) /\ p * (r - 1) >= 0
  BY <1>6
<1>8. p * r >= p
  BY <1>6, <1>7
<1> QED
  BY <1>3, <1>5, <1>8 DEF p, r

LEMMA SextFromType ==
    ASSUME NEW x \in Int, NEW b \in 1 .. XLEN
    PROVE  SextFrom(x, b) \in Word64
<1>1. XLEN \in Nat /\ b \in 0 .. XLEN /\ X \in Nat
  BY ISAAssumption, Widths DEF XLEN
<1> DEFINE p == Pow2[b]
           h == Pow2[b - 1]
<1>2. p \in Nat /\ p > 0 /\ p <= X
  BY <1>1, Pow2Bound
<1>3. SextFrom(x, b) = IF x % p < h THEN x % p ELSE (x % p) + X - p
  BY DEF SextFrom
<1> HIDE DEF p, h
<1>4. x % p \in Nat /\ x % p < p
  BY <1>2, DivMod
<1> QED
  BY <1>1, <1>2, <1>3, <1>4 DEF Word64

LEMMA QuotientIsSmaller ==
    ASSUME NEW a \in Word64, NEW p \in Nat, p > 0
    PROVE  a \div p \in Word64
<1>1. X \in Nat /\ a \in Int /\ 0 <= a /\ a < X
  BY Widths DEF Word64
<1> DEFINE q == a \div p
           e == a % p
<1>2. q \in Int /\ e \in Nat /\ a = p * q + e /\ e < p
  BY <1>1, DivMod
<1> HIDE DEF q, e
<1>3. 0 <= q
  <2> SUFFICES ASSUME q < 0 PROVE FALSE
    BY <1>2
  <2>1. p * q = p * (q + 1) - p /\ p * (q + 1) <= 0
    BY <1>2
  <2> QED
    BY <1>1, <1>2, <2>1
<1>4. p * q = q + (p - 1) * q /\ (p - 1) * q >= 0
  BY <1>2, <1>3
<1>5. q <= a
  BY <1>1, <1>2, <1>4
<1>6. q \in Word64
  BY <1>1, <1>2, <1>3, <1>5 DEF Word64
<1> QED
  BY <1>6 DEF q

(* The number of XLEN bits is below 2^XLEN. *)
LEMMA OfBitsType ==
    ASSUME NEW bit \in [0 .. XLEN - 1 -> {0, 1}]
    PROVE  OfBits(bit) \in Word64
<1>1. XLEN \in Nat /\ X = Pow2[XLEN]
  BY ISAAssumption DEF XLEN, X
<1> DEFINE Part(g, m) == /\ g \in [0 .. m -> Nat] /\ g[0] = 0
                         /\ \A k \in 1 .. m : g[k] = g[k - 1] + bit[k - 1] * Pow2[k - 1]
           T == {m \in Nat : m <= XLEN => \E g : Part(g, m)}
<1>2. 0 \in T
  <2>1. Part([k \in 0 .. 0 |-> 0], 0)
    OBVIOUS
  <2> QED
    BY <2>1
<1>3. ASSUME NEW m \in Nat, m \in T PROVE m + 1 \in T
  <2> SUFFICES ASSUME m + 1 <= XLEN PROVE \E g : Part(g, m + 1)
    OBVIOUS
  <2>1. PICK g : Part(g, m)
    BY <1>1, <1>3
  <2>2. bit[m] \in Nat /\ Pow2[m] \in Nat /\ g[m] \in Nat
    BY <1>1, <2>1, Pow2Type
  <2> DEFINE s == g[m] + bit[m] * Pow2[m]
             h == [k \in 0 .. m + 1 |-> IF k = m + 1 THEN s ELSE g[k]]
  <2>3. s \in Nat
    BY <2>2
  <2>4. h \in [0 .. m + 1 -> Nat] /\ h[0] = 0
    <3> HIDE DEF s
    <3> QED
      BY <2>1, <2>3
  <2>5. ASSUME NEW k \in 1 .. m + 1 PROVE h[k] = h[k - 1] + bit[k - 1] * Pow2[k - 1]
    <3>1. h[k - 1] = g[k - 1]
      BY <2>1
    <3>2. CASE k = m + 1
      BY <3>1, <3>2
    <3>3. CASE k \in 1 .. m
      BY <2>1, <3>1, <3>3
    <3> QED
      BY <3>2, <3>3
  <2>6. Part(h, m + 1)
    BY <2>4, <2>5
  <2> QED
    BY <2>6
<1>4. \E g : Part(g, XLEN)
  <2> HIDE DEF T
  <2>1. XLEN \in T
    BY <1>1, <1>2, <1>3, SetInduction
  <2> QED
    BY <1>1, <2>1 DEF T
<1> DEFINE IsSum(f) == f = [k \in 0 .. XLEN |-> IF k = 0 THEN 0 ELSE f[k - 1] + bit[k - 1] * Pow2[k - 1]]
           sum == CHOOSE f : IsSum(f)
<1>5. OfBits(bit) = sum[XLEN]
  BY DEF OfBits
<1>6. IsSum(sum)
  <2>1. PICK g : Part(g, XLEN)
    BY <1>4
  <2>2. IsSum(g)
    BY <1>1, <2>1
  <2> QED
    BY <2>2
<1> DEFINE U == {k \in Nat : k <= XLEN => sum[k] \in Nat /\ sum[k] < Pow2[k]}
<1> HIDE DEF sum
<1>7. 0 \in U
  BY <1>1, <1>6, Pow2Step
<1>8. ASSUME NEW k \in Nat, k \in U PROVE k + 1 \in U
  <2> SUFFICES ASSUME k + 1 <= XLEN PROVE sum[k + 1] \in Nat /\ sum[k + 1] < Pow2[k + 1]
    OBVIOUS
  <2>1. /\ sum[k] \in Nat /\ sum[k] < Pow2[k]
        /\ Pow2[k] \in Nat /\ Pow2[k + 1] = 2 * Pow2[k]
    <3>1. sum[k] \in Nat /\ sum[k] < Pow2[k]
      BY <1>1, <1>8
    <3> QED
      BY <3>1, Pow2Type, Pow2Step
  <2>2. sum[k + 1] = sum[k] + bit[k] * Pow2[k]
    BY <1>1, <1>6
  <2>3. bit[k] = 0 \/ bit[k] = 1
    BY <1>1
  <2>4. bit[k] * Pow2[k] = 0 \/ bit[k] * Pow2[k] = Pow2[k]
    BY <2>1, <2>3
  <2> QED
    BY <2>1, <2>2, <2>4
<1> HIDE DEF U
<1>9. XLEN \in U
  BY <1>1, <1>7, <1>8, SetInduction
<1> QED
  BY <1>1, <1>5, <1>9, Pow2Type DEF U, Word64

LEMMA BitOpsType ==
    ASSUME NEW x \in Int, NEW y \in Int
    PROVE  BitAnd(x, y) \in Word64 /\ BitOr(x, y) \in Word64 /\ BitXor(x, y) \in Word64
<1>1. ASSUME NEW k \in 0 .. XLEN - 1, NEW z \in Int PROVE Bit(z, k) \in {0, 1}
  <2>1. k \in Nat
    BY ISAAssumption DEF XLEN
  <2>2. Pow2[k] \in Nat /\ Pow2[k] > 0
    BY <2>1, Pow2Type
  <2>3. z \div Pow2[k] \in Int
    BY <2>2, DivMod
  <2> QED
    BY <2>3 DEF Bit
<1>2. [k \in 0 .. XLEN - 1 |-> Bit(x, k) * Bit(y, k)] \in [0 .. XLEN - 1 -> {0, 1}]
  <2>1. \A b, c \in {0, 1} : b * c \in {0, 1}
    OBVIOUS
  <2> QED
    BY <1>1, <2>1
<1>3. [k \in 0 .. XLEN - 1 |-> Bool(Bit(x, k) + Bit(y, k) > 0)] \in [0 .. XLEN - 1 -> {0, 1}]
  BY DEF Bool
<1>4. [k \in 0 .. XLEN - 1 |-> (Bit(x, k) + Bit(y, k)) % 2] \in [0 .. XLEN - 1 -> {0, 1}]
  <2>1. \A b, c \in {0, 1} : (b + c) % 2 \in {0, 1}
    OBVIOUS
  <2> QED
    BY <1>1, <2>1
<1> QED
  BY <1>2, <1>3, <1>4, OfBitsType DEF BitAnd, BitOr, BitXor

-----------------------------------------------------------------------------
(* What the instructions return is a register value. *)
LEMMA BoolType ==
    ASSUME NEW p
    PROVE  Bool(p) \in Word64
  BY Widths DEF Bool, Word64

LEMMA ShiftType ==
    ASSUME NEW s \in Int
    PROVE  /\ Pow2[s % XLEN] \in Nat /\ Pow2[s % XLEN] > 0
           /\ Pow2[s % WLEN] \in Nat /\ Pow2[s % WLEN] > 0
<1>1. XLEN \in Nat /\ XLEN > 0 /\ WLEN \in Nat /\ WLEN > 0
  BY ISAAssumption DEF XLEN, WLEN
<1>2. s % XLEN \in Nat /\ s % WLEN \in Nat
  BY <1>1, DivMod
<1> QED
  BY <1>2, Pow2Type

(* The operands of the instructions as integers. *)
LEMMA Operands ==
    ASSUME NEW a \in Word64
    PROVE  a \in Int /\ a >= 0 /\ S(a) \in Int /\ UW(a) \in Int /\ UW(a) >= 0 /\ SW(a) \in Int
<1>1. a \in Int /\ a >= 0
  BY Widths DEF Word64
<1> QED
  BY <1>1, SType, UWType, SWType

LEMMA OpImmType ==
    ASSUME NEW a \in Word64, NEW imm \in Word64, NEW op \in OpImmSet
    PROVE  OpImm(op, a, imm) \in Word64
<1>1. /\ a \in Int /\ imm \in Int /\ S(a) + S(imm) \in Int
  BY Operands
<1>2. /\ Reg(S(a) + S(imm)) \in Word64 /\ RegW(S(a) + S(imm)) \in Word64
      /\ Bool(S(a) < S(imm)) \in Word64 /\ Bool(a < imm) \in Word64
      /\ BitXor(a, imm) \in Word64 /\ BitOr(a, imm) \in Word64 /\ BitAnd(a, imm) \in Word64
  BY <1>1, RegType, RegWFacts, BoolType, BitOpsType
<1> QED
  BY <1>2 DEF OpImm, OpImmSet

LEMMA ShiftImmType ==
    ASSUME NEW a \in Word64, NEW imm \in Word64, NEW op \in ShiftImmSet
    PROVE  ShiftImm(op, a, imm) \in Word64
<1> DEFINE x == Pow2[imm % XLEN]
           w == Pow2[imm % WLEN]
<1>1. a \in Int /\ imm \in Int /\ S(a) \in Int /\ UW(a) \in Int /\ SW(a) \in Int
  BY Operands
<1>2. x \in Nat /\ x > 0 /\ w \in Nat /\ w > 0
  BY <1>1, ShiftType
<1>3. ShiftImm(op, a, imm) \in {Reg(a * x), a \div x, Reg(S(a) \div x),
                               RegW(UW(a) * w), RegW(UW(a) \div w), RegW(SW(a) \div w)}
  BY DEF ShiftImm, ShiftImmSet
<1> HIDE DEF x, w
<1>4. /\ a * x \in Int /\ UW(a) * w \in Int
      /\ S(a) \div x \in Int /\ UW(a) \div w \in Int /\ SW(a) \div w \in Int
  BY <1>1, <1>2, DivMod
<1>5. a \div x \in Word64
  BY <1>2, QuotientIsSmaller
<1> QED
  BY <1>3, <1>4, <1>5, RegType, RegWFacts

LEMMA AddType ==
    ASSUME NEW a \in Word64, NEW b \in Word64, NEW op \in AddSet
    PROVE  Add(op, a, b) \in Word64
<1>1. /\ S(a) + S(b) \in Int /\ S(a) - S(b) \in Int
      /\ SW(a) + SW(b) \in Int /\ SW(a) - SW(b) \in Int
  BY Operands
<1>2. Add(op, a, b) \in {Reg(S(a) + S(b)), RegW(SW(a) + SW(b)), Reg(S(a) - S(b)), RegW(SW(a) - SW(b))}
  BY DEF Add, AddSet
<1> QED
  BY <1>1, <1>2, RegType, RegWFacts

LEMMA ShiftLeftType ==
    ASSUME NEW a \in Word64, NEW b \in Word64, NEW op \in ShiftLeftSet
    PROVE  ShiftLeft(op, a, b) \in Word64
<1> DEFINE x == Pow2[b % XLEN]
           w == Pow2[b % WLEN]
<1>1. a \in Int /\ b \in Int /\ UW(a) \in Int
  BY Operands
<1>2. x \in Nat /\ w \in Nat
  BY <1>1, ShiftType
<1>3. ShiftLeft(op, a, b) \in {Reg(a * x), RegW(UW(a) * w), Bool(S(a) < S(b)), Bool(a < b), BitXor(a, b)}
  BY DEF ShiftLeft, ShiftLeftSet
<1> HIDE DEF x, w
<1>4. a * x \in Int /\ UW(a) * w \in Int
  BY <1>1, <1>2
<1> QED
  BY <1>1, <1>3, <1>4, RegType, RegWFacts, BoolType, BitOpsType

LEMMA MulType ==
    ASSUME NEW a \in Word64, NEW b \in Word64, NEW op \in MulSet
    PROVE  Mul(op, a, b) \in Word64
<1>1. a \in Int /\ b \in Int /\ S(a) \in Int /\ S(b) \in Int /\ SW(a) \in Int /\ SW(b) \in Int
  BY Operands
<1>2. X \in Nat /\ X > 0 /\ X * X \in Nat /\ X * X > 0
  BY Widths
<1> DEFINE s == S(a) % (X * X)
           p == (s * b) % (X * X)
<1>3. S(a) * S(b) \in Int /\ SW(a) * SW(b) \in Int /\ a * b \in Int
  BY <1>1
<1>4. p \in Int
  <2>1. s \in Int
    BY <1>1, <1>2, DivMod
  <2> HIDE DEF s
  <2>2. s * b \in Int
    BY <1>1, <2>1
  <2> QED
    BY <1>2, <2>2, DivMod
<1>5. Mul(op, a, b) \in {Reg(S(a) * S(b)), RegW(SW(a) * SW(b)), Reg((S(a) * S(b)) \div X),
                        Reg((a * b) \div X), Reg(p \div X)}
  BY DEF Mul, MulSet
<1> HIDE DEF p
<1>6. (S(a) * S(b)) \div X \in Int /\ (a * b) \div X \in Int /\ p \div X \in Int
  BY <1>2, <1>3, <1>4, DivMod
<1> QED
  BY <1>3, <1>5, <1>6, RegType, RegWFacts

LEMMA ZeroWord ==
    ASSUME NEW z \in Int
    PROVE  SW(z) = 0 <=> UW(z) = 0
  BY Widths, SWType, UWType

LEMMA DivType ==
    ASSUME NEW a \in Word64, NEW b \in Word64, NEW op \in DivSet
    PROVE  Div(op, a, b) \in Word64
<1>1. /\ a \in Int /\ b \in Int /\ b >= 0 /\ S(a) \in Int /\ S(b) \in Int
      /\ UW(a) \in Int /\ UW(b) \in Int /\ UW(b) >= 0 /\ SW(a) \in Int /\ SW(b) \in Int
  BY Operands
<1>2. X - 1 \in Word64 /\ RegW(a) \in Word64
  BY <1>1, Widths, RegWFacts DEF Word64
<1>3. ASSUME op = "DIV" PROVE Div(op, a, b) \in Word64
  <2>1. b # 0 => S(b) # 0
    BY <1>1, SType
  <2>2. b # 0 => Reg(Quotient(S(a), S(b))) \in Word64
    BY <1>1, <2>1, Truncates, RegType
  <2> QED
    BY <1>2, <1>3, <2>2 DEF Div
<1>4. ASSUME op = "DIVU" PROVE Div(op, a, b) \in Word64
  <2>1. b # 0 => a \div b \in Int
    BY <1>1, DivMod
  <2> QED
    BY <1>2, <1>4, <2>1, RegType DEF Div
<1>5. ASSUME op = "DIVW" PROVE Div(op, a, b) \in Word64
  <2>1. SW(b) # 0 => RegW(Quotient(SW(a), SW(b))) \in Word64
    BY <1>1, Truncates, RegWFacts
  <2> QED
    BY <1>2, <1>5, <2>1 DEF Div
<1>6. ASSUME op = "DIVUW" PROVE Div(op, a, b) \in Word64
  <2>1. UW(b) # 0 => UW(a) \div UW(b) \in Int
    BY <1>1, DivMod
  <2> QED
    BY <1>2, <1>6, <2>1, RegWFacts DEF Div
<1> QED
  BY <1>3, <1>4, <1>5, <1>6 DEF DivSet

LEMMA RemType ==
    ASSUME NEW a \in Word64, NEW b \in Word64, NEW op \in RemSet
    PROVE  Rem(op, a, b) \in Word64
<1>1. /\ a \in Int /\ b \in Int /\ b >= 0 /\ S(a) \in Int /\ S(b) \in Int
      /\ UW(a) \in Int /\ UW(b) \in Int /\ UW(b) >= 0 /\ SW(a) \in Int /\ SW(b) \in Int
  BY Operands
<1>2. 0 \in Word64 /\ RegW(a) \in Word64
  BY <1>1, Widths, RegWFacts DEF Word64
<1>3. ASSUME op = "REM" PROVE Rem(op, a, b) \in Word64
  <2>1. b # 0 => S(b) # 0
    BY <1>1, SType
  <2>2. b # 0 => Reg(Remainder(S(a), S(b))) \in Word64
    BY <1>1, <2>1, Truncates, RegType
  <2> QED
    BY <1>2, <1>3, <2>2 DEF Rem
<1>4. ASSUME op = "REMU" PROVE Rem(op, a, b) \in Word64
  <2>1. b # 0 => a % b \in Int
    BY <1>1, DivMod
  <2> QED
    BY <1>2, <1>4, <2>1, RegType DEF Rem
<1>5. ASSUME op = "REMW" PROVE Rem(op, a, b) \in Word64
  <2>1. SW(b) # 0 => Reg(Remainder(SW(a), SW(b))) \in Word64
    BY <1>1, Truncates, RegType
  <2> QED
    BY <1>2, <1>5, <2>1 DEF Rem
<1>6. ASSUME op = "REMUW" PROVE Rem(op, a, b) \in Word64
  <2>1. UW(b) # 0 => UW(a) % UW(b) \in Int
    BY <1>1, DivMod
  <2> QED
    BY <1>2, <1>6, <2>1, RegWFacts DEF Rem
<1> QED
  BY <1>3, <1>4, <1>5, <1>6 DEF RemSet

LEMMA ShiftRightType ==
    ASSUME NEW a \in Word64, NEW b \in Word64, NEW op \in ShiftRightSet
    PROVE  ShiftRight(op, a, b) \in Word64
<1> DEFINE x == Pow2[b % XLEN]
           w == Pow2[b % WLEN]
<1>1. a \in Int /\ b \in Int /\ S(a) \in Int /\ UW(a) \in Int /\ SW(a) \in Int
  BY Operands
<1>2. x \in Nat /\ x > 0 /\ w \in Nat /\ w > 0
  BY <1>1, ShiftType
<1>3. ShiftRight(op, a, b) \in {a \div x, Reg(S(a) \div x), RegW(UW(a) \div w), RegW(SW(a) \div w)}
  BY DEF ShiftRight, ShiftRightSet
<1> HIDE DEF x, w
<1>4. S(a) \div x \in Int /\ UW(a) \div w \in Int /\ SW(a) \div w \in Int
  BY <1>1, <1>2, DivMod
<1>5. a \div x \in Word64
  BY <1>2, QuotientIsSmaller
<1> QED
  BY <1>3, <1>4, <1>5, RegType, RegWFacts

LEMMA OpRegType ==
    ASSUME NEW a \in Word64, NEW b \in Word64, NEW op \in OpRegSet
    PROVE  OpReg(op, a, b) \in Word64
<1>1. op \in AddSet => Add(op, a, b) \in Word64
  BY AddType
<1>2. op \in ShiftLeftSet => ShiftLeft(op, a, b) \in Word64
  BY ShiftLeftType
<1>3. op \in MulSet => Mul(op, a, b) \in Word64
  BY MulType
<1>4. op \in DivSet => Div(op, a, b) \in Word64
  BY DivType
<1>5. op \in RemSet => Rem(op, a, b) \in Word64
  BY RemType
<1>6. op \in ShiftRightSet => ShiftRight(op, a, b) \in Word64
  BY ShiftRightType
<1>7. OrAnd(op, a, b) \in Word64
  BY Operands, BitOpsType DEF OrAnd
<1> QED
  BY <1>1, <1>2, <1>3, <1>4, <1>5, <1>6, <1>7 DEF OpReg, OpRegSet

-----------------------------------------------------------------------------
(* Memory: replacing bytes leaves the ones below and above them alone.      *)
LEMMA MemBytesType ==
    ASSUME NEW a \in Nat, NEW nb \in 1 .. 8, mem \in Word64
    PROVE  MemBytes(a, nb) \in Word64 /\ MemBytes(a, nb) < Pow2[ByteBits * nb]
<1> DEFINE P == Pow2[ByteBits * a]
           Q == Pow2[ByteBits * nb]
<1>1. ByteBits \in Nat /\ ByteBits * a \in Nat /\ ByteBits * nb \in 0 .. XLEN
  BY ISAAssumption DEF XLEN
<1>2. P \in Nat /\ P > 0
  BY <1>1, Pow2Type
<1>3. Q \in Nat /\ Q > 0 /\ Q <= X
  BY <1>1, Pow2Bound
<1>4. MemBytes(a, nb) = (mem \div P) % Q
  BY DEF MemBytes
<1> HIDE DEF P, Q
<1>5. mem \in Int /\ X \in Nat
  BY Widths DEF Word64
<1>6. mem \div P \in Int
  BY <1>2, <1>5, DivMod
<1>7. (mem \div P) % Q \in Nat /\ (mem \div P) % Q < Q
  BY <1>3, <1>6, DivMod
<1> QED
  BY <1>3, <1>4, <1>5, <1>7 DEF Word64, Q

LEMMA MemWithFacts ==
    ASSUME NEW a \in Nat, NEW nb \in 1 .. 8, mem \in Word64, InMemory(a, nb), NEW v \in Int
    PROVE  /\ MemWith(a, nb, v) \in Word64
           /\ MemWith(a, nb, v) % Pow2[ByteBits * a] = mem % Pow2[ByteBits * a]
           /\ MemWith(a, nb, v) \div Pow2[ByteBits * (a + nb)] = mem \div Pow2[ByteBits * (a + nb)]
           /\ (MemWith(a, nb, v) \div Pow2[ByteBits * a]) % Pow2[ByteBits * nb] = v % Pow2[ByteBits * nb]
<1> DEFINE P == Pow2[ByteBits * a]
           Q == Pow2[ByteBits * nb]
           R == Pow2[XLEN - ByteBits * (a + nb)]
           c == v % Q
<1>1. /\ ByteBits * a \in Nat /\ ByteBits * nb \in Nat
      /\ ByteBits * (a + nb) = ByteBits * a + ByteBits * nb
  BY ISAAssumption
<1>2. ByteBits * (a + nb) \in 0 .. XLEN
  <2>1. a + nb \in Nat /\ a + nb <= 8 /\ ByteBits \in Nat
    BY ISAAssumption DEF InMemory
  <2>2. ByteBits * 8 = ByteBits * (a + nb) + ByteBits * (8 - (a + nb)) /\ ByteBits * (8 - (a + nb)) >= 0
    BY <2>1
  <2>3. ByteBits * (a + nb) \in Nat
    BY <2>1
  <2> QED
    BY <2>1, <2>2, <2>3 DEF XLEN
<1>3. Pow2[ByteBits * (a + nb)] = P * Q
  BY <1>1, Pow2Sum
<1>4. P \in Nat /\ P > 0 /\ Q \in Nat /\ Q > 0
  BY <1>1, Pow2Type
<1>5. R \in Nat /\ R > 0
  BY <1>2, Pow2Bound
<1>6. X = (P * Q) * R
  BY <1>2, <1>3, Pow2Bound
<1>7. MemWith(a, nb, v) = mem + (c - ((mem \div P) % Q)) * P
  BY DEF MemWith, MemBytes
<1> HIDE DEF P, Q, R
<1>8. c \in Nat /\ c < Q
  BY <1>4, DivMod
<1> HIDE DEF c
<1>9. mem \in Nat
  BY Widths DEF Word64
<1>10. mem < (P * Q) * R
  BY <1>6, Widths DEF Word64
<1> USE <1>4, <1>5, <1>8, <1>9
<1> DEFINE u == mem \div P
           l == mem % P
           h == u \div Q
           m == u % Q
           PQ == P * Q
           N == MemWith(a, nb, v)
<1>11. u \in Int /\ l \in Nat /\ mem = P * u + l /\ l < P
  BY DivMod
<1> HIDE DEF u, l
<1>12. h \in Int /\ m \in Nat /\ u = Q * h + m /\ m < Q
  BY <1>11, DivMod
<1>13. N = mem + (c - m) * P
  BY <1>7 DEF u
<1> HIDE DEF h, m, N
<1>14. PQ \in Nat /\ PQ > 0
  OBVIOUS
<1>15. mem = PQ * h + (P * m + l)
  <2>1. P * (Q * h + m) = (P * Q) * h + P * m
    BY <1>12
  <2> QED
    BY <1>11, <1>12, <2>1
<1>16. N = PQ * h + (P * c + l)
  <2>1. (c - m) * P = P * c - P * m
    BY <1>12
  <2>2. PQ * h \in Int /\ P * c \in Int /\ P * m \in Int
    BY <1>12, <1>14
  <2> QED
    BY <1>13, <1>11, <1>12, <1>15, <2>1, <2>2
<1>17. ASSUME NEW w \in Nat, w < Q PROVE P * w + l \in Nat /\ P * w + l < PQ
  <2>1. P * Q = P * w + P * (Q - w) /\ P * (Q - w) >= P /\ P * w \in Nat
    BY <1>17
  <2> QED
    BY <1>11, <2>1
<1> DEFINE lo == P * m + l
           new == P * c + l
<1>18. lo \in Nat /\ lo < PQ /\ mem = PQ * h + lo
  BY <1>12, <1>15, <1>17
<1>19. new \in Nat /\ new < PQ /\ N = PQ * h + new
  BY <1>16, <1>17
<1>20. PQ * h \in Int
  BY <1>12, <1>14
<1>21. N % P = l /\ (N \div P) % Q = c
  <2>1. P * (Q * h + c) = (P * Q) * h + P * c /\ Q * h + c \in Int
    BY <1>12
  <2>2. P * c \in Int
    OBVIOUS
  <2> DEFINE q == Q * h + c
  <2> HIDE DEF q
  <2>3. P * q = PQ * h + P * c /\ q \in Int
    BY <2>1 DEF q
  <2>4. N = P * q + l /\ N \in Int
    <3> HIDE DEF PQ
    <3> QED
      BY <1>11, <1>12, <1>14, <1>16, <1>20, <2>2, <2>3
  <2>5. l % P = l /\ l \div P = 0
    BY <1>11, ModSmall
  <2>6. (l + P * q) % P = l % P /\ (l + P * q) \div P = (l \div P) + q /\ P * q \in Int
    BY <1>11, <2>3, ModShift
  <2>7. q % Q = c
    BY <1>12, <2>3, DivModUnique DEF q
  <2>8. N = l + P * q
    BY <1>11, <2>4, <2>6
  <2>9. N % P = l /\ N \div P = q
    BY <2>3, <2>5, <2>6, <2>8
  <2> QED
    BY <2>7, <2>9
<1> HIDE DEF PQ, lo, new
<1>22. mem \div PQ = h
  BY <1>12, <1>14, <1>18, DivModUnique
<1>23. N \in Int
  BY <1>19, <1>20
<1>24. N \div PQ = h
  BY <1>12, <1>14, <1>19, <1>23, DivModUnique
<1>25. 0 <= h /\ h < R
  <2>1. ASSUME h < 0 PROVE FALSE
    <3>1. PQ * h = PQ * (h + 1) - PQ /\ PQ * (h + 1) <= 0
      BY <1>12, <1>14, <2>1
    <3> QED
      BY <1>12, <1>14, <1>18, <1>20, <3>1
  <2>2. ASSUME h >= R PROVE FALSE
    <3>1. PQ * h = PQ * R + PQ * (h - R) /\ PQ * (h - R) >= 0 /\ PQ * R \in Nat
      BY <1>12, <1>14, <2>2
    <3>2. mem < PQ * R
      BY <1>10 DEF PQ
    <3> QED
      BY <1>12, <1>14, <1>18, <1>20, <3>1, <3>2
  <2> QED
    BY <1>12, <2>1, <2>2
<1>26. N \in Nat /\ N < PQ * R
  <2>1. PQ * h \in Nat
    BY <1>12, <1>14, <1>25
  <2>2. PQ * R = PQ * h + PQ * (R - h) /\ PQ * (R - h) >= PQ
    BY <1>12, <1>14, <1>25
  <2> QED
    BY <1>12, <1>14, <1>19, <2>1, <2>2
<1> QED
  BY <1>3, <1>6, <1>21, <1>22, <1>24, <1>26, Widths DEF PQ, l, N, P, Q, c, Word64

-----------------------------------------------------------------------------
(* The inductive invariant: TypeOK, and the operands that the history       *)
(* variable keeps of the last instruction are register values.              *)
LastOperands == last.a \in Word64 /\ last.b \in Word64
IInv == TypeOK /\ LastOperands

LEMMA StoreRegType ==
    ASSUME iregs \in [Regs -> Word64], iregs[0] = 0, NEW rd \in Regs, NEW v \in Word64
    PROVE  /\ StoreReg(rd, v) \in [Regs -> Word64] /\ StoreReg(rd, v)[0] = 0
           /\ \A r \in Regs \ {rd} : StoreReg(rd, v)[r] = iregs[r]
           /\ rd # 0 => StoreReg(rd, v)[rd] = v
           /\ rd = 0 => StoreReg(rd, v) = iregs
  BY ISAAssumption DEF StoreReg

(* The widths of the accesses, in bytes. *)
LEMMA AccessWidths ==
    /\ \A op \in DOMAIN UnsignedLoads : UnsignedLoads[op] \in 1 .. 8
    /\ \A op \in DOMAIN SignedLoads : SignedLoads[op] \in 1 .. 8
    /\ \A op \in DOMAIN Stores : Stores[op] \in 1 .. 8
    /\ \A op \in DOMAIN LrBytes : LrBytes[op] \in 1 .. 8
    /\ \A op \in DOMAIN ScBytes : ScBytes[op] \in 1 .. 8
    /\ \A op \in AmoOps : AmoBytes(op) \in {4, 8}
<1>1. \A op \in DOMAIN UnsignedLoads : UnsignedLoads[op] \in 1 .. 8
  BY DEF UnsignedLoads
<1>2. \A op \in DOMAIN SignedLoads : SignedLoads[op] \in 1 .. 8
  BY DEF SignedLoads
<1>3. \A op \in DOMAIN Stores : Stores[op] \in 1 .. 8
  BY DEF Stores
<1>4. \A op \in DOMAIN LrBytes : LrBytes[op] \in 1 .. 8
  BY DEF LrBytes
<1>5. \A op \in DOMAIN ScBytes : ScBytes[op] \in 1 .. 8
  BY DEF ScBytes
<1>6. \A op \in AmoOps : AmoBytes(op) \in {4, 8}
  BY DEF AmoBytes
<1> QED
  BY <1>1, <1>2, <1>3, <1>4, <1>5, <1>6

LEMMA AmoType ==
    ASSUME NEW op \in AmoOps, NEW t \in Word64, NEW b \in Word64
    PROVE  Amo(op, t, b) \in Int
<1>1. /\ t \in Int /\ b \in Int /\ UW(t) \in Int /\ UW(b) \in Int
      /\ S(t) + S(b) \in Int /\ SW(t) + SW(b) \in Int
  BY Operands
<1>2. \A w \in Word64 : w \in Int
  BY Widths DEF Word64
<1>3. ASSUME op \in AmoSetW PROVE AmoW(op, t, b) \in Int
  <2>1. (SW(t) + SW(b)) % W \in Int
    BY <1>1, UWType DEF UW
  <2>2. BitAnd(UW(t), UW(b)) \in Int /\ BitOr(UW(t), UW(b)) \in Int /\ BitXor(UW(t), UW(b)) \in Int
    BY <1>1, <1>2, BitOpsType
  <2> QED
    BY <1>1, <1>3, <2>1, <2>2 DEF AmoW, AmoSetW
<1>4. ASSUME op \in AmoMinMaxSetW PROVE AmoMinMaxW(op, t, b) \in Int
  <2>1. AmoMinMaxW(op, t, b) \in {UW(t), UW(b)}
    BY <1>4 DEF AmoMinMaxW, AmoMinMaxSetW
  <2> QED
    BY <1>1, <2>1
<1>5. ASSUME op \in AmoSetD PROVE AmoD(op, t, b) \in Int
  <2>1. Reg(S(t) + S(b)) \in Int
    BY <1>1, <1>2, RegType
  <2>2. BitAnd(t, b) \in Int /\ BitOr(t, b) \in Int /\ BitXor(t, b) \in Int
    BY <1>1, <1>2, BitOpsType
  <2> QED
    BY <1>1, <1>5, <2>1, <2>2 DEF AmoD, AmoSetD
<1>6. ASSUME op \in AmoMinMaxSetD PROVE AmoMinMaxD(op, t, b) \in Int
  <2>1. AmoMinMaxD(op, t, b) \in {t, b}
    BY <1>6 DEF AmoMinMaxD, AmoMinMaxSetD
  <2> QED
    BY <1>1, <2>1
<1> QED
  BY <1>3, <1>4, <1>5, <1>6 DEF Amo, AmoOps

(* The type invariant, with the set of register values named. *)
LEMMA Typing ==
    TypeOK <=> /\ iregs \in [Regs -> Word64] /\ iregs[0] = 0
               /\ pc \in Word64 /\ mem \in Word64
               /\ fflags \in BOOLEAN /\ n \in 0 .. MaxSteps
  BY DEF TypeOK, Word64

LEMMA WordsAreNumbers ==
    \A w \in Word64 : w \in Int /\ w \in Nat
  BY Widths DEF Word64

LEMMA ConstantTypes ==
    /\ 0 \in Word64 /\ 0 \in Regs /\ Imms \subseteq Word64
    /\ Addrs \subseteq Word64 /\ Values \subseteq Word64 /\ MemValues \subseteq Word64
<1>1. X \in Nat /\ X > 0
  BY Widths
<1> QED
  BY <1>1, ISAAssumption DEF Word64

LEMMA InitIInv == Init => IInv
<1> SUFFICES ASSUME Init PROVE IInv
  OBVIOUS
<1>1. X - 4 \in Word64
  BY Widths DEF Word64
<1>2. iregs \in [Regs -> Word64] /\ iregs[0] = 0
  BY ConstantTypes DEF Init
<1>3. pc \in Word64 /\ mem \in Word64 /\ n \in 0 .. MaxSteps
  BY <1>1, ConstantTypes, ISAAssumption DEF Init
<1>4. fflags \in BOOLEAN
  BY DEF Init
<1>5. LastOperands
  BY ConstantTypes DEF Init, Last, LastOperands
<1> QED
  BY <1>2, <1>3, <1>4, <1>5, Typing DEF IInv

(* One lemma for each kind of instruction. *)
LEMMA StepIInv ==
    ASSUME IInv, n < MaxSteps, NEW op, NEW rd, NEW a \in Word64, NEW b \in Word64, NEW exc,
           Step(op, rd, a, b, exc),
           mem' \in Word64, fflags' \in BOOLEAN, iregs' \in [Regs -> Word64], iregs'[0] = 0
    PROVE  IInv'
<1>1. pc' \in Word64
  <2>1. pc + 4 \in Int
    BY Typing, WordsAreNumbers DEF IInv
  <2> QED
    BY <2>1, RegType DEF Step
<1>2. n' \in 0 .. MaxSteps
  BY ISAAssumption DEF Step, IInv, TypeOK
<1>3. LastOperands'
  BY DEF Step, Last, LastOperands
<1>4. TypeOK'
  BY <1>1, <1>2 DEF TypeOK, Word64
<1> QED
  BY <1>3, <1>4 DEF IInv

LEMMA JumpIInv ==
    ASSUME IInv, n < MaxSteps, NEW op, NEW rd, NEW a \in Word64, NEW b \in Word64, NEW t \in Int,
           Jump(op, rd, a, b, t), iregs' \in [Regs -> Word64], iregs'[0] = 0
    PROVE  IInv'
<1>1. pc' \in Word64
  <2>1. t - 4 \in Int
    OBVIOUS
  <2>2. Reg(t - 4) \in Int
    BY <2>1, RegType, WordsAreNumbers
  <2>3. Reg(t - 4) + 4 \in Int
    BY <2>2
  <2> QED
    BY <2>3, RegType DEF Jump
<1>2. n' \in 0 .. MaxSteps
  BY ISAAssumption DEF Jump, IInv, TypeOK
<1>3. LastOperands'
  BY DEF Jump, Last, LastOperands
<1>4. mem' = mem /\ fflags' = fflags
  BY DEF Jump
<1>5. TypeOK'
  BY <1>1, <1>2, <1>4 DEF TypeOK, Word64, IInv
<1> QED
  BY <1>3, <1>5 DEF IInv

LEMMA ExecImmIInv ==
    ASSUME IInv, n < MaxSteps, NEW op \in OpImmSet \cup ShiftImmSet, NEW rd \in Regs, NEW rs1 \in Regs,
           NEW imm \in Imms, ExecImm(op, rd, rs1, imm)
    PROVE  IInv'
<1> DEFINE v == IF op \in OpImmSet THEN OpImm(op, iregs[rs1], imm) ELSE ShiftImm(op, iregs[rs1], imm)
<1>1. /\ iregs \in [Regs -> Word64] /\ iregs[0] = 0 /\ mem \in Word64 /\ fflags \in BOOLEAN
      /\ 0 \in Word64 /\ imm \in Word64
  BY Typing, ConstantTypes DEF IInv
<1>2. v \in Word64
  <2>1. iregs[rs1] \in Word64
    BY <1>1
  <2> QED
    BY <1>1, <2>1, OpImmType, ShiftImmType
<1>3. /\ Step(op, rd, 0, 0, Normal) /\ iregs' = StoreReg(rd, v)
      /\ mem' = mem /\ fflags' = fflags
  BY DEF ExecImm
<1> HIDE DEF v
<1>4. iregs' \in [Regs -> Word64] /\ iregs'[0] = 0
  BY <1>1, <1>2, <1>3, StoreRegType
<1> QED
  BY <1>1, <1>3, <1>4, StepIInv

LEMMA ExecRegIInv ==
    ASSUME IInv, n < MaxSteps, NEW op \in OpRegSet, NEW rd \in Regs, NEW rs1 \in Regs,
           NEW rs2 \in Regs, ExecReg(op, rd, rs1, rs2)
    PROVE  IInv'
<1> DEFINE a == iregs[rs1]
           b == iregs[rs2]
           v == OpReg(op, a, b)
<1>1. /\ iregs \in [Regs -> Word64] /\ iregs[0] = 0 /\ mem \in Word64 /\ fflags \in BOOLEAN
      /\ a \in Word64 /\ b \in Word64
  BY Typing DEF IInv
<1>2. v \in Word64
  BY <1>1, OpRegType
<1>3. /\ Step(op, rd, a, b, Normal) /\ iregs' = StoreReg(rd, v) /\ mem' = mem
  BY DEF ExecReg
<1>4. fflags' \in BOOLEAN
  BY DEF ExecReg
<1> HIDE DEF v
<1>5. iregs' \in [Regs -> Word64] /\ iregs'[0] = 0
  BY <1>1, <1>2, <1>3, StoreRegType
<1> HIDE DEF a, b
<1> QED
  BY <1>1, <1>3, <1>4, <1>5, StepIInv

LEMMA ExecUpperIInv ==
    ASSUME IInv, n < MaxSteps, NEW op \in {"LUI", "AUIPC"}, NEW rd \in Regs, NEW imm \in Imms,
           ExecUpper(op, rd, imm)
    PROVE  IInv'
<1> DEFINE v == IF op = "LUI" THEN imm ELSE Reg(pc + imm)
<1>1. /\ iregs \in [Regs -> Word64] /\ iregs[0] = 0 /\ pc \in Word64 /\ mem \in Word64
      /\ fflags \in BOOLEAN /\ 0 \in Word64 /\ imm \in Word64
  BY Typing, ConstantTypes DEF IInv
<1>2. v \in Word64
  <2>1. pc + imm \in Int
    BY <1>1, WordsAreNumbers
  <2> QED
    BY <1>1, <2>1, RegType
<1>3. /\ Step(op, rd, 0, 0, Normal) /\ iregs' = StoreReg(rd, v)
      /\ mem' = mem /\ fflags' = fflags
  BY DEF ExecUpper
<1> HIDE DEF v
<1>4. iregs' \in [Regs -> Word64] /\ iregs'[0] = 0
  BY <1>1, <1>2, <1>3, StoreRegType
<1> QED
  BY <1>1, <1>3, <1>4, StepIInv

LEMMA BranchIInv ==
    ASSUME IInv, n < MaxSteps, NEW op \in BranchSet, NEW rs1 \in Regs, NEW rs2 \in Regs,
           NEW imm \in Imms, Branch(op, rs1, rs2, imm)
    PROVE  IInv'
<1> DEFINE t == IF Taken(op, iregs[rs1], iregs[rs2]) THEN Reg(pc + imm) ELSE Reg(pc + 4)
<1>1. /\ iregs \in [Regs -> Word64] /\ iregs[0] = 0 /\ pc \in Word64
      /\ 0 \in Word64 /\ imm \in Word64
  BY Typing, ConstantTypes DEF IInv
<1>2. t \in Int
  <2>1. pc + imm \in Int /\ pc + 4 \in Int
    BY <1>1, WordsAreNumbers
  <2>2. Reg(pc + imm) \in Word64 /\ Reg(pc + 4) \in Word64
    BY <2>1, RegType
  <2> QED
    BY <2>2, WordsAreNumbers
<1>3. Jump(op, 0, 0, 0, t) /\ iregs' = iregs
  BY DEF Branch
<1> HIDE DEF t
<1> QED
  BY <1>1, <1>2, <1>3, JumpIInv

LEMMA JALIInv ==
    ASSUME IInv, n < MaxSteps, NEW rd \in Regs, NEW imm \in Imms, JAL(rd, imm)
    PROVE  IInv'
<1> DEFINE t == Reg(pc + imm)
           v == Reg(pc + 4)
<1>1. /\ iregs \in [Regs -> Word64] /\ iregs[0] = 0 /\ pc \in Word64
      /\ 0 \in Word64 /\ imm \in Word64
  BY Typing, ConstantTypes DEF IInv
<1>2. t \in Int /\ v \in Word64
  <2>1. pc + imm \in Int /\ pc + 4 \in Int
    BY <1>1, WordsAreNumbers
  <2> QED
    BY <2>1, RegType, WordsAreNumbers
<1>3. Jump("JAL", rd, 0, 0, t) /\ iregs' = StoreReg(rd, v)
  BY DEF JAL
<1> HIDE DEF t, v
<1>4. iregs' \in [Regs -> Word64] /\ iregs'[0] = 0
  BY <1>1, <1>2, <1>3, StoreRegType
<1> QED
  BY <1>1, <1>2, <1>3, <1>4, JumpIInv

LEMMA JALRIInv ==
    ASSUME IInv, n < MaxSteps, NEW rd \in Regs, NEW rs1 \in Regs, NEW imm \in Imms, JALR(rd, rs1, imm)
    PROVE  IInv'
<1> DEFINE a == iregs[rs1]
           t == Reg(a + imm)
           v == Reg(pc + 4)
<1>1. /\ iregs \in [Regs -> Word64] /\ iregs[0] = 0 /\ pc \in Word64
      /\ a \in Word64 /\ imm \in Word64
  BY Typing, ConstantTypes DEF IInv
<1>2. t \in Int /\ v \in Word64
  <2>1. a + imm \in Int /\ pc + 4 \in Int
    BY <1>1, WordsAreNumbers
  <2> QED
    BY <2>1, RegType, WordsAreNumbers
<1>3. Jump("JALR", rd, a, imm, t - (t % 2)) /\ iregs' = StoreReg(rd, v)
  BY DEF JALR, JalrBase
<1> HIDE DEF t, v
<1>4. t - (t % 2) \in Int
  BY <1>2
<1>5. iregs' \in [Regs -> Word64] /\ iregs'[0] = 0
  BY <1>1, <1>2, <1>3, StoreRegType
<1> HIDE DEF a
<1> QED
  BY <1>1, <1>3, <1>4, <1>5, JumpIInv

LEMMA LoadUnsignedIInv ==
    ASSUME IInv, n < MaxSteps, NEW op \in DOMAIN UnsignedLoads, NEW rd \in Regs, NEW a \in Addrs,
           NEW ok \in BOOLEAN, LoadUnsigned(op, rd, a, ok)
    PROVE  IInv'
<1> DEFINE v == MemBytes(a, UnsignedLoads[op])
           b == IF ok THEN v ELSE 0
           exc == IF ok THEN Normal ELSE "LoadAccessFault"
<1>1. /\ iregs \in [Regs -> Word64] /\ iregs[0] = 0 /\ mem \in Word64 /\ fflags \in BOOLEAN
      /\ 0 \in Word64 /\ a \in Word64 /\ a \in Nat
  BY Typing, ConstantTypes, WordsAreNumbers DEF IInv
<1>2. v \in Word64
  BY <1>1, AccessWidths, MemBytesType
<1>3. /\ Step(op, rd, a, b, exc) /\ mem' = mem /\ fflags' = fflags
      /\ iregs' = IF ok THEN StoreReg(rd, v) ELSE iregs
  BY DEF LoadUnsigned
<1> HIDE DEF v, exc
<1>4. b \in Word64
  BY <1>1, <1>2
<1> HIDE DEF b
<1>5. iregs' \in [Regs -> Word64] /\ iregs'[0] = 0
  BY <1>1, <1>2, <1>3, StoreRegType
<1> QED
  BY <1>1, <1>3, <1>4, <1>5, StepIInv

LEMMA LoadSignedIInv ==
    ASSUME IInv, n < MaxSteps, NEW op \in DOMAIN SignedLoads, NEW rd \in Regs, NEW a \in Addrs,
           NEW ok \in BOOLEAN, LoadSigned(op, rd, a, ok)
    PROVE  IInv'
<1> DEFINE nb == SignedLoads[op]
           v == MemBytes(a, nb)
           b == IF ok THEN v ELSE 0
           loaded == IF ok THEN StoreReg(rd, v) ELSE iregs
<1>1. /\ iregs \in [Regs -> Word64] /\ iregs[0] = 0 /\ mem \in Word64 /\ fflags \in BOOLEAN
      /\ 0 \in Word64 /\ a \in Word64 /\ a \in Nat
  BY Typing, ConstantTypes, WordsAreNumbers DEF IInv
<1>2. v \in Word64 /\ ByteBits * nb \in 1 .. XLEN
  <2>1. nb \in 1 .. 8
    BY AccessWidths
  <2> HIDE DEF nb
  <2>2. ByteBits * nb \in 1 .. XLEN
    <3>1. ByteBits \in Nat /\ ByteBits >= 1
      BY ISAAssumption
    <3>2. ByteBits * nb \in Nat /\ ByteBits * nb >= 1 /\ ByteBits * nb <= 8 * ByteBits
      BY <2>1, <3>1
    <3> QED
      BY <3>1, <3>2 DEF XLEN
  <2> QED
    BY <1>1, <2>1, <2>2, MemBytesType
<1>3. /\ Step(op, rd, a, b, Normal) /\ mem' = mem /\ fflags' = fflags
      /\ iregs' = IF rd = 0 THEN iregs
                  ELSE [loaded EXCEPT ![rd] = SextFrom(loaded[rd], ByteBits * nb)]
  BY DEF LoadSigned
<1> HIDE DEF v, nb
<1>4. b \in Word64
  BY <1>1, <1>2
<1> HIDE DEF b
<1>5. loaded \in [Regs -> Word64] /\ loaded[0] = 0
  BY <1>1, <1>2, StoreRegType
<1> HIDE DEF loaded
<1>6. loaded[rd] \in Int
  BY <1>5, WordsAreNumbers
<1>7. SextFrom(loaded[rd], ByteBits * nb) \in Word64
  BY <1>2, <1>6, SextFromType
<1>8. iregs' \in [Regs -> Word64] /\ iregs'[0] = 0
  BY <1>1, <1>3, <1>5, <1>7
<1> QED
  BY <1>1, <1>3, <1>4, <1>8, StepIInv

LEMMA StoreIInv ==
    ASSUME IInv, n < MaxSteps, NEW op \in DOMAIN Stores, NEW a \in Addrs, NEW rs2 \in Regs,
           NEW ok \in BOOLEAN, Store(op, a, rs2, ok)
    PROVE  IInv'
<1> DEFINE b == iregs[rs2]
           exc == IF ok THEN Normal ELSE "StoreAMOAccessFault"
           M == MemWith(a, Stores[op], b)
<1>1. /\ iregs \in [Regs -> Word64] /\ iregs[0] = 0 /\ mem \in Word64 /\ fflags \in BOOLEAN
      /\ b \in Word64 /\ a \in Word64 /\ a \in Nat /\ b \in Int
  BY Typing, ConstantTypes, WordsAreNumbers DEF IInv
<1>2. ok => M \in Word64
  BY <1>1, AccessWidths, MemWithFacts DEF Store
<1>3. /\ Step(op, 0, a, b, exc) /\ iregs' = iregs /\ fflags' = fflags
      /\ mem' = IF ok THEN M ELSE mem
  BY DEF Store
<1> HIDE DEF exc, b, M
<1>4. mem' \in Word64
  BY <1>1, <1>2, <1>3
<1> QED
  BY <1>1, <1>3, <1>4, StepIInv

LEMMA LoadReservedIInv ==
    ASSUME IInv, n < MaxSteps, NEW op \in DOMAIN LrBytes, NEW rd \in Regs, NEW a \in Addrs,
           NEW ok \in BOOLEAN, LoadReserved(op, rd, a, ok)
    PROVE  IInv'
<1> DEFINE v == MemBytes(a, LrBytes[op])
           done == ok /\ a % LrBytes[op] = 0
           b == IF done THEN v ELSE 0
           exc == IF ~(a % LrBytes[op] = 0) THEN "LoadAddressMisaligned"
                  ELSE IF ok THEN Normal ELSE "LoadAccessFault"
<1>1. /\ iregs \in [Regs -> Word64] /\ iregs[0] = 0 /\ mem \in Word64 /\ fflags \in BOOLEAN
      /\ 0 \in Word64 /\ a \in Word64 /\ a \in Nat
  BY Typing, ConstantTypes, WordsAreNumbers DEF IInv
<1>2. v \in Word64
  BY <1>1, AccessWidths, MemBytesType
<1>3. /\ Step(op, rd, a, b, exc) /\ mem' = mem /\ fflags' = fflags
      /\ iregs' = IF done THEN StoreReg(rd, v) ELSE iregs
  BY DEF LoadReserved
<1> HIDE DEF v, exc, done
<1>4. b \in Word64
  BY <1>1, <1>2
<1> HIDE DEF b
<1>5. iregs' \in [Regs -> Word64] /\ iregs'[0] = 0
  BY <1>1, <1>2, <1>3, StoreRegType
<1> QED
  BY <1>1, <1>3, <1>4, <1>5, StepIInv

LEMMA StoreConditionalIInv ==
    ASSUME IInv, n < MaxSteps, NEW op \in DOMAIN ScBytes, NEW rd \in Regs, NEW rs2 \in Regs,
           NEW a \in Addrs, NEW ok \in BOOLEAN, StoreConditional(op, rd, a, rs2, ok)
    PROVE  IInv'
<1> DEFINE b == iregs[rs2]
           aligned == a % ScBytes[op] = 0
           exc == IF ~aligned THEN "StoreAMOAddressMisaligned"
                  ELSE IF ok THEN Normal ELSE "StoreAMOAccessFault"
           M == MemWith(a, ScBytes[op], b)
<1>1. /\ iregs \in [Regs -> Word64] /\ iregs[0] = 0 /\ mem \in Word64 /\ fflags \in BOOLEAN
      /\ b \in Word64 /\ a \in Word64 /\ a \in Nat /\ b \in Int /\ 0 \in Word64
  BY Typing, ConstantTypes, WordsAreNumbers DEF IInv
<1>2. ok => M \in Word64
  BY <1>1, AccessWidths, MemWithFacts DEF StoreConditional
<1>3. /\ Step(op, rd, a, b, exc) /\ fflags' = fflags
      /\ mem' = IF ok /\ aligned THEN M ELSE mem
      /\ iregs' = IF aligned THEN StoreReg(rd, 0) ELSE iregs
  BY DEF StoreConditional
<1> HIDE DEF exc, M, aligned
<1>4. mem' \in Word64
  BY <1>1, <1>2, <1>3
<1>5. iregs' \in [Regs -> Word64] /\ iregs'[0] = 0
  BY <1>1, <1>3, StoreRegType
<1> HIDE DEF b
<1> QED
  BY <1>1, <1>3, <1>4, <1>5, StepIInv

(* An atomic operation returns with nothing done, or completes. *)
LEMMA AmoCases ==
    ASSUME NEW op \in AmoOps, NEW rd \in Regs, NEW rs2 \in Regs, NEW a \in Addrs,
           NEW loads \in BOOLEAN, NEW stores \in BOOLEAN, ExecAmo(op, rd, a, rs2, loads, stores)
    PROVE  \/ InMemory(a, AmoBytes(op)) /\ AmoStores(op, rd, a, rs2)
           \/ \E exc : exc # Normal /\ AmoReturns(op, rd, a, rs2, exc)
<1>1. /\ "LoadAddressMisaligned" # Normal /\ "LoadAccessFault" # Normal
      /\ "StoreAMOAccessFault" # Normal
  BY DEF Normal
<1> QED
  BY <1>1 DEF ExecAmo

LEMMA ExecAmoIInv ==
    ASSUME IInv, n < MaxSteps, NEW op \in AmoOps, NEW rd \in Regs, NEW rs2 \in Regs,
           NEW a \in Addrs, NEW loads \in BOOLEAN, NEW stores \in BOOLEAN,
           ExecAmo(op, rd, a, rs2, loads, stores)
    PROVE  IInv'
<1> DEFINE nb == AmoBytes(op)
           t == MemBytes(a, nb)
           v == Amo(op, t, iregs[rs2])
           M == MemWith(a, nb, v)
           old == AmoOldValue(op, a)
<1>1. /\ iregs \in [Regs -> Word64] /\ iregs[0] = 0 /\ mem \in Word64 /\ fflags \in BOOLEAN
      /\ iregs[rs2] \in Word64 /\ a \in Word64 /\ a \in Nat /\ 0 \in Word64
  BY Typing, ConstantTypes, WordsAreNumbers DEF IInv
<1>2. CASE \E exc : exc # Normal /\ AmoReturns(op, rd, a, rs2, exc)
  BY <1>1, <1>2, StepIInv DEF AmoReturns
<1>3. CASE InMemory(a, nb) /\ AmoStores(op, rd, a, rs2)
  <2>1. nb \in 1 .. 8 /\ t \in Word64
    <3>1. nb \in 1 .. 8
      BY AccessWidths
    <3> QED
      BY <1>1, <3>1, MemBytesType
  <2>2. v \in Int
    BY <1>1, <2>1, AmoType
  <2>3. old \in Word64
    <3>1. MemBytes(a, 4) \in Word64 /\ MemBytes(a, 8) \in Word64
      BY <1>1, MemBytesType
    <3>2. RegW(MemBytes(a, 4)) \in Word64
      BY <3>1, WordsAreNumbers, RegWFacts
    <3> QED
      BY <3>1, <3>2 DEF AmoOldValue, RegW
  <2>4. /\ Step(op, rd, a, iregs[rs2], Normal) /\ fflags' = fflags
        /\ mem' = M /\ iregs' = StoreReg(rd, old)
    BY <1>3 DEF AmoStores, AmoOperand
  <2> HIDE DEF nb, t, v, old
  <2>5. M \in Word64
    BY <1>1, <1>3, <2>1, <2>2, MemWithFacts
  <2> HIDE DEF M
  <2>6. iregs' \in [Regs -> Word64] /\ iregs'[0] = 0
    BY <1>1, <2>3, <2>4, StoreRegType
  <2> QED
    BY <1>1, <2>4, <2>5, <2>6, StepIInv
<1> QED
  BY <1>2, <1>3, AmoCases

LEMMA NextIInv == IInv /\ [Next]_vars => IInv'
<1> SUFFICES ASSUME IInv, [Next]_vars PROVE IInv'
  OBVIOUS
<1>1. CASE UNCHANGED vars
  BY <1>1 DEF vars, IInv, TypeOK, LastOperands
<1>2. CASE Next
  <2>1. n < MaxSteps /\ Instruction
    BY <1>2 DEF Next
  <2> QED
    BY <2>1, ExecImmIInv, ExecRegIInv, ExecUpperIInv, BranchIInv, JALIInv, JALRIInv,
       LoadUnsignedIInv, LoadSignedIInv, StoreIInv, LoadReservedIInv, StoreConditionalIInv,
       ExecAmoIInv DEF Instruction
<1> QED
  BY <1>1, <1>2

LEMMA AlwaysIInv == Spec => []IInv
  BY InitIInv, NextIInv, PTL DEF Spec

(* Whatever instructions run, in whatever order and with whatever operands,  *)
(* registers, memory and pc keep to their width and x0 stays zero.           *)
THEOREM TypeCorrect == Spec => []TypeOK
<1>1. IInv => TypeOK
  BY DEF IInv
<1> QED
  BY <1>1, AlwaysIInv, PTL

-----------------------------------------------------------------------------
(* Division: 64 bits signed, 64 bits unsigned, 32 bits signed, 32 bits      *)
(* unsigned.                                                                *)
LEMMA MinusOne == S(X - 1) = -1 /\ X - 1 \in Word64
  BY Widths DEF S, H, Word64

LEMMA SignedDivision ==
    ASSUME NEW a \in Word64, NEW b \in Word64
    PROVE  /\ DividesExactly(S(a), S(b), S(Div("DIV", a, b)), S(Rem("REM", a, b)))
           /\ Reg(S(b) * S(Div("DIV", a, b)) + S(Rem("REM", a, b))) = a
<1> DEFINE q == Div("DIV", a, b)
           r == Rem("REM", a, b)
           sa == S(a)
           sb == S(b)
<1>1. /\ X \in Nat /\ H \in Nat /\ X = 2 * H /\ H >= 8 /\ X \div 2 = H
  BY Widths DEF H
<1>2. /\ sa \in Int /\ -H <= sa /\ sa < H /\ sb \in Int /\ -H <= sb /\ sb < H
      /\ (sb = 0 <=> b = 0) /\ Reg(sa) = a
  BY <1>1, SType, RegS
<1>3. q = IF b = 0 THEN X - 1 ELSE IF sa = -H /\ sb = -1 THEN a ELSE Reg(Quotient(sa, sb))
  BY <1>1 DEF Div
<1>4. r = IF b = 0 THEN a ELSE IF sa = -H /\ sb = -1 THEN 0 ELSE Reg(Remainder(sa, sb))
  BY <1>1 DEF Rem
<1> HIDE DEF q, r
<1>5. CASE b = 0
  <2>1. S(q) = -1 /\ S(r) = sa
    BY <1>3, <1>4, <1>5, MinusOne
  <2>2. sb * S(q) + S(r) = sa
    BY <1>2, <1>5, <2>1
  <2> QED
    BY <1>2, <1>5, <2>1, <2>2 DEF DividesExactly, q, r
<1>6. CASE b # 0 /\ sa = -H /\ sb = -1
  <2>1. S(q) = sa /\ r = 0 /\ S(0) = 0
    BY <1>1, <1>3, <1>4, <1>6 DEF S
  <2>2. a = H /\ Reg(H) = H
    BY <1>1, <1>6, SType, RegSmall
  <2>3. sb * S(q) + S(r) = H
    BY <1>1, <1>6, <2>1
  <2> QED
    BY <1>2, <1>6, <2>1, <2>2, <2>3 DEF DividesExactly, Abs, q, r
<1>7. CASE b # 0 /\ ~(sa = -H /\ sb = -1)
  <2> DEFINE Q == Quotient(sa, sb)
             R == Remainder(sa, sb)
  <2> HIDE DEF sa, sb
  <2>1. /\ Q \in Int /\ R \in Int /\ Abs(R) < Abs(sb) /\ (R = 0 \/ (R < 0) = (sa < 0))
        /\ sb * Q + R = sa
    BY <1>2, <1>7, Truncates
  <2>2. -H <= Q /\ Q < H
    BY <1>1, <1>2, <1>7, QuotientRange
  <2> HIDE DEF Q, R
  <2>3. -H <= R /\ R < H
    BY <1>1, <1>2, <2>1 DEF Abs
  <2>4. S(q) = Q /\ S(r) = R
    <3>1. q = Reg(Q) /\ r = Reg(R)
      BY <1>3, <1>4, <1>7 DEF Q, R
    <3> QED
      BY <2>1, <2>2, <2>3, <3>1, SReg
  <2>5. Reg(sb * S(q) + S(r)) = a
    BY <1>2, <2>1, <2>4
  <2>6. DividesExactly(sa, sb, S(q), S(r))
    BY <1>2, <1>7, <2>1, <2>4 DEF DividesExactly
  <2> QED
    BY <2>5, <2>6 DEF sa, sb, q, r
<1> QED
  BY <1>5, <1>6, <1>7

LEMMA UnsignedDivision ==
    ASSUME NEW a \in Word64, NEW b \in Word64
    PROVE  /\ b # 0 => /\ a = b * Div("DIVU", a, b) + Rem("REMU", a, b)
                       /\ Rem("REMU", a, b) < b
           /\ b = 0 => Div("DIVU", a, b) = X - 1 /\ Rem("REMU", a, b) = a
<1>1. a \in Int /\ a >= 0 /\ b \in Nat /\ b < X /\ X \in Nat
  BY Widths DEF Word64
<1>2. CASE b = 0
  BY <1>1, <1>2 DEF Div, Rem
<1>3. CASE b # 0
  <2>1. /\ a \div b \in Int /\ a % b \in Nat /\ a = b * (a \div b) + (a % b) /\ a % b < b
    BY <1>1, <1>3, DivMod
  <2>2. a \div b \in Word64
    BY <1>1, <1>3, QuotientIsSmaller
  <2>3. Reg(a \div b) = a \div b
    BY <2>2, Widths, RegSmall DEF Word64
  <2>4. Reg(a % b) = a % b
    BY <1>1, <2>1, RegSmall
  <2>5. Div("DIVU", a, b) = a \div b /\ Rem("REMU", a, b) = a % b
    BY <1>3, <2>3, <2>4 DEF Div, Rem
  <2> QED
    BY <1>3, <2>1, <2>5
<1> QED
  BY <1>2, <1>3

LEMMA SignedWordDivision ==
    ASSUME NEW a \in Word64, NEW b \in Word64
    PROVE  /\ DividesExactly(SW(a), SW(b), S(Div("DIVW", a, b)), S(Rem("REMW", a, b)))
           /\ UW(SW(b) * SW(Div("DIVW", a, b)) + SW(Rem("REMW", a, b))) = UW(a)
<1> DEFINE q == Div("DIVW", a, b)
           r == Rem("REMW", a, b)
           sa == SW(a)
           sb == SW(b)
<1>1. /\ W \in Nat /\ HW \in Nat /\ W = 2 * HW /\ HW >= 8 /\ W \div 2 = HW
      /\ H \in Nat /\ HW <= H
  <2>1. W * W >= W
    BY Widths
  <2> QED
    BY <2>1, Widths DEF HW
<1>2. /\ a \in Int /\ b \in Int
      /\ sa \in Int /\ -HW <= sa /\ sa < HW /\ sb \in Int /\ -HW <= sb /\ sb < HW
      /\ UW(sa) = UW(a)
  BY <1>1, Operands, SWType, UWSW
<1>3. q = IF sb = 0 THEN X - 1 ELSE IF sa = -HW /\ sb = -1 THEN RegW(a) ELSE RegW(Quotient(sa, sb))
  BY <1>1 DEF Div
<1>4. r = IF sb = 0 THEN RegW(a) ELSE IF sa = -HW /\ sb = -1 THEN 0 ELSE Reg(Remainder(sa, sb))
  BY <1>1 DEF Rem
<1>5. S(RegW(a)) = sa /\ SW(RegW(a)) = sa
  BY <1>2, RegWFacts
<1> HIDE DEF q, r
<1>6. CASE sb = 0
  <2>1. S(q) = -1 /\ S(r) = sa /\ SW(r) = sa
    BY <1>3, <1>4, <1>5, <1>6, MinusOne
  <2>2. SW(q) \in Int
    BY <1>3, <1>6, MinusOne, Operands
  <2>3. sb * SW(q) + SW(r) = sa
    BY <1>2, <1>6, <2>1, <2>2
  <2> QED
    BY <1>2, <1>6, <2>1, <2>3 DEF DividesExactly, q, r
<1>7. CASE sb # 0 /\ sa = -HW /\ sb = -1
  <2>1. SW(q) = sa /\ r = 0 /\ S(0) = 0 /\ SW(0) = 0
    BY <1>1, <1>3, <1>4, <1>5, <1>7, SWSmall, Widths DEF S
  <2>2. UW(a) = HW /\ UW(HW) = HW
    BY <1>1, <1>2, <1>7, SWType, UWType, UWSmall
  <2>3. sb * SW(q) + SW(r) = HW
    BY <1>1, <1>7, <2>1
  <2> QED
    BY <1>2, <1>7, <2>1, <2>2, <2>3 DEF DividesExactly, Abs, q, r
<1>8. CASE sb # 0 /\ ~(sa = -HW /\ sb = -1)
  <2> DEFINE Q == Quotient(sa, sb)
             R == Remainder(sa, sb)
  <2> HIDE DEF sa, sb
  <2>1. /\ Q \in Int /\ R \in Int /\ Abs(R) < Abs(sb) /\ (R = 0 \/ (R < 0) = (sa < 0))
        /\ sb * Q + R = sa
    BY <1>2, <1>8, Truncates
  <2>2. -HW <= Q /\ Q < HW
    BY <1>1, <1>2, <1>8, QuotientRange
  <2> HIDE DEF Q, R
  <2>3. -HW <= R /\ R < HW
    BY <1>1, <1>2, <2>1 DEF Abs
  <2>4. q = RegW(Q) /\ r = Reg(R) /\ Reg(R) = RegW(R)
    BY <1>3, <1>4, <1>8, <2>1, <2>3, RegWSmall DEF Q, R
  <2>5. S(r) = R /\ SW(q) = Q /\ SW(r) = R
    BY <2>1, <2>2, <2>3, <2>4, RegWFacts, SWSmall
  <2>6. UW(sb * SW(q) + SW(r)) = UW(a)
    BY <1>2, <2>1, <2>5
  <2>7. DividesExactly(sa, sb, S(q), S(r))
    BY <1>2, <1>8, <2>1, <2>5 DEF DividesExactly
  <2> QED
    BY <2>6, <2>7 DEF sa, sb, q, r
<1> QED
  BY <1>6, <1>7, <1>8

LEMMA UnsignedWordDivision ==
    ASSUME NEW a \in Word64, NEW b \in Word64, UW(b) # 0
    PROVE  UW(a) = UW(b) * UW(Div("DIVUW", a, b)) + UW(Rem("REMUW", a, b))
<1> DEFINE x == UW(a)
           y == UW(b)
<1>1. x \in Nat /\ x < W /\ y \in Nat /\ y > 0 /\ y < W /\ W \in Nat
  BY Widths, Operands, UWType
<1>2. Div("DIVUW", a, b) = RegW(x \div y) /\ Rem("REMUW", a, b) = RegW(x % y)
  BY DEF Div, Rem
<1> HIDE DEF x, y
<1> DEFINE q == x \div y
           r == x % y
<1>3. q \in Int /\ r \in Nat /\ x = y * q + r /\ r < y
  BY <1>1, DivMod
<1> HIDE DEF q, r
<1>4. 0 <= q /\ q <= x
  <2>1. ASSUME q < 0 PROVE FALSE
    <3>1. y * q = y * (q + 1) - y /\ y * (q + 1) <= 0
      BY <1>1, <1>3, <2>1
    <3> QED
      BY <1>1, <1>3, <3>1
  <2>2. y * q = q + (y - 1) * q /\ (y - 1) * q >= 0
    BY <1>1, <1>3, <2>1
  <2> QED
    BY <1>1, <1>3, <2>1, <2>2
<1>5. UW(RegW(q)) = q /\ UW(RegW(r)) = r
  BY <1>1, <1>3, <1>4, RegWFacts, UWSmall
<1> QED
  BY <1>2, <1>3, <1>5 DEF q, r, x, y

(* Every division and remainder that an execution reaches satisfies the     *)
(* identity of the two, at every width and for both signs, the division by  *)
(* zero and the overflow included.                                          *)
THEOREM DivisionIsExact == Spec => []DivisionIdentity
<1>1. IInv => DivisionIdentity
  BY SignedDivision, UnsignedDivision, SignedWordDivision, UnsignedWordDivision
     DEF IInv, LastOperands, DivisionIdentity
<1> QED
  BY <1>1, AlwaysIInv, PTL

-----------------------------------------------------------------------------
(* Multiplication.  The low halves of the three products agree, since S(a)  *)
(* and a differ by a multiple of X.                                         *)
LEMMA LowHalf ==
    ASSUME NEW a \in Word64, NEW b \in Word64
    PROVE  Reg(S(a) * S(b)) = Reg(S(a) * b) /\ Reg(S(a) * b) = Reg(a * b)
<1>1. X \in Nat /\ a \in Int /\ b \in Int /\ S(a) \in Int /\ S(b) \in Int
  BY Widths, Operands
<1> DEFINE s == S(a)
           t == S(b)
<1>2. (s = a \/ s = a - X) /\ (t = b \/ t = b - X)
  BY SType
<1> HIDE DEF s, t
<1>3. s \in Int /\ t \in Int /\ s * b \in Int /\ a * b \in Int
  BY <1>1 DEF s, t
<1>4. Reg(s * t) = Reg(s * b)
  <2>1. s * (b - X) = s * b + X * (-s) /\ -s \in Int
    BY <1>1, <1>3
  <2>2. Reg(s * b + X * (-s)) = Reg(s * b)
    BY <1>3, <2>1, RegCongruent
  <2> QED
    BY <1>2, <2>1, <2>2
<1>5. Reg(s * b) = Reg(a * b)
  <2>1. (a - X) * b = a * b + X * (-b) /\ -b \in Int
    BY <1>1
  <2>2. Reg(a * b + X * (-b)) = Reg(a * b)
    BY <1>3, <2>1, RegCongruent
  <2> QED
    BY <1>2, <2>1, <2>2
<1> QED
  BY <1>4, <1>5 DEF s, t

(* A number in [-X * H, X * H) is its upper half, read as signed, times X   *)
(* plus its lower half.                                                     *)
LEMMA SignedHalves ==
    ASSUME NEW p \in Int, -(X * H) <= p, p < X * H
    PROVE  /\ p \div X \in Int /\ -H <= p \div X /\ p \div X < H
           /\ S(Reg(p \div X)) * X + Reg(p) = p
<1>1. X \in Nat /\ X > 0 /\ H \in Nat
  BY Widths
<1> DEFINE q == p \div X
           r == p % X
<1>2. q \in Int /\ r \in Nat /\ p = X * q + r /\ r < X
  BY <1>1, DivMod
<1>3. Reg(p) = r
  BY DEF Reg
<1> HIDE DEF q, r
<1>4. -H <= q
  <2> SUFFICES ASSUME q < -H PROVE FALSE
    BY <1>1, <1>2
  <2>1. X * q = X * (q + H + 1) - X * H - X /\ X * (q + H + 1) <= 0 /\ X * H \in Int
    BY <1>1, <1>2
  <2> QED
    BY <1>1, <1>2, <2>1
<1>5. q < H
  <2> SUFFICES ASSUME q >= H PROVE FALSE
    BY <1>1, <1>2
  <2>1. X * q = X * (q - H) + X * H /\ X * (q - H) >= 0 /\ X * H \in Int
    BY <1>1, <1>2
  <2> QED
    BY <1>1, <1>2, <2>1
<1>6. S(Reg(q)) = q
  BY <1>2, <1>4, <1>5, SReg
<1>7. q * X + r = p
  BY <1>1, <1>2
<1> QED
  BY <1>2, <1>3, <1>4, <1>5, <1>6, <1>7 DEF q

(* The 128-bit unsigned product of MULHSU has the upper half of the signed. *)
LEMMA Wraps128 ==
    ASSUME NEW a \in Word64, NEW b \in Word64
    PROVE  Reg((((S(a) % (X * X)) * b) % (X * X)) \div X) = Reg((S(a) * b) \div X)
<1> DEFINE s == S(a)
           Y == X * X
           p == s * b
<1>1. X \in Nat /\ X > 0 /\ H \in Nat /\ X = 2 * H /\ a \in Int /\ b \in Int /\ 0 <= b /\ b < X
  BY Widths DEF Word64
<1>2. s \in Int /\ -H <= s /\ s < H
  BY SType
<1>3. Y \in Nat /\ Y > 0 /\ Y >= X
  BY <1>1
<1> HIDE DEF s, Y
<1>4. p \in Int
  BY <1>1, <1>2
<1>5. s % Y = s \/ s % Y = s + Y
  <2>1. CASE s >= 0
    BY <1>1, <1>2, <1>3, <2>1, ModSmall
  <2>2. CASE s < 0
    <3>1. (s + Y * 1) % Y = s % Y /\ s + Y * 1 = s + Y
      BY <1>2, <1>3, ModShift, SMTT(20)
    <3>2. (s + Y) % Y = s + Y
      BY <1>1, <1>2, <1>3, <2>2, ModSmall
    <3> QED
      BY <3>1, <3>2
  <2> QED
    BY <1>2, <2>1, <2>2
<1>6. ((s % Y) * b) % Y = p % Y
  <2>1. (s + Y) * b = p + Y * b
    BY <1>1, <1>2, <1>3
  <2> HIDE DEF p
  <2>2. (p + Y * b) % Y = p % Y
    BY <1>1, <1>3, <1>4, ModShift
  <2> QED
    BY <1>5, <2>1, <2>2 DEF p
<1> HIDE DEF p
<1> DEFINE q == p \div Y
           r == p % Y
<1>7. q \in Int /\ r \in Nat /\ p = Y * q + r
  BY <1>3, <1>4, DivMod
<1> HIDE DEF q, r
<1>8. p = r + X * (X * q) /\ X * q \in Int /\ r \in Int
  <2>1. Y * q = X * (X * q) /\ X * q \in Int /\ Y * q \in Int
    BY <1>1, <1>7 DEF Y
  <2> QED
    BY <1>7, <2>1
<1>9. p \div X = (r \div X) + X * q
  BY <1>1, <1>8, ModShift
<1>10. r \div X \in Int
  BY <1>1, <1>7, DivMod
<1>11. Reg(p \div X) = Reg(r \div X)
  BY <1>7, <1>9, <1>10, RegCongruent
<1> QED
  BY <1>6, <1>11 DEF p, r, s, Y

LEMMA Products ==
    ASSUME NEW a \in Word64, NEW b \in Word64
    PROVE  /\ S(Mul("MULH", a, b)) * X + Mul("MUL", a, b) = S(a) * S(b)
           /\ S(Mul("MULHSU", a, b)) * X + Mul("MUL", a, b) = S(a) * b
           /\ Mul("MULHU", a, b) * X + Mul("MUL", a, b) = a * b
<1> DEFINE s == S(a)
           t == S(b)
<1>1. /\ X \in Nat /\ X > 0 /\ H \in Nat /\ X = 2 * H /\ H >= 8
      /\ a \in Int /\ 0 <= a /\ a < X /\ b \in Int /\ 0 <= b /\ b < X
  BY Widths DEF Word64
<1>2. s \in Int /\ -H <= s /\ s < H /\ t \in Int /\ -H <= t /\ t < H
  BY SType
<1>3. Mul("MUL", a, b) = Reg(s * t) /\ Mul("MULH", a, b) = Reg((s * t) \div X)
  BY DEF Mul
<1>4. Mul("MULHSU", a, b) = Reg((s * b) \div X)
  BY Wraps128 DEF Mul
<1>5. Mul("MULHU", a, b) = Reg((a * b) \div X)
  BY DEF Mul
<1>6. Reg(s * t) = Reg(s * b) /\ Reg(s * b) = Reg(a * b)
  BY LowHalf
<1> HIDE DEF s, t
<1>7. ASSUME NEW c \in Int, -X < c, c < X
      PROVE  s * c \in Int /\ -(X * H) <= s * c /\ s * c < X * H
  <2>1. s * c \in Int
    BY <1>2
  <2>2. (H - s) * (X + c) > 0 /\ (H + s) * (X - c) >= 0
    BY <1>1, <1>2, <1>7
  <2>3. (H - s) * (X - c) >= 0 /\ (H + s) * (X + c) >= 0
    BY <1>1, <1>2, <1>7
  <2>4. /\ (H - s) * (X + c) = X * H + H * c - s * X - s * c
        /\ (H + s) * (X - c) = X * H - H * c + s * X - s * c
        /\ (H - s) * (X - c) = X * H - H * c - s * X + s * c
        /\ (H + s) * (X + c) = X * H + H * c + s * X + s * c
    BY <1>1, <1>2
  <2>5. H * c \in Int /\ s * X \in Int /\ X * H \in Int
    BY <1>1, <1>2
  <2> QED
    BY <2>1, <2>2, <2>3, <2>4, <2>5
<1>8. S(Reg((s * t) \div X)) * X + Reg(s * t) = s * t
  <2>1. s * t \in Int /\ -(X * H) <= s * t /\ s * t < X * H
    BY <1>1, <1>2, <1>7
  <2> QED
    BY <2>1, SignedHalves
<1>9. S(Reg((s * b) \div X)) * X + Reg(s * b) = s * b
  <2>1. s * b \in Int /\ -(X * H) <= s * b /\ s * b < X * H
    BY <1>1, <1>7
  <2> QED
    BY <2>1, SignedHalves
<1>10. Reg((a * b) \div X) * X + Reg(a * b) = a * b
  <2> DEFINE p == a * b
             q == p \div X
             r == p % X
  <2>1. p \in Int /\ 0 <= p /\ p < X * X
    <3>1. X * X = a * b + a * (X - b) + (X - a) * X /\ a * (X - b) >= 0 /\ (X - a) * X > 0
      BY <1>1
    <3>2. a * b \in Int /\ a * b >= 0
      BY <1>1
    <3> QED
      BY <1>1, <3>1, <3>2
  <2> HIDE DEF p
  <2>2. q \in Int /\ r \in Nat /\ p = X * q + r /\ r < X
    BY <1>1, <2>1, DivMod
  <2>3. Reg(p) = r
    BY DEF Reg
  <2> HIDE DEF q, r
  <2>4. 0 <= q
    <3> SUFFICES ASSUME q < 0 PROVE FALSE
      BY <2>2
    <3>1. X * q = X * (q + 1) - X /\ X * (q + 1) <= 0
      BY <1>1, <2>2
    <3> QED
      BY <1>1, <2>1, <2>2, <3>1
  <2>5. q < X
    <3> SUFFICES ASSUME q >= X PROVE FALSE
      BY <1>1, <2>2
    <3>1. X * q = X * (q - X) + X * X /\ X * (q - X) >= 0 /\ X * X \in Int
      BY <1>1, <2>2
    <3> QED
      BY <1>1, <2>1, <2>2, <3>1
  <2>6. Reg(q) = q
    BY <2>2, <2>4, <2>5, RegSmall
  <2>7. q * X + r = p
    BY <1>1, <2>2
  <2> QED
    BY <2>3, <2>6, <2>7 DEF p, q
<1> QED
  BY <1>3, <1>4, <1>5, <1>6, <1>8, <1>9, <1>10 DEF s, t

(* Every multiplication that an execution reaches returns the halves of the *)
(* exact product, MULHSU's detour over unsigned 128-bit numbers included.   *)
THEOREM ProductsAreExact == Spec => []ProductHalves
<1>1. IInv => ProductHalves
  BY Products DEF IInv, LastOperands, ProductHalves
<1> QED
  BY <1>1, AlwaysIInv, PTL

-----------------------------------------------------------------------------
(* The word instructions.  The width of a word is a power of two, so a      *)
(* shift amount is part of the low word of rs2.                             *)
LEMMA WidthDivides ==
    \E j \in Nat : W = WLEN * j
<1>1. PICK k \in 0 .. ByteBits : ByteBits = Pow2[k]
  BY ISAAssumption
<1>2. k \in Nat /\ k + 2 \in Nat /\ ByteBits \in Nat
  BY ISAAssumption
<1>3. Pow2[2] = 4
  <2>1. Pow2[0 + 1] = 2 /\ Pow2[1 + 1] = 2 * Pow2[0 + 1]
    BY Pow2Step
  <2> QED
    BY <2>1
<1>4. WLEN = Pow2[k + 2] /\ WLEN \in Nat
  <2>1. Pow2[k + 2] = Pow2[k] * Pow2[2]
    BY <1>2, Pow2Sum
  <2> QED
    BY <1>1, <1>2, <1>3, <2>1 DEF WLEN
<1>5. WLEN > k + 2
  BY <1>2, <1>4, Pow2Type
<1>6. WLEN - (k + 2) \in Nat /\ (k + 2) + (WLEN - (k + 2)) = WLEN
  BY <1>2, <1>4, <1>5
<1>7. Pow2[(k + 2) + (WLEN - (k + 2))] = Pow2[k + 2] * Pow2[WLEN - (k + 2)]
  BY <1>2, <1>6, Pow2Sum
<1>8. Pow2[WLEN - (k + 2)] \in Nat
  BY <1>6, Pow2Type
<1>9. W = WLEN * Pow2[WLEN - (k + 2)]
  BY <1>4, <1>6, <1>7 DEF W
<1> QED
  BY <1>8, <1>9

LEMMA ShiftAmount ==
    ASSUME NEW b \in Int
    PROVE  UW(b) % WLEN = b % WLEN
<1>1. PICK j \in Nat : W = WLEN * j
  BY WidthDivides
<1>2. WLEN \in Nat /\ WLEN > 0 /\ W \in Nat /\ W > 0
  BY ISAAssumption, Widths DEF WLEN
<1> DEFINE q == b \div W
           r == b % W
<1>3. q \in Int /\ r \in Int /\ b = W * q + r
  BY <1>2, DivMod
<1>4. UW(b) = r
  BY DEF UW
<1> HIDE DEF q, r
<1>5. W * q = WLEN * (j * q) /\ j * q \in Int /\ W * q \in Int
  BY <1>1, <1>2, <1>3
<1>6. b = r + WLEN * (j * q)
  BY <1>3, <1>5
<1>7. (r + WLEN * (j * q)) % WLEN = r % WLEN
  BY <1>2, <1>3, <1>5, ModShift
<1> QED
  BY <1>4, <1>6, <1>7

LEMMA MinusOneIsAWord == X - 1 = RegW(-1)
<1>1. X \in Nat /\ X > 0 /\ HW \in Nat /\ HW >= 8
  BY Widths
<1>2. RegW(-1) = Reg(-1)
  BY <1>1, RegWSmall
<1>3. Reg(S(X - 1)) = X - 1
  BY MinusOne, RegS
<1> QED
  BY <1>2, <1>3, MinusOne

LEMMA WordDivision ==
    ASSUME NEW a \in Word64, NEW b \in Word64
    PROVE  /\ \E z \in Int : Div("DIVW", a, b) = RegW(z)
           /\ \E z \in Int : Div("DIVUW", a, b) = RegW(z)
           /\ \E z \in Int : Rem("REMW", a, b) = RegW(z)
           /\ \E z \in Int : Rem("REMUW", a, b) = RegW(z)
<1> DEFINE sa == SW(a)
           sb == SW(b)
<1>1. /\ a \in Int /\ b \in Int /\ UW(a) \in Int /\ UW(b) \in Nat /\ UW(b) < W
      /\ sa \in Int /\ sb \in Int /\ -HW <= sb /\ sb < HW
      /\ HW \in Nat /\ HW >= 8
  BY Widths, Operands, SWType, UWType
<1>2. 0 = RegW(0)
  BY <1>1, RegWSmall, RegSmall, Widths
<1>3. \E z \in Int : Div("DIVW", a, b) = RegW(z)
  <2>1. Div("DIVW", a, b) \in {X - 1, RegW(a), RegW(Quotient(sa, sb))}
    BY DEF Div
  <2>2. sb = 0 => Div("DIVW", a, b) = X - 1
    BY DEF Div
  <2>3. sb # 0 => Quotient(sa, sb) \in Int
    BY <1>1, Truncates
  <2> HIDE DEF sa, sb
  <2>4. -1 \in Int
    OBVIOUS
  <2> QED
    BY <1>1, <2>1, <2>2, <2>3, <2>4, MinusOneIsAWord
<1>4. \E z \in Int : Div("DIVUW", a, b) = RegW(z)
  <2>1. CASE UW(b) = 0
    <3>1. Div("DIVUW", a, b) = RegW(-1) /\ -1 \in Int
      BY <2>1, MinusOneIsAWord DEF Div
    <3> QED
      BY <3>1
  <2>2. CASE UW(b) # 0
    <3>1. Div("DIVUW", a, b) = RegW(UW(a) \div UW(b)) /\ UW(a) \div UW(b) \in Int
      BY <1>1, <2>2, DivMod DEF Div
    <3> QED
      BY <3>1
  <2> QED
    BY <2>1, <2>2
<1>5. \E z \in Int : Rem("REMW", a, b) = RegW(z)
  <2>1. CASE sb = 0
    BY <1>1, <2>1 DEF Rem
  <2>2. CASE sb # 0
    <3>1. Remainder(sa, sb) \in Int /\ Abs(Remainder(sa, sb)) < Abs(sb)
      BY <1>1, <2>2, Truncates
    <3>2. Rem("REMW", a, b) \in {0, Reg(Remainder(sa, sb))}
      BY <2>2 DEF Rem
    <3> DEFINE R == Remainder(sa, sb)
    <3> HIDE DEF sa, sb, R
    <3>3. R \in Int /\ -HW <= R /\ R < HW
      BY <1>1, <3>1 DEF Abs, R
    <3>4. Reg(R) = RegW(R)
      BY <3>3, RegWSmall
    <3> QED
      BY <1>2, <3>2, <3>3, <3>4 DEF R
  <2> QED
    BY <2>1, <2>2
<1>6. \E z \in Int : Rem("REMUW", a, b) = RegW(z)
  <2>1. CASE UW(b) = 0
    BY <1>1, <2>1 DEF Rem
  <2>2. CASE UW(b) # 0
    <3>1. Rem("REMUW", a, b) = RegW(UW(a) % UW(b)) /\ UW(a) % UW(b) \in Int
      BY <1>1, <2>2, DivMod DEF Rem
    <3> QED
      BY <3>1
  <2> QED
    BY <2>1, <2>2
<1> QED
  BY <1>3, <1>4, <1>5, <1>6

LEMMA WordResults ==
    ASSUME NEW op \in WordOps, NEW a \in Word64, NEW b \in Word64
    PROVE  \E z \in Int : OpReg(op, a, b) = RegW(z)
<1> DEFINE w == Pow2[b % WLEN]
<1>1. /\ SW(a) + SW(b) \in Int /\ SW(a) - SW(b) \in Int /\ SW(a) * SW(b) \in Int
      /\ UW(a) \in Int /\ SW(a) \in Int /\ b \in Int
  BY Operands
<1>2. w \in Nat /\ w > 0
  BY <1>1, ShiftType
<1>3. UW(a) * w \in Int /\ UW(a) \div w \in Int /\ SW(a) \div w \in Int
  <2> HIDE DEF w
  <2> QED
    BY <1>1, <1>2, DivMod
<1> USE DEF AddSet, ShiftLeftSet, MulSet, DivSet, RemSet, ShiftRightSet, OrAndSet, OpReg
<1>4. op = "ADDW" => OpReg(op, a, b) = RegW(SW(a) + SW(b))
  BY DEF Add
<1>5. op = "SUBW" => OpReg(op, a, b) = RegW(SW(a) - SW(b))
  BY DEF Add
<1>6. op = "SLLW" => OpReg(op, a, b) = RegW(UW(a) * w)
  BY DEF ShiftLeft
<1>7. op = "MULW" => OpReg(op, a, b) = RegW(SW(a) * SW(b))
  BY DEF Mul
<1>8. op \in {"DIVW", "DIVUW"} => OpReg(op, a, b) = Div(op, a, b)
  OBVIOUS
<1>9. op \in {"REMW", "REMUW"} => OpReg(op, a, b) = Rem(op, a, b)
  OBVIOUS
<1>10. op = "SRLW" => OpReg(op, a, b) = RegW(UW(a) \div w)
  BY DEF ShiftRight
<1>11. op = "SRAW" => OpReg(op, a, b) = RegW(SW(a) \div w)
  BY DEF ShiftRight
<1> HIDE DEF w, AddSet, ShiftLeftSet, MulSet, DivSet, RemSet, ShiftRightSet, OrAndSet, OpReg
<1> QED
  BY <1>1, <1>3, <1>4, <1>5, <1>6, <1>7, <1>8, <1>9, <1>10, <1>11, WordDivision DEF WordOps

LEMMA LowWordsOnly ==
    ASSUME NEW op \in WordOps, NEW a \in Word64, NEW b \in Word64
    PROVE  OpReg(op, a, b) = OpReg(op, RegW(a), UW(b))
<1> DEFINE c == RegW(a)
           d == UW(b)
<1>1. a \in Int /\ b \in Int /\ d \in Int
  BY Operands
<1>2. UW(c) = UW(a) /\ SW(c) = SW(a) /\ RegW(c) = RegW(a)
  BY <1>1, RegWFacts
<1>3. UW(d) = UW(b) /\ SW(d) = SW(b) /\ d % WLEN = b % WLEN
  BY <1>1, UWUW, SWOfUW, ShiftAmount
<1> HIDE DEF c, d
<1> USE DEF AddSet, ShiftLeftSet, MulSet, DivSet, RemSet, ShiftRightSet, OrAndSet, OpReg
<1>4. ASSUME op \in {"ADDW", "SUBW"} PROVE OpReg(op, a, b) = OpReg(op, c, d)
  BY <1>2, <1>3, <1>4 DEF Add
<1>5. ASSUME op = "SLLW" PROVE OpReg(op, a, b) = OpReg(op, c, d)
  BY <1>2, <1>3, <1>5 DEF ShiftLeft
<1>6. ASSUME op = "MULW" PROVE OpReg(op, a, b) = OpReg(op, c, d)
  BY <1>2, <1>3, <1>6 DEF Mul
<1>7. ASSUME op \in {"DIVW", "DIVUW"} PROVE OpReg(op, a, b) = OpReg(op, c, d)
  BY <1>2, <1>3, <1>7 DEF Div
<1>8. ASSUME op \in {"REMW", "REMUW"} PROVE OpReg(op, a, b) = OpReg(op, c, d)
  BY <1>2, <1>3, <1>8 DEF Rem
<1>9. ASSUME op \in {"SRLW", "SRAW"} PROVE OpReg(op, a, b) = OpReg(op, c, d)
  BY <1>2, <1>3, <1>9 DEF ShiftRight
<1> HIDE DEF AddSet, ShiftLeftSet, MulSet, DivSet, RemSet, ShiftRightSet, OrAndSet, OpReg
<1> QED
  BY <1>4, <1>5, <1>6, <1>7, <1>8, <1>9 DEF WordOps, c, d

(* Every W instruction that an execution reaches returns a sign-extended    *)
(* word and depends on nothing but the low words of its operands.           *)
THEOREM WordsStayWords == Spec => []WordOpsAreWords
<1>1. ASSUME IInv, last.op \in WordOps
      PROVE  LET v == OpReg(last.op, last.a, last.b)
             IN  v = RegW(v) /\ v = OpReg(last.op, RegW(last.a), UW(last.b))
  <2> DEFINE v == OpReg(last.op, last.a, last.b)
  <2>1. last.a \in Word64 /\ last.b \in Word64
    BY <1>1 DEF IInv, LastOperands
  <2>2. PICK z \in Int : v = RegW(z)
    BY <1>1, <2>1, WordResults
  <2>3. RegW(RegW(z)) = RegW(z)
    BY RegWFacts
  <2> QED
    BY <1>1, <2>1, <2>2, <2>3, LowWordsOnly
<1>2. IInv => WordOpsAreWords
  BY <1>1 DEF WordOpsAreWords
<1> QED
  BY <1>2, AlwaysIInv, PTL

-----------------------------------------------------------------------------
(* The instructions that the action properties single out have names of     *)
(* their own.                                                               *)
Singled == AmoOps \cup {"JAL", "JALR"}

LEMMA Names ==
    /\ \A op \in OpImmSet \cup ShiftImmSet : op \notin Singled
    /\ \A op \in OpRegSet : op \notin Singled
    /\ \A op \in {"LUI", "AUIPC"} : op \notin Singled
    /\ \A op \in BranchSet : op \notin Singled
    /\ \A op \in DOMAIN UnsignedLoads : op \notin Singled
    /\ \A op \in DOMAIN SignedLoads : op \notin Singled
    /\ \A op \in DOMAIN Stores : op \notin Singled
    /\ \A op \in DOMAIN LrBytes : op \notin Singled
    /\ \A op \in DOMAIN ScBytes : op \notin Singled
    /\ \A op \in AmoOps : op \notin {"JAL", "JALR"}
    /\ \A op \in {"JAL", "JALR"} : op \notin AmoOps
<1> USE DEF Singled, AmoOps, AmoSetW, AmoMinMaxSetW, AmoSetD, AmoMinMaxSetD
<1>1. \A op \in OpImmSet \cup ShiftImmSet : op \notin Singled
  BY DEF OpImmSet, ShiftImmSet
<1>2. \A op \in OpRegSet : op \notin Singled
  BY DEF OpRegSet, AddSet, ShiftLeftSet, MulSet, DivSet, RemSet, ShiftRightSet, OrAndSet
<1>3. \A op \in {"LUI", "AUIPC"} : op \notin Singled
  OBVIOUS
<1>4. \A op \in BranchSet : op \notin Singled
  BY DEF BranchSet
<1>5. \A op \in DOMAIN UnsignedLoads : op \notin Singled
  BY DEF UnsignedLoads
<1>6. \A op \in DOMAIN SignedLoads : op \notin Singled
  BY DEF SignedLoads
<1>7. \A op \in DOMAIN Stores : op \notin Singled
  BY DEF Stores
<1>8. \A op \in DOMAIN LrBytes : op \notin Singled
  BY DEF LrBytes
<1>9. \A op \in DOMAIN ScBytes : op \notin Singled
  BY DEF ScBytes
<1>10. \A op \in AmoOps : op \notin {"JAL", "JALR"}
  OBVIOUS
<1>11. \A op \in {"JAL", "JALR"} : op \notin AmoOps
  OBVIOUS
<1> HIDE DEF Singled, AmoOps, AmoSetW, AmoMinMaxSetW, AmoSetD, AmoMinMaxSetD
<1> QED
  BY <1>1, <1>2, <1>3, <1>4, <1>5, <1>6, <1>7, <1>8, <1>9, <1>10, <1>11

LEMMA StepLast ==
    ASSUME NEW op, NEW rd, NEW a, NEW b, NEW exc, Step(op, rd, a, b, exc)
    PROVE  last'.op = op /\ last'.rd = rd /\ last'.a = a /\ last'.b = b /\ last'.exc = exc
  BY DEF Step, Last

LEMMA JumpLast ==
    ASSUME NEW op, NEW rd, NEW a, NEW b, NEW t, Jump(op, rd, a, b, t)
    PROVE  /\ last'.op = op /\ last'.rd = rd /\ last'.a = a /\ last'.b = b /\ last'.exc = Normal
           /\ pc' = Reg(Reg(t - 4) + 4) /\ mem' = mem
  BY DEF Jump, Last

(* run() adds the 4 that the jump has subtracted. *)
LEMMA Lands ==
    ASSUME NEW u \in Word64
    PROVE  Reg(Reg(u - 4) + 4) = u
<1>1. X \in Nat /\ X > 0 /\ u \in Int /\ 0 <= u /\ u < X
  BY Widths DEF Word64
<1> DEFINE z == u - 4
           q == z \div X
           r == z % X
<1>2. q \in Int /\ r \in Nat /\ z = X * q + r
  BY <1>1, DivMod
<1>3. Reg(z) = r
  BY DEF Reg
<1>4. z \in Int /\ u = z + 4
  BY <1>1
<1> HIDE DEF z, q, r
<1>5. X * (-q) = -(X * q) /\ X * q \in Int /\ -q \in Int
  BY <1>1, <1>2
<1>6. r + 4 = u + X * (-q)
  BY <1>1, <1>2, <1>4, <1>5
<1>7. Reg(u + X * (-q)) = Reg(u)
  BY <1>1, <1>5, RegCongruent
<1>8. Reg(u) = u
  BY <1>1, RegSmall
<1> QED
  BY <1>3, <1>6, <1>7, <1>8 DEF z

(* What JumpsLink says of a step. *)
Links ==
    /\ last'.op \in {"JAL", "JALR"} /\ last'.rd # 0 => iregs'[last'.rd] = Reg(pc + 4)
    /\ last'.op = "JALR" => pc' % 2 = 0 /\ Reg(last'.a + last'.b) - pc' \in {0, 1}

LEMMA JALLinks ==
    ASSUME IInv, NEW rd \in Regs, NEW imm \in Imms, JAL(rd, imm)
    PROVE  Links
<1>1. Jump("JAL", rd, 0, 0, Reg(pc + imm)) /\ iregs' = StoreReg(rd, Reg(pc + 4))
  BY DEF JAL
<1>2. last'.op = "JAL" /\ last'.rd = rd
  BY <1>1, JumpLast
<1>3. iregs \in [Regs -> Word64]
  BY Typing DEF IInv
<1> QED
  BY <1>1, <1>2, <1>3 DEF Links, StoreReg

LEMMA JALRLinks ==
    ASSUME IInv, NEW rd \in Regs, NEW rs1 \in Regs, NEW imm \in Imms, JALR(rd, rs1, imm)
    PROVE  Links
<1> DEFINE a == iregs[rs1]
           t == Reg(a + imm)
           u == t - (t % 2)
<1>1. Jump("JALR", rd, a, imm, u) /\ iregs' = StoreReg(rd, Reg(pc + 4))
  BY DEF JALR, JalrBase
<1>2. /\ last'.op = "JALR" /\ last'.rd = rd /\ last'.a = a /\ last'.b = imm
      /\ pc' = Reg(Reg(u - 4) + 4)
  <2> HIDE DEF a, u
  <2> QED
    BY <1>1, JumpLast
<1>3. iregs \in [Regs -> Word64] /\ a \in Word64 /\ imm \in Word64
  BY Typing, ConstantTypes DEF IInv
<1>4. t \in Word64
  <2>1. a + imm \in Int
    BY <1>3, WordsAreNumbers
  <2> QED
    BY <2>1, RegType
<1>5. u \in Word64 /\ u % 2 = 0 /\ t - u \in {0, 1}
  <2> HIDE DEF t
  <2>1. t \in Nat /\ t < X /\ X \in Nat
    BY <1>4, Widths DEF Word64
  <2> QED
    BY <2>1 DEF Word64
<1>6. pc' = u
  <2> HIDE DEF u
  <2> QED
    BY <1>2, <1>5, Lands
<1>7. rd # 0 => iregs'[rd] = Reg(pc + 4)
  BY <1>1, <1>3 DEF StoreReg
<1> HIDE DEF u
<1> QED
  BY <1>2, <1>5, <1>6, <1>7 DEF Links

(* What AmosExchange says of a step. *)
Exchanges == last'.op \in AmoOps /\ last'.exc = Normal => AmoDone

LEMMA Plain ==
    ASSUME last'.op \notin Singled
    PROVE  Links /\ Exchanges
  BY DEF Links, Exchanges, Singled

LEMMA PlainSteps ==
    /\ \A op \in OpImmSet \cup ShiftImmSet, rd, rs1 \in Regs, imm \in Imms :
           ExecImm(op, rd, rs1, imm) => last'.op = op
    /\ \A op \in OpRegSet, rd, rs1, rs2 \in Regs : ExecReg(op, rd, rs1, rs2) => last'.op = op
    /\ \A op \in {"LUI", "AUIPC"}, rd \in Regs, imm \in Imms : ExecUpper(op, rd, imm) => last'.op = op
    /\ \A op \in BranchSet, rs1, rs2 \in Regs, imm \in Imms : Branch(op, rs1, rs2, imm) => last'.op = op
    /\ \A op \in DOMAIN UnsignedLoads, rd \in Regs, a \in Addrs, ok \in BOOLEAN :
           LoadUnsigned(op, rd, a, ok) => last'.op = op
    /\ \A op \in DOMAIN SignedLoads, rd \in Regs, a \in Addrs, ok \in BOOLEAN :
           LoadSigned(op, rd, a, ok) => last'.op = op
    /\ \A op \in DOMAIN Stores, a \in Addrs, rs2 \in Regs, ok \in BOOLEAN :
           Store(op, a, rs2, ok) => last'.op = op
    /\ \A op \in DOMAIN LrBytes, rd \in Regs, a \in Addrs, ok \in BOOLEAN :
           LoadReserved(op, rd, a, ok) => last'.op = op
    /\ \A op \in DOMAIN ScBytes, rd, rs2 \in Regs, a \in Addrs, ok \in BOOLEAN :
           StoreConditional(op, rd, a, rs2, ok) => last'.op = op
<1>1. \A op, rd, a, b, exc : Step(op, rd, a, b, exc) => last'.op = op
  BY StepLast
<1>2. \A op, rd, a, b, t : Jump(op, rd, a, b, t) => last'.op = op
  BY JumpLast
<1>3. \A op, rd, rs1, imm : ExecImm(op, rd, rs1, imm) => last'.op = op
  BY <1>1 DEF ExecImm
<1>4. \A op, rd, rs1, rs2 : ExecReg(op, rd, rs1, rs2) => last'.op = op
  BY <1>1 DEF ExecReg
<1>5. \A op, rd, imm : ExecUpper(op, rd, imm) => last'.op = op
  BY <1>1 DEF ExecUpper
<1>6. \A op, rs1, rs2, imm : Branch(op, rs1, rs2, imm) => last'.op = op
  BY <1>2 DEF Branch
<1>7. \A op, rd, a, ok : LoadUnsigned(op, rd, a, ok) => last'.op = op
  BY <1>1 DEF LoadUnsigned
<1>8. \A op, rd, a, ok : LoadSigned(op, rd, a, ok) => last'.op = op
  BY <1>1 DEF LoadSigned
<1>9. \A op, a, rs2, ok : Store(op, a, rs2, ok) => last'.op = op
  BY <1>1 DEF Store
<1>10. \A op, rd, a, ok : LoadReserved(op, rd, a, ok) => last'.op = op
  BY <1>1 DEF LoadReserved
<1>11. \A op, rd, a, rs2, ok : StoreConditional(op, rd, a, rs2, ok) => last'.op = op
  BY <1>1 DEF StoreConditional
<1> QED
  BY <1>3, <1>4, <1>5, <1>6, <1>7, <1>8, <1>9, <1>10, <1>11

LEMMA JumpSteps ==
    /\ \A rd \in Regs, imm \in Imms : JAL(rd, imm) => Exchanges
    /\ \A rd, rs1 \in Regs, imm \in Imms : JALR(rd, rs1, imm) => Exchanges
<1>1. ASSUME NEW rd \in Regs, NEW imm \in Imms, JAL(rd, imm) PROVE Exchanges
  <2>1. last'.op = "JAL"
    BY <1>1, JumpLast DEF JAL
  <2> QED
    BY <2>1, Names DEF Exchanges
<1>2. ASSUME NEW rd \in Regs, NEW rs1 \in Regs, NEW imm \in Imms, JALR(rd, rs1, imm) PROVE Exchanges
  <2>1. last'.op = "JALR"
    BY <1>2, JumpLast DEF JALR
  <2> QED
    BY <2>1, Names DEF Exchanges
<1> QED
  BY <1>1, <1>2

LEMMA AmoKinds ==
    ASSUME NEW op, NEW t, NEW b
    PROVE  /\ op \in AmoSetW => Amo(op, t, b) = AmoW(op, t, b)
           /\ op \in AmoMinMaxSetW => Amo(op, t, b) = AmoMinMaxW(op, t, b)
           /\ op \in AmoSetD => Amo(op, t, b) = AmoD(op, t, b)
           /\ op \in AmoMinMaxSetD => Amo(op, t, b) = AmoMinMaxD(op, t, b)
<1>1. ASSUME op \in AmoSetW PROVE op \notin AmoMinMaxSetW \cup AmoSetD \cup AmoMinMaxSetD
  BY <1>1 DEF AmoSetW, AmoMinMaxSetW, AmoSetD, AmoMinMaxSetD
<1>2. ASSUME op \in AmoMinMaxSetW PROVE op \notin AmoSetD \cup AmoMinMaxSetD
  BY <1>2 DEF AmoMinMaxSetW, AmoSetD, AmoMinMaxSetD
<1>3. ASSUME op \in AmoSetD PROVE op \notin AmoMinMaxSetD
  BY <1>3 DEF AmoSetD, AmoMinMaxSetD
<1> QED
  BY <1>1, <1>2, <1>3 DEF Amo

(* What is stored combines the old value and the operand: first the words,  *)
(* then the double words.                                                   *)
LEMMA WordCombines ==
    ASSUME NEW op \in AmoSetW \cup AmoMinMaxSetW, NEW t \in Int, 0 <= t, t < W, NEW b \in Word64
    PROVE  Combines(op, t, b % Pow2[ByteBits * AmoBytes(op)], Amo(op, t, b) % Pow2[ByteBits * AmoBytes(op)])
<1> DEFINE u == UW(b)
           v == UW(Amo(op, t, b))
<1>1. AmoBytes(op) = 4 /\ Pow2[ByteBits * 4] = W
  BY HalfWidths, ISAAssumption DEF AmoBytes, WLEN
<1>2. /\ b \in Int /\ UW(t) = t /\ W \in Nat /\ W > 0
      /\ u \in Int /\ 0 <= u /\ u < W /\ SW(u) = SW(b) /\ UW(u) = u
  BY WordsAreNumbers, Widths, UWType, UWSmall, UWUW, SWOfUW
<1>3. u = b % W /\ v = Amo(op, t, b) % W
  BY DEF UW
<1>4. CASE op \in AmoMinMaxSetW
  <2>1. v = UW(AmoMinMaxW(op, t, b)) /\ op \notin AmoSetW
    BY <1>4, AmoKinds DEF AmoMinMaxSetW, AmoSetW
  <2>2. AmoMinMaxW(op, t, b) \in {t, u}
    BY <1>2, <1>4 DEF AmoMinMaxW, AmoMinMaxSetW
  <2>3. v = AmoMinMaxW(op, t, b)
    BY <1>2, <2>1, <2>2
  <2>4. SW(t) \in Int /\ SW(u) \in Int
    BY <1>2, SWType
  <2>5. /\ op = "AMOMINW" => v = IF SW(t) < SW(u) THEN t ELSE u
        /\ op = "AMOMAXW" => v = IF SW(t) > SW(u) THEN t ELSE u
        /\ op = "AMOMINUW" => v = IF t < u THEN t ELSE u
        /\ op = "AMOMAXUW" => v = IF t > u THEN t ELSE u
    BY <1>2, <2>3 DEF AmoMinMaxW
  <2> HIDE DEF u, v
  <2>6. Combines(op, t, u, v)
    BY <1>2, <1>4, <2>2, <2>3, <2>4, <2>5 DEF Combines, AmoMinMaxSetW, AmoMinMaxSetD
  <2> QED
    BY <1>1, <1>3, <2>6
<1>5. CASE op \in AmoSetW
  <2>1. v = UW(AmoW(op, t, b))
    BY <1>5, AmoKinds
  <2>2. op = "AMOSWAPW" => v = u
    BY <1>2, <2>1 DEF AmoW
  <2>3. op = "AMOADDW" => (v - t - u) % W = 0
    <3> SUFFICES ASSUME op = "AMOADDW" PROVE (v - t - u) % W = 0
      OBVIOUS
    <3> DEFINE s == SW(t) + SW(b)
    <3>1. /\ SW(t) \in Int /\ SW(b) \in Int
          /\ SW(t) = t \/ SW(t) = t - W
          /\ SW(b) = u \/ SW(b) = u - W
      BY <1>2, SWType
    <3>2. \E k \in {0, 1, 2} : s = t + u - W * k
      BY <1>2, <3>1
    <3>3. s \in Int
      BY <3>1
    <3>4. UW(s) \in Int /\ UW(UW(s)) = UW(s) /\ s = W * (s \div W) + UW(s) /\ s \div W \in Int
      BY <1>2, <3>3, UWType, UWUW, DivMod DEF UW
    <3>5. v = UW(s)
      BY <2>1, <3>4 DEF AmoW, UW
    <3> HIDE DEF s, u, v
    <3>6. PICK k \in {0, 1, 2} : s = t + u - W * k
      BY <3>2
    <3> DEFINE q == -k - (s \div W)
    <3>7. q \in Int
      BY <3>4
    <3>8. W * q = -(W * k) - W * (s \div W) /\ W * q \in Int /\ W * k \in Int /\ W * (s \div W) \in Int
      BY <1>2, <3>4
    <3>9. v - t - u = 0 + W * q
      <4> DEFINE d == W * (s \div W)
                 e == W * k
                 g == W * q
      <4>1. g = -e - d /\ d \in Int /\ e \in Int
        BY <3>8
      <4>2. s = d + v /\ s = t + u - e
        BY <3>4, <3>5, <3>6
      <4> HIDE DEF d, e, g, q
      <4>3. v \in Int /\ u \in Int /\ t \in Int
        BY <1>2, <3>4, <3>5
      <4>4. v - t - u = 0 + g
        BY ONLY <4>1, <4>2, <4>3
      <4> QED
        BY <4>4 DEF g
    <3> HIDE DEF q
    <3>10. (0 + W * q) % W = 0 % W /\ 0 % W = 0
      BY <1>2, <3>7, ModShift, ModSmall
    <3> QED
      BY <3>9, <3>10
  <2> HIDE DEF u, v
  <2>4. Combines(op, t, u, v)
    BY <1>1, <1>5, <2>2, <2>3 DEF Combines, AmoSetW, AmoMinMaxSetW, AmoMinMaxSetD
  <2> QED
    BY <1>1, <1>3, <2>4
<1> QED
  BY <1>4, <1>5

LEMMA DoubleCombines ==
    ASSUME NEW op \in AmoSetD \cup AmoMinMaxSetD, NEW t \in Word64, NEW b \in Word64
    PROVE  Combines(op, t, b % Pow2[ByteBits * AmoBytes(op)], Amo(op, t, b) % Pow2[ByteBits * AmoBytes(op)])
<1> DEFINE v == Reg(Amo(op, t, b))
<1>1. /\ op \notin AmoSetW \cup AmoMinMaxSetW /\ AmoBytes(op) = 8 /\ Pow2[ByteBits * 8] = X
  <2>1. ByteBits * 8 = XLEN
    BY ISAAssumption DEF XLEN
  <2> QED
    BY <2>1, HalfWidths DEF AmoBytes, AmoSetW, AmoMinMaxSetW, AmoSetD, AmoMinMaxSetD
<1>2. /\ b \in Int /\ t \in Int /\ 0 <= b /\ b < X /\ 0 <= t /\ t < X
      /\ b % X = b /\ Reg(t) = t /\ Reg(b) = b /\ X \in Nat /\ X > 0
  BY Widths, RegSmall DEF Word64, Reg
<1>3. v = Amo(op, t, b) % X
  BY DEF Reg
<1>4. CASE op \in AmoMinMaxSetD
  <2>1. v = Reg(AmoMinMaxD(op, t, b)) /\ op \notin AmoSetD
    BY <1>4, AmoKinds DEF AmoMinMaxSetD, AmoSetD
  <2>2. AmoMinMaxD(op, t, b) \in {t, b}
    BY <1>4 DEF AmoMinMaxD, AmoMinMaxSetD
  <2>3. v = AmoMinMaxD(op, t, b)
    BY <1>2, <2>1, <2>2
  <2>4. S(t) \in Int /\ S(b) \in Int
    BY SType
  <2>5. /\ op = "AMOMIND" => v = IF S(t) < S(b) THEN t ELSE b
        /\ op = "AMOMAXD" => v = IF S(t) > S(b) THEN t ELSE b
        /\ op = "AMOMINUD" => v = IF t < b THEN t ELSE b
        /\ op = "AMOMAXUD" => v = IF t > b THEN t ELSE b
    BY <2>3 DEF AmoMinMaxD
  <2> HIDE DEF v
  <2>6. Combines(op, t, b, v)
    BY <1>2, <1>4, <2>2, <2>3, <2>4, <2>5 DEF Combines, AmoMinMaxSetW, AmoMinMaxSetD
  <2> QED
    BY <1>1, <1>2, <1>3, <2>6
<1>5. CASE op \in AmoSetD
  <2>1. v = Reg(AmoD(op, t, b))
    BY <1>5, AmoKinds
  <2>2. op = "AMOSWAPD" => v = b
    BY <1>2, <2>1 DEF AmoD
  <2>3. op = "AMOADDD" => (v - t - b) % X = 0
    <3> SUFFICES ASSUME op = "AMOADDD" PROVE (v - t - b) % X = 0
      OBVIOUS
    <3> DEFINE s == S(t) + S(b)
    <3>1. /\ S(t) \in Int /\ S(b) \in Int
          /\ S(t) = t \/ S(t) = t - X
          /\ S(b) = b \/ S(b) = b - X
      BY SType
    <3>2. \E k \in {0, 1, 2} : s = t + b - X * k
      BY <1>2, <3>1
    <3>3. s \in Int
      BY <3>1
    <3>4. /\ Reg(s) \in Int /\ Reg(s) = s % X /\ s = X * (s \div X) + Reg(s) /\ s \div X \in Int
          /\ 0 <= Reg(s) /\ Reg(s) < X
      <4>1. Reg(s) = s % X
        BY DEF Reg
      <4> HIDE DEF s
      <4> QED
        BY <1>2, <3>3, <4>1, DivMod
    <3>5. v = Reg(s)
      <4>1. Reg(Reg(s)) = Reg(s)
        BY <3>4, RegSmall
      <4> QED
        BY <2>1, <4>1 DEF AmoD
    <3> HIDE DEF s, v
    <3>6. PICK k \in {0, 1, 2} : s = t + b - X * k
      BY <3>2
    <3> DEFINE q == -k - (s \div X)
    <3>7. q \in Int
      BY <3>4
    <3>8. X * q = -(X * k) - X * (s \div X) /\ X * q \in Int /\ X * k \in Int /\ X * (s \div X) \in Int
      BY <1>2, <3>4
    <3>9. v - t - b = 0 + X * q
      BY <1>2, <3>3, <3>4, <3>5, <3>6, <3>8
    <3> HIDE DEF q
    <3>10. (0 + X * q) % X = 0 % X /\ 0 % X = 0
      BY <1>2, <3>7, ModShift, ModSmall
    <3> QED
      BY <3>9, <3>10
  <2> HIDE DEF v
  <2>4. Combines(op, t, b, v)
    BY <1>1, <1>5, <2>2, <2>3 DEF Combines, AmoSetD, AmoMinMaxSetW, AmoMinMaxSetD
  <2> QED
    BY <1>1, <1>2, <1>3, <2>4
<1> QED
  BY <1>4, <1>5

LEMMA AmoSteps ==
    ASSUME IInv, NEW op \in AmoOps, NEW rd \in Regs, NEW rs2 \in Regs, NEW a \in Addrs,
           NEW loads \in BOOLEAN, NEW stores \in BOOLEAN, ExecAmo(op, rd, a, rs2, loads, stores)
    PROVE  Links /\ Exchanges
<1> DEFINE nb == AmoBytes(op)
           Q == Pow2[ByteBits * nb]
           t == MemBytes(a, nb)
           v == Amo(op, t, iregs[rs2])
           old == AmoOldValue(op, a)
<1>1. /\ iregs \in [Regs -> Word64] /\ iregs[0] = 0 /\ mem \in Word64
      /\ iregs[rs2] \in Word64 /\ a \in Nat
  BY Typing, ConstantTypes, WordsAreNumbers DEF IInv
<1>2. CASE \E exc : exc # Normal /\ AmoReturns(op, rd, a, rs2, exc)
  <2>1. last'.op = op /\ last'.exc # Normal
    BY <1>2, StepLast DEF AmoReturns
  <2> QED
    BY <2>1, Names DEF Links, Exchanges
<1>3. CASE InMemory(a, nb) /\ AmoStores(op, rd, a, rs2)
  <2>1. /\ Step(op, rd, a, iregs[rs2], Normal)
        /\ mem' = MemWith(a, nb, v) /\ iregs' = StoreReg(rd, old)
    BY <1>3 DEF AmoStores, AmoOperand
  <2>2. last'.op = op /\ last'.rd = rd /\ last'.a = a /\ last'.b = iregs[rs2]
    BY <2>1, StepLast
  <2>3. nb \in {4, 8} /\ nb \in 1 .. 8
    BY AccessWidths
  <2>4. t \in Word64 /\ t \in Int /\ 0 <= t /\ t < Q
    BY <1>1, <2>3, MemBytesType, WordsAreNumbers
  <2>5. v \in Int
    BY <1>1, <2>4, AmoType
  <2>6. S(old) = IF nb = 4 THEN SW(t) ELSE S(t)
    <3>1. CASE nb = 4
      <4>1. old = RegW(t)
        BY <3>1 DEF AmoOldValue, RegW
      <4> QED
        BY <2>4, <3>1, <4>1, RegWFacts
    <3>2. CASE nb = 8
      BY <3>2 DEF AmoOldValue
    <3> QED
      BY <2>3, <3>1, <3>2
  <2>7. (\A r \in Regs \ {rd} : iregs'[r] = iregs[r]) /\ (rd # 0 => iregs'[rd] = old)
    BY <1>1, <2>1 DEF StoreReg
  <2>8. Combines(op, t, iregs[rs2] % Q, v % Q)
    <3>1. CASE op \in AmoSetW \cup AmoMinMaxSetW
      <4>1. nb = 4 /\ Q = W
        BY <3>1, HalfWidths, ISAAssumption DEF AmoBytes, WLEN
      <4> QED
        BY <1>1, <2>4, <3>1, <4>1, WordCombines
    <3>2. CASE op \in AmoSetD \cup AmoMinMaxSetD
      BY <1>1, <2>4, <3>2, DoubleCombines
    <3> QED
      BY <3>1, <3>2 DEF AmoOps
  <2>9. /\ mem' % Pow2[ByteBits * a] = mem % Pow2[ByteBits * a]
        /\ mem' \div Pow2[ByteBits * (a + nb)] = mem \div Pow2[ByteBits * (a + nb)]
        /\ (mem' \div Pow2[ByteBits * a]) % Q = v % Q
    <3> HIDE DEF nb, v
    <3> QED
      BY <1>1, <1>3, <2>1, <2>3, <2>5, MemWithFacts
  <2>10. AmoDone
    <3> HIDE DEF old, v
    <3> QED
      BY <2>2, <2>6, <2>7, <2>8, <2>9 DEF AmoDone, NewBytes
  <2> QED
    BY <2>2, <2>10, Names DEF Links, Exchanges
<1> QED
  BY <1>2, <1>3, AmoCases

LEMMA StepsExchange == IInv /\ [Next]_vars => [Links /\ Exchanges]_vars
<1> SUFFICES ASSUME IInv, Next PROVE Links /\ Exchanges
  OBVIOUS
<1>1. CASE last'.op \notin Singled
  BY <1>1, Plain
<1>2. CASE last'.op \in Singled
  <2>1. Instruction
    BY DEF Next
  <2>2. \/ \E rd \in Regs, imm \in Imms : JAL(rd, imm)
        \/ \E rd, rs1 \in Regs, imm \in Imms : JALR(rd, rs1, imm)
        \/ \E op \in AmoOps, rd, rs2 \in Regs, a \in Addrs, loads, stores \in BOOLEAN :
               ExecAmo(op, rd, a, rs2, loads, stores)
    BY <1>2, <2>1, Names, PlainSteps DEF Instruction
  <2> QED
    BY <2>2, JALLinks, JALRLinks, JumpSteps, AmoSteps
<1> QED
  BY <1>1, <1>2

(* Every atomic operation that is not refused leaves the old value, extended *)
(* with its sign, in rd and what the operation makes of that and of rs2 in   *)
(* memory, whichever registers the two are, at every address and width; no   *)
(* other register and no byte beside the operand changes.                    *)
THEOREM AtomicsExchange == Spec => AmosExchange
<1>1. [Links /\ Exchanges]_vars => [Exchanges]_vars
  OBVIOUS
<1> QED
  BY <1>1, AlwaysIInv, StepsExchange, PTL DEF Spec, AmosExchange, Exchanges

(* JAL and JALR leave the return address in rd, and JALR jumps to where rs1 *)
(* pointed before that, with bit 0 cleared, even when rd is rs1.            *)
THEOREM JumpsReturn == Spec => JumpsLink
<1>1. [Links /\ Exchanges]_vars => [Links]_vars
  OBVIOUS
<1> QED
  BY <1>1, AlwaysIInv, StepsExchange, PTL DEF Spec, JumpsLink, Links
=============================================================================
