----------------------------- MODULE MMUProofs -----------------------------
(***************************************************************************)
(* Theorems about MMU, for every memory size, block size, image and input. *)
(***************************************************************************)
EXTENDS MMU, TLAPS

(* load_file rounds the end of a segment up: the result is not below it and *)
(* less than one granule above it.                                          *)
LEMMA RoundUpBounds ==
    ASSUME NEW x \in Nat
    PROVE  /\ RoundUp(x) \in Nat
           /\ x <= RoundUp(x)
           /\ RoundUp(x) < x + Granule
<1> DEFINE y == x + Granule - 1
           q == y \div Granule
           r == y % Granule
<1>1. y \in Nat /\ Granule \in Nat /\ Granule > 0
  BY SizesAssumption
<1>2. q \in Nat /\ r \in 0 .. Granule - 1 /\ y = Granule * q + r
  BY <1>1
<1>3. RoundUp(x) = q * Granule
  BY DEF RoundUp
<1>4. q * Granule = y - r /\ q * Granule \in Nat
  BY <1>1, <1>2
<1> QED
  BY <1>1, <1>2, <1>3, <1>4

(* A range that passes the bounds assertion lies in RAM, even when its end  *)
(* has wrapped: the loop is then empty.                                     *)
LEMMA RangeInRam ==
    ASSUME NEW a \in Nat, NEW n \in Nat, Bounds(a, n)
    PROVE  Range(a, n) \subseteq Ram
BY SizesAssumption DEF Bounds, Range, Plus, Ram

(* A range that does not wrap is the interval one expects. *)
LEMMA PlusNoWrap ==
    ASSUME NEW x \in Nat, NEW y \in Nat, x + y < AddrSpace
    PROVE  Plus(x, y) = x + y
BY DEF Plus

(* The bytes of store_byte .. store_dword are bytes. *)
LEMMA LowBytesType ==
    ASSUME NEW v \in Value, NEW n \in 0 .. RegBytes
    PROVE  LowBytes(v, n) \in [0 .. n - 1 -> Byte]
BY SizesAssumption DEF LowBytes, Value

-----------------------------------------------------------------------------
(* Type correctness, one lemma per action. *)

LEMMA InitType == Init => TypeOK
<1> SUFFICES ASSUME Init PROVE TypeOK
  OBVIOUS
<1>1. acc \in Accesses
  BY SizesAssumption DEF Init, NoAccess, Access, Accesses, Value, Zero, Byte
<1>2. ram \in [Ram -> Byte] /\ snapshot \in [Ram -> Byte]
  BY SizesAssumption DEF Init, Byte
<1> QED
  BY <1>1, <1>2, SizesAssumption, InputsAssumption DEF Init, TypeOK

LEMMA AbortType == TypeOK /\ (Abort \/ Undefined) => TypeOK'
BY DEF TypeOK, Abort, Undefined, history

LEMMA LoadSegmentType == TypeOK /\ LoadSegment => TypeOK'
<1> SUFFICES ASSUME TypeOK, LoadSegment PROVE TypeOK'
  OBVIOUS
<1> DEFINE seg == Head(segs)
           a == seg.start_addr
           n == seg.mem_size
           R == Range(a, n)
<1>1. /\ seg \in Segment /\ Tail(segs) \in Seq(Segment)
  BY DEF TypeOK, LoadSegment
<1>2. a \in Nat /\ n \in Nat /\ seg.data \in Seq(Byte)
      /\ seg.perms \in SUBSET Flags
  BY <1>1, SizesAssumption DEF Segment, Addr, Flags
<1>3. CASE Bounds(a, n) /\ a + n < AddrSpace
  <2>1. R \subseteq Ram
    BY <1>2, <1>3, RangeInRam
  <2>2. Plus(a, n) = a + n
    BY <1>2, <1>3, PlusNoWrap
  <2>3. a + n \in Nat /\ a + n < RamSize
    BY <1>2, <1>3, <2>2 DEF Bounds
  <2>4. RoundUp(a + n) \in 0 .. RamSize + Granule + AllocBase
    BY <2>3, RoundUpBounds, SizesAssumption
  <2>5. alloc_ptr' \in 0 .. RamSize + Granule + AllocBase
    BY <1>3, <2>4 DEF TypeOK, LoadSegment, BreakAfter, Larger
  <2>6. Padded(seg) \in [0 .. n - 1 -> Byte]
    BY <1>2, SizesAssumption DEF Padded, Byte
  <2>7. \A i \in R : i - a \in 0 .. n - 1
    BY <1>2, <2>2 DEF Range
  <2>8. ram' \in [Ram -> Byte]
    BY <1>3, <2>6, <2>7 DEF TypeOK, LoadSegment, Copied
  <2>9. perm' \in [Ram -> SUBSET Flags]
    BY <1>2, <1>3 DEF TypeOK, LoadSegment, Filled
  <2> QED
    BY <1>1, <1>3, <2>1, <2>5, <2>8, <2>9 DEF TypeOK, LoadSegment
<1>4. CASE ~(Bounds(a, n) /\ a + n < AddrSpace)
  BY <1>4, AbortType DEF LoadSegment
<1> QED
  BY <1>3, <1>4

LEMMA AllocateType ==
    ASSUME TypeOK, NEW n \in AllocSizes, Allocate(n)
    PROVE  TypeOK'
<1>1. n \in Nat /\ 2 * n < AddrSpace /\ alloc_ptr \in Nat /\ 2 * alloc_ptr <= AddrSpace
  BY SizesAssumption, InputsAssumption DEF TypeOK
<1>2. CASE Bounds(alloc_ptr, n)
  <2>1. Range(alloc_ptr, n) \subseteq Ram
    BY <1>1, <1>2, RangeInRam
  <2>2. Plus(alloc_ptr, n) = alloc_ptr + n /\ alloc_ptr + n < RamSize
    BY <1>1, <1>2, SizesAssumption DEF Plus, Bounds
  <2>3. alloc_ptr' \in 0 .. RamSize + Granule + AllocBase
    BY <1>1, <1>2, <2>2, SizesAssumption DEF Allocate
  <2>4. perm' \in [Ram -> SUBSET Flags]
    BY <1>2 DEF Allocate, TypeOK, Filled, AllocateNewPerms, Flags
  <2>5. acc' \in Accesses
    BY <1>1, <1>2, SizesAssumption DEF Allocate, Access, Accesses, Value, Zero, Byte
  <2> QED
    BY <1>2, <2>3, <2>4, <2>5 DEF Allocate, TypeOK
<1>3. CASE ~Bounds(alloc_ptr, n)
  BY <1>3, AbortType DEF Allocate
<1> QED
  BY <1>2, <1>3

(* The body of write_from, which store and the system calls share. *)
LEMMA WriteFromType ==
    ASSUME TypeOK, NEW a \in Addr, NEW n \in 1 .. AddrSpace - 1, NEW buf \in [0 .. n - 1 -> Byte],
           NEW op \in {"bulk", "store"}, NEW v \in Value, NEW blocks \in SUBSET Nat,
           NEW out \in SUBSET Range(a, n), WriteFrom(a, n, buf, op, v, blocks, out)
    PROVE  TypeOK'
<1>1. a \in Nat /\ n \in Nat /\ a < AddrSpace /\ n < AddrSpace
  BY SizesAssumption DEF Addr
<1>2. CASE Bounds(a, n) /\ CanWrite(a, n)
  <2> USE <1>2 DEF WriteFrom, WriteFromUnchecked
  <2>1. Range(a, n) \subseteq Ram
    BY <1>1, RangeInRam
  <2>2. \A i \in Range(a, n) : i - a \in 0 .. n - 1
    BY <1>1, SizesAssumption DEF Range, Plus
  <2>3. ram' \in [Ram -> Byte]
    BY <2>2 DEF TypeOK, Copied
  <2>4. perm' \in [Ram -> SUBSET Flags]
    BY DEF TypeOK, ClearRaw, Flags
  <2>5. acc' \in Accesses
    BY <1>1 DEF Access, Accesses
  <2>6. written' \in SUBSET Ram /\ exposed' \in SUBSET Ram
    BY <2>1 DEF TypeOK
  <2> QED
    BY <2>3, <2>4, <2>5, <2>6 DEF TypeOK
<1>3. CASE ~(Bounds(a, n) /\ CanWrite(a, n))
  BY <1>3, AbortType DEF WriteFrom
<1> QED
  BY <1>2, <1>3

(* The block number of an address is a natural number. *)
LEMMA BlockOfType ==
    ASSUME NEW a \in Nat
    PROVE  BlockOf(a) \in Nat
BY SizesAssumption DEF BlockOf

(* What the guest can pass to the accesses, from the assumptions. *)
LEMMA InputTypes ==
    /\ Addresses \subseteq Addr
    /\ AccessSizes \subseteq 1 .. AddrSpace - 1
    /\ AccessSizes \subseteq 0 .. RegBytes
    /\ BulkSizes \subseteq 1 .. AddrSpace - 1
    /\ StoreValues \subseteq Value
    /\ Zero \in Value
BY SizesAssumption, InputsAssumption DEF Value, Zero, Byte

LEMMA BulkWriteType ==
    ASSUME TypeOK, NEW a \in Addresses, NEW n \in BulkSizes, NEW buf \in [0 .. n - 1 -> Byte],
           BulkWrite(a, n, buf)
    PROVE  TypeOK'
<1>1. a \in Addr /\ n \in 1 .. AddrSpace - 1 /\ dirty \in SUBSET Nat /\ Zero \in Value
  BY InputTypes DEF TypeOK
<1> QED
  BY <1>1, WriteFromType DEF BulkWrite

LEMMA StoreType ==
    ASSUME TypeOK, NEW a \in Addresses, NEW n \in AccessSizes, NEW v \in StoreValues,
           Store(a, n, v)
    PROVE  TypeOK'
<1>1. a \in Addr /\ a \in Nat /\ n \in 1 .. AddrSpace - 1 /\ v \in Value
  BY InputTypes DEF Addr
<1>2. LowBytes(v, n) \in [0 .. n - 1 -> Byte]
  BY <1>1, InputTypes, LowBytesType
<1>3. Marked(a) \in SUBSET Nat /\ PastFirstBlock(a, n) \in SUBSET Range(a, n)
  BY <1>1, BlockOfType DEF Marked, PastFirstBlock, TypeOK
<1> QED
  BY <1>1, <1>2, <1>3, WriteFromType DEF Store

LEMMA LoadType ==
    ASSUME TypeOK, NEW a \in Addresses, NEW n \in AccessSizes, Load(a, n)
    PROVE  TypeOK'
<1>1. a \in Nat /\ n \in Nat
  BY InputTypes DEF Addr
<1>2. CASE Bounds(a, n)
  <2>1. Range(a, n) \subseteq Ram
    BY <1>1, <1>2, RangeInRam
  <2>2. LoadValue(a, n) \in Value
    BY <2>1, SizesAssumption DEF LoadValue, Value, Byte, TypeOK
  <2>3. ReadResult(a, n) \in {"NormalExecutionReturn", "UninitializedMemoryAccess",
                              "ReadMemoryWithNoPermission"}
    BY DEF ReadResult
  <2>4. acc' \in Accesses
    BY <1>1, <1>2, <2>2, <2>3 DEF Load, Access, Accesses
  <2> QED
    BY <1>2, <2>4 DEF Load, TypeOK, history
<1>3. CASE ~Bounds(a, n)
  BY <1>3, AbortType DEF Load
<1> QED
  BY <1>2, <1>3

LEMMA ResetToType == TypeOK /\ ResetTo => TypeOK'
<1> SUFFICES ASSUME TypeOK, ResetTo PROVE TypeOK'
  OBVIOUS
<1>1. acc' \in Accesses
  BY InputTypes DEF ResetTo, NoAccess, Access, Accesses
<1>2. ram' \in [Ram -> Byte] /\ exposed' \in SUBSET Ram
  BY DEF ResetTo, TypeOK
<1> QED
  BY <1>1, <1>2 DEF ResetTo, TypeOK

LEMMA NextType == TypeOK /\ [Next]_vars => TypeOK'
<1> SUFFICES ASSUME TypeOK, [Next]_vars PROVE TypeOK'
  OBVIOUS
<1>1. CASE LoadSegment
  BY <1>1, LoadSegmentType
<1>2. CASE LoadDone
  BY <1>2 DEF LoadDone, TypeOK
<1>3. CASE \E n \in AllocSizes : Allocate(n)
  BY <1>3, AllocateType
<1>4. CASE \E a \in Addresses, n \in BulkSizes :
               \E buf \in [0 .. n - 1 -> Byte] : BulkWrite(a, n, buf)
  BY <1>4, BulkWriteType
<1>5. CASE \E a \in Addresses, n \in AccessSizes, v \in StoreValues : Store(a, n, v)
  BY <1>5, StoreType
<1>6. CASE \E a \in Addresses, n \in AccessSizes : Load(a, n)
  BY <1>6, LoadType
<1>7. CASE ResetTo
  BY <1>7, ResetToType
<1>8. CASE UNCHANGED vars
  BY <1>8 DEF vars, TypeOK
<1> QED
  BY <1>1, <1>2, <1>3, <1>4, <1>5, <1>6, <1>7, <1>8 DEF Next

(* The members of MMU keep their types, whatever the image and the guest.   *)
THEOREM TypeCorrect == Spec => []TypeOK
<1>1. Init => TypeOK
  BY InitType
<1>2. TypeOK /\ [Next]_vars => TypeOK'
  BY NextType
<1> QED
  BY <1>1, <1>2, PTL DEF Spec

-----------------------------------------------------------------------------
(* The permission invariants need each other: a write may only make bytes   *)
(* readable below the break, which NothingPastBreak knows, and a byte past  *)
(* the break is unwritten, so that allocating it cannot forget a write.     *)
PermInv == ReadableWasWritten /\ RawMeansUnwritten /\ NothingPastBreak

LEMMA AbortPerm == PermInv /\ (Abort \/ Undefined) => PermInv'
BY DEF PermInv, ReadableWasWritten, RawMeansUnwritten, NothingPastBreak, Abort, Undefined,
       history

LEMMA LoadSegmentPerm == TypeOK /\ PermInv /\ LoadSegment => PermInv'
<1> SUFFICES ASSUME TypeOK, PermInv, LoadSegment PROVE PermInv'
  OBVIOUS
<1> DEFINE seg == Head(segs)
           a == seg.start_addr
           n == seg.mem_size
           R == Range(a, n)
<1>1. seg \in Segment
  BY DEF TypeOK, LoadSegment
<1>2. a \in Nat /\ n \in Nat /\ "RAW" \notin seg.perms
  BY <1>1, SizesAssumption DEF Segment, Addr
<1>3. CASE Bounds(a, n) /\ a + n < AddrSpace
  <2>1. \A i \in Ram : perm'[i] = IF i \in R THEN seg.perms ELSE perm[i]
    BY <1>3 DEF LoadSegment, Filled
  <2>2. written' = written \cup R
    BY <1>3 DEF LoadSegment
  <2>3. Plus(a, n) = a + n
    BY <1>2, <1>3, PlusNoWrap
  <2>4. alloc_ptr' \in Nat /\ alloc_ptr' >= alloc_ptr /\ alloc_ptr' >= a + n /\ alloc_ptr \in Nat
    <3>1. a + n \in Nat /\ RoundUp(a + n) \in Nat /\ RoundUp(a + n) >= a + n
      BY <1>2, RoundUpBounds
    <3>2. alloc_ptr \in Nat
      BY SizesAssumption DEF TypeOK
    <3>3. alloc_ptr' = Larger(alloc_ptr, RoundUp(a + n))
      BY <1>3 DEF LoadSegment, BreakAfter
    <3> QED
      BY <1>2, <3>1, <3>2, <3>3 DEF Larger
  <2>5. \A i \in R : i < a + n
    BY <1>2, <2>3 DEF Range
  <2>6. ReadableWasWritten'
    BY <2>1, <2>2 DEF PermInv, ReadableWasWritten
  <2>7. RawMeansUnwritten'
    BY <1>2, <2>1, <2>2 DEF PermInv, RawMeansUnwritten
  <2>8. NothingPastBreak'
    <3> SUFFICES ASSUME NEW i \in Ram, i >= alloc_ptr'
                 PROVE  perm'[i] = {} /\ i \notin written'
      BY DEF NothingPastBreak
    <3>1. i \notin R /\ i >= alloc_ptr
      BY <1>2, <2>4, <2>5 DEF Ram
    <3> QED
      BY <2>1, <2>2, <3>1 DEF PermInv, NothingPastBreak
  <2> QED
    BY <2>6, <2>7, <2>8 DEF PermInv
<1>4. CASE ~(Bounds(a, n) /\ a + n < AddrSpace)
  BY <1>4, AbortPerm DEF LoadSegment
<1> QED
  BY <1>3, <1>4

LEMMA AllocatePerm ==
    ASSUME TypeOK, PermInv, NEW n \in AllocSizes, Allocate(n)
    PROVE  PermInv'
<1>1. n \in Nat /\ 2 * n < AddrSpace /\ alloc_ptr \in Nat /\ 2 * alloc_ptr <= AddrSpace
  BY SizesAssumption, InputsAssumption DEF TypeOK
<1>2. CASE Bounds(alloc_ptr, n)
  <2> DEFINE R == Range(alloc_ptr, n)
  <2>1. \A i \in Ram : perm'[i] = IF i \in R THEN {"RAW", "WRITE"} ELSE perm[i]
    BY <1>2 DEF Allocate, Filled, AllocateNewPerms
  <2>2. written' = written \ R /\ alloc_ptr' = alloc_ptr + n
    BY <1>1, <1>2, SizesAssumption, PlusNoWrap DEF Allocate
  <2>3. \A i \in R : i < alloc_ptr + n
    BY <1>1, SizesAssumption, PlusNoWrap DEF Range
  <2>4. ReadableWasWritten'
    BY <2>1, <2>2 DEF PermInv, ReadableWasWritten
  <2>5. RawMeansUnwritten'
    BY <2>1, <2>2 DEF PermInv, RawMeansUnwritten
  <2>6. NothingPastBreak'
    <3> SUFFICES ASSUME NEW i \in Ram, i >= alloc_ptr'
                 PROVE  perm'[i] = {} /\ i \notin written'
      BY DEF NothingPastBreak
    <3>1. i \notin R /\ i >= alloc_ptr
      BY <1>1, <2>2, <2>3 DEF Ram
    <3> QED
      BY <2>1, <2>2, <3>1 DEF PermInv, NothingPastBreak
  <2> QED
    BY <2>4, <2>5, <2>6 DEF PermInv
<1>3. CASE ~Bounds(alloc_ptr, n)
  BY <1>3, AbortPerm DEF Allocate
<1> QED
  BY <1>2, <1>3

LEMMA WriteFromPerm ==
    ASSUME TypeOK, PermInv, NEW a \in Addr, NEW n \in 1 .. AddrSpace - 1, NEW buf,
           NEW op, NEW v, NEW blocks, NEW out, WriteFrom(a, n, buf, op, v, blocks, out)
    PROVE  PermInv'
<1>1. a \in Nat /\ n \in Nat
  BY SizesAssumption DEF Addr
<1>2. CASE Bounds(a, n) /\ CanWrite(a, n)
  <2> DEFINE R == Range(a, n)
  <2>1. R \subseteq Ram
    BY <1>1, <1>2, RangeInRam
  <2>2. \A i \in Ram : perm'[i] = IF i \in R /\ "RAW" \in perm[i]
                                  THEN (perm[i] \cup {"READ"}) \ {"RAW"} ELSE perm[i]
    BY <1>2 DEF WriteFrom, WriteFromUnchecked, ClearRaw
  <2>3. written' = written \cup R /\ alloc_ptr' = alloc_ptr
    BY <1>2 DEF WriteFrom, WriteFromUnchecked
  <2>4. \A i \in R : ~(i >= alloc_ptr)
    BY <1>2, <2>1 DEF CanWrite, PermInv, NothingPastBreak
  <2>5. ReadableWasWritten'
    BY <2>2, <2>3 DEF PermInv, ReadableWasWritten
  <2>6. RawMeansUnwritten'
    BY <2>2, <2>3 DEF PermInv, RawMeansUnwritten
  <2>7. NothingPastBreak'
    BY <2>2, <2>3, <2>4 DEF PermInv, NothingPastBreak
  <2> QED
    BY <2>5, <2>6, <2>7 DEF PermInv
<1>3. CASE ~(Bounds(a, n) /\ CanWrite(a, n))
  BY <1>3, AbortPerm DEF WriteFrom
<1> QED
  BY <1>2, <1>3

(* The remaining actions leave permissions, the break and written alone.    *)
LEMMA FramePerm ==
    ASSUME PermInv, UNCHANGED <<perm, alloc_ptr, written>>
    PROVE  PermInv'
BY DEF PermInv, ReadableWasWritten, RawMeansUnwritten, NothingPastBreak

LEMMA NextPerm == TypeOK /\ PermInv /\ [Next]_vars => PermInv'
<1> SUFFICES ASSUME TypeOK, PermInv, [Next]_vars PROVE PermInv'
  OBVIOUS
<1>1. CASE LoadSegment
  BY <1>1, LoadSegmentPerm
<1>2. CASE LoadDone
  BY <1>2, FramePerm DEF LoadDone
<1>3. CASE \E n \in AllocSizes : Allocate(n)
  BY <1>3, AllocatePerm
<1>4. CASE \E a \in Addresses, n \in BulkSizes :
               \E buf \in [0 .. n - 1 -> Byte] : BulkWrite(a, n, buf)
  BY <1>4, WriteFromPerm, InputTypes DEF BulkWrite
<1>5. CASE \E a \in Addresses, n \in AccessSizes, v \in StoreValues : Store(a, n, v)
  BY <1>5, WriteFromPerm, InputTypes DEF Store
<1>6. CASE \E a \in Addresses, n \in AccessSizes : Load(a, n)
  BY <1>6, FramePerm DEF Load, Abort, history
<1>7. CASE ResetTo
  BY <1>7, FramePerm DEF ResetTo
<1>8. CASE UNCHANGED vars
  BY <1>8, FramePerm DEF vars
<1> QED
  BY <1>1, <1>2, <1>3, <1>4, <1>5, <1>6, <1>7, <1>8 DEF Next

LEMMA InitPerm == Init => PermInv
BY DEF Init, PermInv, ReadableWasWritten, RawMeansUnwritten, NothingPastBreak

LEMMA PermInvariant == Spec => [](TypeOK /\ PermInv)
<1>1. Init => TypeOK /\ PermInv
  BY InitType, InitPerm
<1>2. (TypeOK /\ PermInv) /\ [Next]_vars => (TypeOK /\ PermInv)'
  BY NextType, NextPerm
<1> QED
  BY <1>1, <1>2, PTL DEF Spec

(* No load returns the contents of memory nobody wrote as a normal value.   *)
THEOREM PermissionsSound == Spec => []ReadableWasWritten
<1>1. PermInv => ReadableWasWritten
  BY DEF PermInv
<1> QED
  BY <1>1, PermInvariant, PTL

(* The RAW flag that allocate sets and write_from clears tells unwritten    *)
(* from written memory.                                                     *)
THEOREM RawSound == Spec => []RawMeansUnwritten
<1>1. PermInv => RawMeansUnwritten
  BY DEF PermInv
<1> QED
  BY <1>1, PermInvariant, PTL

(* allocate and load_file never hand out or overlay memory past the break:  *)
(* there is nothing there.                                                  *)
THEOREM BreakSeparates == Spec => []NothingPastBreak
<1>1. PermInv => NothingPastBreak
  BY DEF PermInv
<1> QED
  BY <1>1, PermInvariant, PTL

-----------------------------------------------------------------------------
(* Read-only memory.  ResetTo writes the whole of a marked block, read-only *)
(* bytes included, so the property needs that those bytes still are what    *)
(* they were in the snapshot.                                               *)
ReadOnly(i) == perm[i] # {} /\ "WRITE" \notin perm[i]
ReadOnlyIsSnapshot ==
    phase = "running" => \A i \in Ram : ReadOnly(i) => ram[i] = snapshot[i]

(* While the program runs, no step changes a read-only byte or makes one.   *)
LEMMA StepReadOnly ==
    ASSUME TypeOK, PermInv, ReadOnlyIsSnapshot, Next, phase = "running"
    PROVE  /\ snapshot' = snapshot
           /\ \A i \in Ram : ReadOnly(i) => ram'[i] = ram[i] /\ perm'[i] = perm[i]
           /\ \A i \in Ram : ReadOnly(i)' => ReadOnly(i)
<1> DEFINE Goal == /\ snapshot' = snapshot
                   /\ \A i \in Ram : ReadOnly(i) => ram'[i] = ram[i] /\ perm'[i] = perm[i]
                   /\ \A i \in Ram : ReadOnly(i)' => ReadOnly(i)
<1>1. ASSUME UNCHANGED <<ram, perm, snapshot>> PROVE Goal
  BY <1>1 DEF ReadOnly
<1>2. ASSUME NEW n \in AllocSizes, Allocate(n) PROVE Goal
  <2>1. CASE Bounds(alloc_ptr, n)
    <3> DEFINE R == Range(alloc_ptr, n)
    <3>1. \A i \in Ram : perm'[i] = IF i \in R THEN {"RAW", "WRITE"} ELSE perm[i]
      BY <1>2, <2>1 DEF Allocate, Filled, AllocateNewPerms
    <3>2. ram' = ram /\ snapshot' = snapshot
      BY <1>2, <2>1 DEF Allocate
    <3>3. \A i \in R : i >= alloc_ptr
      BY SizesAssumption, InputsAssumption DEF Range, Plus, TypeOK
    <3>4. \A i \in Ram : i \in R => perm[i] = {}
      BY <3>3 DEF PermInv, NothingPastBreak
    <3> QED
      BY <3>1, <3>2, <3>4 DEF ReadOnly
  <2>2. CASE ~Bounds(alloc_ptr, n)
    BY <1>1, <1>2, <2>2 DEF Allocate, Abort, history
  <2> QED
    BY <2>1, <2>2
<1>3. ASSUME NEW a, NEW n, NEW buf, NEW op, NEW v, NEW blocks, NEW out,
             WriteFrom(a, n, buf, op, v, blocks, out)
      PROVE  Goal
  <2>1. CASE Bounds(a, n) /\ CanWrite(a, n)
    <3> DEFINE R == Range(a, n)
    <3>1. \A i \in Ram : perm'[i] = IF i \in R /\ "RAW" \in perm[i]
                                    THEN (perm[i] \cup {"READ"}) \ {"RAW"} ELSE perm[i]
      BY <1>3, <2>1 DEF WriteFrom, WriteFromUnchecked, ClearRaw
    <3>2. snapshot' = snapshot /\ \A i \in Ram : i \notin R => ram'[i] = ram[i]
      BY <1>3, <2>1 DEF WriteFrom, WriteFromUnchecked, Copied
    <3>3. \A i \in R : "WRITE" \in perm[i]
      BY <2>1 DEF CanWrite
    <3> QED
      BY <3>1, <3>2, <3>3 DEF ReadOnly
  <2>2. CASE ~(Bounds(a, n) /\ CanWrite(a, n))
    BY <1>1, <1>3, <2>2 DEF WriteFrom, Abort, history
  <2> QED
    BY <2>1, <2>2
<1>4. ASSUME ResetTo PROVE Goal
  BY <1>4 DEF ResetTo, ReadOnlyIsSnapshot, ReadOnly
<1>5. ASSUME NEW a \in Addresses, NEW n \in AccessSizes, Load(a, n) PROVE Goal
  BY <1>1, <1>5 DEF Load, Abort, history
<1>6. CASE \E a \in Addresses, n \in BulkSizes :
               \E buf \in [0 .. n - 1 -> Byte] : BulkWrite(a, n, buf)
  BY <1>3, <1>6 DEF BulkWrite
<1>7. CASE \E a \in Addresses, n \in AccessSizes, v \in StoreValues : Store(a, n, v)
  BY <1>3, <1>7 DEF Store
<1> QED
  BY <1>2, <1>4, <1>5, <1>6, <1>7 DEF Next, LoadSegment, LoadDone

LEMMA NextReadOnly ==
    TypeOK /\ PermInv /\ ReadOnlyIsSnapshot /\ [Next]_vars => ReadOnlyIsSnapshot'
<1> SUFFICES ASSUME TypeOK, PermInv, ReadOnlyIsSnapshot, [Next]_vars, phase' = "running"
             PROVE  \A i \in Ram : ReadOnly(i)' => ram'[i] = snapshot'[i]
  BY DEF ReadOnlyIsSnapshot
<1>1. CASE phase = "running" /\ Next
  BY <1>1, StepReadOnly DEF ReadOnlyIsSnapshot
<1>2. CASE phase # "running" /\ Next
  <2>1. LoadDone
    BY <1>2 DEF Next, LoadSegment, Abort, Undefined, Allocate, BulkWrite, Store, Load, ResetTo
  <2> QED
    BY <2>1 DEF LoadDone
<1>3. CASE UNCHANGED vars
  BY <1>3 DEF vars, ReadOnlyIsSnapshot, ReadOnly
<1> QED
  BY <1>1, <1>2, <1>3

(* Text and read-only data cannot be changed by a running program.          *)
THEOREM ReadOnlyKept == Spec => ReadOnlyIsKept
<1> DEFINE Inv == TypeOK /\ PermInv /\ ReadOnlyIsSnapshot
           Kept == phase = "running" =>
                     \A i \in Ram : perm[i] # {} /\ "WRITE" \notin perm[i]
                                    => ram'[i] = ram[i] /\ perm'[i] = perm[i]
<1>1. Init => Inv
  BY InitType, InitPerm DEF Init, ReadOnlyIsSnapshot
<1>2. Inv /\ [Next]_vars => Inv'
  BY NextType, NextPerm, NextReadOnly
<1>3. Inv /\ [Next]_vars => [Kept]_vars
  BY StepReadOnly DEF ReadOnly
<1> QED
  BY <1>1, <1>2, <1>3, PTL DEF Spec, ReadOnlyIsKept

-----------------------------------------------------------------------------
(* The marking of blocks.  A write keeps the marks there were, and each byte *)
(* it writes lies in a marked block or is exposed; a reset restores the      *)
(* marked blocks and forgets the marks.                                      *)
LEMMA WriteFromMarked ==
    ASSUME TypeOK, ChangedIsMarked, phase = "running",
           NEW a \in Addr, NEW n \in 1 .. AddrSpace - 1, NEW buf, NEW op, NEW v,
           NEW blocks, dirty \subseteq blocks, NEW out,
           \A i \in Range(a, n) : BlockOf(i) \in blocks \/ i \in out,
           WriteFrom(a, n, buf, op, v, blocks, out)
    PROVE  ChangedIsMarked'
<1>1. CASE Bounds(a, n) /\ CanWrite(a, n)
  <2> SUFFICES ASSUME NEW i \in Ram, i \notin exposed', ram'[i] # snapshot'[i]
               PROVE  BlockOf(i) \in dirty'
    BY DEF ChangedIsMarked
  <2>1. dirty' = blocks /\ snapshot' = snapshot /\ exposed' = exposed \cup out
    BY <1>1 DEF WriteFrom, WriteFromUnchecked
  <2>2. CASE i \in Range(a, n)
    BY <2>1, <2>2
  <2>3. CASE i \notin Range(a, n)
    <3>1. ram'[i] = ram[i]
      BY <1>1, <2>3 DEF WriteFrom, WriteFromUnchecked, Copied
    <3> QED
      BY <2>1, <3>1 DEF ChangedIsMarked
  <2> QED
    BY <2>2, <2>3
<1>2. CASE ~(Bounds(a, n) /\ CanWrite(a, n))
  BY <1>2 DEF WriteFrom, Abort, ChangedIsMarked
<1> QED
  BY <1>1, <1>2

LEMMA NextMarked == TypeOK /\ ChangedIsMarked /\ [Next]_vars => ChangedIsMarked'
<1> SUFFICES ASSUME TypeOK, ChangedIsMarked, [Next]_vars PROVE ChangedIsMarked'
  OBVIOUS
<1>1. ASSUME UNCHANGED <<ram, snapshot, dirty, exposed>>, phase' = "running" => phase = "running"
      PROVE  ChangedIsMarked'
  BY <1>1 DEF ChangedIsMarked
<1>2. CASE LoadSegment
  BY <1>2 DEF LoadSegment, Abort, Undefined, ChangedIsMarked
<1>3. CASE LoadDone
  BY <1>3 DEF LoadDone, ChangedIsMarked
<1>4. CASE \E n \in AllocSizes : Allocate(n)
  BY <1>1, <1>4 DEF Allocate, Abort, history
<1>5. CASE \E a \in Addresses, n \in BulkSizes :
               \E buf \in [0 .. n - 1 -> Byte] : BulkWrite(a, n, buf)
  BY <1>5, WriteFromMarked, InputTypes DEF BulkWrite
<1>6. CASE \E a \in Addresses, n \in AccessSizes, v \in StoreValues : Store(a, n, v)
  <2>1. PICK a \in Addresses, n \in AccessSizes, v \in StoreValues : Store(a, n, v)
    BY <1>6
  <2>2. dirty \subseteq Marked(a)
    BY DEF Marked
  <2>3. \A i \in Range(a, n) : BlockOf(i) \in Marked(a) \/ i \in PastFirstBlock(a, n)
    BY DEF Marked, PastFirstBlock
  <2> QED
    BY <2>1, <2>2, <2>3, WriteFromMarked, InputTypes DEF Store
<1>7. CASE \E a \in Addresses, n \in AccessSizes : Load(a, n)
  BY <1>1, <1>7 DEF Load, Abort, history
<1>8. CASE ResetTo
  <2> SUFFICES ASSUME NEW i \in Ram, ram'[i] # snapshot'[i]
               PROVE  i \in exposed'
    BY DEF ChangedIsMarked
  <2>1. ~Restored(i) /\ ram[i] # snapshot[i]
    BY <1>8 DEF ResetTo
  <2>2. i \in exposed
    BY <1>8, <2>1 DEF ResetTo, Restored, ChangedIsMarked
  <2> QED
    BY <1>8, <2>2 DEF ResetTo
<1>9. CASE UNCHANGED vars
  BY <1>1, <1>9 DEF vars
<1> QED
  BY <1>2, <1>3, <1>4, <1>5, <1>6, <1>7, <1>8, <1>9 DEF Next

(* The marks of store() are right: a byte that differs from the loaded image *)
(* and was only stored to, in the first block of each store, lies in a dirty *)
(* block, so reset_to() restores it, after any calls and resets before.      *)
THEOREM ChangesMarked == Spec => []ChangedIsMarked
<1>1. Init => ChangedIsMarked
  BY DEF Init, ChangedIsMarked
<1> QED
  BY <1>1, NextMarked, TypeCorrect, PTL DEF Spec

-----------------------------------------------------------------------------
(* The break only grows: a segment or an allocation can only move it up.    *)
THEOREM BreakMonotone == Spec => BreakNeverShrinks
<1>1. Init => TypeOK
  BY InitType
<1>2. TypeOK /\ [Next]_vars => TypeOK'
  BY NextType
<1>3. TypeOK /\ [Next]_vars => [alloc_ptr' >= alloc_ptr]_vars
  <2> SUFFICES ASSUME TypeOK, Next PROVE alloc_ptr' >= alloc_ptr
    OBVIOUS
  <2>1. alloc_ptr \in Nat /\ 2 * alloc_ptr <= AddrSpace
    BY SizesAssumption DEF TypeOK
  <2>2. ASSUME alloc_ptr' = alloc_ptr PROVE alloc_ptr' >= alloc_ptr
    BY <2>1, <2>2
  <2>3. CASE LoadSegment
    <3>1. alloc_ptr' \in Int
      BY NextType, SizesAssumption DEF TypeOK
    <3> QED
      BY <2>1, <2>2, <2>3, <3>1 DEF LoadSegment, BreakAfter, Larger, Abort, Undefined
  <2>4. CASE \E n \in AllocSizes : Allocate(n)
    <3> PICK n \in AllocSizes : Allocate(n)
      BY <2>4
    <3>1. n \in Nat /\ 2 * n < AddrSpace
      BY SizesAssumption, InputsAssumption
    <3>2. Plus(alloc_ptr, n) = alloc_ptr + n
      BY <2>1, <3>1, SizesAssumption, PlusNoWrap
    <3> QED
      BY <2>1, <2>2, <3>1, <3>2 DEF Allocate, Abort
  <2> QED
    BY <2>2, <2>3, <2>4 DEF Next, LoadDone, BulkWrite, Store, WriteFrom, WriteFromUnchecked,
       Load, ResetTo, Abort
<1> QED
  BY <1>1, <1>2, <1>3, PTL DEF Spec, BreakNeverShrinks

-----------------------------------------------------------------------------
(***************************************************************************)
(* MMU implements Memory: flags, blocks, rounding and sums that wrap are   *)
(* cells with contents and rights.  Every call of MMU maps to one step of  *)
(* Memory; the invariants above are what makes that true.                  *)
(***************************************************************************)

(* The invariant the mapping rests on: the permission invariants, and that  *)
(* a reset finds read-only bytes as they were loaded.                       *)
RefInv == TypeOK /\ PermInv /\ ReadOnlyIsSnapshot

LEMMA RefInvariant == Spec => []RefInv
<1>1. Init => RefInv
  BY InitType, InitPerm DEF Init, ReadOnlyIsSnapshot, RefInv
<1>2. RefInv /\ [Next]_vars => RefInv'
  BY NextType, NextPerm, NextReadOnly DEF RefInv
<1> QED
  BY <1>1, <1>2, PTL DEF Spec

(* The state of Memory that a state of MMU stands for. *)
Mem == [i \in Ram |-> Contents(i)]
CanReadSet == {i \in Ram : "READ" \in perm[i]}
CanWriteSet == {i \in Ram : "WRITE" \in perm[i]}

(* A range that does not wrap is a span of cells. *)
LEMMA RangeIsSpan ==
    ASSUME NEW a \in Nat, NEW n \in Nat, a + n < AddrSpace, Bounds(a, n)
    PROVE  Range(a, n) = Cells!Span(a, n)
<1>1. Range(a, n) = a .. a + n - 1 /\ a + n < RamSize
  BY SizesAssumption, PlusNoWrap DEF Range, Bounds
<1> QED
  BY <1>1, SizesAssumption DEF Cells!Span, Ram

(* One that wraps is empty: write_from and read_to then go round no loop.   *)
LEMMA WrappedIsEmpty ==
    ASSUME NEW a \in Addr, NEW n \in 1 .. AddrSpace - 1, a + n >= AddrSpace
    PROVE  Range(a, n) = {}
BY SizesAssumption DEF Range, Plus, Addr

(* A cell that may be read has contents; one with contents is not RAW. *)
LEMMA ReadableHasContents ==
    ASSUME PermInv, NEW i \in Ram, "READ" \in perm[i]
    PROVE  Contents(i) = {ram[i]}
BY DEF PermInv, RawMeansUnwritten, Contents

-----------------------------------------------------------------------------
(* One lemma per call of MMU. *)

LEMMA AbortRefines ==
    ASSUME phase \in {"loading", "running"}, phase' \in {"aborted", "undefined"}
    PROVE  Cells!Next
BY DEF Cells!Next

LEMMA LoadSegmentRefines == RefInv /\ RefInv' /\ LoadSegment => Cells!Next
<1> SUFFICES ASSUME RefInv, RefInv', LoadSegment PROVE Cells!Next
  OBVIOUS
<1> DEFINE seg == Head(segs)
           a == seg.start_addr
           n == seg.mem_size
           R == Range(a, n)
<1>1. seg \in Segment
  BY DEF RefInv, TypeOK, LoadSegment
<1>2. a \in Nat /\ n \in Nat
  BY <1>1, SizesAssumption DEF Segment, Addr
<1>3. CASE Bounds(a, n) /\ a + n < AddrSpace
  <2>1. \A i \in Ram : perm'[i] = IF i \in R THEN seg.perms ELSE perm[i]
    BY <1>3 DEF LoadSegment, Filled
  <2>2. \A i \in Ram : i \notin R => ram'[i] = ram[i]
    BY <1>3 DEF LoadSegment, Copied
  <2>3. Plus(a, n) = a + n /\ a + n < RamSize
    BY <1>2, <1>3, SizesAssumption, PlusNoWrap DEF Bounds
  <2>4. alloc_ptr' \in Nat /\ alloc_ptr' >= alloc_ptr /\ alloc_ptr' >= a + n
    <3>1. a + n \in Nat /\ RoundUp(a + n) \in Nat /\ RoundUp(a + n) >= a + n
      BY <1>2, RoundUpBounds
    <3>2. alloc_ptr \in Nat
      BY SizesAssumption DEF RefInv, TypeOK
    <3>3. alloc_ptr' = Larger(alloc_ptr, RoundUp(a + n))
      BY <1>3 DEF LoadSegment, BreakAfter
    <3> QED
      BY <1>2, <3>1, <3>2, <3>3 DEF Larger
  <2>5. R = Cells!Span(a, (a + n) - a)
    BY <1>2, <1>3, <2>3, SizesAssumption, RangeIsSpan
  <2>6. a \in Ram /\ a + n \in Ram
    BY <1>2, <2>3, SizesAssumption DEF Ram
  <2>7. \A i \in Ram \ R : Mem'[i] = Mem[i] /\ (i \in CanReadSet' <=> i \in CanReadSet)
                                           /\ (i \in CanWriteSet' <=> i \in CanWriteSet)
    BY <2>1, <2>2 DEF Mem, Contents, CanReadSet, CanWriteSet
  <2>8. \A i, j \in R : i \in Ram /\ j \in Ram =>
                          /\ (i \in CanReadSet' <=> j \in CanReadSet')
                          /\ (i \in CanWriteSet' <=> j \in CanWriteSet')
    BY <2>1 DEF CanReadSet, CanWriteSet
  <2>9. \A i \in Ram : i >= alloc_ptr' =>
                          Mem'[i] = {} /\ i \notin CanReadSet' \cup CanWriteSet'
    BY DEF RefInv, PermInv, NothingPastBreak, Mem, Contents, CanReadSet, CanWriteSet
  <2>10. \A i \in CanReadSet' : Mem'[i] # {}
    BY DEF RefInv, PermInv, RawMeansUnwritten, Mem, Contents, CanReadSet
  <2>11. phase = "loading" /\ phase' = "loading" /\ acc' = acc
    BY <1>3 DEF LoadSegment
  <2>12. R \subseteq Ram
    BY <1>2, <1>3, RangeInRam
  <2>13. Cells!Place
    BY <2>4, <2>5, <2>6, <2>7, <2>8, <2>9, <2>10, <2>11, <2>12
       DEF Cells!Place, Cells!SameRights, Cells!Alike, Mem, CanReadSet, CanWriteSet
  <2> QED
    BY <2>11, <2>13 DEF Cells!Next
<1>4. CASE ~(Bounds(a, n) /\ a + n < AddrSpace)
  BY <1>4, AbortRefines DEF LoadSegment, Abort, Undefined
<1> QED
  BY <1>3, <1>4

LEMMA LoadDoneRefines == LoadDone => Cells!Next
BY DEF LoadDone, Cells!Next, Cells!Started, Cells!rights, Contents

LEMMA AllocateRefines ==
    ASSUME RefInv, NEW n \in AllocSizes, Allocate(n)
    PROVE  Cells!Next
<1>1. n \in Nat /\ 2 * n < AddrSpace /\ alloc_ptr \in Nat /\ 2 * alloc_ptr <= AddrSpace
  BY SizesAssumption, InputsAssumption DEF RefInv, TypeOK
<1>2. CASE Bounds(alloc_ptr, n)
  <2> DEFINE R == Range(alloc_ptr, n)
  <2>1. \A i \in Ram : perm'[i] = IF i \in R THEN {"RAW", "WRITE"} ELSE perm[i]
    BY <1>2 DEF Allocate, Filled, AllocateNewPerms
  <2>2. ram' = ram /\ alloc_ptr' = alloc_ptr + n /\ phase' = "running" /\ phase = "running"
    BY <1>1, <1>2, SizesAssumption, PlusNoWrap DEF Allocate
  <2>3. acc'.op = "allocate" /\ acc'.addr = alloc_ptr /\ acc'.len = n
    BY <1>2 DEF Allocate, Access
  <2>4. R = Cells!Span(alloc_ptr, n) /\ R \subseteq Ram
    BY <1>1, <1>2, SizesAssumption, RangeIsSpan, RangeInRam
  <2>5. \A i \in R : i \in Ram /\ perm[i] = {}
    BY <1>1, <2>4 DEF Cells!Span, RefInv, PermInv, NothingPastBreak
  <2>6. \A i \in R : Mem[i] = {} /\ i \notin CanReadSet \cup CanWriteSet
    BY <2>5 DEF Mem, Contents, CanReadSet, CanWriteSet
  <2>7. CanWriteSet' = CanWriteSet \cup R
    BY <2>1, <2>4 DEF CanWriteSet
  <2>8. CanReadSet' = CanReadSet
    BY <2>1, <2>5 DEF CanReadSet
  <2>9. Mem' = Mem
    <3>1. \A i \in Ram : Contents(i)' = Contents(i)
      BY <2>1, <2>2, <2>5 DEF Contents
    <3> QED
      BY <3>1 DEF Mem
  <2>10. Cells!Grow
    BY <2>2, <2>3, <2>4, <2>6, <2>7, <2>8, <2>9
       DEF Cells!Grow, Mem, CanReadSet, CanWriteSet
  <2> QED
    BY <2>2, <2>10 DEF Cells!Next
<1>3. CASE ~Bounds(alloc_ptr, n)
  BY <1>3, AbortRefines DEF Allocate, Abort
<1> QED
  BY <1>2, <1>3

(* store and the writes of the system calls. *)
LEMMA WriteFromRefines ==
    ASSUME RefInv, phase = "running", NEW a \in Addr, NEW n \in 1 .. AddrSpace - 1,
           NEW buf \in [0 .. n - 1 -> Byte], NEW op \in {"bulk", "store"}, NEW v, NEW blocks, NEW out,
           op = "store" => \A k \in 0 .. n - 1 : buf[k] = v[k],
           WriteFrom(a, n, buf, op, v, blocks, out)
    PROVE  Cells!Next
<1>1. a \in Nat /\ n \in Nat
  BY SizesAssumption DEF Addr
<1>2. CASE Bounds(a, n) /\ CanWrite(a, n)
  <2> DEFINE R == Range(a, n)
  <2>1. /\ acc'.op = op /\ acc'.addr = a /\ acc'.len = n /\ acc'.val = v
        /\ phase' = "running" /\ alloc_ptr' = alloc_ptr
    BY <1>2 DEF WriteFrom, WriteFromUnchecked, Access
  <2>2. R \subseteq Ram
    BY <1>1, <1>2, RangeInRam
  <2>3. \A i \in Ram : perm'[i] = IF i \in R /\ "RAW" \in perm[i]
                                  THEN (perm[i] \cup {"READ"}) \ {"RAW"} ELSE perm[i]
    BY <1>2 DEF WriteFrom, WriteFromUnchecked, ClearRaw
  <2>4. \A i \in Ram : ram'[i] = IF i \in R THEN buf[i - a] ELSE ram[i]
    BY <1>2 DEF WriteFrom, WriteFromUnchecked, Copied
  <2>5. \A i \in Ram \ R : Contents(i)' = Contents(i)
    BY <2>3, <2>4 DEF Contents
  <2>6. CanWriteSet' = CanWriteSet
    <3>1. ASSUME NEW i \in Ram PROVE "WRITE" \in perm'[i] <=> "WRITE" \in perm[i]
      <4>1. CASE i \in R /\ "RAW" \in perm[i]
        <5>1. perm'[i] = (perm[i] \cup {"READ"}) \ {"RAW"}
          BY <2>3, <4>1
        <5> QED
          BY <5>1
      <4>2. CASE ~(i \in R /\ "RAW" \in perm[i])
        BY <2>3, <4>2
      <4> QED
        BY <4>1, <4>2
    <3> QED
      BY <3>1 DEF CanWriteSet
  <2>7. CASE a + n < AddrSpace
    <3>1. R = Cells!Span(a, n)
      BY <1>1, <1>2, <2>7, RangeIsSpan
    <3>2. R \subseteq CanWriteSet
      BY <1>2, <2>2 DEF CanWrite, CanWriteSet
    <3>3. \A i \in R : "RAW" \notin perm'[i] /\ perm'[i] # {} /\ i \in Ram
      <4> SUFFICES ASSUME NEW i \in R
                   PROVE  "RAW" \notin perm'[i] /\ "WRITE" \in perm'[i] /\ i \in Ram
        OBVIOUS
      <4>1. i \in Ram /\ i \in CanWriteSet'
        BY <2>2, <2>6, <3>2
      <4> QED
        BY <2>3, <4>1 DEF CanWriteSet
    <3>4. \A i \in R : Mem'[i] = {ram'[i]}
      BY <3>3 DEF Mem, Contents
    <3>5. \A i \in R : i - a \in 0 .. n - 1
      BY <1>1, <3>1, SizesAssumption DEF Cells!Span, Ram
    <3>6. op = "store" => \A i \in R : Mem'[i] = {v[i - a]}
      BY <2>4, <3>3, <3>4, <3>5
    <3>7. \A i \in R : Mem[i] = {} <=> "RAW" \in perm[i]
      BY <3>2, <3>3 DEF Mem, Contents, CanWriteSet
    <3>8. CanReadSet' = CanReadSet \cup {i \in R : Mem[i] = {}}
      BY <2>3, <3>3, <3>7 DEF CanReadSet
    <3>9. \A i \in Ram \ R : Mem'[i] = Mem[i]
      BY <2>5 DEF Mem
    <3>10. \A i \in R : Mem'[i] # {}
      BY <3>4
    <3> HIDE DEF R
    <3>11. Cells!Write
      BY <2>1, <2>6, <2>7, <3>1, <3>2, <3>6, <3>8, <3>9, <3>10
         DEF Cells!Write, Mem, CanReadSet, CanWriteSet
    <3> QED
      BY <2>1, <3>11 DEF Cells!Next
  <2>8. CASE a + n >= AddrSpace
    <3>1. R = {}
      BY <2>8, WrappedIsEmpty
    <3>2. Mem' = Mem /\ CanReadSet' = CanReadSet
      BY <2>3, <2>5, <3>1 DEF Mem, CanReadSet
    <3>3. Cells!Beyond
      BY <2>1, <2>6, <2>8, <3>2 DEF Cells!Beyond, Cells!rights, Mem, CanReadSet, CanWriteSet
    <3> QED
      BY <2>1, <3>3 DEF Cells!Next
  <2> QED
    BY <1>1, <2>7, <2>8, SizesAssumption
<1>3. CASE ~(Bounds(a, n) /\ CanWrite(a, n))
  BY <1>3, AbortRefines DEF WriteFrom, Abort
<1> QED
  BY <1>2, <1>3

LEMMA BulkWriteRefines ==
    ASSUME RefInv, NEW a \in Addresses, NEW n \in BulkSizes, NEW buf \in [0 .. n - 1 -> Byte],
           BulkWrite(a, n, buf)
    PROVE  Cells!Next
BY InputTypes, WriteFromRefines DEF BulkWrite

LEMMA StoreRefines ==
    ASSUME RefInv, NEW a \in Addresses, NEW n \in AccessSizes, NEW v \in StoreValues,
           Store(a, n, v)
    PROVE  Cells!Next
<1>1. a \in Addr /\ n \in 1 .. AddrSpace - 1 /\ v \in Value
  BY InputTypes
<1>2. LowBytes(v, n) \in [0 .. n - 1 -> Byte]
  BY <1>1, InputTypes, LowBytesType
<1>3. \A k \in 0 .. n - 1 : LowBytes(v, n)[k] = v[k]
  BY DEF LowBytes
<1> QED
  BY <1>1, <1>2, <1>3, WriteFromRefines DEF Store

LEMMA LoadRefines ==
    ASSUME RefInv, NEW a \in Addresses, NEW n \in AccessSizes, Load(a, n)
    PROVE  Cells!Next
<1>1. a \in Addr /\ a \in Nat /\ n \in Nat /\ n \in 1 .. AddrSpace - 1 /\ n <= RegBytes
  BY InputTypes, SizesAssumption DEF Addr
<1>2. CASE Bounds(a, n)
  <2> DEFINE R == Range(a, n)
  <2>1. /\ acc'.op = "load" /\ acc'.addr = a /\ acc'.len = n /\ acc'.val = LoadValue(a, n)
        /\ acc'.exc = ReadResult(a, n)
        /\ UNCHANGED <<ram, perm, alloc_ptr, phase>> /\ phase = "running"
    BY <1>2 DEF Load, Access
  <2>2. UNCHANGED <<Mem, CanReadSet, CanWriteSet>>
    BY <2>1 DEF Mem, Contents, CanReadSet, CanWriteSet
  <2>3. R \subseteq Ram
    BY <1>1, <1>2, RangeInRam
  <2>4. CASE a + n < AddrSpace
    <3>1. R = Cells!Span(a, n)
      BY <1>1, <1>2, <2>4, RangeIsSpan
    <3>2. ReadResult(a, n) = "NormalExecutionReturn" <=> R \subseteq CanReadSet
      BY <2>3 DEF ReadResult, CanReadSet, RefInv, PermInv, RawMeansUnwritten
    <3>3. ASSUME R \subseteq CanReadSet, NEW i \in R PROVE Mem[i] = {LoadValue(a, n)[i - a]}
      <4>1. i - a \in 0 .. n - 1 /\ i - a \in 0 .. RegBytes - 1 /\ a + (i - a) = i /\ i \in Ram
        BY <1>1, <2>3, <3>1, SizesAssumption DEF Cells!Span, Ram
      <4>2. LoadValue(a, n)[i - a] = ram[i]
        BY <1>1, <4>1 DEF LoadValue
      <4>3. Contents(i) = {ram[i]}
        BY <3>3, <4>1, ReadableHasContents DEF RefInv, CanReadSet
      <4> QED
        BY <4>1, <4>2, <4>3 DEF Mem
    <3> HIDE DEF R
    <3>4. Cells!Read
      BY <2>1, <2>2, <2>4, <3>1, <3>2, <3>3
         DEF Cells!Read, Cells!Ok, Cells!rights, Mem, CanReadSet, CanWriteSet
    <3> QED
      BY <2>1, <3>4 DEF Cells!Next
  <2>5. CASE a + n >= AddrSpace
    <3>1. Cells!Beyond
      BY <2>1, <2>2, <2>5 DEF Cells!Beyond, Cells!rights, Mem, CanReadSet, CanWriteSet
    <3> QED
      BY <2>1, <3>1 DEF Cells!Next
  <2> QED
    BY <1>1, <2>4, <2>5, SizesAssumption
<1>3. CASE ~Bounds(a, n)
  BY <1>3, AbortRefines DEF Load, Abort
<1> QED
  BY <1>2, <1>3

LEMMA ResetToRefines == RefInv /\ ResetTo => Cells!Next
<1> SUFFICES ASSUME RefInv, ResetTo PROVE Cells!Next
  OBVIOUS
<1>1. /\ phase = "running" /\ perm' = perm /\ alloc_ptr' = alloc_ptr /\ acc'.op = "none"
      /\ phase' \in {"running", "aborted"}
  BY DEF ResetTo, NoAccess, Access
<1>2. CASE phase' = "running"
  <2>1. CanReadSet' = CanReadSet /\ CanWriteSet' = CanWriteSet
    BY <1>1 DEF CanReadSet, CanWriteSet
  <2>2. \A i \in Ram : Mem'[i] = {} <=> Mem[i] = {}
    BY <1>1 DEF Mem, Contents
  <2>3. ASSUME NEW i \in CanReadSet \ CanWriteSet PROVE Mem'[i] = Mem[i]
    <3>1. i \in Ram /\ ReadOnly(i)
      BY DEF CanReadSet, CanWriteSet, ReadOnly
    <3>2. ram[i] = snapshot[i]
      BY <1>1, <3>1 DEF RefInv, ReadOnlyIsSnapshot
    <3>3. ram'[i] = ram[i]
      BY <3>1, <3>2 DEF ResetTo
    <3> QED
      BY <1>1, <3>1, <3>3 DEF Mem, Contents
  <2>4. Cells!Reset
    BY <1>1, <2>1, <2>2, <2>3 DEF Cells!Reset, Cells!rights, Mem, CanReadSet, CanWriteSet
  <2> QED
    BY <1>1, <1>2, <2>4 DEF Cells!Next
<1>3. CASE phase' = "aborted"
  BY <1>1, <1>3, AbortRefines
<1> QED
  BY <1>1, <1>2, <1>3

LEMMA InitRefines == Init => Cells!Init
<1> SUFFICES ASSUME Init PROVE Cells!Init
  OBVIOUS
<1>1. Mem = [i \in Ram |-> {}] /\ CanReadSet = {} /\ CanWriteSet = {}
  BY DEF Init, Mem, Contents, CanReadSet, CanWriteSet
<1> QED
  BY <1>1, SizesAssumption
     DEF Init, Cells!Init, NoAccess, Access, Mem, CanReadSet, CanWriteSet

(* The guest memory is what Memory says: cells that are read as they were   *)
(* last written, that change only under writes to writable cells, and an    *)
(* allocator that hands out fresh ones, for every size of RAM, block and    *)
(* granule, every program image and every sequence of calls.                *)
THEOREM MemoryImplemented == Spec => ImplementsMemory
<1>1. RefInv /\ RefInv' /\ [Next]_vars => [Cells!Next]_(Cells!vars)
  <2> SUFFICES ASSUME RefInv, RefInv', [Next]_vars PROVE [Cells!Next]_(Cells!vars)
    OBVIOUS
  <2>1. CASE Next
    BY <2>1, LoadSegmentRefines, LoadDoneRefines, AllocateRefines, BulkWriteRefines, StoreRefines,
       LoadRefines, ResetToRefines DEF Next
  <2>2. CASE UNCHANGED vars
    BY <2>2 DEF vars, Cells!vars, Contents
  <2> QED
    BY <2>1, <2>2
<1> QED
  BY <1>1, InitRefines, RefInvariant, PTL DEF Spec, ImplementsMemory, Cells!Spec
=============================================================================
