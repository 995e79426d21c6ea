--------------------------- MODULE SyscallsProofs ---------------------------
(***************************************************************************)
(* What holds of the system calls for every memory, program, set of files  *)
(* and sequence of calls: the table of open files stays a table in which a *)
(* descriptor names one file, positions stay inside the files, a read puts *)
(* the bytes it announces into memory, brk() answers with the break, and   *)
(* the guest starts with its arguments complete and in order.              *)
(***************************************************************************)
EXTENDS Syscalls, SequenceTheorems, WellFoundedInduction, TLAPS

-----------------------------------------------------------------------------
(* The memory, as far as the system calls depend on it. *)
MemInv ==
    /\ alloc_ptr \in 0 .. RamSize + Granule + AllocBase
    /\ segs \in Seq(M!Segment)
    /\ \A i \in M!Ram : i >= alloc_ptr => perm[i] = {}

LEMMA HalfOfSpace ==
    HalfSpace \in Nat /\ 2 * HalfSpace <= AddrSpace /\ AddrSpace <= 2 * HalfSpace + 1
BY SyscallsAssumption DEF HalfSpace

(* The break lies in the lower half of the address space. *)
LEMMA BreakIsLow ==
    ASSUME MemInv
    PROVE  alloc_ptr \in Nat /\ alloc_ptr <= HalfSpace
BY HalfOfSpace, MemoryAssumption, SyscallsAssumption DEF MemInv

(* The rounding of load_file. *)
LEMMA RoundUpBounds ==
    ASSUME NEW x \in Nat
    PROVE  M!RoundUp(x) \in Nat /\ x <= M!RoundUp(x) /\ M!RoundUp(x) < x + Granule
<1> DEFINE y == x + Granule - 1
           q == y \div Granule
           r == y % Granule
<1>1. y \in Nat /\ Granule \in Nat /\ Granule > 0
  BY MemoryAssumption
<1>2. q \in Nat /\ r \in 0 .. Granule - 1 /\ y = Granule * q + r
  BY <1>1
<1>3. M!RoundUp(x) = q * Granule
  BY DEF M!RoundUp
<1>4. q * Granule = y - r /\ q * Granule \in Nat
  BY <1>1, <1>2
<1> QED
  BY <1>1, <1>2, <1>3, <1>4

LEMMA AbortMem == MemInv /\ (M!Abort \/ M!Undefined) => MemInv'
BY DEF MemInv, M!Abort, M!Undefined, M!history

(* load_file: a segment ends below the break. *)
LEMMA LoadSegmentMem == MemInv /\ M!LoadSegment => MemInv'
<1> SUFFICES ASSUME MemInv, M!LoadSegment PROVE MemInv'
  OBVIOUS
<1> DEFINE seg == Head(segs)
           top == M!RoundUp(seg.start_addr + seg.mem_size)
<1>1. segs # <<>> /\ segs \in Seq(M!Segment)
  BY DEF M!LoadSegment, MemInv
<1>2. seg \in M!Segment /\ Tail(segs) \in Seq(M!Segment)
  BY <1>1, HeadTailProperties
<1>3. seg.start_addr \in Nat /\ seg.mem_size \in Nat
  <2>1. seg.start_addr \in M!Addr /\ seg.mem_size \in M!Addr
    BY <1>2 DEF M!Segment
  <2> HIDE DEF seg
  <2> QED
    BY <2>1, SyscallsAssumption DEF M!Addr
<1>4. CASE ~(/\ M!Bounds(seg.start_addr, seg.mem_size)
             /\ seg.start_addr + seg.mem_size < AddrSpace)
  BY <1>4, AbortMem DEF M!LoadSegment
<1>5. CASE /\ M!Bounds(seg.start_addr, seg.mem_size)
           /\ seg.start_addr + seg.mem_size < AddrSpace
  <2>2. M!Plus(seg.start_addr, seg.mem_size) = seg.start_addr + seg.mem_size
    BY <1>5 DEF M!Plus
  <2>3. seg.start_addr + seg.mem_size < RamSize
    BY <1>5, <2>2 DEF M!Bounds
  <2>4. top \in Nat /\ seg.start_addr + seg.mem_size <= top /\ top < RamSize + Granule
    <3> DEFINE end == seg.start_addr + seg.mem_size
    <3>1. end \in Nat /\ end < RamSize
      BY <1>3, <2>3
    <3> HIDE DEF end
    <3>2. M!RoundUp(end) \in Nat /\ end <= M!RoundUp(end) /\ M!RoundUp(end) < end + Granule
      BY <3>1, RoundUpBounds
    <3>3. M!RoundUp(end) < RamSize + Granule
      BY <3>1, <3>2, MemoryAssumption
    <3> QED
      BY <3>2, <3>3 DEF end
  <2>5. /\ alloc_ptr' = M!Larger(alloc_ptr, top)
        /\ perm' = M!Filled(M!Range(seg.start_addr, seg.mem_size), seg.perms)
        /\ segs' = Tail(segs)
    BY <1>5 DEF M!LoadSegment, M!BreakAfter
  <2> HIDE DEF top, seg
  <2>6. alloc_ptr' \in 0 .. RamSize + Granule + AllocBase /\ alloc_ptr' >= alloc_ptr
        /\ alloc_ptr' >= top
    BY <2>4, <2>5, MemoryAssumption DEF M!Larger, MemInv
  <2>7. ASSUME NEW i \in M!Ram, i >= alloc_ptr' PROVE perm'[i] = {}
    <3>1. i \notin M!Range(seg.start_addr, seg.mem_size)
      BY <1>3, <2>2, <2>4, <2>6, <2>7, MemoryAssumption DEF M!Range, M!Ram
    <3>2. i >= alloc_ptr
      BY <2>6, <2>7, MemoryAssumption DEF M!Ram, MemInv
    <3> QED
      BY <2>5, <3>1, <3>2 DEF M!Filled, MemInv
  <2> QED
    BY <1>2, <2>5, <2>6, <2>7 DEF MemInv, seg
<1> QED
  BY <1>4, <1>5

(* allocate: the break goes up by what was asked for, and the bytes between *)
(* are new and marked as such, unless the assertion stops the emulator.     *)
LEMMA AllocateMem ==
    ASSUME MemInv, NEW n \in 0 .. HalfSpace - 1, M!Allocate(n)
    PROVE  /\ MemInv'
           /\ phase' = "running" =>
                /\ alloc_ptr' = alloc_ptr + n /\ alloc_ptr' = M!Plus(alloc_ptr, n)
                /\ \A i \in alloc_ptr .. alloc_ptr' - 1 :
                      perm[i] = {} /\ perm'[i] = {"RAW", "WRITE"}
<1>1. alloc_ptr \in Nat /\ n \in Nat /\ alloc_ptr + n < AddrSpace
  BY BreakIsLow, HalfOfSpace, SyscallsAssumption
<1>2. M!Plus(alloc_ptr, n) = alloc_ptr + n
  BY <1>1 DEF M!Plus
<1>3. CASE ~M!Bounds(alloc_ptr, n)
  BY <1>3, AbortMem DEF M!Allocate, M!Abort
<1>4. CASE M!Bounds(alloc_ptr, n)
  <2>1. alloc_ptr + n < RamSize
    BY <1>2, <1>4 DEF M!Bounds
  <2>2. /\ alloc_ptr' = alloc_ptr + n
        /\ perm' = M!Filled(M!Range(alloc_ptr, n), {"RAW", "WRITE"})
        /\ segs' = segs
    BY <1>2, <1>4 DEF M!Allocate, M!AllocateNewPerms
  <2>3. M!Range(alloc_ptr, n) = alloc_ptr .. alloc_ptr' - 1
    BY <1>2, <2>2 DEF M!Range
  <2>4. \A i \in alloc_ptr .. alloc_ptr' - 1 : i \in M!Ram /\ i >= alloc_ptr
    BY <1>1, <2>1, <2>2, MemoryAssumption DEF M!Ram
  <2>5. \A i \in alloc_ptr .. alloc_ptr' - 1 : perm[i] = {} /\ perm'[i] = {"RAW", "WRITE"}
    BY <2>2, <2>3, <2>4 DEF M!Filled, MemInv
  <2>6. ASSUME NEW i \in M!Ram, i >= alloc_ptr' PROVE perm'[i] = {}
    <3>1. i \notin alloc_ptr .. alloc_ptr' - 1 /\ i >= alloc_ptr
      BY <1>1, <2>2, <2>6, MemoryAssumption DEF M!Ram
    <3> QED
      BY <2>2, <2>3, <3>1 DEF M!Filled, MemInv
  <2>7. alloc_ptr' \in 0 .. RamSize + Granule + AllocBase
    BY <1>1, <2>1, <2>2, MemoryAssumption
  <2> QED
    BY <1>2, <2>2, <2>5, <2>6, <2>7 DEF MemInv
<1> QED
  BY <1>3, <1>4

(* write_from: it gives no byte past the break a permission. *)
LEMMA WriteFromMem ==
    ASSUME MemInv, NEW a, NEW n, NEW buf, NEW op, NEW v, NEW blocks, NEW out,
           M!WriteFrom(a, n, buf, op, v, blocks, out)
    PROVE  MemInv'
<1>1. CASE ~(M!Bounds(a, n) /\ M!CanWrite(a, n))
  BY <1>1, AbortMem DEF M!WriteFrom
<1>2. CASE M!Bounds(a, n) /\ M!CanWrite(a, n)
  <2>1. UNCHANGED <<alloc_ptr, segs>> /\ perm' = M!ClearRaw(M!Range(a, n))
    BY <1>2 DEF M!WriteFrom, M!WriteFromUnchecked
  <2> QED
    BY <2>1 DEF MemInv, M!ClearRaw
<1> QED
  BY <1>1, <1>2

LEMMA BulkWriteMem ==
    ASSUME MemInv, NEW a, NEW n, NEW buf, M!BulkWrite(a, n, buf)
    PROVE  MemInv'
BY WriteFromMem DEF M!BulkWrite

LEMMA StoreMem ==
    ASSUME MemInv, NEW a, NEW n, NEW v, M!Store(a, n, v)
    PROVE  MemInv'
BY WriteFromMem DEF M!Store

LEMMA FrameMem == MemInv /\ UNCHANGED memory => MemInv'
BY DEF MemInv, memory

(* The argument of brk() is turned into a size that allocate can take. *)
LEMMA IncrementSize ==
    ASSUME MemInv, NEW addr \in Breaks, Increment(addr) >= 0
    PROVE  Increment(addr) \in 0 .. HalfSpace - 1
<1>1. alloc_ptr \in Nat
  BY BreakIsLow
<1>2. addr \in Nat /\ addr < AddrSpace /\ AddrSpace \in Nat
  BY SyscallsAssumption DEF Unsigned
<1>3. HalfSpace \in Nat /\ HalfSpace > 0 /\ AddrSpace <= 2 * HalfSpace + 1
  BY HalfOfSpace, SyscallsAssumption
<1> QED
  BY <1>1, <1>2, <1>3 DEF Increment, Signed

(* The two kinds of handle that open makes. *)
NewHandles ==
    {FileHandle(OpenedFd, data, FileSize(data)) : data \in HostFiles}
        \cup {FileHandle(OpenedFd, <<>>, MinusOne)}

(* open, on whichever file: the process ends or has one more handle. *)
SysOpenAny == (\E f \in HostFiles : SysOpen(f)) \/ SysOpenUnsized

LEMMA OpenShape ==
    ASSUME SysOpenAny
    PROVE  /\ Running
           /\ \/ Die
              \/ host_fds < MaxHostFd /\ \E h \in NewHandles : Opened(h)
BY DEF SysOpen, SysOpenUnsized, SysOpenAny, NewHandles

(* No system call and no step of the constructor breaks the memory. *)
LEMMA StepMem == MemInv /\ [Next]_vars => MemInv'
<1> SUFFICES ASSUME MemInv, [Next]_vars PROVE MemInv'
  OBVIOUS
<1>1. ASSUME Die PROVE MemInv'
  BY <1>1, AbortMem DEF Die
<1>2. CASE LoadProgram
  <2>1. CASE M!LoadSegment
    BY <2>1, LoadSegmentMem
  <2>2. CASE M!LoadDone
    BY <2>2 DEF M!LoadDone, MemInv
  <2> QED
    BY <1>2, <2>1, <2>2 DEF LoadProgram
<1>3. CASE Startup
  <2>1. CASE StartStack
    BY <2>1, AllocateMem, SyscallsAssumption DEF StartStack
  <2>2. CASE StartAllocate
    BY <2>2, AllocateMem, SyscallsAssumption DEF StartAllocate
  <2>3. CASE StartWrite
    BY <2>3, BulkWriteMem DEF StartWrite
  <2>4. ASSUME NEW op, NEW x, StartPush(op, x) PROVE MemInv'
    BY <2>4, StoreMem DEF StartPush
  <2> QED
    BY <1>3, <2>1, <2>2, <2>3, <2>4 DEF Startup
<1>4. ASSUME NEW addr \in Breaks, SysBrk(addr) PROVE MemInv'
  BY <1>1, <1>4, FrameMem, AllocateMem, IncrementSize DEF SysBrk
<1>5. ASSUME NEW n \in Counts, SysWrite(n) PROVE MemInv'
  BY <1>5, FrameMem DEF SysWrite
<1>6. CASE SysOpenAny
  BY <1>1, <1>6, OpenShape, FrameMem DEF Opened
<1>7. ASSUME NEW fd \in Fds, SysClose(fd) PROVE MemInv'
  BY <1>7, FrameMem DEF SysClose
<1>8. CASE SysExit
  BY <1>8, FrameMem DEF SysExit
<1>9. ASSUME NEW fd \in Fds, NEW buf \in Addresses, SysFstat(fd, buf) PROVE MemInv'
  BY <1>1, <1>9, BulkWriteMem DEF SysFstat
<1>10. ASSUME NEW fd \in Fds, NEW o \in Offsets, NEW w, SysLseek(fd, o, w) PROVE MemInv'
  BY <1>10, FrameMem DEF SysLseek
<1>11. ASSUME NEW fd \in Fds, NEW buf \in Addresses, NEW n \in Counts, SysRead(fd, buf, n)
       PROVE  MemInv'
  BY <1>1, <1>11, FrameMem, BulkWriteMem DEF SysRead
<1>12. ASSUME SysOpenMissing \/ Unsupported \/ \E fd \in Fds : SysLseekBadWhence(fd) PROVE MemInv'
  BY <1>1, <1>12 DEF SysOpenMissing, Unsupported, SysLseekBadWhence
<1>13. CASE UNCHANGED vars
  BY <1>13, FrameMem DEF vars
<1> QED
  BY <1>2, <1>3, <1>4, <1>5, <1>6, <1>7, <1>8, <1>9, <1>10, <1>11, <1>12, <1>13
     DEF Next, SysOpenAny

-----------------------------------------------------------------------------
(* A FileHandle as file_table holds it.  That no file of known length is as *)
(* long as half the address space keeps `idx + count' from wrapping         *)
(* unnoticed.                                                               *)
GoodHandle(h) ==
    /\ h \in Handle
    /\ Sized(h) => h.len = Len(h.data) /\ h.len < HalfSpace
    /\ ~Sized(h) => h.data = <<>>
    /\ h.inside => h.idx <= h.len

(* Descriptors are handed out in increasing order and entries are never     *)
(* moved past each other, so the table is sorted by them.                   *)
TableInv ==
    /\ file_table \in Seq(Handle)
    /\ host_fds \in 3 .. MaxHostFd
    /\ \A i \in 1 .. Len(file_table) :
          GoodHandle(file_table[i]) /\ file_table[i].fd < host_fds
    /\ \A i, j \in 1 .. Len(file_table) : i < j => file_table[i].fd < file_table[j].fd

(* In a sorted table the search finds the one entry of a descriptor. *)
LEMMA EntryIs ==
    ASSUME TableInv, NEW e \in 1 .. Len(file_table)
    PROVE  EntryOf(file_table[e].fd) = e
<1> DEFINE fd == file_table[e].fd
<1>1. Len(file_table) \in Nat /\ fd \in Nat
  BY LenProperties DEF TableInv, GoodHandle, Handle
<1>2. ASSUME NEW j \in Entries(fd) PROVE j = e
  <2>1. j \in 1 .. Len(file_table) /\ file_table[j].fd = fd
    BY <1>2 DEF Entries
  <2>2. ~(e < j) /\ ~(j < e)
    BY <1>1, <2>1 DEF TableInv
  <2> QED
    BY <1>1, <2>1, <2>2
<1>3. Entries(fd) = {e}
  BY <1>2 DEF Entries
<1> QED
  BY <1>1, <1>3 DEF EntryOf

LEMMA EntryFound ==
    ASSUME TableInv, NEW fd, EntryOf(fd) # 0
    PROVE  EntryOf(fd) \in 1 .. Len(file_table) /\ file_table[EntryOf(fd)].fd = fd
<1>1. PICK e \in Entries(fd) : TRUE
  BY DEF EntryOf
<1>2. e \in 1 .. Len(file_table) /\ file_table[e].fd = fd
  BY <1>1 DEF Entries
<1> QED
  BY <1>2, EntryIs

(* Fresh handles, of a file of known length and of one without. *)
LEMMA FreshHandle ==
    ASSUME NEW fd \in 0 .. MaxHostFd - 1, NEW data \in Seq(0 .. ByteBase - 1), Len(data) < HalfSpace
    PROVE  /\ GoodHandle(FileHandle(fd, data, Len(data)))
           /\ FileHandle(fd, data, Len(data)).fd = fd
<1> DEFINE h == FileHandle(fd, data, Len(data))
<1>1. Len(data) \in Unsigned /\ 0 \in Unsigned /\ 0 <= Len(data) /\ Len(data) # MinusOne
  BY LenProperties, HalfOfSpace, SyscallsAssumption DEF Unsigned, MinusOne
<1>2. /\ h \in Handle /\ h.fd = fd /\ h.data = data /\ h.len = Len(data) /\ h.idx = 0
  BY <1>1 DEF FileHandle, Handle
<1> HIDE DEF h
<1>3. Sized(h)
  BY <1>1, <1>2 DEF Sized
<1>4. GoodHandle(h)
  BY <1>1, <1>2, <1>3 DEF GoodHandle
<1> QED
  BY <1>2, <1>4 DEF h

LEMMA FreshUnsized ==
    ASSUME NEW fd \in 0 .. MaxHostFd - 1
    PROVE  /\ GoodHandle(FileHandle(fd, <<>>, MinusOne))
           /\ FileHandle(fd, <<>>, MinusOne).fd = fd
<1>1. MinusOne \in Unsigned /\ 0 \in Unsigned /\ 0 <= MinusOne
  BY HalfOfSpace, SyscallsAssumption DEF Unsigned, MinusOne
<1>2. <<>> \in Seq(0 .. ByteBase - 1)
  BY EmptySeq
<1> QED
  BY <1>1, <1>2 DEF GoodHandle, FileHandle, Handle, Sized

(* The three standard descriptors. *)
LEMMA InitTable == Init => TableInv
<1> SUFFICES ASSUME Init PROVE TableInv
  OBVIOUS
<1> DEFINE h(fd) == FileHandle(fd, <<>>, 0)
<1>1. MaxHostFd \in Nat /\ MaxHostFd >= 3 /\ HalfSpace > 0 /\ HalfSpace \in Nat
  BY SyscallsAssumption, HalfOfSpace
<1>2. <<>> \in Seq(0 .. ByteBase - 1) /\ Len(<<>>) = 0
  BY EmptySeq
<1>3. /\ GoodHandle(h(0)) /\ h(0).fd = 0
      /\ GoodHandle(h(1)) /\ h(1).fd = 1
      /\ GoodHandle(h(2)) /\ h(2).fd = 2
  <2>1. 0 \in 0 .. MaxHostFd - 1 /\ 1 \in 0 .. MaxHostFd - 1 /\ 2 \in 0 .. MaxHostFd - 1
    BY <1>1
  <2>2. Len(<<>>) < HalfSpace
    BY <1>1, <1>2
  <2> QED
    BY <1>2, <2>1, <2>2, FreshHandle
<1> HIDE DEF h
<1>4. file_table = <<h(0), h(1), h(2)>>
  BY DEF Init, h
<1>5. h(0) \in Handle /\ h(1) \in Handle /\ h(2) \in Handle
  BY <1>3 DEF GoodHandle
<1>6. file_table \in Seq(Handle) /\ Len(file_table) = 3
  BY <1>4, <1>5
<1>7. ASSUME NEW i \in 1 .. 3 PROVE GoodHandle(file_table[i]) /\ file_table[i].fd = i - 1
  BY <1>3, <1>4
<1>8. host_fds \in 3 .. MaxHostFd
  BY DEF Init
<1>9. \A i \in 1 .. 3 : GoodHandle(file_table[i]) /\ file_table[i].fd < host_fds
  BY <1>1, <1>7, <1>8
<1>10. \A i, j \in 1 .. 3 : i < j => file_table[i].fd < file_table[j].fd
  BY <1>7
<1> QED
  BY <1>6, <1>8, <1>9, <1>10 DEF TableInv

(* open: push_back of a handle with a new descriptor. *)
LEMMA OpenTable ==
    ASSUME TableInv, NEW h, GoodHandle(h), h.fd = host_fds, host_fds < MaxHostFd, Opened(h)
    PROVE  TableInv'
<1> DEFINE n == Len(file_table)
<1>1. GoodHandle(h) /\ h.fd = host_fds
  OBVIOUS
<1>2. h \in Handle /\ n \in Nat /\ file_table \in Seq(Handle)
  BY <1>1, LenProperties DEF GoodHandle, TableInv
<1>3. /\ file_table' \in Seq(Handle) /\ Len(file_table') = n + 1
      /\ \A i \in 1 .. n : file_table'[i] = file_table[i]
      /\ file_table'[n + 1] = h
  BY <1>2, AppendProperties DEF Opened
<1> HIDE DEF n
<1>4. host_fds' = host_fds + 1 /\ host_fds' \in 3 .. MaxHostFd /\ host_fds \in Nat
  BY SyscallsAssumption, HalfOfSpace DEF TableInv, Opened
<1>5. ASSUME NEW i \in 1 .. n
      PROVE  /\ GoodHandle(file_table'[i])
             /\ file_table'[i].fd \in Nat /\ file_table'[i].fd < host_fds
  <2>1. GoodHandle(file_table[i]) /\ file_table[i].fd < host_fds /\ file_table'[i] = file_table[i]
    BY <1>3 DEF TableInv, n
  <2>2. file_table[i].fd \in Nat
    BY <2>1 DEF GoodHandle, Handle
  <2> QED
    BY <2>1, <2>2
<1>6. ASSUME NEW i \in 1 .. n + 1
      PROVE  GoodHandle(file_table'[i]) /\ file_table'[i].fd < host_fds'
  <2>1. CASE i \in 1 .. n
    BY <1>4, <1>5, <2>1
  <2>2. CASE i = n + 1
    BY <1>1, <1>3, <1>4, <2>2
  <2> QED
    BY <1>2, <2>1, <2>2
<1>7. ASSUME NEW i \in 1 .. n + 1, NEW j \in 1 .. n + 1, i < j
      PROVE  file_table'[i].fd < file_table'[j].fd
  <2>1. i \in 1 .. n
    BY <1>2, <1>7
  <2>2. CASE j \in 1 .. n
    BY <1>3, <1>7, <2>1, <2>2 DEF TableInv, n
  <2>3. CASE j = n + 1
    <3>1. file_table'[j].fd = host_fds
      BY <1>1, <1>3, <2>3
    <3>2. file_table'[i].fd < host_fds
      BY <1>5, <2>1
    <3> QED
      BY <3>1, <3>2
  <2>4. j \in 1 .. n \/ j = n + 1
    BY <1>2
  <2> QED
    BY <2>2, <2>3, <2>4
<1> QED
  BY <1>3, <1>4, <1>6, <1>7 DEF TableInv

(* They are good ones, with a descriptor that is new. *)
LEMMA NewHandleIsGood ==
    ASSUME TableInv, host_fds < MaxHostFd, NEW h \in NewHandles
    PROVE  GoodHandle(h) /\ h.fd = host_fds
<1>1. host_fds \in 0 .. MaxHostFd - 1
  BY SyscallsAssumption, HalfOfSpace DEF TableInv
<1>2. ASSUME NEW data \in HostFiles
      PROVE  /\ GoodHandle(FileHandle(host_fds, data, Len(data)))
             /\ FileHandle(host_fds, data, Len(data)).fd = host_fds
  BY <1>1, FreshHandle, SyscallsAssumption
<1> QED
  BY <1>1, <1>2, FreshUnsized DEF NewHandles, OpenedFd, FileSize

(* erase: what is left is in the same order. *)
LEMMA WithoutProperties ==
    ASSUME NEW S, NEW s \in Seq(S), NEW e \in 1 .. Len(s)
    PROVE  /\ Without(s, e) \in Seq(S)
           /\ Len(Without(s, e)) = Len(s) - 1
           /\ \A i \in 1 .. Len(s) - 1 : Without(s, e)[i] = IF i < e THEN s[i] ELSE s[i + 1]
<1> DEFINE l == SubSeq(s, 1, e - 1)
           r == SubSeq(s, e + 1, Len(s))
<1>1. Len(s) \in Nat /\ e \in Nat /\ e >= 1 /\ e <= Len(s)
  BY LenProperties
<1>2. \A i \in 1 .. Len(s) : s[i] \in S
  BY ElementOfSeq
<1>3. /\ l \in Seq(S) /\ Len(l) = e - 1
      /\ \A i \in 1 .. e - 1 : l[i] = s[i]
  <2>1. \A i \in 1 .. e - 1 : s[i] \in S
    BY <1>1, <1>2
  <2>2. /\ l \in Seq(S) /\ Len(l) = IF 1 <= e - 1 THEN e - 1 - 1 + 1 ELSE 0
        /\ \A i \in 1 .. e - 1 - 1 + 1 : l[i] = s[1 + i - 1]
    BY <1>1, <2>1, SubSeqProperties
  <2> HIDE DEF l
  <2> QED
    BY <1>1, <2>2
<1>4. /\ r \in Seq(S) /\ Len(r) = Len(s) - e
      /\ \A i \in 1 .. Len(s) - e : r[i] = s[e + i]
  <2>1. \A i \in e + 1 .. Len(s) : s[i] \in S
    BY <1>1, <1>2
  <2>2. /\ r \in Seq(S) /\ Len(r) = IF e + 1 <= Len(s) THEN Len(s) - (e + 1) + 1 ELSE 0
        /\ \A i \in 1 .. Len(s) - (e + 1) + 1 : r[i] = s[e + 1 + i - 1]
    BY <1>1, <2>1, SubSeqProperties
  <2> HIDE DEF r
  <2> QED
    BY <1>1, <2>2
<1>5. Without(s, e) = l \o r
  BY DEF Without
<1> HIDE DEF l, r
<1>6. /\ l \o r \in Seq(S) /\ Len(l \o r) = Len(l) + Len(r)
      /\ \A i \in 1 .. Len(l) + Len(r) :
            (l \o r)[i] = IF i <= Len(l) THEN l[i] ELSE r[i - Len(l)]
  BY <1>3, <1>4, ConcatProperties
<1>7. Len(l) + Len(r) = Len(s) - 1
  BY <1>1, <1>3, <1>4
<1>8. ASSUME NEW i \in 1 .. Len(s) - 1
      PROVE  (l \o r)[i] = IF i < e THEN s[i] ELSE s[i + 1]
  <2>1. (l \o r)[i] = IF i <= e - 1 THEN l[i] ELSE r[i - (e - 1)]
    BY <1>3, <1>6, <1>7
  <2>2. CASE i < e
    BY <1>1, <1>3, <2>1, <2>2
  <2>3. CASE ~(i < e)
    <3>1. i - (e - 1) \in 1 .. Len(s) - e /\ e + (i - (e - 1)) = i + 1
      BY <1>1, <2>3
    <3> QED
      BY <1>1, <1>4, <2>1, <2>3, <3>1
  <2> QED
    BY <2>2, <2>3
<1> QED
  BY <1>5, <1>6, <1>7, <1>8

(* close: the entry is erased from the vector. *)
LEMMA CloseTable ==
    ASSUME TableInv, NEW e \in 1 .. Len(file_table), file_table' = Without(file_table, e),
           host_fds' = host_fds
    PROVE  TableInv'
<1> DEFINE n == Len(file_table)
           from(i) == IF i < e THEN i ELSE i + 1
<1>1. n \in Nat /\ file_table \in Seq(Handle)
  BY LenProperties DEF TableInv
<1>2. /\ file_table' \in Seq(Handle) /\ Len(file_table') = n - 1
      /\ \A i \in 1 .. n - 1 : file_table'[i] = file_table[from(i)]
  <2>1. /\ Without(file_table, e) \in Seq(Handle)
        /\ Len(Without(file_table, e)) = n - 1
        /\ \A i \in 1 .. n - 1 :
              Without(file_table, e)[i] = IF i < e THEN file_table[i] ELSE file_table[i + 1]
    BY <1>1, WithoutProperties
  <2> QED
    BY <2>1
<1>3. /\ \A i \in 1 .. n - 1 : from(i) \in 1 .. n
      /\ \A i, j \in 1 .. n - 1 : i < j => from(i) < from(j)
  BY <1>1
<1> HIDE DEF n, from
<1>4. \A i \in 1 .. n - 1 : GoodHandle(file_table'[i]) /\ file_table'[i].fd < host_fds'
  BY <1>2, <1>3 DEF TableInv, n
<1>5. \A i, j \in 1 .. n - 1 : i < j => file_table'[i].fd < file_table'[j].fd
  BY <1>2, <1>3 DEF TableInv, n
<1> QED
  BY <1>2, <1>4, <1>5 DEF TableInv

(* An entry replaced by anything. *)
LEMMA EntrySet ==
    ASSUME NEW S, NEW s \in Seq(S), NEW e \in 1 .. Len(s), NEW g
    PROVE  /\ Len([s EXCEPT ![e] = g]) = Len(s)
           /\ \A i \in 1 .. Len(s) : [s EXCEPT ![e] = g][i] = IF i = e THEN g ELSE s[i]
<1>1. s \in Seq(S \cup {g})
  OBVIOUS
<1> QED
  BY <1>1, ExceptSeq

(* lseek and read: one entry changes, not its descriptor. *)
LEMMA ChangeTable ==
    ASSUME TableInv, NEW e \in 1 .. Len(file_table), NEW g, GoodHandle(g),
           g.fd = file_table[e].fd,
           file_table' = [file_table EXCEPT ![e] = g], host_fds' = host_fds
    PROVE  TableInv'
<1>1. g \in Handle /\ file_table \in Seq(Handle)
  BY DEF GoodHandle, TableInv
<1>2. /\ file_table' \in Seq(Handle) /\ Len(file_table') = Len(file_table)
      /\ \A i \in 1 .. Len(file_table) : file_table'[i] = IF i = e THEN g ELSE file_table[i]
  BY <1>1, ExceptSeq
<1>3. \A i \in 1 .. Len(file_table) : file_table'[i].fd = file_table[i].fd
  BY <1>2
<1>4. \A i \in 1 .. Len(file_table) : GoodHandle(file_table'[i])
  BY <1>2 DEF TableInv
<1> QED
  BY <1>2, <1>3, <1>4 DEF TableInv

LEMMA FrameTable == TableInv /\ UNCHANGED <<file_table, host_fds>> => TableInv'
BY DEF TableInv

-----------------------------------------------------------------------------
(* Sums and differences of registers are registers. *)
LEMMA UnsignedResults ==
    ASSUME NEW x \in Unsigned, NEW y \in Unsigned
    PROVE  M!Plus(x, y) \in Unsigned /\ Minus(x, y) \in Unsigned
BY SyscallsAssumption DEF Unsigned, M!Plus, Minus

(* The comparison in read() is of sums that wrap.  From a position inside   *)
(* the file it nevertheless finds what is asked for or what is left,        *)
(* whichever is less, if the copy is not refused for its size.              *)
LEMMA ReadCountExact ==
    ASSUME NEW h, GoodHandle(h), NEW count \in Unsigned
    PROVE  /\ ReadCount(h, count) \in Unsigned
           /\ Sized(h) /\ h.idx <= h.len /\ ReadCount(h, count) < HalfSpace =>
                /\ ReadCount(h, count) = IF count < h.len - h.idx THEN count ELSE h.len - h.idx
                /\ h.idx + ReadCount(h, count) <= h.len
                /\ M!Plus(h.idx, ReadCount(h, count)) = h.idx + ReadCount(h, count)
<1>1. h.idx \in Unsigned /\ h.len \in Unsigned /\ (Sized(h) => h.len < HalfSpace)
  BY DEF GoodHandle, Handle
<1>2. ReadCount(h, count) \in Unsigned
  BY <1>1, UnsignedResults DEF ReadCount
<1>3. AddrSpace \in Nat /\ HalfSpace \in Nat /\ 2 * HalfSpace <= AddrSpace
  BY SyscallsAssumption, HalfOfSpace
<1>4. ASSUME Sized(h), h.idx <= h.len, ReadCount(h, count) < HalfSpace
      PROVE  /\ ReadCount(h, count) = IF count < h.len - h.idx THEN count ELSE h.len - h.idx
             /\ h.idx + ReadCount(h, count) <= h.len
  BY <1>1, <1>3, <1>4 DEF Unsigned, ReadCount, M!Plus, Minus
<1>5. ASSUME h.idx + ReadCount(h, count) <= h.len
      PROVE  M!Plus(h.idx, ReadCount(h, count)) = h.idx + ReadCount(h, count)
  BY <1>1, <1>2, <1>3, <1>5 DEF Unsigned, M!Plus
<1> QED
  BY <1>2, <1>4, <1>5

(* A handle whose position has moved. *)
LEMMA MovedHandle ==
    ASSUME NEW h, GoodHandle(h), NEW i \in Unsigned, NEW b \in BOOLEAN, b => i <= h.len
    PROVE  /\ GoodHandle([h EXCEPT !.idx = i, !.inside = b])
           /\ [h EXCEPT !.idx = i, !.inside = b].fd = h.fd
BY DEF GoodHandle, Handle, Sized

(* lseek: any position, but inside only when it is. *)
LEMMA LseekTable ==
    ASSUME TableInv, NEW fd \in Fds, NEW o \in Offsets,
           NEW w \in {"SEEK_SET", "SEEK_CUR", "SEEK_END"}, SysLseek(fd, o, w)
    PROVE  TableInv'
<1>1. CASE EntryOf(fd) = 0
  BY <1>1, FrameTable DEF SysLseek
<1>2. CASE EntryOf(fd) # 0
  <2> DEFINE e == EntryOf(fd)
             h == file_table[e]
             i == Sought(h, o, w)
             g == [h EXCEPT !.idx = i, !.inside = (i <= h.len)]
  <2>1. e \in 1 .. Len(file_table)
    BY <1>2, EntryFound
  <2>2. GoodHandle(h) /\ file_table \in Seq(Handle)
    BY <2>1 DEF TableInv
  <2>3. i \in Unsigned
    <3>1. h.idx \in Unsigned /\ h.len \in Unsigned /\ o \in Unsigned
      BY <2>2, SyscallsAssumption DEF GoodHandle, Handle
    <3> QED
      BY <3>1, UnsignedResults DEF Sought
  <2>4. file_table' = [file_table EXCEPT ![e].idx = i, ![e].inside = (i <= h.len)]
        /\ host_fds' = host_fds
    BY <1>2 DEF SysLseek
  <2> HIDE DEF i, e
  <2>5. GoodHandle(g) /\ g.fd = h.fd
    <3> DEFINE b == i <= h.len
    <3>1. b \in BOOLEAN /\ (b => i <= h.len)
      OBVIOUS
    <3> HIDE DEF b
    <3>2. /\ GoodHandle([h EXCEPT !.idx = i, !.inside = b])
          /\ [h EXCEPT !.idx = i, !.inside = b].fd = h.fd
      BY <2>2, <2>3, <3>1, MovedHandle
    <3> QED
      BY <3>2 DEF b
  <2>6. file_table' = [file_table EXCEPT ![e] = g]
    BY <2>1, <2>2, <2>4
  <2> HIDE DEF g
  <2> QED
    BY <2>1, <2>4, <2>5, <2>6, ChangeTable
<1> QED
  BY <1>1, <1>2

(* read: the position advances by what was copied. *)
LEMMA ReadTable ==
    ASSUME TableInv, NEW fd \in Fds, NEW buf, NEW count \in Counts, SysRead(fd, buf, count)
    PROVE  TableInv'
<1> DEFINE e == EntryOf(fd)
           h == file_table[e]
           n == ReadCount(h, count)
<1>1. CASE Die
  BY <1>1, FrameTable DEF Die, files
<1>2. CASE EntryOf(fd) # 0 /\ n = 0
  BY <1>2, FrameTable DEF SysRead, files
<1>3. CASE /\ EntryOf(fd) # 0 /\ n < HalfSpace
           /\ file_table' = [file_table EXCEPT ![EntryOf(fd)].idx = Advanced(h, n, count)]
           /\ host_fds' = host_fds
  <2>1. e \in 1 .. Len(file_table)
    BY <1>3, EntryFound
  <2>2. GoodHandle(h) /\ file_table \in Seq(Handle)
    BY <2>1 DEF TableInv
  <2>3. count \in Unsigned /\ h.idx \in Unsigned
    BY <2>2, SyscallsAssumption DEF GoodHandle, Handle
  <2> DEFINE i == M!Plus(h.idx, n)
             g == [h EXCEPT !.idx = i, !.inside = h.inside]
  <2>4. i \in Unsigned /\ n \in Unsigned
    BY <2>2, <2>3, ReadCountExact, UnsignedResults
  <2>5. h.inside \in BOOLEAN /\ (h.inside => i <= h.len)
    <3>1. Sized(h) /\ h.inside => i <= h.len
      BY <1>3, <2>2, <2>3, ReadCountExact DEF GoodHandle
    <3>2. ~Sized(h) => i <= h.len
      BY <2>4, SyscallsAssumption DEF Sized, MinusOne, Unsigned
    <3> QED
      BY <2>2, <3>1, <3>2 DEF GoodHandle, Handle
  <2>6. file_table' = [file_table EXCEPT ![e].idx = i] /\ host_fds' = host_fds
    BY <1>3 DEF Advanced
  <2> HIDE DEF i, e, n
  <2>7. GoodHandle(g) /\ g.fd = h.fd
    BY <2>2, <2>4, <2>5, MovedHandle DEF g
  <2>8. h = [h EXCEPT !.inside = h.inside]
    BY <2>2 DEF GoodHandle, Handle
  <2>9. file_table' = [file_table EXCEPT ![e] = g]
    BY <2>1, <2>2, <2>6, <2>8 DEF GoodHandle, Handle
  <2> HIDE DEF g
  <2> QED
    BY <2>1, <2>6, <2>7, <2>9, ChangeTable
<1> QED
  BY <1>1, <1>2, <1>3 DEF SysRead

(* Every call keeps the table sorted and its handles good. *)
LEMMA StepTable == TableInv /\ [Next]_vars => TableInv'
<1> SUFFICES ASSUME TableInv, [Next]_vars PROVE TableInv'
  OBVIOUS
<1>1. ASSUME Die PROVE TableInv'
  BY <1>1, FrameTable DEF Die, files
<1>2. CASE LoadProgram
  BY <1>2, FrameTable DEF LoadProgram, files
<1>3. CASE Startup
  BY <1>3, FrameTable
     DEF Startup, StartStack, StartAllocate, StartWrite, StartPush, StartStep, files
<1>4. ASSUME NEW addr \in Breaks, SysBrk(addr) PROVE TableInv'
  BY <1>1, <1>4, FrameTable DEF SysBrk, files
<1>5. ASSUME NEW n \in Counts, SysWrite(n) PROVE TableInv'
  BY <1>5, FrameTable DEF SysWrite, files
<1>6. CASE SysOpenAny
  BY <1>1, <1>6, OpenShape, NewHandleIsGood, OpenTable
<1>7. ASSUME NEW fd \in Fds, SysClose(fd) PROVE TableInv'
  BY <1>7, FrameTable, CloseTable, EntryFound DEF SysClose
<1>8. CASE SysExit
  BY <1>8, FrameTable DEF SysExit, files
<1>9. ASSUME NEW fd \in Fds, NEW buf \in Addresses, SysFstat(fd, buf) PROVE TableInv'
  BY <1>1, <1>9, FrameTable DEF SysFstat, files
<1>10. ASSUME NEW fd \in Fds, NEW o \in Offsets, NEW w \in {"SEEK_SET", "SEEK_CUR", "SEEK_END"},
              SysLseek(fd, o, w)
       PROVE  TableInv'
  BY <1>10, LseekTable
<1>11. ASSUME NEW fd \in Fds, NEW buf \in Addresses, NEW n \in Counts, SysRead(fd, buf, n)
       PROVE  TableInv'
  BY <1>11, ReadTable
<1>12. ASSUME SysOpenMissing \/ Unsupported \/ \E fd \in Fds : SysLseekBadWhence(fd)
       PROVE  TableInv'
  BY <1>1, <1>12 DEF SysOpenMissing, Unsupported, SysLseekBadWhence
<1>13. CASE UNCHANGED vars
  BY <1>13, FrameTable DEF vars
<1> QED
  BY <1>2, <1>3, <1>4, <1>5, <1>6, <1>7, <1>8, <1>9, <1>10, <1>11, <1>12, <1>13
     DEF Next, SysOpenAny

(* The invariant of the table, for every history of calls. *)
LEMMA TableInvariant == Spec => []TableInv
BY InitTable, StepTable, PTL DEF Spec

(* A descriptor names one open file, after any sequence of opens and        *)
(* closes, those of 0, 1 and 2 included.                                    *)
THEOREM DescriptorsDistinct == Spec => []FdsDistinct
<1>1. TableInv => FdsDistinct
  <2> SUFFICES ASSUME TableInv, NEW i \in 1 .. Len(file_table), NEW j \in 1 .. Len(file_table),
                      file_table[i].fd = file_table[j].fd
               PROVE  i = j
    BY DEF FdsDistinct, TableInv
  <2>1. Len(file_table) \in Nat /\ file_table[i].fd \in Nat
    BY LenProperties DEF TableInv, GoodHandle, Handle
  <2>2. ~(i < j) /\ ~(j < i)
    BY <2>1 DEF TableInv
  <2> QED
    BY <2>1, <2>2
<1> QED
  BY <1>1, TableInvariant, PTL

(* Reads of any size, up to counts that make `idx + count' wrap, leave the  *)
(* position inside a file that the guest has not left by itself.            *)
THEOREM PositionsInside == Spec => []IndexInFile
<1>1. TableInv => IndexInFile
  BY DEF TableInv, GoodHandle, IndexInFile
<1> QED
  BY <1>1, TableInvariant, PTL

-----------------------------------------------------------------------------
LEMMA InitMem == Init => MemInv
BY MemoryAssumption DEF Init, M!Init, MemInv

(* The invariant of the memory, for every history of calls. *)
LEMMA MemInvariant == Spec => []MemInv
BY InitMem, StepMem, PTL DEF Spec

(* Every other step is a system call: it leaves the constructor's work, the *)
(* arguments and the stack alone, and does not go back to loading.          *)
LEMMA CallShape ==
    ASSUME Next, ~LoadProgram, ~Startup
    PROVE  Running /\ UNCHANGED startup /\ phase' # "loading"
<1>1. ASSUME Running, Die PROVE UNCHANGED startup /\ phase' # "loading"
  BY <1>1 DEF Die, M!Abort
<1>2. ASSUME Running, UNCHANGED memory PROVE phase' # "loading"
  BY <1>2 DEF memory, Running
<1>3. ASSUME NEW n, M!Allocate(n) PROVE phase' # "loading"
  BY <1>3 DEF M!Allocate, M!Abort
<1>4. ASSUME NEW a, NEW n, NEW b, M!BulkWrite(a, n, b) PROVE phase' # "loading"
  BY <1>4 DEF M!BulkWrite, M!WriteFrom, M!WriteFromUnchecked, M!Abort
<1>5. ASSUME NEW addr \in Breaks, SysBrk(addr)
      PROVE  Running /\ UNCHANGED startup /\ phase' # "loading"
  BY <1>1, <1>2, <1>3, <1>5 DEF SysBrk, Return
<1>6. ASSUME NEW n \in Counts, SysWrite(n)
      PROVE  Running /\ UNCHANGED startup /\ phase' # "loading"
  BY <1>2, <1>6 DEF SysWrite, Return
<1>7. SysOpenAny => Running /\ UNCHANGED startup /\ phase' # "loading"
  BY <1>1, <1>2, OpenShape DEF Opened, Return
<1>8. ASSUME NEW fd \in Fds, SysClose(fd)
      PROVE  Running /\ UNCHANGED startup /\ phase' # "loading"
  BY <1>2, <1>8 DEF SysClose
<1>9. SysExit => Running /\ UNCHANGED startup /\ phase' # "loading"
  BY <1>2 DEF SysExit
<1>10. ASSUME NEW fd \in Fds, NEW buf \in Addresses, SysFstat(fd, buf)
       PROVE  Running /\ UNCHANGED startup /\ phase' # "loading"
  BY <1>1, <1>4, <1>10 DEF SysFstat, Return
<1>11. ASSUME NEW fd \in Fds, NEW o \in Offsets, NEW w, SysLseek(fd, o, w)
       PROVE  Running /\ UNCHANGED startup /\ phase' # "loading"
  BY <1>2, <1>11 DEF SysLseek, Return
<1>12. ASSUME NEW fd \in Fds, NEW buf \in Addresses, NEW n \in Counts, SysRead(fd, buf, n)
       PROVE  Running /\ UNCHANGED startup /\ phase' # "loading"
  BY <1>1, <1>2, <1>4, <1>12 DEF SysRead, Return
<1>13. ASSUME SysOpenMissing \/ Unsupported \/ \E fd \in Fds : SysLseekBadWhence(fd)
       PROVE  Running /\ UNCHANGED startup /\ phase' # "loading"
  BY <1>1, <1>13 DEF SysOpenMissing, Unsupported, SysLseekBadWhence
<1> QED
  BY <1>5, <1>6, <1>7, <1>8, <1>9, <1>10, <1>11, <1>12, <1>13 DEF Next, SysOpenAny

(* No system call has been made before the constructor is done, and none    *)
(* has ended the emulator.                                                  *)
CallInv ==
    /\ todo # <<>> => call = NoCall
    /\ has_exited => todo = <<>> /\ phase # "loading"

LEMMA StepCall == CallInv /\ [Next]_vars => CallInv'
<1> SUFFICES ASSUME CallInv, [Next]_vars PROVE CallInv'
  OBVIOUS
<1>1. CASE LoadProgram
  <2>1. phase = "loading" /\ call' = NoCall /\ has_exited' = has_exited
    BY <1>1 DEF LoadProgram, M!LoadSegment, M!LoadDone
  <2> QED
    BY <2>1 DEF CallInv
<1>2. CASE Startup
  <2>1. todo # <<>> /\ call' = call /\ has_exited' = has_exited
    BY <1>2 DEF Startup, StartStack, StartAllocate, StartWrite, StartPush, StartStep, Starting
  <2> QED
    BY <2>1 DEF CallInv
<1>3. CASE Next /\ ~LoadProgram /\ ~Startup
  <2>1. todo = <<>> /\ todo' = todo /\ phase' # "loading"
    BY <1>3, CallShape DEF Running, startup
  <2> QED
    BY <2>1 DEF CallInv
<1>4. CASE UNCHANGED vars
  BY <1>4 DEF vars, memory, CallInv
<1> QED
  BY <1>1, <1>2, <1>3, <1>4

LEMMA CallInvariant == Spec => []CallInv
<1>1. Init => CallInv
  BY DEF Init, CallInv
<1> QED
  BY <1>1, StepCall, PTL DEF Spec

-----------------------------------------------------------------------------
(* The registers and counters. *)
RegInv == nseeks \in 0 .. MaxSeeks /\ a0 \in Unsigned /\ has_exited \in BOOLEAN

LEMMA StepReg == TableInv /\ MemInv /\ RegInv /\ [Next]_vars => RegInv'
<1> SUFFICES ASSUME TableInv, MemInv, RegInv, [Next]_vars PROVE RegInv'
  OBVIOUS
<1>1. /\ AddrSpace \in Nat /\ HalfSpace \in Nat /\ 3 <= HalfSpace /\ 2 * HalfSpace <= AddrSpace
      /\ MaxHostFd <= HalfSpace
  BY SyscallsAssumption, HalfOfSpace
<1>2. 0 \in Unsigned /\ MinusOne \in Unsigned
  BY <1>1 DEF Unsigned, MinusOne
<1>3. ASSUME UNCHANGED <<nseeks, a0, has_exited>> PROVE RegInv'
  BY <1>3 DEF RegInv
<1>4. ASSUME a0' \in Unsigned, UNCHANGED <<nseeks, has_exited>> PROVE RegInv'
  BY <1>4 DEF RegInv
<1>5. ASSUME Die PROVE RegInv'
  BY <1>3, <1>5 DEF Die, files
<1>6. CASE LoadProgram
  BY <1>3, <1>6 DEF LoadProgram, files
<1>7. CASE Startup
  BY <1>3, <1>7 DEF Startup, StartStack, StartAllocate, StartWrite, StartPush, StartStep, files
<1>8. ASSUME NEW addr \in Breaks, SysBrk(addr) PROVE RegInv'
  <2> DEFINE inc == Increment(addr)
  <2>1. CASE /\ inc < 0 /\ UNCHANGED <<memory, files>>
             /\ Return(MinusOne, Call("brk", 0, 0, 0, 0, <<>>))
    BY <1>2, <1>4, <2>1 DEF Return, files
  <2>2. CASE inc >= 0 /\ M!Allocate(inc) /\ UNCHANGED files
    <3>1. inc \in 0 .. HalfSpace - 1
      BY <2>2, IncrementSize
    <3>2. BrkResult(inc) \in Unsigned
      <4>1. alloc_ptr \in Unsigned /\ inc \in Unsigned
        BY <1>1, <3>1, BreakIsLow DEF Unsigned
      <4> QED
        BY <4>1, UnsignedResults DEF BrkResult
    <3>3. a0 \in Unsigned
      BY DEF RegInv
    <3>4. (a0' = a0 \/ a0' = BrkResult(inc)) /\ has_exited' = has_exited
      BY <1>5, <1>8, <2>2, <3>1, <1>1 DEF SysBrk, Return, Die
    <3> QED
      BY <1>4, <2>2, <3>2, <3>3, <3>4 DEF files
  <2> QED
    BY <1>5, <1>8, <2>1, <2>2 DEF SysBrk
<1>9. ASSUME NEW n \in Counts, SysWrite(n) PROVE RegInv'
  BY <1>4, <1>9, SyscallsAssumption DEF SysWrite, Return, files
<1>10. CASE SysOpenAny
  <2>1. CASE Die
    BY <1>5, <2>1
  <2>2. CASE host_fds < MaxHostFd /\ \E h \in NewHandles : Opened(h)
    <3>1. PICK h \in NewHandles : Opened(h)
      BY <2>2
    <3>2. h.fd = host_fds
      BY <2>2, NewHandleIsGood
    <3>3. h.fd \in Unsigned
      BY <1>1, <2>2, <3>2, SyscallsAssumption DEF TableInv, Unsigned
    <3> QED
      BY <1>4, <3>1, <3>3 DEF Opened, Return
  <2> QED
    BY <1>10, <2>1, <2>2, OpenShape
<1>11. ASSUME NEW fd \in Fds, SysClose(fd) PROVE RegInv'
  BY <1>11 DEF SysClose, RegInv
<1>12. CASE SysExit
  BY <1>12 DEF SysExit, RegInv, files
<1>13. ASSUME NEW fd \in Fds, NEW buf \in Addresses, SysFstat(fd, buf) PROVE RegInv'
  BY <1>2, <1>3, <1>4, <1>5, <1>13 DEF SysFstat, Return, files
<1>14. ASSUME NEW fd \in Fds, NEW o \in Offsets, NEW w \in {"SEEK_SET", "SEEK_CUR", "SEEK_END"},
              SysLseek(fd, o, w)
       PROVE  RegInv'
  <2>1. CASE EntryOf(fd) = 0
    BY <1>2, <1>4, <1>14, <2>1 DEF SysLseek, Return
  <2>2. CASE EntryOf(fd) # 0
    <3> DEFINE h == file_table[EntryOf(fd)]
    <3>1. h.idx \in Unsigned /\ h.len \in Unsigned /\ o \in Unsigned
      BY <2>2, EntryFound, SyscallsAssumption DEF TableInv, GoodHandle, Handle
    <3>2. Sought(h, o, w) \in Unsigned
      BY <3>1, UnsignedResults DEF Sought
    <3>3. /\ a0' = Sought(h, o, w) /\ has_exited' = has_exited
          /\ nseeks < MaxSeeks /\ nseeks' = nseeks + 1
      BY <1>14, <2>2 DEF SysLseek, Return
    <3> QED
      BY <3>2, <3>3, SyscallsAssumption DEF RegInv
  <2> QED
    BY <2>1, <2>2
<1>15. ASSUME NEW fd \in Fds, NEW buf \in Addresses, NEW n \in Counts, SysRead(fd, buf, n)
       PROVE  RegInv'
  <2>1. CASE EntryOf(fd) = 0
    BY <1>5, <1>15, <2>1 DEF SysRead
  <2>2. CASE EntryOf(fd) # 0
    <3> DEFINE h == file_table[EntryOf(fd)]
    <3>1. ReadCount(h, n) \in Unsigned
      BY <2>2, EntryFound, ReadCountExact, SyscallsAssumption DEF TableInv
    <3>2. fd \in Unsigned /\ a0 \in Unsigned
      BY SyscallsAssumption DEF RegInv
    <3>3. CASE Die \/ (a0' = fd /\ UNCHANGED <<files, has_exited>>)
      BY <1>4, <1>5, <3>2, <3>3 DEF files
    <3>4. CASE /\ a0' \in {a0, ReadCount(h, n)} /\ has_exited' = has_exited
               /\ Sized(h) \/ nseeks < MaxSeeks
               /\ nseeks' = IF Sized(h) THEN nseeks ELSE nseeks + 1
      <4>1. nseeks' \in 0 .. MaxSeeks
        BY <3>4, SyscallsAssumption DEF RegInv
      <4> QED
        BY <3>1, <3>2, <3>4, <4>1 DEF RegInv
    <3> QED
      BY <1>15, <2>2, <3>3, <3>4 DEF SysRead, Return
  <2> QED
    BY <2>1, <2>2
<1>16. ASSUME SysOpenMissing \/ Unsupported \/ \E fd \in Fds : SysLseekBadWhence(fd)
       PROVE  RegInv'
  BY <1>5, <1>16 DEF SysOpenMissing, Unsupported, SysLseekBadWhence
<1>17. CASE UNCHANGED vars
  BY <1>3, <1>17 DEF vars
<1> QED
  BY <1>6, <1>7, <1>8, <1>9, <1>10, <1>11, <1>12, <1>13, <1>14, <1>15, <1>16, <1>17
     DEF Next, SysOpenAny

(* The handles of the table are well formed and the result register holds a *)
(* 64-bit number, whatever the guest passes to ECALL.                       *)
THEOREM TypeCorrect == Spec => []TypeOK
<1>1. Init => RegInv
  <2>1. AddrSpace \in Nat /\ AddrSpace > 0 /\ MaxSeeks \in Nat
    BY SyscallsAssumption, HalfOfSpace
  <2>2. 0 \in 0 .. MaxSeeks /\ 0 \in Unsigned
    BY <2>1 DEF Unsigned
  <2>3. Init => nseeks = 0 /\ a0 = 0 /\ has_exited = FALSE
    BY DEF Init
  <2> QED
    BY <2>2, <2>3, Zenon DEF RegInv
<1>2. TableInv /\ RegInv => TypeOK
  <2> SUFFICES ASSUME TableInv, RegInv PROVE TypeOK
    OBVIOUS
  <2>1. ASSUME NEW i \in 1 .. Len(file_table)
        PROVE  file_table[i].len \in {Len(file_table[i].data), MinusOne}
    BY DEF TableInv, GoodHandle, Sized
  <2> QED
    BY <2>1 DEF TableInv, RegInv, TypeOK
<1> QED
  BY <1>1, <1>2, StepReg, TableInvariant, MemInvariant, PTL DEF Spec

-----------------------------------------------------------------------------
(* What brk() does to the break, with the size of its argument and the      *)
(* bytes it hands out.                                                      *)
LEMMA StepBrk ==
    ASSUME MemInv, CallInv, Next, call'.name = "brk"
    PROVE  /\ a0' = alloc_ptr' \/ (a0' = MinusOne /\ alloc_ptr' = alloc_ptr)
           /\ \A i \in alloc_ptr .. alloc_ptr' - 1 : perm[i] = {} /\ perm'[i] = {"RAW", "WRITE"}
<1>1. \E addr \in Breaks : SysBrk(addr)
  <2>1. NoCall.name # "brk"
    BY DEF NoCall, Call
  <2>2. ~Die /\ ~LoadProgram
    BY <2>1 DEF Die, LoadProgram
  <2>3. ~Startup
    <3> SUFFICES ASSUME Startup PROVE FALSE
      OBVIOUS
    <3>1. todo # <<>> /\ call' = call
      BY DEF Startup, StartStack, StartAllocate, StartWrite, StartPush, StartStep, Starting
    <3> QED
      BY <2>1, <3>1 DEF CallInv
  <2>4. ~SysExit /\ ~SysOpenMissing /\ ~Unsupported
    BY <2>2 DEF SysExit, SysOpenMissing, Unsupported, Call
  <2>5. \A n \in Counts : ~SysWrite(n)
    BY DEF SysWrite, Return, Call
  <2>6. ~SysOpenAny
    BY <2>2, OpenShape DEF Opened, Return, Call
  <2>7. \A fd \in Fds : ~SysClose(fd) /\ ~SysLseekBadWhence(fd)
    BY <2>2 DEF SysClose, SysLseekBadWhence, Call
  <2>8. \A fd \in Fds, buf \in Addresses : ~SysFstat(fd, buf)
    BY <2>1, <2>2 DEF SysFstat, Return, Call
  <2>9. \A fd \in Fds, o \in Offsets, w \in {"SEEK_SET", "SEEK_CUR", "SEEK_END"} :
           ~SysLseek(fd, o, w)
    BY DEF SysLseek, Return, Call
  <2>10. \A fd \in Fds, buf \in Addresses, n \in Counts : ~SysRead(fd, buf, n)
    BY <2>1, <2>2 DEF SysRead, Return, ReadCall, Call
  <2> QED
    BY <2>2, <2>3, <2>4, <2>5, <2>6, <2>7, <2>8, <2>9, <2>10 DEF Next, SysOpenAny
<1>2. PICK addr \in Breaks : SysBrk(addr)
  BY <1>1
<1> DEFINE inc == Increment(addr)
<1>3. NoCall.name # "brk"
  BY DEF NoCall, Call
<1>4. alloc_ptr \in Nat
  BY BreakIsLow
<1>5. CASE inc < 0 /\ a0' = MinusOne /\ alloc_ptr' = alloc_ptr
  BY <1>4, <1>5
<1>6. CASE inc >= 0 /\ M!Allocate(inc) /\ phase' = "running" /\ a0' = BrkResult(inc)
  <2>1. inc \in 0 .. HalfSpace - 1
    BY <1>6, IncrementSize
  <2> HIDE DEF inc
  <2>2. /\ alloc_ptr' = M!Plus(alloc_ptr, inc)
        /\ \A i \in alloc_ptr .. alloc_ptr' - 1 : perm[i] = {} /\ perm'[i] = {"RAW", "WRITE"}
    BY <1>6, <2>1, AllocateMem
  <2> QED
    BY <1>6, <2>2 DEF BrkResult
<1> QED
  BY <1>2, <1>3, <1>5, <1>6 DEF SysBrk, Return, Die, memory

(* brk() returns the break it set, of memory nobody has used, or -1 and     *)
(* leaves the break where it was; for every size of the address space, and  *)
(* whether or not its subtraction of unsigned numbers overflows.            *)
THEOREM BrkHonest == Spec => BrkReturnsBreak
<1> DEFINE BrkStep ==
        call'.name = "brk" =>
         /\ a0' = alloc_ptr' \/ (a0' = MinusOne /\ alloc_ptr' = alloc_ptr)
         /\ \A i \in alloc_ptr .. alloc_ptr' - 1 : perm[i] = {} /\ perm'[i] = {"RAW", "WRITE"}
<1>1. MemInv /\ CallInv /\ [Next]_vars => [BrkStep]_vars
  BY StepBrk
<1>2. Spec => [][BrkStep]_vars
  BY <1>1, MemInvariant, CallInvariant, PTL DEF Spec
<1> QED
  BY <1>2 DEF BrkReturnsBreak

-----------------------------------------------------------------------------
(* write_from, when it returns: the buffer is in memory. *)
LEMMA BulkWriteCopies ==
    ASSUME NEW a \in Nat, NEW n \in Nat, NEW buf, a + n < AddrSpace,
           M!BulkWrite(a, n, buf), phase' = "running"
    PROVE  \A k \in 0 .. n - 1 : ram'[a + k] = buf[k]
<1>1. M!Plus(a, n) = a + n
  BY DEF M!Plus
<1>2. M!Bounds(a, n) /\ ram' = M!Copied(a, n, buf)
  BY DEF M!BulkWrite, M!WriteFrom, M!WriteFromUnchecked, M!Abort
<1>3. a + n < RamSize /\ M!Range(a, n) = a .. a + n - 1
  BY <1>1, <1>2 DEF M!Bounds, M!Range
<1> SUFFICES ASSUME NEW k \in 0 .. n - 1 PROVE ram'[a + k] = buf[k]
  OBVIOUS
<1>4. a + k \in M!Ram /\ a + k \in a .. a + n - 1 /\ (a + k) - a = k
  BY <1>3, MemoryAssumption DEF M!Ram
<1> QED
  BY <1>2, <1>3, <1>4 DEF M!Copied

(* read(), when it copies: ReadCount bytes of the file, from the position   *)
(* on, are in the guest's buffer.                                           *)
LEMMA SysReadDelivers ==
    ASSUME TableInv, NEW fd \in Fds, NEW buf \in Addresses, NEW count \in Counts,
           SysRead(fd, buf, count)
    PROVE  ReadDelivers'
<1>1. CASE call'.name # "read"
  BY <1>1 DEF ReadDelivers
<1>2. CASE ~(call'.n > 0)
  BY <1>2 DEF ReadDelivers
<1>3. CASE call'.name = "read" /\ call'.n > 0
  <2> DEFINE h == file_table[EntryOf(fd)]
             n == ReadCount(h, count)
  <2>1. NoCall.name # "read" /\ ~(ReadCall(fd, buf, 0, h).n > 0)
    BY DEF NoCall, Call, ReadCall
  <2>2. /\ EntryOf(fd) # 0 /\ n < HalfSpace
        /\ \E b \in ReadData(h, n) : M!BulkWrite(buf, n, b)
        /\ phase' = "running" /\ a0' = n
        /\ call' = ReadCall(fd, buf, n, h)
    BY <1>3, <2>1 DEF SysRead, Return, Die
  <2>3. GoodHandle(h) /\ count \in Unsigned /\ buf \in Nat
    BY <2>2, EntryFound, SyscallsAssumption, MemoryAssumption DEF TableInv, Unsigned
  <2> HIDE DEF h
  <2>4. /\ n \in Nat
        /\ h.idx \in Nat /\ (Sized(h) => h.len = Len(h.data))
        /\ Sized(h) /\ h.idx <= h.len => h.idx + n <= h.len
    <3>1. h.idx \in Unsigned /\ (Sized(h) => h.len = Len(h.data))
      BY <2>3 DEF GoodHandle, Handle
    <3>2. n \in Unsigned /\ (Sized(h) /\ h.idx <= h.len => h.idx + n <= h.len)
      BY <2>2, <2>3, ReadCountExact
    <3> HIDE DEF n
    <3> QED
      BY <3>1, <3>2, SyscallsAssumption DEF Unsigned
  <2> HIDE DEF n
  <2>5. /\ call'.n = n /\ call'.buf = buf /\ call'.from = h.idx /\ call'.data = h.data
        /\ call'.sized = Sized(h)
    BY <2>2 DEF Call, ReadCall
  <2> SUFFICES ASSUME Sized(h), h.idx <= h.len, buf + n < AddrSpace
               PROVE  \A k \in 0 .. n - 1 : ram'[buf + k] = h.data[h.idx + k + 1]
    BY <2>2, <2>4, <2>5 DEF ReadDelivers
  <2>6. ReadData(h, n) = {[k \in 0 .. n - 1 |-> h.data[h.idx + k + 1]]}
    BY DEF ReadData
  <2>7. M!BulkWrite(buf, n, [k \in 0 .. n - 1 |-> h.data[h.idx + k + 1]])
    BY <2>2, <2>6
  <2>8. \A k \in 0 .. n - 1 : ram'[buf + k] = [j \in 0 .. n - 1 |-> h.data[h.idx + j + 1]][k]
    BY <2>2, <2>3, <2>4, <2>7, BulkWriteCopies, SMTT(20)
  <2> QED
    BY <2>8
<1> QED
  BY <1>1, <1>2, <1>3

LEMMA StepDelivers == TableInv /\ CallInv /\ ReadDelivers /\ [Next]_vars => ReadDelivers'
<1> SUFFICES ASSUME TableInv, CallInv, ReadDelivers, [Next]_vars PROVE ReadDelivers'
  OBVIOUS
<1>1. ASSUME call'.name # "read" PROVE ReadDelivers'
  BY <1>1 DEF ReadDelivers
<1>2. NoCall.name # "read"
  BY DEF NoCall, Call
<1>3. ASSUME Die PROVE ReadDelivers'
  BY <1>1, <1>2, <1>3 DEF Die
<1>4. CASE LoadProgram
  BY <1>1, <1>2, <1>4 DEF LoadProgram
<1>5. CASE Startup
  <2>1. todo # <<>> /\ call' = call
    BY <1>5 DEF Startup, StartStack, StartAllocate, StartWrite, StartPush, StartStep, Starting
  <2> QED
    BY <1>1, <1>2, <2>1 DEF CallInv
<1>6. ASSUME NEW addr \in Breaks, SysBrk(addr) PROVE ReadDelivers'
  BY <1>1, <1>2, <1>3, <1>6 DEF SysBrk, Return, Call
<1>7. ASSUME NEW n \in Counts, SysWrite(n) PROVE ReadDelivers'
  BY <1>1, <1>7 DEF SysWrite, Return, Call
<1>8. CASE SysOpenAny
  BY <1>1, <1>3, <1>8, OpenShape DEF Opened, Return, Call
<1>9. ASSUME NEW fd \in Fds, SysClose(fd) PROVE ReadDelivers'
  BY <1>1, <1>9 DEF SysClose, Call
<1>10. CASE SysExit
  BY <1>1, <1>10 DEF SysExit, Call
<1>11. ASSUME NEW fd \in Fds, NEW buf \in Addresses, SysFstat(fd, buf) PROVE ReadDelivers'
  BY <1>1, <1>2, <1>3, <1>11 DEF SysFstat, Return, Call
<1>12. ASSUME NEW fd \in Fds, NEW o \in Offsets, NEW w, SysLseek(fd, o, w) PROVE ReadDelivers'
  BY <1>1, <1>12 DEF SysLseek, Return, Call
<1>13. ASSUME NEW fd \in Fds, NEW buf \in Addresses, NEW n \in Counts, SysRead(fd, buf, n)
       PROVE  ReadDelivers'
  BY <1>13, SysReadDelivers
<1>14. ASSUME SysOpenMissing \/ Unsupported \/ \E fd \in Fds : SysLseekBadWhence(fd)
       PROVE  ReadDelivers'
  BY <1>3, <1>14 DEF SysOpenMissing, Unsupported, SysLseekBadWhence
<1>15. CASE UNCHANGED vars
  BY <1>15 DEF vars, memory, ReadDelivers
<1> QED
  BY <1>4, <1>5, <1>6, <1>7, <1>8, <1>9, <1>10, <1>11, <1>12, <1>13, <1>14, <1>15
     DEF Next, SysOpenAny

(* A read that answers with a count has put that many bytes of the file,    *)
(* from its position on, into the guest's memory.                           *)
THEOREM ReadsDelivered == Spec => []ReadDelivers
<1>1. Init => ReadDelivers
  BY DEF Init, ReadDelivers, NoCall, Call
<1> QED
  BY <1>1, StepDelivers, TableInvariant, CallInvariant, PTL DEF Spec

-----------------------------------------------------------------------------
(* The refinement of FileTable.  What the table means to the guest: each    *)
(* entry is the file of its descriptor.                                     *)
View(h) == [data |-> h.data, pos |-> h.idx, sized |-> Sized(h)]
Meaning ==
    /\ OpenFiles = [fd \in DOMAIN OpenFiles |-> OpenFiles[fd]]
    /\ DOMAIN OpenFiles = {file_table[i].fd : i \in 1 .. Len(file_table)}
    /\ \A i \in 1 .. Len(file_table) : OpenFiles[file_table[i].fd] = View(file_table[i])

LEMMA TableMeaning == TableInv => Meaning
<1> SUFFICES ASSUME TableInv PROVE Meaning
  OBVIOUS
<1>1. /\ OpenFiles = [fd \in DOMAIN OpenFiles |-> OpenFiles[fd]]
      /\ DOMAIN OpenFiles = {file_table[i].fd : i \in 1 .. Len(file_table)}
  BY DEF OpenFiles, EntryOf, Entries
<1>2. ASSUME NEW i \in 1 .. Len(file_table)
      PROVE  OpenFiles[file_table[i].fd] = View(file_table[i])
  <2>1. EntryOf(file_table[i].fd) = i
    BY EntryIs, Zenon
  <2>2. OpenFiles[file_table[i].fd] = View(file_table[EntryOf(file_table[i].fd)])
    BY Zenon DEF OpenFiles, EntryOf, Entries, View
  <2> QED
    BY <2>1, <2>2
<1> QED
  BY <1>1, <1>2 DEF Meaning

LEMMA NextMeaning == TableInv' => Meaning'
BY TableMeaning, PTL

(* A step that moves the position of one entry. *)
Moved(e, pos) ==
    /\ Len(file_table') = Len(file_table)
    /\ \A i \in 1 .. Len(file_table) :
          /\ file_table'[i].fd = file_table[i].fd
          /\ file_table'[i].data = file_table[i].data
          /\ file_table'[i].len = file_table[i].len
          /\ file_table'[i].idx = IF i = e THEN pos ELSE file_table[i].idx

LEMMA MovedFiles ==
    ASSUME TableInv, TableInv', NEW e \in 1 .. Len(file_table), NEW pos, Moved(e, pos)
    PROVE  OpenFiles' = [OpenFiles EXCEPT ![file_table[e].fd].pos = pos]
<1> DEFINE new == [OpenFiles EXCEPT ![file_table[e].fd].pos = pos]
<1>1. Meaning /\ Meaning'
  BY TableMeaning, NextMeaning
<1>2. \A i, j \in 1 .. Len(file_table) : file_table[i].fd = file_table[j].fd => i = j
  BY EntryIs
<1>3. DOMAIN OpenFiles' = DOMAIN OpenFiles
  <2>1. DOMAIN OpenFiles' = {file_table'[i].fd : i \in 1 .. Len(file_table)}
    BY <1>1, Zenon DEF Meaning, Moved
  <2>2. DOMAIN OpenFiles = {file_table[i].fd : i \in 1 .. Len(file_table)}
    BY <1>1, Zenon DEF Meaning
  <2>3. \A i \in 1 .. Len(file_table) : file_table'[i].fd = file_table[i].fd
    BY DEF Moved
  <2> QED
    BY ONLY <2>1, <2>2, <2>3
<1>4. new = [fd \in DOMAIN OpenFiles |-> new[fd]] /\ file_table[e].fd \in DOMAIN OpenFiles
  <2>1. OpenFiles = [fd \in DOMAIN OpenFiles |-> OpenFiles[fd]]
    BY <1>1 DEF Meaning
  <2>2. file_table[e].fd \in DOMAIN OpenFiles
    BY <1>1 DEF Meaning
  <2> QED
    BY <2>1, <2>2
<1>5. ASSUME NEW i \in 1 .. Len(file_table)
      PROVE  OpenFiles'[file_table[i].fd] = new[file_table[i].fd]
  <2>1. OpenFiles'[file_table[i].fd] = View(file_table'[i])
    BY <1>1 DEF Meaning, Moved
  <2>2. file_table[i].fd \in DOMAIN OpenFiles /\ OpenFiles[file_table[i].fd] = View(file_table[i])
    BY <1>1 DEF Meaning
  <2>3. CASE i = e
    <3>1. new[file_table[e].fd] = [OpenFiles[file_table[e].fd] EXCEPT !.pos = pos]
      BY <1>4
    <3>2. new[file_table[e].fd] = [View(file_table[e]) EXCEPT !.pos = pos]
      BY <2>2, <2>3, <3>1
    <3> QED
      BY <2>1, <2>3, <3>2 DEF View, Sized, Moved
  <2>4. CASE i # e
    <3>1. new[file_table[i].fd] = OpenFiles[file_table[i].fd]
      BY <1>2, <1>4, <2>2, <2>4
    <3> QED
      BY <2>1, <2>2, <2>4, <3>1 DEF View, Sized, Moved
  <2> QED
    BY <2>3, <2>4
<1> HIDE DEF new
<1>6. \A fd \in DOMAIN OpenFiles : OpenFiles'[fd] = new[fd]
  BY <1>1, <1>5 DEF Meaning
<1>7. OpenFiles' = [fd \in DOMAIN OpenFiles |-> OpenFiles'[fd]]
  BY <1>1, <1>3 DEF Meaning
<1> QED
  BY <1>4, <1>6, <1>7 DEF new

(* The answers, as FileTable names them. *)
LEMMA AnswerNone ==
    ASSUME call'.name \notin FileCalls
    PROVE  LastAnswer' = Files!None
BY DEF LastAnswer, Answered, Files!None

LEMMA AnswerValue ==
    ASSUME NEW op \in {"open", "lseek", "read"}, NEW fd, call'.name = op, call'.fd = fd
    PROVE  LastAnswer' = [op |-> op, fd |-> fd, value |-> a0']
<1>1. op \in FileCalls /\ op # "close" /\ op # "fstat"
  BY DEF FileCalls
<1> QED
  BY <1>1 DEF LastAnswer, Answered

-----------------------------------------------------------------------------
(* open: a file with a new descriptor, of known length or not. *)
LEMMA OpenRefines ==
    ASSUME TableInv, TableInv', NEW data, NEW len, host_fds < MaxHostFd,
           Opened(FileHandle(host_fds, data, len))
    PROVE  Files!Open(data, len # MinusOne)
<1> DEFINE n == Len(file_table)
           h == FileHandle(host_fds, data, len)
           file == [data |-> data, pos |-> 0, sized |-> len # MinusOne]
<1>1. Meaning /\ Meaning'
  BY TableMeaning, NextMeaning
<1>2. /\ file_table' = Append(file_table, h) /\ a0' = host_fds
      /\ call'.name = "open" /\ call'.fd = host_fds
  BY DEF Opened, Return, FileHandle, Call
<1>3. LastAnswer' = [op |-> "open", fd |-> host_fds, value |-> host_fds]
  BY <1>2, AnswerValue
<1>4. n \in Nat /\ file_table \in Seq(Handle)
  BY LenProperties DEF TableInv
<1>5. /\ Len(file_table') = n + 1 /\ file_table'[n + 1] = h
      /\ \A i \in 1 .. n : file_table'[i] = file_table[i]
  BY <1>2, <1>4, AppendProperties
<1>6. h.fd = host_fds /\ View(h) = file
  BY DEF FileHandle, View, Sized
<1> HIDE DEF n, h, file
<1>7. 1 .. n + 1 = (1 .. n) \cup {n + 1}
  BY <1>4
<1>8. ASSUME NEW g \in DOMAIN OpenFiles PROVE g < host_fds /\ g # host_fds
  <2>1. PICK i \in 1 .. n : g = file_table[i].fd
    BY <1>1 DEF Meaning, n
  <2>2. g < host_fds /\ GoodHandle(file_table[i]) /\ host_fds \in Nat
    BY <2>1 DEF TableInv, n
  <2>3. g \in Nat
    BY <2>1, <2>2 DEF GoodHandle, Handle
  <2> QED
    BY <2>2, <2>3
<1>9. DOMAIN OpenFiles' = DOMAIN OpenFiles \cup {host_fds}
  <2>1. DOMAIN OpenFiles' = {file_table'[i].fd : i \in (1 .. n) \cup {n + 1}}
    BY <1>1, <1>5, <1>7 DEF Meaning
  <2>2. DOMAIN OpenFiles = {file_table[i].fd : i \in 1 .. n}
    BY <1>1 DEF Meaning, n
  <2> QED
    BY <1>5, <1>6, <2>1, <2>2
<1>10. OpenFiles'[host_fds] = file
  <2>1. n + 1 \in 1 .. n + 1
    BY <1>4
  <2> QED
    BY <1>1, <1>5, <1>6, <2>1 DEF Meaning
<1>11. ASSUME NEW g \in DOMAIN OpenFiles PROVE OpenFiles'[g] = OpenFiles[g]
  <2>1. PICK i \in 1 .. n : g = file_table[i].fd
    BY <1>1 DEF Meaning, n
  <2>2. i \in 1 .. n + 1
    BY <1>7
  <2>3. OpenFiles'[g] = View(file_table'[i])
    BY <1>1, <1>5, <2>1, <2>2 DEF Meaning
  <2> QED
    BY <1>1, <1>5, <2>1, <2>3 DEF Meaning, n
<1>12. OpenFiles' = [g \in DOMAIN OpenFiles \cup {host_fds} |->
                       IF g = host_fds THEN file ELSE OpenFiles[g]]
  <2>1. OpenFiles' = [g \in DOMAIN OpenFiles \cup {host_fds} |-> OpenFiles'[g]]
    BY <1>1, <1>9 DEF Meaning
  <2> QED
    BY <1>8, <1>10, <1>11, <2>1
<1>13. LastAnswer'.fd = host_fds
  BY <1>3
<1> QED
  BY <1>3, <1>8, <1>12, <1>13 DEF Files!Open, Files!Answers, file

(* close: the file of the descriptor goes, the others stay. *)
LEMMA CloseRefines ==
    ASSUME TableInv, TableInv', NEW fd \in Fds, SysClose(fd), EntryOf(ToInt(fd)) # 0
    PROVE  LastAnswer'.op = "close" /\ LastAnswer'.fd = fd /\ Files!Close(fd)
<1> DEFINE n == Len(file_table)
           low == ToInt(fd)
           e == EntryOf(low)
<1>1. Meaning /\ Meaning'
  BY TableMeaning, NextMeaning
<1>2. e \in 1 .. n /\ file_table[e].fd = low
  BY EntryFound
<1>3. file_table' = Without(file_table, e) /\ call' = Call("close", fd, 0, 0, 0, <<>>)
  BY DEF SysClose
<1>4. LastAnswer' = [op |-> "close", fd |-> fd, value |-> 0]
  BY <1>3 DEF LastAnswer, Answered, FileCalls, Call
<1>5. n \in Nat /\ file_table \in Seq(Handle)
  BY LenProperties DEF TableInv
<1> HIDE DEF e, low
<1>6. /\ Len(file_table') = n - 1
      /\ \A i \in 1 .. n - 1 : file_table'[i] = IF i < e THEN file_table[i] ELSE file_table[i + 1]
  BY <1>2, <1>3, <1>5, WithoutProperties
<1>7. \A i, j \in 1 .. n : file_table[i].fd = file_table[j].fd => i = j
  BY EntryIs
<1> HIDE DEF n
<1>8. ASSUME NEW i \in 1 .. n, i # e
      PROVE  /\ file_table[i].fd \in DOMAIN OpenFiles'
             /\ OpenFiles'[file_table[i].fd] = View(file_table[i])
  <2>1. PICK j \in 1 .. n - 1 : file_table'[j] = file_table[i]
    <3>1. CASE i < e
      <4>1. i \in 1 .. n - 1
        BY <1>2, <1>5, <3>1
      <4> QED
        BY <1>6, <3>1, <4>1
    <3>2. CASE ~(i < e)
      <4>1. i - 1 \in 1 .. n - 1 /\ ~(i - 1 < e) /\ (i - 1) + 1 = i
        BY <1>2, <1>5, <1>8, <3>2
      <4>2. file_table'[i - 1] = file_table[i]
        BY <1>6, <4>1
      <4> QED
        BY <4>1, <4>2
    <3> QED
      BY <3>1, <3>2
  <2> QED
    BY <1>1, <1>6, <2>1 DEF Meaning
<1>9. ASSUME NEW j \in 1 .. n - 1 PROVE \E i \in 1 .. n : i # e /\ file_table'[j] = file_table[i]
  <2>1. CASE j < e
    <3>1. j \in 1 .. n /\ j # e
      BY <1>2, <1>5, <2>1
    <3> QED
      BY <1>6, <2>1, <3>1
  <2>2. CASE ~(j < e)
    <3>1. j + 1 \in 1 .. n /\ j + 1 # e
      BY <1>2, <1>5, <2>2
    <3> QED
      BY <1>6, <2>2, <3>1
  <2> QED
    BY <2>1, <2>2
<1>10. DOMAIN OpenFiles' = DOMAIN OpenFiles \ {low}
  <2>1. DOMAIN OpenFiles' = {file_table'[j].fd : j \in 1 .. n - 1}
    BY <1>1, <1>6 DEF Meaning
  <2>2. DOMAIN OpenFiles = {file_table[i].fd : i \in 1 .. n}
    BY <1>1 DEF Meaning, n
  <2>3. ASSUME NEW g \in DOMAIN OpenFiles' PROVE g \in DOMAIN OpenFiles \ {low}
    <3>1. PICK j \in 1 .. n - 1 : g = file_table'[j].fd
      BY <2>1, <2>3
    <3>2. PICK i \in 1 .. n : i # e /\ file_table'[j] = file_table[i]
      BY <1>9
    <3> QED
      BY <1>2, <1>7, <2>2, <3>1, <3>2
  <2>4. ASSUME NEW g \in DOMAIN OpenFiles \ {low} PROVE g \in DOMAIN OpenFiles'
    <3>1. PICK i \in 1 .. n : g = file_table[i].fd
      BY <2>2
    <3> QED
      BY <1>2, <1>8, <3>1
  <2> QED
    BY <2>3, <2>4
<1>11. ASSUME NEW g \in DOMAIN OpenFiles \ {low} PROVE OpenFiles'[g] = OpenFiles[g]
  <2>1. PICK i \in 1 .. n : g = file_table[i].fd
    BY <1>1 DEF Meaning, n
  <2>2. i # e
    BY <1>2, <2>1
  <2>3. OpenFiles[g] = View(file_table[i])
    BY <1>1, <2>1 DEF Meaning, n
  <2> QED
    BY <1>8, <2>1, <2>2, <2>3
<1>12. OpenFiles' = [g \in DOMAIN OpenFiles \ {low} |-> OpenFiles[g]]
  <2>1. OpenFiles' = [g \in DOMAIN OpenFiles \ {low} |-> OpenFiles'[g]]
    BY <1>1, <1>10 DEF Meaning
  <2> QED
    BY <1>11, <2>1
<1>13. low \in DOMAIN OpenFiles
  BY <1>1, <1>2 DEF Meaning, n
<1> QED
  BY <1>4, <1>12, <1>13 DEF Files!Close, Files!Answers, Files!Low, ToInt, low

(* lseek: the entry found is the file of the descriptor, and no other moves. *)
LEMMA SeekRefines ==
    ASSUME TableInv, TableInv', NEW fd \in Fds, NEW o \in Offsets,
           NEW w \in {"SEEK_SET", "SEEK_CUR", "SEEK_END"}, SysLseek(fd, o, w), EntryOf(fd) # 0
    PROVE  /\ fd \in DOMAIN OpenFiles /\ LastAnswer'.op = "lseek" /\ LastAnswer'.fd = fd
           /\ Files!Seek(fd, OpenFiles'[fd].pos)
<1> DEFINE e == EntryOf(fd)
           h == file_table[e]
           p == Sought(h, o, w)
<1>1. Meaning /\ Meaning'
  BY TableMeaning, NextMeaning
<1>2. e \in 1 .. Len(file_table) /\ file_table[e].fd = fd
  BY EntryFound
<1>3. /\ file_table' = [file_table EXCEPT ![e].idx = p, ![e].inside = (p <= h.len)]
      /\ call' = Call("lseek", fd, 0, 0, 0, <<>>) /\ a0' = p
  BY DEF SysLseek, Return
<1> HIDE DEF e, p
<1>4. LastAnswer' = [op |-> "lseek", fd |-> fd, value |-> p]
  BY <1>3, AnswerValue DEF Call
<1>5. file_table \in Seq(Handle) /\ \A i \in 1 .. Len(file_table) : file_table[i] \in Handle
  BY DEF TableInv, GoodHandle
<1>6. Moved(e, p)
  <2>1. /\ Len(file_table') = Len(file_table)
        /\ \A i \in 1 .. Len(file_table) :
              file_table'[i] = IF i = e THEN [h EXCEPT !.idx = p, !.inside = (p <= h.len)]
                                        ELSE file_table[i]
    <3> DEFINE g == [h EXCEPT !.idx = p, !.inside = (p <= h.len)]
    <3>1. file_table' = [file_table EXCEPT ![e] = g]
      BY <1>2, <1>3, <1>5
    <3> HIDE DEF g
    <3>2. /\ Len(file_table') = Len(file_table)
          /\ \A i \in 1 .. Len(file_table) : file_table'[i] = IF i = e THEN g ELSE file_table[i]
      BY <1>2, <1>5, <3>1, EntrySet
    <3> QED
      BY <3>2 DEF g
  <2>2. h \in Handle
    BY <1>2, <1>5
  <2> QED
    BY <2>1, <2>2 DEF Handle, Moved
<1>7. OpenFiles' = [OpenFiles EXCEPT ![fd].pos = p]
  BY <1>2, <1>6, MovedFiles
<1>8. OpenFiles'[fd].pos = p /\ fd \in DOMAIN OpenFiles
  <2>1. OpenFiles'[file_table'[e].fd] = View(file_table'[e]) /\ fd \in DOMAIN OpenFiles
    BY <1>1, <1>2, <1>6 DEF Meaning, Moved
  <2> QED
    BY <1>2, <1>6, <2>1 DEF View, Moved
<1> QED
  BY <1>4, <1>7, <1>8 DEF Files!Seek, Files!Answers, Files!MoveTo

(* read: as many bytes as were asked for or are left, although the sum that *)
(* decides it wraps.                                                        *)
LEMMA ReadRefines ==
    ASSUME TableInv, TableInv', NEW fd \in Fds, NEW buf \in Addresses, NEW count \in Counts,
           SysRead(fd, buf, count), EntryOf(fd) # 0, ~Die, phase' = "running"
    PROVE  /\ fd \in DOMAIN OpenFiles /\ LastAnswer'.op = "read" /\ LastAnswer'.fd = fd
           /\ Files!ReadOutside(fd) \/ Files!Read(fd, count)
<1> DEFINE e == EntryOf(fd)
           h == file_table[e]
           n == ReadCount(h, count)
           p == IF n = 0 THEN h.idx ELSE M!Plus(h.idx, n)
<1>1. Meaning /\ Meaning'
  BY TableMeaning, NextMeaning
<1>2. e \in 1 .. Len(file_table) /\ file_table[e].fd = fd
  BY EntryFound
<1>3. GoodHandle(h) /\ count \in Unsigned /\ fd \in DOMAIN OpenFiles /\ OpenFiles[fd] = View(h)
  BY <1>1, <1>2, SyscallsAssumption DEF TableInv, Meaning
<1>4. /\ call'.name = "read" /\ call'.fd = fd /\ a0' = IF n = 0 THEN fd ELSE n
      /\ n = 0 \/ n < HalfSpace
      /\ file_table' = IF n = 0 THEN file_table ELSE [file_table EXCEPT ![e].idx = p]
  BY DEF SysRead, Return, Advanced, files, ReadCall, Call
<1>5. n \in Unsigned /\ 0 < HalfSpace
  BY <1>3, ReadCountExact, SyscallsAssumption, HalfOfSpace
<1>6. h.idx \in Nat /\ h.len \in Nat /\ (Sized(h) => h.len = Len(h.data))
  BY <1>3 DEF GoodHandle, Handle, Unsigned
<1>7. Sized(h) /\ h.idx <= h.len =>
        /\ n = IF count < h.len - h.idx THEN count ELSE h.len - h.idx
        /\ p = h.idx + n
  BY <1>3, <1>4, <1>5, <1>6, ReadCountExact
<1> HIDE DEF e, n, p
<1>8. LastAnswer' = [op |-> "read", fd |-> fd, value |-> IF n = 0 THEN fd ELSE n]
  BY <1>4, AnswerValue
<1>9. file_table \in Seq(Handle) /\ \A i \in 1 .. Len(file_table) : file_table[i] \in Handle
  BY DEF TableInv, GoodHandle
<1>10. Moved(e, p)
  <2>1. CASE n = 0
    BY <1>4, <2>1 DEF p, Moved
  <2>2. CASE n # 0
    <3>1. /\ Len(file_table') = Len(file_table)
          /\ \A i \in 1 .. Len(file_table) :
                file_table'[i] = IF i = e THEN [h EXCEPT !.idx = p] ELSE file_table[i]
      <4> DEFINE g == [h EXCEPT !.idx = p]
      <4>1. file_table' = [file_table EXCEPT ![e] = g]
        BY <1>2, <1>4, <1>9, <2>2
      <4> HIDE DEF g
      <4>2. /\ Len(file_table') = Len(file_table)
            /\ \A i \in 1 .. Len(file_table) : file_table'[i] = IF i = e THEN g ELSE file_table[i]
        BY <1>2, <1>9, <4>1, EntrySet
      <4> QED
        BY <4>2 DEF g
    <3>2. h \in Handle
      BY <1>2, <1>9
    <3> QED
      BY <3>1, <3>2 DEF Handle, Moved
  <2> QED
    BY <2>1, <2>2
<1>11. OpenFiles' = [OpenFiles EXCEPT ![fd].pos = p]
  BY <1>2, <1>10, MovedFiles
<1>12. OpenFiles'[fd].pos = p
  <2>1. OpenFiles'[file_table'[e].fd] = View(file_table'[e])
    BY <1>1, <1>2, <1>10 DEF Meaning, Moved
  <2> QED
    BY <1>2, <1>10, <2>1 DEF View, Moved
<1>13. /\ OpenFiles[fd].pos = h.idx /\ OpenFiles[fd].data = h.data
       /\ OpenFiles[fd].sized = Sized(h)
  BY <1>3 DEF View
<1> HIDE DEF h
<1>14. Files!Beyond(OpenFiles[fd]) <=> ~(Sized(h) /\ h.idx <= h.len)
  <2>1. Sized(h) => (h.idx <= h.len <=> ~(h.idx > Len(h.data)))
    BY <1>6
  <2> QED
    BY <1>13, <2>1 DEF Files!Beyond
<1>15. Sized(h) /\ h.idx <= h.len => Files!Read(fd, count)
  BY <1>6, <1>7, <1>8, <1>11, <1>13, <1>14 DEF Files!Read, Files!Answers, Files!MoveTo
<1>16. ~(Sized(h) /\ h.idx <= h.len) => Files!ReadOutside(fd)
  <2>1. LastAnswer' = [op |-> "read", fd |-> fd, value |-> LastAnswer'.value]
    BY <1>8
  <2> QED
    BY <1>11, <1>12, <1>14, <2>1 DEF Files!ReadOutside, Files!Answers, Files!MoveTo
<1> QED
  BY <1>3, <1>8, <1>15, <1>16

(* The file opened last is the last entry. *)
LEMMA NewestIsLast ==
    ASSUME TableInv, Len(file_table) > 0
    PROVE  /\ Files!Newest = file_table[Len(file_table)].fd
           /\ OpenFiles[Files!Newest] = View(file_table[Len(file_table)])
<1> DEFINE n == Len(file_table)
           last == file_table[n].fd
<1>1. Meaning /\ n \in Nat /\ n \in 1 .. n
  BY TableMeaning, LenProperties DEF TableInv
<1>2. ASSUME NEW i \in 1 .. n PROVE file_table[i].fd \in Nat /\ file_table[i].fd <= last
  <2>1. \A j \in 1 .. n : file_table[j].fd \in Nat
    BY DEF TableInv, GoodHandle, Handle
  <2>2. i < n => file_table[i].fd < last
    BY <1>1 DEF TableInv
  <2> QED
    BY <1>1, <2>1, <2>2
<1>3. /\ last \in DOMAIN OpenFiles /\ OpenFiles[last] = View(file_table[n])
      /\ DOMAIN OpenFiles = {file_table[i].fd : i \in 1 .. n}
  BY <1>1 DEF Meaning
<1> HIDE DEF n, last
<1>4. /\ last \in Nat
      /\ \A g \in DOMAIN OpenFiles : g \in Nat /\ g <= last
  BY <1>1, <1>2, <1>3 DEF last
<1>5. ASSUME NEW fd \in DOMAIN OpenFiles, \A g \in DOMAIN OpenFiles : g <= fd PROVE fd = last
  <2>1. last <= fd /\ fd <= last /\ fd \in Nat /\ last \in Nat
    BY <1>3, <1>4, <1>5
  <2> QED
    BY <2>1
<1>6. Files!Newest = last
  BY <1>3, <1>4, <1>5 DEF Files!Newest
<1> QED
  BY <1>3, <1>6 DEF n, last

(* fstat: the size of the file opened last is in the guest's buffer, unless *)
(* the buffer wraps.                                                        *)
LEMMA StatRefines ==
    ASSUME TableInv, NEW fd \in Fds, NEW buf \in Addresses, SysFstat(fd, buf), EntryOf(ToInt(fd)) # 0,
           phase' = "running", buf + StatBytes < AddrSpace
    PROVE  /\ LastAnswer'.op = "fstat" /\ LastAnswer'.fd = fd
           /\ UNCHANGED OpenFiles => Files!Stat(fd)
<1>1. /\ M!BulkWrite(buf, StatBytes, StatBuf(fd))
      /\ call' = Call("fstat", fd, buf, StatBytes, 0, <<>>)
  BY DEF SysFstat, Return
<1>2. /\ buf \in Nat /\ StatBytes \in Nat /\ 0 \in 0 .. StatBytes - 1 /\ AddrSpace \in Nat
  BY SyscallsAssumption, MemoryAssumption DEF Unsigned
<1>3. ram'[buf] = StatSize(fd) % ByteBase
  <2>1. ram'[buf + 0] = StatBuf(fd)[0]
    BY <1>1, <1>2, BulkWriteCopies
  <2>2. StatBuf(fd)[0] = StatSize(fd) % ByteBase /\ buf + 0 = buf
    BY <1>2 DEF StatBuf
  <2> QED
    BY <2>1, <2>2
<1>4. LastAnswer' = [op |-> "fstat", fd |-> fd, value |-> StatSize(fd) % ByteBase]
  <2>1. /\ call'.name = "fstat" /\ call'.fd = fd /\ call'.buf = buf /\ call'.n = StatBytes
    BY <1>1 DEF Call
  <2>2. Answered'
    BY <1>2, <2>1 DEF Answered, FileCalls
  <2> QED
    BY <1>3, <2>1, <2>2 DEF LastAnswer
<1>5. /\ EntryOf(ToInt(fd)) \in 1 .. Len(file_table)
      /\ file_table[EntryOf(ToInt(fd))].fd = ToInt(fd) /\ Meaning
  BY EntryFound, TableMeaning
<1>6. Files!Low(fd) \in DOMAIN OpenFiles
  BY <1>5 DEF Meaning, Files!Low, ToInt
<1>7. Len(file_table) \in Nat /\ Len(file_table) > 0
  BY <1>5, LenProperties DEF TableInv
<1>8. StatSize(fd) % ByteBase = IF fd = 1 THEN 0 ELSE Files!Size(OpenFiles[Files!Newest]) % ByteBase
  <2> DEFINE h == file_table[Len(file_table)]
  <2>1. OpenFiles[Files!Newest] = View(h) /\ GoodHandle(h)
    BY <1>7, NewestIsLast DEF TableInv
  <2> HIDE DEF h
  <2>2. Files!Size(OpenFiles[Files!Newest]) = h.len
    <3>1. /\ OpenFiles[Files!Newest].sized = (h.len # MinusOne)
          /\ OpenFiles[Files!Newest].data = h.data
      BY <2>1 DEF View, Sized
    <3>2. h.len # MinusOne => h.len = Len(h.data)
      BY <2>1 DEF GoodHandle, Sized
    <3> QED
      BY <3>1, <3>2 DEF Files!Size
  <2>3. 0 % ByteBase = 0
    BY MemoryAssumption
  <2> QED
    BY <2>2, <2>3 DEF StatSize, h
<1> QED
  BY <1>4, <1>6, <1>8 DEF Files!Stat, Files!Answers

-----------------------------------------------------------------------------
LEMMA SameFiles ==
    ASSUME UNCHANGED file_table
    PROVE  UNCHANGED OpenFiles
BY DEF OpenFiles, EntryOf, Entries

(* A step of the living emulator that is no call on a file. *)
LEMMA OtherRefines ==
    ASSUME Alive, Alive', UNCHANGED file_table, LastAnswer' = Files!None
    PROVE  Files!Next
BY SameFiles DEF Files!Next, Files!Other

(* A dead emulator takes no step. *)
LEMMA DeadStays ==
    ASSUME CallInv, ~Alive
    PROVE  ~Next
<1>1. phase \notin {"loading", "running"} \/ has_exited
  BY DEF Alive
<1>2. ~Running /\ ~LoadProgram /\ ~Startup
  <2>1. ~Running
    BY <1>1 DEF Running
  <2>2. ~LoadProgram
    BY <1>1 DEF LoadProgram, M!LoadSegment, M!LoadDone, CallInv
  <2>3. ~Startup
    BY <1>1 DEF Startup, StartStack, StartAllocate, StartWrite, StartPush, Starting, CallInv
  <2> QED
    BY <2>1, <2>2, <2>3
<1> QED
  BY <1>2, CallShape

(* Every step of the living emulator is one of FileTable. *)
LEMMA StepRefines ==
    ASSUME TableInv, TableInv', CallInv, Next, Alive, Alive'
    PROVE  Files!Next
<1>1. NoCall.name \notin FileCalls
  BY DEF NoCall, Call, FileCalls
<1>2. ~Die
  BY DEF Die, M!Abort, Alive
<1>3. ASSUME call'.name \notin FileCalls, UNCHANGED file_table PROVE Files!Next
  BY <1>3, AnswerNone, OtherRefines
<1>4. CASE LoadProgram
  BY <1>1, <1>3, <1>4 DEF LoadProgram, files
<1>5. CASE Startup
  <2>1. todo # <<>> /\ UNCHANGED <<call, file_table>>
    BY <1>5
       DEF Startup, StartStack, StartAllocate, StartWrite, StartPush, StartStep, Starting, files
  <2> QED
    BY <1>1, <1>3, <2>1 DEF CallInv
<1>6. ASSUME NEW addr \in Breaks, SysBrk(addr) PROVE Files!Next
  <2>1. call'.name \in {"brk", NoCall.name} /\ UNCHANGED file_table
    BY <1>2, <1>6 DEF SysBrk, Return, Call, files
  <2> QED
    BY <1>1, <1>3, <2>1 DEF FileCalls
<1>7. ASSUME NEW n \in Counts, SysWrite(n) PROVE Files!Next
  BY <1>3, <1>7 DEF SysWrite, Return, Call, FileCalls, files
<1>8. CASE SysOpenAny
  <2>1. PICK h \in NewHandles : Opened(h) /\ host_fds < MaxHostFd
    BY <1>2, <1>8, OpenShape
  <2>2. ASSUME NEW data \in HostFiles, h = FileHandle(OpenedFd, data, FileSize(data))
        PROVE  Files!Next
    <3>1. Len(data) # MinusOne
      BY SyscallsAssumption, HalfOfSpace, LenProperties DEF MinusOne
    <3>2. Files!Open(data, Len(data) # MinusOne)
      BY <2>1, <2>2, OpenRefines DEF OpenedFd, FileSize
    <3>3. Files!Open(data, TRUE)
      BY <3>1, <3>2 DEF Files!Open
    <3> QED
      BY <3>3 DEF Files!Next
  <2>3. CASE h = FileHandle(OpenedFd, <<>>, MinusOne)
    <3>1. Files!Open(<<>>, MinusOne # MinusOne)
      BY <2>1, <2>3, OpenRefines DEF OpenedFd
    <3>2. Files!Open(<<>>, FALSE)
      BY <3>1 DEF Files!Open
    <3> QED
      BY <3>2 DEF Files!Next
  <2> QED
    BY <2>2, <2>3 DEF NewHandles
<1>9. ASSUME NEW fd \in Fds, SysClose(fd) PROVE Files!Next
  <2>1. EntryOf(ToInt(fd)) # 0
    BY <1>9 DEF SysClose, Alive
  <2> QED
    BY <1>9, <2>1, CloseRefines DEF Files!Next, Files!Called
<1>10. ~SysExit
  BY DEF SysExit, Alive
<1>11. ASSUME NEW fd \in Fds, NEW buf \in Addresses, SysFstat(fd, buf) PROVE Files!Next
  <2>1. EntryOf(ToInt(fd)) # 0 /\ UNCHANGED file_table
    BY <1>2, <1>11 DEF SysFstat, files
  <2>2. phase' = "running"
    BY <1>11, <2>1 DEF SysFstat, Alive, M!BulkWrite, M!WriteFrom, M!WriteFromUnchecked, M!Abort
  <2>3. CASE buf + StatBytes < AddrSpace
    BY <1>11, <2>1, <2>2, <2>3, StatRefines, SameFiles DEF Files!Next, Files!Called
  <2>4. CASE ~(buf + StatBytes < AddrSpace)
    <3>1. call' = Call("fstat", fd, buf, StatBytes, 0, <<>>)
      BY <1>11, <2>1, <2>2 DEF SysFstat, Return
    <3>2. buf + StatBytes >= AddrSpace
      BY <2>4, SyscallsAssumption, MemoryAssumption, HalfOfSpace DEF Unsigned
    <3>3. ~Answered'
      BY <3>1, <3>2 DEF Answered, Call
    <3>4. LastAnswer' = Files!None
      BY <3>3 DEF LastAnswer, Files!None
    <3> QED
      BY <2>1, <3>4, OtherRefines
  <2> QED
    BY <2>3, <2>4
<1>12. ASSUME NEW fd \in Fds, NEW o \in Offsets, NEW w \in {"SEEK_SET", "SEEK_CUR", "SEEK_END"},
              SysLseek(fd, o, w)
       PROVE  Files!Next
  <2>1. CASE EntryOf(fd) # 0
    BY <1>12, <2>1, SeekRefines DEF Files!Next, Files!Called
  <2>2. CASE EntryOf(fd) = 0
    <3>1. /\ UNCHANGED file_table /\ a0' = MinusOne
          /\ call' = Call("lseek", fd, 0, 0, 0, <<>>)
      BY <1>12, <2>2 DEF SysLseek, Return
    <3>2. LastAnswer' = [op |-> "lseek", fd |-> fd, value |-> MinusOne]
      BY <3>1, AnswerValue DEF Call
    <3>3. fd \notin DOMAIN OpenFiles
      <4> SUFFICES ASSUME fd \in DOMAIN OpenFiles PROVE FALSE
        OBVIOUS
      <4>1. PICK i \in 1 .. Len(file_table) : fd = file_table[i].fd
        BY TableMeaning DEF Meaning
      <4> QED
        BY <2>2, <4>1, EntryIs
    <3>4. Files!SeekUnknown(LastAnswer'.fd) /\ LastAnswer'.op = "lseek"
      BY <3>1, <3>2, <3>3, SameFiles DEF Files!SeekUnknown, Files!Answers
    <3> QED
      BY <3>4 DEF Files!Next, Files!Called
  <2> QED
    BY <2>1, <2>2
<1>13. ASSUME NEW fd \in Fds, NEW buf \in Addresses, NEW n \in Counts, SysRead(fd, buf, n)
       PROVE  Files!Next
  <2>1. EntryOf(fd) # 0
    BY <1>2, <1>13 DEF SysRead
  <2>2. phase' = "running"
    <3>1. phase = "running"
      BY <1>13 DEF SysRead, Running
    <3>2. ASSUME NEW a, NEW k, NEW b, M!BulkWrite(a, k, b) PROVE phase' = "running"
      BY <3>1, <3>2 DEF Alive, M!BulkWrite, M!WriteFrom, M!WriteFromUnchecked, M!Abort
    <3>3. UNCHANGED memory \/ \E a, k, b : M!BulkWrite(a, k, b)
      BY <1>2, <1>13, <2>1 DEF SysRead
    <3> QED
      BY <3>1, <3>2, <3>3 DEF memory
  <2>3. /\ fd \in DOMAIN OpenFiles /\ LastAnswer'.op = "read" /\ LastAnswer'.fd = fd
        /\ Files!ReadOutside(fd) \/ Files!Read(fd, n)
    BY <1>2, <1>13, <2>1, <2>2, ReadRefines
  <2> QED
    BY <2>3 DEF Files!Next, Files!Called
<1>14. ~(SysOpenMissing \/ Unsupported \/ \E fd \in Fds : SysLseekBadWhence(fd))
  BY <1>2 DEF SysOpenMissing, Unsupported, SysLseekBadWhence
<1> QED
  BY <1>4, <1>5, <1>6, <1>7, <1>8, <1>9, <1>10, <1>11, <1>12, <1>13, <1>14
     DEF Next, SysOpenAny

LEMMA InitRefines == Init => Files!Init
<1> SUFFICES ASSUME Init PROVE Files!Init
  OBVIOUS
<1>1. Meaning
  BY InitTable, TableMeaning
<1>2. file_table = <<FileHandle(0, <<>>, 0), FileHandle(1, <<>>, 0), FileHandle(2, <<>>, 0)>>
  BY DEF Init
<1>3. /\ Len(file_table) = 3
      /\ \A i \in 1 .. 3 : /\ file_table[i].fd = i - 1
                          /\ View(file_table[i]) = [data |-> <<>>, pos |-> 0, sized |-> TRUE]
  <2> DEFINE h(fd) == FileHandle(fd, <<>>, 0)
  <2>1. MinusOne # 0
    BY SyscallsAssumption, HalfOfSpace DEF MinusOne
  <2>2. \A fd : h(fd).fd = fd /\ View(h(fd)) = [data |-> <<>>, pos |-> 0, sized |-> TRUE]
    BY <2>1 DEF FileHandle, View, Sized
  <2> HIDE DEF h
  <2>3. /\ Len(file_table) = 3
        /\ file_table[1] = h(0) /\ file_table[2] = h(1) /\ file_table[3] = h(2)
    BY <1>2 DEF h
  <2> QED
    BY <2>2, <2>3
<1>4. DOMAIN OpenFiles = 0 .. 2
  <2>1. DOMAIN OpenFiles = {file_table[i].fd : i \in 1 .. 3}
    BY <1>1, <1>3 DEF Meaning
  <2>2. \A x \in 0 .. 2 : x + 1 \in 1 .. 3 /\ file_table[x + 1].fd = x
    BY <1>3
  <2>3. \A i \in 1 .. 3 : file_table[i].fd \in 0 .. 2
    BY <1>3
  <2> QED
    BY <2>1, <2>2, <2>3
<1>5. \A x \in 0 .. 2 : OpenFiles[x] = [data |-> <<>>, pos |-> 0, sized |-> TRUE]
  <2> SUFFICES ASSUME NEW x \in 0 .. 2 PROVE OpenFiles[x] = [data |-> <<>>, pos |-> 0, sized |-> TRUE]
    OBVIOUS
  <2>1. x + 1 \in 1 .. 3 /\ file_table[x + 1].fd = x
    BY <1>3
  <2> QED
    BY <1>1, <1>3, <2>1 DEF Meaning
<1>6. OpenFiles = [x \in 0 .. 2 |-> [data |-> <<>>, pos |-> 0, sized |-> TRUE]]
  <2>1. OpenFiles = [x \in 0 .. 2 |-> OpenFiles[x]]
    BY <1>1, <1>4 DEF Meaning
  <2> QED
    BY <1>5, <2>1
<1>7. LastAnswer = Files!None
  BY DEF Init, LastAnswer, Answered, FileCalls, NoCall, Call, Files!None
<1>8. Alive = TRUE
  BY DEF Init, M!Init, Alive
<1> QED
  BY <1>6, <1>7, <1>8 DEF Files!Init

(* The vector of handles, searched, erased from and copied out of with      *)
(* sums that wrap, implements the function from descriptors to files.       *)
THEOREM FilesImplemented == Spec => FilesAreTable
<1>1. TableInv /\ TableInv' /\ CallInv /\ [Next]_vars => [Files!Next]_(Files!vars)
  <2> SUFFICES ASSUME TableInv, TableInv', CallInv, [Next]_vars
               PROVE  [Files!Next]_(Files!vars)
    OBVIOUS
  <2>1. CASE UNCHANGED vars
    <3>1. UNCHANGED <<OpenFiles, Alive>>
      BY <2>1, SameFiles DEF vars, memory, Alive
    <3>2. UNCHANGED LastAnswer
      BY <2>1 DEF vars, memory, LastAnswer, Answered
    <3> QED
      BY <3>1, <3>2 DEF Files!vars
  <2>2. CASE Next /\ Alive /\ Alive'
    BY <2>2, StepRefines
  <2>3. CASE Next /\ Alive /\ ~Alive'
    <3>1. Alive' = FALSE
      BY <2>3 DEF Alive
    <3> QED
      BY <2>3, <3>1 DEF Files!Next, Files!Stop
  <2> QED
    BY <2>1, <2>2, <2>3, DeadStays
<1> QED
  BY <1>1, InitRefines, TableInvariant, CallInvariant, PTL DEF Spec, FilesAreTable, Files!Spec

-----------------------------------------------------------------------------
(***************************************************************************)
(* What the constructor leaves for the guest.  The strings are allocated   *)
(* above the stack, each above the ones before it, and the pushes go       *)
(* downwards from its top, so that neither meets what is already there.    *)
(* The constructor never looks at the size of its stack: the arguments are *)
(* assumed to fit it, as in the code some 131 000 do (1 MB, 8 bytes each). *)
(***************************************************************************)
Argv == <<ProgName>> \o args
ArgsFitStack == \A l \in ArgLists : RegBytes * (Len(l) + 5) <= StackSize

(* The first d steps of the constructor have been done. *)
Done(d) == todo = SubSeq(Layout(args), d + 1, Len(Layout(args)))

(* k registers have been pushed, and there is room for the others. *)
Room(k) ==
    /\ sp \in Nat
    /\ sp + RegBytes * k <= alloc_ptr /\ alloc_ptr < RamSize
    /\ RegBytes * (Len(args) + 5 - k) <= sp

(* j arguments are in place, their strings below top; they are the last j   *)
(* of argv, and the lowest on the stack.                                    *)
InPlace(j, i, top) ==
    \E a \in 0 .. RamSize - 1 :
        /\ Slot(i - 1) = Reg(a)
        /\ StringAt(a, Argv[Len(args) + 1 - j + i])
        /\ sp + RegBytes * (j + 3) <= a
        /\ a + Len(Argv[Len(args) + 1 - j + i]) < top
Pushed(j, top) ==
    /\ Room(j + 3)
    /\ sp + RegBytes * (j + 3) <= top /\ top <= alloc_ptr
    /\ Slot(j) = Reg(0)
    /\ \A i \in 1 .. j : InPlace(j, i, top)

(* The places of the constructor: before and after the stack is allocated,  *)
(* and before, between and after the three steps of an argument.            *)
Fresh == Done(0)
Zeros(d) == Done(d) /\ Room(d - 1)
Ready(j) == Done(4 + 3 * j) /\ Pushed(j, alloc_ptr)
Allocated(j) == Done(5 + 3 * j) /\ ptr \in Nat /\ Pushed(j, ptr)
Written(j) ==
    /\ Done(6 + 3 * j) /\ ptr \in Nat /\ Pushed(j, ptr)
    /\ StringAt(ptr, Argv[Len(args) + 1 - j])
    /\ ptr + Len(Argv[Len(args) + 1 - j]) < alloc_ptr

StartInv ==
    /\ args \in ArgLists
    /\ phase = "loading" => Fresh
    /\ phase = "running" /\ todo # <<>> =>
          \/ Fresh
          \/ \E d \in 1 .. 3 : Zeros(d)
          \/ \E j \in 0 .. Len(args) + 1 : Ready(j)
          \/ \E j \in 0 .. Len(args) : Allocated(j) \/ Written(j)

(* Induction over the natural numbers, for sets, from the least element of  *)
(* the numbers outside the set.                                             *)
LEMMA SetInduction ==
    ASSUME NEW T, 0 \in T, \A k \in Nat : k \in T => k + 1 \in T
    PROVE  \A k \in Nat : k \in T
<1> DEFINE R == OpToRel(<, Nat)
           Outside == Nat \ T
<1> SUFFICES ASSUME NEW z \in Outside PROVE FALSE
  OBVIOUS
<1>1. IsWellFoundedOn(R, Nat)
  BY NatLessThanWellFounded
<1>2. \A x, y \in Nat : x < y => <<x, y>> \in R
  BY DEF OpToRel
<1> HIDE DEF R
<1>3. PICK x \in Outside : \A y \in Outside : <<y, x>> \notin R
  <2>1. Outside \in SUBSET Nat /\ Outside # {}
    OBVIOUS
  <2> HIDE DEF Outside
  <2> QED
    BY <1>1, <2>1, WFMin
<1>4. x # 0 /\ x \in Nat
  BY <1>3
<1>5. x - 1 \in Nat /\ x - 1 < x
  BY <1>4
<1>6. x - 1 \notin Outside
  BY <1>2, <1>3, <1>4, <1>5
<1> QED
  BY <1>3, <1>4, <1>5, <1>6

LEMMA FunctionIsSeq ==
    ASSUME NEW E, NEW n \in Nat, NEW u \in [1 .. n -> E]
    PROVE  u \in Seq(E) /\ Len(u) = n
OBVIOUS

(* Concatenation, element by element. *)
LEMMA ConcatIs ==
    ASSUME NEW E, NEW t \in Seq(E), NEW u \in Seq(E)
    PROVE  /\ t \o u \in Seq(E) /\ Len(t \o u) = Len(t) + Len(u)
           /\ \A p \in 1 .. Len(t) : (t \o u)[p] = t[p]
           /\ \A p \in 1 .. Len(u) : (t \o u)[Len(t) + p] = u[p]
BY ConcatProperties, LenProperties

(* FlattenSeq of sequences of three: the recursion has the obvious solution *)
(* and no other.                                                            *)
LEMMA FlattenThrees ==
    ASSUME NEW E, NEW s, NEW n \in Nat, s \in [1 .. n -> [1 .. 3 -> E]]
    PROVE  FlattenSeq(s) =
             [p \in 1 .. 3 * n |-> s[1 + ((p - 1) \div 3)][1 + ((p - 1) % 3)]]
<1> DEFINE Flat(i) == [p \in 1 .. 3 * i |-> s[1 + ((p - 1) \div 3)][1 + ((p - 1) % 3)]]
           Solves(f) == f = [i \in 1 .. n |-> IF i = 1 THEN s[i] ELSE f[i - 1] \o s[i]]
           flat == CHOOSE f : Solves(f)
<1>1. s \in Seq([1 .. 3 -> E]) /\ Len(s) = n
  OBVIOUS
<1>2. CASE n = 0
  BY <1>1, <1>2 DEF FlattenSeq
<1>3. CASE n # 0
  <2>1. FlattenSeq(s) = flat[n]
    BY <1>1, <1>3 DEF FlattenSeq
  <2>2. ASSUME NEW i \in 1 .. n PROVE Flat(i) \in Seq(E) /\ Len(Flat(i)) = 3 * i
    <3>1. ASSUME NEW p \in 1 .. 3 * i PROVE s[1 + ((p - 1) \div 3)][1 + ((p - 1) % 3)] \in E
      <4>1. 1 + ((p - 1) \div 3) \in 1 .. n /\ 1 + ((p - 1) % 3) \in 1 .. 3
        BY <2>2, <3>1
      <4> QED
        BY <4>1
    <3>2. 3 * i \in Nat
      OBVIOUS
    <3> QED
      BY <3>1, <3>2
  <2>3. Flat(1) = s[1]
    <3>1. s[1] \in [1 .. 3 -> E]
      BY <1>3
    <3>2. \A p \in 1 .. 3 : 1 + ((p - 1) \div 3) = 1 /\ 1 + ((p - 1) % 3) = p
      OBVIOUS
    <3> QED
      BY <3>1, <3>2
  <2>4. ASSUME NEW i \in 1 .. n, i # 1 PROVE Flat(i - 1) \o s[i] = Flat(i)
    <3>1. i - 1 \in 1 .. n /\ i \in Nat
      BY <2>4
    <3>2. s[i] \in [1 .. 3 -> E]
      BY <2>4
    <3>3. s[i] \in Seq(E) /\ Len(s[i]) = 3
      <4> DEFINE u == s[i]
      <4>1. u \in [1 .. 3 -> E]
        BY <3>2
      <4> HIDE DEF u
      <4>2. u \in Seq(E) /\ Len(u) = 3
        BY <4>1, FunctionIsSeq
      <4> QED
        BY <4>2 DEF u
    <3>4. Flat(i - 1) \in Seq(E) /\ Len(Flat(i - 1)) = 3 * (i - 1)
      BY <2>2, <3>1
    <3>5. Flat(i - 1) \o s[i] \in Seq(E) /\ Len(Flat(i - 1) \o s[i]) = 3 * i
      <4> HIDE DEF Flat
      <4>1. Flat(i - 1) \o s[i] \in Seq(E) /\ Len(Flat(i - 1) \o s[i]) = 3 * (i - 1) + 3
        <5>1. s[i] \in Seq(E) /\ Flat(i - 1) \in Seq(E)
          BY <3>3, <3>4
        <5>2. Flat(i - 1) \o s[i] \in Seq(E)
              /\ Len(Flat(i - 1) \o s[i]) = Len(Flat(i - 1)) + Len(s[i])
          BY ONLY <5>1, ConcatIs
        <5> QED
          BY <3>3, <3>4, <5>2
      <4> QED
        BY <3>1, <4>1
    <3>6. Flat(i) \in Seq(E) /\ Len(Flat(i)) = 3 * i
      BY <2>2
    <3>7. ASSUME NEW p \in 1 .. 3 * i PROVE (Flat(i - 1) \o s[i])[p] = Flat(i)[p]
      <4> DEFINE t == Flat(i - 1)
      <4>0. t \in Seq(E) /\ Len(t) = 3 * (i - 1)
        BY <3>4
      <4>1. CASE p <= 3 * (i - 1)
        <5>1. p \in 1 .. 3 * (i - 1) /\ t[p] = Flat(i)[p]
          BY <3>1, <3>7, <4>1
        <5> HIDE DEF t
        <5>2. (t \o s[i])[p] = t[p]
          BY <3>1, <3>3, <4>0, <4>1, <5>1
        <5> QED
          BY <5>1, <5>2 DEF t
      <4>2. CASE p > 3 * (i - 1)
        <5>1. 1 + ((p - 1) \div 3) = i /\ 1 + ((p - 1) % 3) = p - 3 * (i - 1)
          BY <3>1, <3>7, <4>2
        <5>2. Flat(i)[p] = s[i][p - 3 * (i - 1)]
          BY <3>7, <5>1
        <5> HIDE DEF t
        <5>3. (t \o s[i])[p] = s[i][p - 3 * (i - 1)]
          <6> DEFINE q == p - 3 * (i - 1)
          <6>1. q \in 1 .. 3 /\ p = 3 * (i - 1) + q
            BY <3>1, <3>7, <4>2
          <6> HIDE DEF q
          <6>2. (t \o s[i])[Len(t) + q] = s[i][q]
            <7>1. q \in 1 .. Len(s[i]) /\ s[i] \in Seq(E) /\ t \in Seq(E)
              BY <3>3, <4>0, <6>1
            <7> QED
              BY ONLY <7>1, ConcatIs
          <6> QED
            BY <4>0, <6>1, <6>2 DEF q
        <5> QED
          BY <5>2, <5>3 DEF t
      <4>3. p <= 3 * (i - 1) \/ p > 3 * (i - 1)
        BY <3>1, <3>7
      <4> HIDE DEF Flat
      <4> QED
        BY <4>1, <4>2, <4>3
    <3> HIDE DEF Flat
    <3> QED
      BY <3>5, <3>6, <3>7, SeqEqual
  <2>5. Solves([i \in 1 .. n |-> Flat(i)])
    <3> HIDE DEF Flat
    <3>1. \A i \in 1 .. n : i # 1 => i - 1 \in 1 .. n
      BY ONLY n \in Nat
    <3> QED
      BY <2>3, <2>4, <3>1, Zenon
  <2>6. Solves(flat)
    BY <2>5, Zenon
  <2> HIDE DEF flat, Flat
  <2>7. flat[1] = s[1] /\ \A i \in 1 .. n : i # 1 => flat[i] = flat[i - 1] \o s[i]
    <3>1. 1 \in 1 .. n
      BY <1>3
    <3>2. \A i \in 1 .. n : flat[i] = IF i = 1 THEN s[i] ELSE flat[i - 1] \o s[i]
      BY <2>6
    <3> HIDE DEF Solves
    <3> QED
      BY <3>1, <3>2
  <2> DEFINE T == {i \in Nat : i + 1 <= n => flat[i + 1] = Flat(i + 1)}
  <2>8. 0 \in T
    BY <2>3, <2>7
  <2>9. ASSUME NEW k \in Nat, k \in T PROVE k + 1 \in T
    <3> SUFFICES ASSUME k + 2 <= n PROVE flat[k + 2] = Flat(k + 2)
      OBVIOUS
    <3>1. flat[k + 1] = Flat(k + 1) /\ k + 2 \in 1 .. n /\ k + 2 # 1 /\ (k + 2) - 1 = k + 1
      BY <2>9
    <3> QED
      BY <2>4, <2>7, <3>1
  <2>10. n - 1 \in T
    <3>1. n - 1 \in Nat
      BY <1>3
    <3> HIDE DEF T
    <3> QED
      BY <2>8, <2>9, <3>1, SetInduction
  <2> QED
    BY <1>3, <2>1, <2>10 DEF Flat
<1> QED
  BY <1>2, <1>3

(* The list of the constructor's steps, element by element. *)
Strings == Seq(1 .. ByteBase - 1)
Ops == {"stack", "push_zero", "allocate", "write", "push_ptr", "push_argc"}
Step == [op : Ops, s : Strings]

LEMMA DoIsStep ==
    ASSUME NEW op \in Ops, NEW s \in Strings
    PROVE  Do(op, s) \in Step
BY DEF Do, Step

LEMMA PassStringIs ==
    ASSUME NEW s \in Strings
    PROVE  /\ PassString(s) \in [1 .. 3 -> Step]
           /\ PassString(s)[1] = Do("allocate", <<>>)
           /\ PassString(s)[2] = Do("write", s)
           /\ PassString(s)[3] = Do("push_ptr", <<>>)
<1>1. <<>> \in Strings
  BY DEF Strings
<1>2. Do("allocate", <<>>) \in Step /\ Do("write", s) \in Step /\ Do("push_ptr", <<>>) \in Step
  BY <1>1, DoIsStep DEF Ops
<1> QED
  BY <1>2 DEF PassString

LEMMA PassArgsIs ==
    ASSUME NEW l \in Seq(Strings)
    PROVE  /\ PassArgs(l) \in Seq(Step) /\ Len(PassArgs(l)) = 3 * Len(l)
           /\ \A j \in 0 .. Len(l) - 1 :
                 /\ PassArgs(l)[3 * j + 1] = Do("allocate", <<>>)
                 /\ PassArgs(l)[3 * j + 2] = Do("write", l[Len(l) - j])
                 /\ PassArgs(l)[3 * j + 3] = Do("push_ptr", <<>>)
<1> DEFINE n == Len(l)
           s == [i \in 1 .. n |-> PassString(l[n + 1 - i])]
           El(p) == s[1 + ((p - 1) \div 3)][1 + ((p - 1) % 3)]
           Flat == [p \in 1 .. 3 * n |-> El(p)]
<1>1. n \in Nat /\ \A i \in 1 .. n : l[i] \in Strings
  BY LenProperties, ElementOfSeq
<1>2. s \in [1 .. n -> [1 .. 3 -> Step]]
  BY <1>1, PassStringIs
<1>3. PassArgs(l) = Flat
  <2>1. PassArgs(l) = FlattenSeq(s)
    BY DEF PassArgs
  <2> HIDE DEF s
  <2> QED
    BY <1>1, <1>2, <2>1, FlattenThrees
<1>4. ASSUME NEW p \in 1 .. 3 * n PROVE El(p) \in Step
  <2>1. 1 + ((p - 1) \div 3) \in 1 .. n /\ 1 + ((p - 1) % 3) \in 1 .. 3
    BY <1>1, <1>4
  <2> HIDE DEF s
  <2> QED
    BY <1>2, <2>1
<1>5. Flat \in Seq(Step) /\ Len(Flat) = 3 * n
  <2>1. Flat \in [1 .. 3 * n -> Step] /\ 3 * n \in Nat
    <3> HIDE DEF El
    <3> QED
      BY <1>1, <1>4
  <2> HIDE DEF Flat
  <2> QED
    BY <2>1, FunctionIsSeq
<1>6. ASSUME NEW j \in 0 .. n - 1, NEW k \in 1 .. 3
      PROVE  Flat[3 * j + k] = PassString(l[n - j])[k]
  <2>1. 3 * j + k \in 1 .. 3 * n /\ 1 + ((3 * j + k - 1) \div 3) = j + 1
        /\ 1 + ((3 * j + k - 1) % 3) = k
    BY <1>1, <1>6
  <2>2. j + 1 \in 1 .. n /\ n + 1 - (j + 1) = n - j
    BY <1>1, <1>6
  <2>3. s[j + 1] = PassString(l[n - j])
    BY <2>2
  <2> HIDE DEF s
  <2> QED
    BY <2>1, <2>3
<1>7. ASSUME NEW j \in 0 .. n - 1
      PROVE  /\ Flat[3 * j + 1] = Do("allocate", <<>>)
             /\ Flat[3 * j + 2] = Do("write", l[n - j])
             /\ Flat[3 * j + 3] = Do("push_ptr", <<>>)
  <2>1. l[n - j] \in Strings
    BY <1>1, <1>7
  <2> HIDE DEF Flat, n
  <2>2. /\ Flat[3 * j + 1] = PassString(l[n - j])[1]
        /\ Flat[3 * j + 2] = PassString(l[n - j])[2]
        /\ Flat[3 * j + 3] = PassString(l[n - j])[3]
    BY <1>6
  <2> QED
    BY <2>1, <2>2, PassStringIs
<1> HIDE DEF Flat
<1> QED
  BY <1>3, <1>5, <1>7

LEMMA ArgvIs ==
    ASSUME NEW l \in Seq(Strings)
    PROVE  LET v == <<ProgName>> \o l
           IN  /\ v \in Seq(Strings) /\ Len(v) = Len(l) + 1
               /\ v[1] = ProgName
               /\ \A i \in 1 .. Len(l) : v[i + 1] = l[i]
<1>1. <<ProgName>> \in Seq(Strings) /\ Len(<<ProgName>>) = 1 /\ <<ProgName>>[1] = ProgName
  BY SyscallsAssumption DEF Strings
<1> DEFINE t == <<ProgName>>
<1> HIDE DEF t
<1>2. t \in Seq(Strings) /\ Len(t) = 1 /\ t[1] = ProgName /\ Len(l) \in Nat
  BY <1>1, LenProperties DEF t
<1>3. /\ t \o l \in Seq(Strings) /\ Len(t \o l) = 1 + Len(l)
      /\ (t \o l)[1] = t[1]
      /\ \A i \in 1 .. Len(l) : (t \o l)[1 + i] = l[i]
  BY <1>2, ConcatIs
<1> QED
  BY <1>2, <1>3 DEF t

LEMMA LayoutIs ==
    ASSUME NEW l \in Seq(Strings)
    PROVE  /\ Layout(l) \in Seq(Step) /\ Len(Layout(l)) = 3 * Len(l) + 8
           /\ Layout(l)[1] = Do("stack", <<>>)
           /\ \A p \in 2 .. 4 : Layout(l)[p] = Do("push_zero", <<>>)
           /\ \A j \in 0 .. Len(l) :
                 /\ Layout(l)[5 + 3 * j] = Do("allocate", <<>>)
                 /\ Layout(l)[6 + 3 * j] = Do("write", (<<ProgName>> \o l)[Len(l) + 1 - j])
                 /\ Layout(l)[7 + 3 * j] = Do("push_ptr", <<>>)
           /\ Layout(l)[3 * Len(l) + 8] = Do("push_argc", <<>>)
<1> DEFINE n == Len(l)
           A == <<Do("stack", <<>>), Do("push_zero", <<>>), Do("push_zero", <<>>), Do("push_zero", <<>>)>>
           B == PassArgs(l)
           C == PassString(ProgName)
           D == <<Do("push_argc", <<>>)>>
           v == <<ProgName>> \o l
<1>1. n \in Nat
  BY LenProperties
<1>2. <<>> \in Strings /\ ProgName \in Strings
  BY SyscallsAssumption DEF Strings
<1>3. /\ Do("stack", <<>>) \in Step /\ Do("push_zero", <<>>) \in Step
      /\ Do("push_argc", <<>>) \in Step
  BY <1>2, DoIsStep DEF Ops
<1>4. A \in Seq(Step) /\ Len(A) = 4 /\ A[1] = Do("stack", <<>>)
      /\ \A p \in 2 .. 4 : A[p] = Do("push_zero", <<>>)
  BY <1>3
<1>5. D \in Seq(Step) /\ Len(D) = 1 /\ D[1] = Do("push_argc", <<>>)
  BY <1>3
<1>6. C \in Seq(Step) /\ Len(C) = 3
  <2>1. C \in [1 .. 3 -> Step]
    BY <1>2, PassStringIs
  <2> HIDE DEF C
  <2> QED
    BY <2>1, FunctionIsSeq
<1>7. B \in Seq(Step) /\ Len(B) = 3 * n
  BY PassArgsIs
<1>8. Layout(l) = ((A \o B) \o C) \o D
  BY DEF Layout
<1>9. \A j \in 0 .. n - 1 : v[n + 1 - j] = l[n - j]
  <2>1. \A i \in 1 .. n : v[i + 1] = l[i]
    BY ArgvIs
  <2> HIDE DEF v
  <2> SUFFICES ASSUME NEW j \in 0 .. n - 1 PROVE v[n + 1 - j] = l[n - j]
    OBVIOUS
  <2>2. n - j \in 1 .. n /\ (n - j) + 1 = n + 1 - j
    BY <1>1
  <2> QED
    BY <2>1, <2>2
<1>10. v[n + 1 - n] = ProgName
  BY <1>1, ArgvIs
<1>11. C[1] = Do("allocate", <<>>) /\ C[2] = Do("write", ProgName) /\ C[3] = Do("push_ptr", <<>>)
  BY <1>2, PassStringIs
<1>12. ASSUME NEW j \in 0 .. n - 1
       PROVE  /\ B[3 * j + 1] = Do("allocate", <<>>)
              /\ B[3 * j + 2] = Do("write", l[n - j])
              /\ B[3 * j + 3] = Do("push_ptr", <<>>)
  BY <1>12, PassArgsIs
<1> DEFINE AB == A \o B
           ABC == AB \o C
           Z == ABC \o D
<1> HIDE DEF A, B, C, D, v
<1>13. /\ AB \in Seq(Step) /\ Len(AB) = 4 + 3 * n
       /\ \A p \in 1 .. 4 : AB[p] = A[p]
       /\ \A p \in 1 .. 3 * n : AB[4 + p] = B[p]
  <2>1. /\ A \o B \in Seq(Step) /\ Len(A \o B) = Len(A) + Len(B)
        /\ \A p \in 1 .. Len(A) : (A \o B)[p] = A[p]
        /\ \A p \in 1 .. Len(B) : (A \o B)[Len(A) + p] = B[p]
    <3>1. A \in Seq(Step) /\ B \in Seq(Step)
      BY <1>4, <1>7
    <3> QED
      BY ONLY <3>1, ConcatIs
  <2> QED
    BY <1>4, <1>7, <2>1
<1> HIDE DEF AB
<1>14. /\ ABC \in Seq(Step) /\ Len(ABC) = 7 + 3 * n
       /\ \A p \in 1 .. 4 + 3 * n : ABC[p] = AB[p]
       /\ \A p \in 1 .. 3 : ABC[4 + 3 * n + p] = C[p]
  <2>1. /\ AB \o C \in Seq(Step) /\ Len(AB \o C) = Len(AB) + Len(C)
        /\ \A p \in 1 .. Len(AB) : (AB \o C)[p] = AB[p]
        /\ \A p \in 1 .. Len(C) : (AB \o C)[Len(AB) + p] = C[p]
    <3>1. AB \in Seq(Step) /\ C \in Seq(Step)
      BY <1>6, <1>13
    <3> QED
      BY ONLY <3>1, ConcatIs
  <2> QED
    BY <1>1, <1>6, <1>13, <2>1
<1> HIDE DEF ABC
<1>15. /\ Z \in Seq(Step) /\ Len(Z) = 8 + 3 * n
       /\ \A p \in 1 .. 7 + 3 * n : Z[p] = ABC[p]
       /\ Z[8 + 3 * n] = D[1]
  <2>1. /\ ABC \o D \in Seq(Step) /\ Len(ABC \o D) = Len(ABC) + Len(D)
        /\ \A p \in 1 .. Len(ABC) : (ABC \o D)[p] = ABC[p]
        /\ \A p \in 1 .. Len(D) : (ABC \o D)[Len(ABC) + p] = D[p]
    <3>1. ABC \in Seq(Step) /\ D \in Seq(Step)
      BY <1>5, <1>14
    <3> QED
      BY ONLY <3>1, ConcatIs
  <2>2. (7 + 3 * n) + 1 = 8 + 3 * n /\ 1 \in 1 .. Len(D)
    BY <1>1, <1>5
  <2> QED
    BY <1>1, <1>5, <1>14, <2>1, <2>2, SMTT(20)
<1>16. Layout(l) = Z
  BY <1>8 DEF AB, ABC
<1> HIDE DEF Z, n
<1>17. Z[1] = A[1] /\ \A p \in 2 .. 4 : Z[p] = A[p]
  BY <1>1, <1>13, <1>14, <1>15
<1>18. ASSUME NEW j \in 0 .. n - 1, NEW k \in 1 .. 3 PROVE Z[4 + 3 * j + k] = B[3 * j + k]
  <2>1. 3 * j + k \in 1 .. 3 * n /\ 4 + (3 * j + k) = 4 + 3 * j + k
    BY <1>1, <1>18
  <2>2. 4 + 3 * j + k \in 1 .. 4 + 3 * n /\ 4 + 3 * j + k \in 1 .. 7 + 3 * n
    BY <1>1, <1>18
  <2> QED
    BY <1>13, <1>14, <1>15, <2>1, <2>2
<1>19. ASSUME NEW k \in 1 .. 3 PROVE Z[4 + 3 * n + k] = C[k]
  <2>1. 4 + 3 * n + k \in 1 .. 7 + 3 * n
    BY <1>1, <1>19
  <2> QED
    BY <1>14, <1>15, <2>1
<1>20. ASSUME NEW j \in 0 .. n
       PROVE  /\ Z[5 + 3 * j] = Do("allocate", <<>>)
              /\ Z[6 + 3 * j] = Do("write", v[n + 1 - j])
              /\ Z[7 + 3 * j] = Do("push_ptr", <<>>)
  <2>1. 4 + 3 * j + 1 = 5 + 3 * j /\ 4 + 3 * j + 2 = 6 + 3 * j /\ 4 + 3 * j + 3 = 7 + 3 * j
    BY <1>20, <1>1
  <2>2. CASE j = n
    <3>1. Z[4 + 3 * n + 1] = C[1] /\ Z[4 + 3 * n + 2] = C[2] /\ Z[4 + 3 * n + 3] = C[3]
      BY <1>19
    <3> QED
      BY <1>10, <1>11, <2>1, <2>2, <3>1
  <2>3. CASE j # n
    <3>1. j \in 0 .. n - 1
      BY <1>1, <1>20, <2>3
    <3>2. /\ Z[4 + 3 * j + 1] = B[3 * j + 1] /\ Z[4 + 3 * j + 2] = B[3 * j + 2]
          /\ Z[4 + 3 * j + 3] = B[3 * j + 3]
      BY <1>18, <3>1
    <3> QED
      BY <1>9, <1>12, <2>1, <3>1, <3>2
  <2> QED
    BY <2>2, <2>3
<1>21. 8 + 3 * n = 3 * n + 8
  BY <1>1
<1> QED
  BY <1>4, <1>5, <1>15, <1>16, <1>17, <1>20, <1>21 DEF n, v

(* Steps are taken from the front of the list. *)
LEMMA StepOff ==
    ASSUME NEW l \in Seq(Strings), NEW d \in 0 .. Len(Layout(l)) - 1, NEW t,
           t = SubSeq(Layout(l), d + 1, Len(Layout(l)))
    PROVE  /\ t # <<>> /\ Head(t) = Layout(l)[d + 1]
           /\ Tail(t) = SubSeq(Layout(l), d + 2, Len(Layout(l)))
<1> DEFINE L == Layout(l)
           n == Len(L)
<1>1. L \in Seq(Step) /\ n \in Nat
  BY LayoutIs, LenProperties
<1> HIDE DEF L
<1>2. /\ t \in Seq(Step) /\ Len(t) = n - d
      /\ \A i \in 1 .. n - d : t[i] = L[d + i]
  BY <1>1, SubSeqProperties DEF L
<1>3. t # <<>> /\ Head(t) = t[1] /\ t[1] = L[d + 1]
  <2>1. d \in Nat /\ n - d \in Nat /\ 1 <= n - d
    BY <1>1 DEF L
  <2>2. t[1] = L[d + 1]
    BY <1>2, <2>1
  <2>3. t # <<>> /\ Head(t) = t[1]
    <3>1. t \in Seq(Step) /\ Len(t) # 0
      BY <1>2, <2>1
    <3> QED
      BY ONLY <3>1, HeadTailProperties
  <2> QED
    BY <2>2, <2>3
<1>4. /\ Tail(t) \in Seq(Step) /\ Len(Tail(t)) = n - d - 1
      /\ \A i \in 1 .. n - d - 1 : Tail(t)[i] = t[i + 1]
  BY <1>1, <1>2, <1>3, HeadTailProperties DEF L
<1> DEFINE u == SubSeq(L, d + 2, n)
<1>5. /\ u \in Seq(Step) /\ Len(u) = n - d - 1
      /\ \A i \in 1 .. n - d - 1 : u[i] = L[d + 1 + i]
  BY <1>1, SubSeqProperties DEF L
<1> HIDE DEF u
<1>6. ASSUME NEW i \in 1 .. n - d - 1 PROVE Tail(t)[i] = u[i]
  <2>1. i + 1 \in 1 .. n - d /\ d + (i + 1) = d + 1 + i
    BY <1>1, <1>6 DEF L
  <2> QED
    BY <1>2, <1>4, <1>5, <2>1
<1>7. Tail(t) = u
  BY <1>4, <1>5, <1>6, SeqEqual
<1> QED
  BY <1>3, <1>7 DEF L, u

LEMMA ListsTyped ==
    ASSUME NEW l \in ArgLists
    PROVE  /\ l \in Seq(Strings) /\ Len(l) \in Nat
           /\ Len(Layout(l)) = 3 * Len(l) + 8
BY SyscallsAssumption, LenProperties, LayoutIs DEF Strings

(* At place d of the constructor, step d + 1 comes next. *)
LEMMA AtPlace ==
    ASSUME args \in ArgLists, NEW d \in 0 .. 3 * Len(args) + 7, Done(d)
    PROVE  /\ todo # <<>> /\ Head(todo) = Layout(args)[d + 1]
           /\ StartStep => Done(d + 1)'
<1>1. /\ args \in Seq(Strings) /\ Len(args) \in Nat
      /\ Len(Layout(args)) = 3 * Len(args) + 8
  BY ListsTyped
<1>2. d \in 0 .. Len(Layout(args)) - 1
  BY <1>1
<1>3. todo = SubSeq(Layout(args), d + 1, Len(Layout(args)))
  BY DEF Done
<1>4. /\ todo # <<>> /\ Head(todo) = Layout(args)[d + 1]
      /\ Tail(todo) = SubSeq(Layout(args), d + 2, Len(Layout(args)))
  BY <1>1, <1>2, <1>3, StepOff
<1>5. (d + 1) + 1 = d + 2
  BY <1>1
<1> QED
  BY <1>4, <1>5 DEF StartStep, Done

(* The registers on the stack do not overlap. *)
LEMMA Registers ==
    /\ RegBytes \in Nat \ {0}
    /\ \A k \in Nat : RegBytes * k \in Nat /\ RegBytes * (k + 1) = RegBytes * k + RegBytes
    /\ \A i \in Nat : i * RegBytes \in Nat /\ (i + 1) * RegBytes = i * RegBytes + RegBytes
    /\ \A i, k \in Nat : i < k => i * RegBytes + RegBytes <= RegBytes * k
<1>1. RegBytes \in Nat \ {0}
  BY MemoryAssumption
<1>2. ASSUME NEW k \in Nat
      PROVE  RegBytes * k \in Nat /\ RegBytes * (k + 1) = RegBytes * k + RegBytes
             /\ RegBytes * k = k * RegBytes
  BY <1>1
<1>3. ASSUME NEW i \in Nat, NEW k \in Nat, i < k PROVE i * RegBytes + RegBytes <= RegBytes * k
  <2> DEFINE e == k - i - 1
  <2>1. e \in Nat /\ k = i + 1 + e
    BY <1>3
  <2> HIDE DEF e
  <2>2. RegBytes * e \in Nat /\ RegBytes * k = i * RegBytes + RegBytes + RegBytes * e
    BY <1>1, <2>1
  <2>3. i * RegBytes \in Nat
    BY <1>2
  <2> QED
    BY <1>1, <2>2, <2>3
<1> QED
  BY <1>1, <1>2, <1>3

(* write_from, when it returns: the buffer is in memory below the break,    *)
(* and nothing else has changed.                                            *)
LEMMA WriteFromWrites ==
    ASSUME MemInv, NEW a \in Nat, NEW n \in Nat \ {0}, NEW buf, NEW op, NEW v, NEW blocks,
           NEW out, a + n < AddrSpace, M!WriteFrom(a, n, buf, op, v, blocks, out), phase' = "running"
    PROVE  /\ alloc_ptr' = alloc_ptr /\ a + n <= alloc_ptr
           /\ \A k \in 0 .. n - 1 : ram'[a + k] = buf[k]
           /\ \A i \in M!Ram : i < a \/ i >= a + n => ram'[i] = ram[i]
<1>1. M!Plus(a, n) = a + n
  BY DEF M!Plus
<1>2. M!Bounds(a, n) /\ M!CanWrite(a, n) /\ ram' = M!Copied(a, n, buf) /\ alloc_ptr' = alloc_ptr
  BY DEF M!WriteFrom, M!WriteFromUnchecked, M!Abort
<1>3. a + n < RamSize /\ M!Range(a, n) = a .. a + n - 1
  BY <1>1, <1>2 DEF M!Bounds, M!Range
<1>4. a + n <= alloc_ptr
  <2>1. a + n - 1 \in M!Ram /\ a + n - 1 \in M!Range(a, n)
    BY <1>3, MemoryAssumption DEF M!Ram
  <2>2. perm[a + n - 1] # {}
    BY <1>2, <2>1 DEF M!CanWrite
  <2>3. ~(a + n - 1 >= alloc_ptr) /\ alloc_ptr \in Nat
    BY <2>1, <2>2, BreakIsLow DEF MemInv
  <2> QED
    BY <2>3
<1>5. ASSUME NEW k \in 0 .. n - 1 PROVE ram'[a + k] = buf[k]
  <2>1. a + k \in M!Ram /\ a + k \in a .. a + n - 1 /\ (a + k) - a = k
    BY <1>3, MemoryAssumption DEF M!Ram
  <2> QED
    BY <1>2, <1>3, <2>1 DEF M!Copied
<1>6. ASSUME NEW i \in M!Ram, i < a \/ i >= a + n PROVE ram'[i] = ram[i]
  <2>1. i \notin a .. a + n - 1
    BY <1>6, MemoryAssumption DEF M!Ram
  <2> QED
    BY <1>2, <1>3, <2>1 DEF M!Copied
<1> QED
  BY <1>2, <1>4, <1>5, <1>6

LEMMA AllocateLeaves ==
    ASSUME NEW n, M!Allocate(n), phase' = "running"
    PROVE  ram' = ram /\ M!Plus(alloc_ptr, n) < RamSize
BY DEF M!Allocate, M!Abort, M!Bounds

(* push_to_stack: the register goes below the others, which stay. *)
LEMMA PushStep ==
    ASSUME MemInv, args \in ArgLists, NEW k \in 0 .. Len(args) + 4, Room(k),
           NEW op, NEW x, StartPush(op, x), phase' = "running"
    PROVE  /\ sp' = sp - RegBytes /\ sp' \in Nat
           /\ alloc_ptr' = alloc_ptr /\ args' = args
           /\ Room(k + 1)'
           /\ Slot(0)' = Reg(x)
           /\ \A i \in 0 .. k - 1 : Slot(i + 1)' = Slot(i)
           /\ \A i \in M!Ram : i >= sp => ram'[i] = ram[i]
<1> DEFINE n == Len(args)
           a == sp - RegBytes
           left == n + 4 - k
<1>1. n \in Nat /\ k \in Nat /\ left \in Nat /\ n + 5 - k = left + 1 /\ n + 5 - (k + 1) = left
  BY ListsTyped
<1>2. /\ RegBytes \in Nat \ {0}
      /\ RegBytes * left \in Nat /\ RegBytes * (left + 1) = RegBytes * left + RegBytes
      /\ RegBytes * k \in Nat /\ RegBytes * (k + 1) = RegBytes * k + RegBytes
  BY <1>1, Registers
<1>3. /\ sp \in Nat /\ sp + RegBytes * k <= alloc_ptr /\ alloc_ptr < RamSize
      /\ RegBytes * (left + 1) <= sp
  BY <1>1 DEF Room
<1>4. alloc_ptr \in Nat /\ RamSize \in Nat /\ RamSize <= AddrSpace /\ AddrSpace \in Nat
  BY BreakIsLow, MemoryAssumption, SyscallsAssumption
<1> HIDE DEF n, left
<1>5. a \in Nat /\ a + RegBytes = sp /\ RegBytes * left <= a /\ Minus(sp, RegBytes) = a
  BY <1>2, <1>3 DEF Minus
<1>6. /\ M!WriteFrom(a, RegBytes, M!LowBytes(Reg(x), RegBytes), "store", Reg(x), M!Marked(a),
                     M!PastFirstBlock(a, RegBytes))
      /\ sp' = a /\ args' = args
  BY <1>5 DEF StartPush, StartStep, M!Store
<1>7. a + RegBytes < AddrSpace
  BY <1>2, <1>3, <1>4, <1>5
<1> HIDE DEF a
<1>8. /\ alloc_ptr' = alloc_ptr
      /\ \A b \in 0 .. RegBytes - 1 : ram'[a + b] = M!LowBytes(Reg(x), RegBytes)[b]
      /\ \A i \in M!Ram : i < a \/ i >= a + RegBytes => ram'[i] = ram[i]
  <2> DEFINE buf == M!LowBytes(Reg(x), RegBytes)
             val == Reg(x)
             blocks == M!Marked(a)
             out == M!PastFirstBlock(a, RegBytes)
  <2>1. M!WriteFrom(a, RegBytes, buf, "store", val, blocks, out)
    BY <1>6
  <2> HIDE DEF buf, val, blocks, out
  <2>2. /\ alloc_ptr' = alloc_ptr
        /\ \A b \in 0 .. RegBytes - 1 : ram'[a + b] = buf[b]
        /\ \A i \in M!Ram : i < a \/ i >= a + RegBytes => ram'[i] = ram[i]
    BY <1>2, <1>5, <1>7, <2>1, WriteFromWrites, SMTT(20)
  <2> QED
    BY <2>2 DEF buf
<1>9. \A i \in M!Ram : i >= sp => ram'[i] = ram[i]
  BY <1>5, <1>8
<1>10. Room(k + 1)'
  <2>1. a + RegBytes * (k + 1) <= alloc_ptr
    BY <1>2, <1>3, <1>5
  <2>2. Len(args') + 5 - (k + 1) = left
    BY <1>1, <1>6 DEF n
  <2> QED
    BY <1>3, <1>5, <1>6, <1>8, <2>1, <2>2 DEF Room
<1>11. Slot(0)' = Reg(x)
  <2>1. ASSUME NEW b \in 0 .. RegBytes - 1 PROVE ram'[sp' + 0 * RegBytes + b] = Reg(x)[b]
    <3>1. sp' + 0 * RegBytes + b = a + b
      BY <1>2, <1>5, <1>6
    <3>2. M!LowBytes(Reg(x), RegBytes)[b] = Reg(x)[b]
      BY DEF M!LowBytes
    <3> QED
      BY <1>8, <3>1, <3>2
  <2> QED
    BY <2>1 DEF Slot, Reg
<1>12. ASSUME NEW i \in 0 .. k - 1 PROVE Slot(i + 1)' = Slot(i)
  <2>1. /\ i \in Nat /\ i < k /\ i * RegBytes \in Nat
        /\ (i + 1) * RegBytes = i * RegBytes + RegBytes
        /\ i * RegBytes + RegBytes <= RegBytes * k
    BY <1>1, <1>12, Registers
  <2>2. ASSUME NEW b \in 0 .. RegBytes - 1
        PROVE  ram'[sp' + (i + 1) * RegBytes + b] = ram[sp + i * RegBytes + b]
    <3> DEFINE c == sp + i * RegBytes + b
    <3>1. sp' + (i + 1) * RegBytes + b = c
      BY <1>2, <1>3, <1>5, <1>6, <2>1
    <3>2. c \in Nat /\ c >= sp /\ c < RamSize
      BY <1>2, <1>3, <1>4, <2>1
    <3>3. c \in M!Ram
      BY <1>4, <3>2 DEF M!Ram
    <3> QED
      BY <1>9, <3>1, <3>2, <3>3
  <2> QED
    BY <2>2 DEF Slot
<1> QED
  BY <1>5, <1>6, <1>8, <1>9, <1>10, <1>11, <1>12 DEF a

LEMMA ArgvTyped ==
    ASSUME args \in ArgLists
    PROVE  /\ Len(Argv) = Len(args) + 1
           /\ \A i \in 1 .. Len(args) + 1 :
                 Argv[i] \in Strings /\ Len(Argv[i]) \in Nat /\ Len(Argv[i]) < HalfSpace
<1> DEFINE v == Argv
           n == Len(args)
<1>1. args \in Seq(Strings) /\ n \in Nat
  BY ListsTyped
<1>2. /\ v \in Seq(Strings) /\ Len(v) = n + 1 /\ v[1] = ProgName
      /\ \A i \in 1 .. n : v[i + 1] = args[i]
  BY <1>1, ArgvIs DEF Argv
<1> HIDE DEF v
<1>3. ASSUME NEW i \in 1 .. n + 1
      PROVE  v[i] \in Strings /\ Len(v[i]) \in Nat /\ Len(v[i]) < HalfSpace
  <2>1. v[i] \in Strings
    BY <1>2, <1>3, ElementOfSeq
  <2>2. Len(v[i]) \in Nat
    BY <2>1, LenProperties DEF Strings
  <2>3. CASE i = 1
    BY <1>2, <2>1, <2>2, <2>3, SyscallsAssumption
  <2>4. CASE i # 1
    <3>1. i - 1 \in 1 .. n /\ (i - 1) + 1 = i
      BY <1>1, <1>3, <2>4
    <3>2. v[i] = args[i - 1]
      BY <1>2, <3>1
    <3>3. Len(args[i - 1]) < HalfSpace
      BY <3>1, SyscallsAssumption
    <3> QED
      BY <2>1, <2>2, <3>2, <3>3
  <2> QED
    BY <2>3, <2>4
<1> QED
  BY <1>2, <1>3 DEF v

(* A string stays as long as its bytes do. *)
LEMMA StringKept ==
    ASSUME NEW a \in Nat, NEW s \in Strings, StringAt(a, s), a + Len(s) < RamSize,
           \A c \in M!Ram : a <= c /\ c <= a + Len(s) => ram'[c] = ram[c]
    PROVE  /\ \A b \in 1 .. Len(s) : ram'[a + b - 1] = s[b]
           /\ ram'[a + Len(s)] = 0
<1>1. Len(s) \in Nat
  BY LenProperties DEF Strings
<1>2. ASSUME NEW b \in 1 .. Len(s) + 1 PROVE ram'[a + b - 1] = ram[a + b - 1]
  <2>1. a + b - 1 \in M!Ram /\ a <= a + b - 1 /\ a + b - 1 <= a + Len(s)
    BY <1>1, <1>2, MemoryAssumption DEF M!Ram
  <2> QED
    BY <2>1
<1>3. \A b \in 1 .. Len(s) : ram'[a + b - 1] = s[b]
  <2> SUFFICES ASSUME NEW b \in 1 .. Len(s) PROVE ram'[a + b - 1] = s[b]
    OBVIOUS
  <2>1. b \in 1 .. Len(s) + 1
    BY <1>1
  <2> QED
    BY <1>2, <2>1 DEF StringAt
<1>4. ram'[a + Len(s)] = 0
  <2>1. Len(s) + 1 \in 1 .. Len(s) + 1 /\ a + (Len(s) + 1) - 1 = a + Len(s)
    BY <1>1
  <2> QED
    BY <1>2, <2>1 DEF StringAt
<1> QED
  BY <1>3, <1>4

(* An argument in place stays there under a step that leaves the memory     *)
(* from the top of the stack to the end of the strings alone, though its    *)
(* slot may get another number.                                             *)
LEMMA InPlaceKept ==
    ASSUME args \in ArgLists, args' = args, alloc_ptr < RamSize, alloc_ptr \in Nat, sp \in Nat,
           NEW j \in 0 .. Len(args) + 1, NEW i \in 1 .. j, NEW top \in Nat, top <= alloc_ptr,
           InPlace(j, i, top),
           NEW h \in Nat, Slot(h + i - 1)' = Slot(i - 1),
           sp' + RegBytes * (h + j + 3) = sp + RegBytes * (j + 3),
           NEW bound \in Nat, top <= bound,
           \A c \in M!Ram : sp + RegBytes * (j + 3) <= c /\ c < top => ram'[c] = ram[c]
    PROVE  \E a \in 0 .. RamSize - 1 :
              /\ Slot(h + i - 1)' = Reg(a)
              /\ StringAt(a, Argv[Len(args) + 1 - (h + j) + (h + i)])'
              /\ sp' + RegBytes * (h + j + 3) <= a
              /\ a + Len(Argv'[Len(args') + 1 - (h + j) + (h + i)]) < bound
<1> DEFINE n == Len(args)
           s == Argv[n + 1 - j + i]
<1>1. n \in Nat /\ n + 1 - j + i \in 1 .. n + 1
      /\ n + 1 - (h + j) + (h + i) = n + 1 - j + i
  BY ListsTyped
<1>2. s \in Strings /\ Len(s) \in Nat
  BY <1>1, ArgvTyped
<1>3. PICK a \in 0 .. RamSize - 1 :
        /\ Slot(i - 1) = Reg(a) /\ StringAt(a, s)
        /\ sp + RegBytes * (j + 3) <= a /\ a + Len(s) < top
  BY DEF InPlace
<1>4. Argv' = Argv /\ Len(args') = n
  BY DEF Argv
<1>5. RegBytes * (j + 3) \in Nat
  BY <1>1, Registers
<1> HIDE DEF s, n
<1>6. a \in Nat /\ a + Len(s) < RamSize
  BY <1>2, <1>3, MemoryAssumption
<1>7. \A c \in M!Ram : a <= c /\ c <= a + Len(s) => ram'[c] = ram[c]
  <2> SUFFICES ASSUME NEW c \in M!Ram, a <= c, c <= a + Len(s) PROVE ram'[c] = ram[c]
    OBVIOUS
  <2>1. sp + RegBytes * (j + 3) <= c /\ c < top
    BY <1>2, <1>3, <1>5, <1>6, MemoryAssumption DEF M!Ram
  <2> QED
    BY <2>1
<1>8. /\ \A b \in 1 .. Len(s) : ram'[a + b - 1] = s[b]
      /\ ram'[a + Len(s)] = 0
  BY <1>2, <1>3, <1>6, <1>7, StringKept, SMTT(20)
<1>9. Argv'[Len(args') + 1 - (h + j) + (h + i)] = s
  BY <1>1, <1>4 DEF s, n
<1>10. StringAt(a, Argv[Len(args) + 1 - (h + j) + (h + i)])'
  BY <1>8, <1>9 DEF StringAt
<1>11. a + Len(s) < bound
  BY <1>2, <1>3, <1>6
<1> QED
  BY <1>3, <1>9, <1>10, <1>11

(* The constructor, from place to place. *)
LEMMA FromFresh ==
    ASSUME ArgsFitStack, MemInv, args \in ArgLists, Fresh, Startup, phase' = "running"
    PROVE  Zeros(1)'
<1>1. args \in Seq(Strings) /\ Len(args) \in Nat /\ 0 \in 0 .. 3 * Len(args) + 7
  BY ListsTyped
<1>2. Head(todo) = Layout(args)[0 + 1] /\ (StartStep => Done(0 + 1)')
  BY <1>1, AtPlace DEF Fresh
<1>3. Head(todo).op = "stack"
  BY <1>1, <1>2, LayoutIs DEF Do
<1>4. StartStack
  BY <1>3 DEF Startup, StartStack, StartAllocate, StartWrite, StartPush, Starting
<1>5. /\ alloc_ptr' = alloc_ptr + StackSize /\ alloc_ptr' = M!Plus(alloc_ptr, StackSize)
      /\ alloc_ptr' < RamSize /\ alloc_ptr \in Nat
  BY <1>4, AllocateMem, AllocateLeaves, BreakIsLow, SyscallsAssumption DEF StartStack
<1>6. sp' = alloc_ptr' /\ args' = args /\ Done(1)'
  BY <1>2, <1>4, <1>5 DEF StartStack, StartStep
<1>7. RegBytes * 0 = 0 /\ RegBytes * (Len(args) + 5 - 0) <= StackSize /\ StackSize \in Nat
  BY <1>1, Registers, HalfOfSpace, SyscallsAssumption DEF ArgsFitStack
<1>8. Room(1 - 1)'
  <2>1. RegBytes * (Len(args) + 5 - 0) \in Nat
    BY <1>1, Registers
  <2> QED
    BY <1>5, <1>6, <1>7, <2>1 DEF Room
<1> QED
  BY <1>6, <1>8 DEF Zeros

LEMMA FromZeros ==
    ASSUME MemInv, args \in ArgLists, NEW d \in 1 .. 3, Zeros(d), Startup, phase' = "running"
    PROVE  IF d < 3 THEN Zeros(d + 1)' ELSE Ready(0)'
<1>1. /\ args \in Seq(Strings) /\ Len(args) \in Nat /\ d \in 0 .. 3 * Len(args) + 7
      /\ d - 1 \in 0 .. Len(args) + 4 /\ (d - 1) + 1 = (d + 1) - 1
  BY ListsTyped
<1>2. Head(todo) = Layout(args)[d + 1] /\ (StartStep => Done(d + 1)') /\ Room(d - 1)
  BY <1>1, AtPlace DEF Zeros
<1>3. Head(todo).op = "push_zero"
  <2>1. d + 1 \in 2 .. 4
    OBVIOUS
  <2>2. Layout(args)[d + 1] = Do("push_zero", <<>>)
    BY <1>1, <2>1, LayoutIs
  <2> QED
    BY <1>2, <2>2 DEF Do
<1>4. StartPush("push_zero", 0)
  BY <1>3 DEF Startup, StartStack, StartAllocate, StartWrite, StartPush, Starting
<1>5. Room((d - 1) + 1)' /\ Slot(0)' = Reg(0) /\ alloc_ptr' \in Nat
  BY <1>1, <1>2, <1>4, PushStep, BreakIsLow
<1>6. Done(d + 1)'
  BY <1>2, <1>4 DEF StartPush
<1>7. CASE d < 3
  BY <1>1, <1>5, <1>6, <1>7 DEF Zeros
<1>8. CASE d = 3
  <2>1. Room(0 + 3)' /\ Done(4 + 3 * 0)'
    BY <1>5, <1>6, <1>8
  <2>2. Pushed(0, alloc_ptr)'
    BY <1>5, <2>1 DEF Pushed, Room
  <2> QED
    BY <1>8, <2>1, <2>2 DEF Ready
<1> QED
  BY <1>7, <1>8

LEMMA FromReady ==
    ASSUME MemInv, args \in ArgLists, NEW j \in 0 .. Len(args), Ready(j), Startup,
           phase' = "running"
    PROVE  Allocated(j)'
<1>1. /\ args \in Seq(Strings) /\ Len(args) \in Nat /\ j \in Nat
      /\ 4 + 3 * j \in 0 .. 3 * Len(args) + 7 /\ (4 + 3 * j) + 1 = 5 + 3 * j
  BY ListsTyped
<1>2. /\ Head(todo) = Layout(args)[5 + 3 * j] /\ (StartStep => Done(5 + 3 * j)')
      /\ Pushed(j, alloc_ptr) /\ Room(j + 3)
  BY <1>1, AtPlace DEF Ready, Pushed
<1>3. Head(todo).op = "allocate"
  <2>1. Layout(args)[5 + 3 * j] = Do("allocate", <<>>)
    BY <1>1, LayoutIs
  <2> QED
    BY <1>2, <2>1 DEF Do
<1>4. StartAllocate
  BY <1>3 DEF Startup, StartStack, StartAllocate, StartWrite, StartPush, Starting
<1>5. /\ alloc_ptr' = alloc_ptr + ArgBytes /\ alloc_ptr' = M!Plus(alloc_ptr, ArgBytes)
      /\ alloc_ptr' < RamSize /\ alloc_ptr \in Nat /\ ram' = ram /\ ArgBytes \in Nat
  BY <1>4, AllocateMem, AllocateLeaves, BreakIsLow, SyscallsAssumption DEF StartAllocate
<1>6. ptr' = alloc_ptr /\ sp' = sp /\ args' = args /\ Done(5 + 3 * j)'
  BY <1>2, <1>4 DEF StartAllocate, StartStep
<1>7. RegBytes * (j + 3) \in Nat
  BY <1>1, Registers
<1>8. Room(j + 3)'
  BY <1>2, <1>5, <1>6, <1>7 DEF Room
<1>9. \A i \in 1 .. j : InPlace(j, i, ptr)'
  <2> SUFFICES ASSUME NEW i \in 1 .. j PROVE InPlace(j, i, ptr)'
    OBVIOUS
  <2>1. InPlace(j, i, alloc_ptr)
    BY <1>2 DEF Pushed
  <2> QED
    BY <1>5, <1>6, <2>1 DEF InPlace, Slot, StringAt, Argv
<1>10. Pushed(j, ptr)'
  BY <1>2, <1>5, <1>6, <1>8, <1>9 DEF Pushed, Slot
<1> QED
  BY <1>5, <1>6, <1>10 DEF Allocated

LEMMA FromAllocated ==
    ASSUME MemInv, args \in ArgLists, NEW j \in 0 .. Len(args), Allocated(j), Startup,
           phase' = "running"
    PROVE  Written(j)'
<1> DEFINE n == Len(args)
           s == Argv[n + 1 - j]
           buf == [b \in 0 .. Len(s) |-> IF b < Len(s) THEN s[b + 1] ELSE 0]
<1>1. /\ args \in Seq(Strings) /\ n \in Nat /\ j \in Nat
      /\ 5 + 3 * j \in 0 .. 3 * n + 7 /\ (5 + 3 * j) + 1 = 6 + 3 * j
      /\ n + 1 - j \in 1 .. n + 1
  BY ListsTyped
<1>2. /\ Head(todo) = Layout(args)[6 + 3 * j] /\ (StartStep => Done(6 + 3 * j)')
      /\ ptr \in Nat /\ Pushed(j, ptr) /\ Room(j + 3)
  BY <1>1, AtPlace DEF Allocated, Pushed
<1>3. Head(todo).op = "write" /\ Head(todo).s = s
  <2>1. Layout(args)[6 + 3 * j] = Do("write", s)
    BY <1>1, LayoutIs DEF Argv
  <2> QED
    BY <1>2, <2>1 DEF Do
<1>4. StartWrite
  BY <1>3 DEF Startup, StartStack, StartAllocate, StartWrite, StartPush, Starting
<1>5. s \in Strings /\ Len(s) \in Nat /\ Len(s) < HalfSpace
  BY <1>1, ArgvTyped
<1>6. sp' = sp /\ ptr' = ptr /\ args' = args /\ Done(6 + 3 * j)'
  BY <1>2, <1>4 DEF StartWrite, StartStep
<1>7. M!WriteFrom(ptr, Len(s) + 1, buf, "bulk", M!Zero, dirty, M!Range(ptr, Len(s) + 1))
  BY <1>3, <1>4 DEF StartWrite, M!BulkWrite
<1>8. /\ ptr <= alloc_ptr /\ alloc_ptr < RamSize /\ sp \in Nat
      /\ sp + RegBytes * (j + 3) <= ptr
  BY <1>2 DEF Pushed, Room
<1>9. alloc_ptr \in Nat /\ ptr + (Len(s) + 1) < AddrSpace /\ RamSize \in Nat
  BY <1>2, <1>5, <1>8, BreakIsLow, HalfOfSpace, MemoryAssumption, SyscallsAssumption
<1> HIDE DEF s, buf, n
<1>10. /\ alloc_ptr' = alloc_ptr /\ ptr + (Len(s) + 1) <= alloc_ptr
       /\ \A b \in 0 .. (Len(s) + 1) - 1 : ram'[ptr + b] = buf[b]
       /\ \A i \in M!Ram : i < ptr \/ i >= ptr + (Len(s) + 1) => ram'[i] = ram[i]
  <2> DEFINE len == Len(s) + 1
             out == M!Range(ptr, len)
  <2>1. len \in Nat \ {0} /\ ptr + len < AddrSpace
    BY <1>5, <1>9
  <2>2. M!WriteFrom(ptr, len, buf, "bulk", M!Zero, dirty, out)
    BY <1>7
  <2> HIDE DEF len, out
  <2>3. /\ alloc_ptr' = alloc_ptr /\ ptr + len <= alloc_ptr
        /\ \A b \in 0 .. len - 1 : ram'[ptr + b] = buf[b]
        /\ \A i \in M!Ram : i < ptr \/ i >= ptr + len => ram'[i] = ram[i]
    BY <1>2, <2>1, <2>2, WriteFromWrites
  <2> QED
    BY <2>3 DEF len
<1>11. RegBytes * (j + 3) \in Nat
  BY <1>1, Registers
<1>12. /\ \A b \in 1 .. Len(s) : ram'[ptr + b - 1] = s[b]
       /\ ram'[ptr + Len(s)] = 0
  <2>1. ASSUME NEW b \in 1 .. Len(s) PROVE ram'[ptr + b - 1] = s[b]
    <3>1. /\ b - 1 \in 0 .. (Len(s) + 1) - 1 /\ ptr + (b - 1) = ptr + b - 1
          /\ (b - 1) + 1 = b /\ b - 1 < Len(s) /\ b - 1 \in 0 .. Len(s)
      BY <1>2, <1>5, <2>1
    <3>2. buf[b - 1] = s[b]
      BY <3>1 DEF buf
    <3> QED
      BY <1>10, <3>1, <3>2
  <2>2. ram'[ptr + Len(s)] = 0
    <3>1. Len(s) \in 0 .. (Len(s) + 1) - 1 /\ Len(s) \in 0 .. Len(s) /\ ~(Len(s) < Len(s))
      BY <1>5
    <3>2. buf[Len(s)] = 0
      BY <3>1 DEF buf
    <3> QED
      BY <1>10, <3>1, <3>2
  <2> QED
    BY <2>1, <2>2
<1>13. ASSUME NEW i \in 0 .. j PROVE Slot(i)' = Slot(i)
  <2>1. i \in Nat /\ i < j + 3 /\ i * RegBytes \in Nat /\ i * RegBytes + RegBytes <= RegBytes * (j + 3)
    BY <1>1, <1>13, Registers
  <2>2. ASSUME NEW b \in 0 .. RegBytes - 1
        PROVE  ram'[sp' + i * RegBytes + b] = ram[sp + i * RegBytes + b]
    <3> DEFINE c == sp + i * RegBytes + b
    <3>1. c \in Nat /\ c < ptr /\ c < RamSize
      BY <1>2, <1>8, <1>9, <1>11, <2>1, Registers
    <3>2. c \in M!Ram
      BY <1>9, <3>1 DEF M!Ram
    <3> QED
      BY <1>6, <1>10, <3>1, <3>2
  <2> QED
    BY <2>2 DEF Slot
<1>14. \A i \in 1 .. j : InPlace(j, i, ptr)'
  <2> SUFFICES ASSUME NEW i \in 1 .. j PROVE InPlace(j, i, ptr)'
    OBVIOUS
  <2>1. InPlace(j, i, ptr)
    BY <1>2 DEF Pushed
  <2>2. PICK a \in 0 .. RamSize - 1 :
          /\ Slot(i - 1) = Reg(a) /\ StringAt(a, Argv[Len(args) + 1 - j + i])
          /\ sp + RegBytes * (j + 3) <= a /\ a + Len(Argv[Len(args) + 1 - j + i]) < ptr
    BY <2>1 DEF InPlace
  <2> DEFINE t == Argv[Len(args) + 1 - j + i]
  <2>3. t \in Strings /\ Len(t) \in Nat
    <3>1. Len(args) + 1 - j + i \in 1 .. Len(args) + 1
      BY <1>1 DEF n
    <3> QED
      BY <3>1, ArgvTyped
  <2>4. a \in Nat /\ a + Len(t) < ptr /\ a + Len(t) < RamSize /\ StringAt(a, t)
    BY <1>2, <1>8, <1>9, <2>2, <2>3
  <2>5. t' = t
    BY <1>6 DEF Argv
  <2> HIDE DEF t
  <2>6. /\ \A b \in 1 .. Len(t) : ram'[a + b - 1] = t[b]
        /\ ram'[a + Len(t)] = 0
    <3>1. \A c \in M!Ram : a <= c /\ c <= a + Len(t) => ram'[c] = ram[c]
      BY <1>2, <1>10, <2>3, <2>4, <1>9 DEF M!Ram
    <3> QED
      BY <2>3, <2>4, <3>1, StringKept
  <2>7. StringAt(a, t)'
    BY <2>5, <2>6 DEF StringAt
  <2>8. Slot(i - 1)' = Reg(a)
    BY <1>1, <1>13, <2>2
  <2> QED
    BY <1>6, <2>2, <2>5, <2>7, <2>8 DEF InPlace, t
<1>15. Room(j + 3)'
  BY <1>2, <1>6, <1>10 DEF Room
<1>16. Pushed(j, ptr)'
  <2>1. Slot(j)' = Slot(j) /\ Slot(j) = Reg(0)
    BY <1>1, <1>2, <1>13 DEF Pushed
  <2> QED
    BY <1>6, <1>8, <1>10, <1>14, <1>15, <2>1 DEF Pushed
<1>17. s' = s /\ (Argv[Len(args) + 1 - j])' = s
  BY <1>6 DEF Argv, s, n
<1>18. StringAt(ptr, Argv[Len(args) + 1 - j])'
  BY <1>6, <1>12, <1>17 DEF StringAt
<1>19. ptr' + Len((Argv[Len(args) + 1 - j])') < alloc_ptr'
  BY <1>2, <1>5, <1>6, <1>9, <1>10, <1>17
<1> QED
  BY <1>2, <1>6, <1>16, <1>18, <1>19 DEF Written

LEMMA FromWritten ==
    ASSUME MemInv, args \in ArgLists, NEW j \in 0 .. Len(args), Written(j), Startup,
           phase' = "running"
    PROVE  Ready(j + 1)'
<1> DEFINE n == Len(args)
           s == Argv[n + 1 - j]
<1>1. /\ args \in Seq(Strings) /\ n \in Nat /\ j \in Nat
      /\ 6 + 3 * j \in 0 .. 3 * n + 7 /\ (6 + 3 * j) + 1 = 7 + 3 * j
      /\ 4 + 3 * (j + 1) = 7 + 3 * j /\ n + 1 - j \in 1 .. n + 1
      /\ j + 3 \in 0 .. n + 4 /\ (j + 3) + 1 = (j + 1) + 3
  BY ListsTyped
<1>2. /\ Head(todo) = Layout(args)[7 + 3 * j] /\ (StartStep => Done(7 + 3 * j)')
      /\ ptr \in Nat /\ Pushed(j, ptr) /\ Room(j + 3)
      /\ StringAt(ptr, s) /\ ptr + Len(s) < alloc_ptr
  BY <1>1, AtPlace DEF Written, Pushed
<1>3. Head(todo).op = "push_ptr"
  <2>1. Layout(args)[7 + 3 * j] = Do("push_ptr", <<>>)
    BY <1>1, LayoutIs
  <2> QED
    BY <1>2, <2>1 DEF Do
<1>4. StartPush("push_ptr", ptr)
  BY <1>3 DEF Startup, StartStack, StartAllocate, StartWrite, StartPush, Starting
<1>5. /\ sp' = sp - RegBytes /\ sp' \in Nat /\ alloc_ptr' = alloc_ptr /\ args' = args
      /\ Room((j + 3) + 1)'
      /\ Slot(0)' = Reg(ptr)
      /\ \A i \in 0 .. (j + 3) - 1 : Slot(i + 1)' = Slot(i)
      /\ \A i \in M!Ram : i >= sp => ram'[i] = ram[i]
  BY <1>1, <1>2, <1>4, PushStep
<1>6. Done(4 + 3 * (j + 1))'
  BY <1>1, <1>2, <1>4 DEF StartPush
<1>7. /\ ptr <= alloc_ptr /\ alloc_ptr < RamSize /\ alloc_ptr \in Nat /\ sp \in Nat
      /\ sp + RegBytes * (j + 3) <= ptr /\ RamSize \in Nat
  BY <1>2, BreakIsLow, MemoryAssumption DEF Pushed, Room
<1>8. /\ RegBytes * (j + 3) \in Nat /\ RegBytes * ((j + 3) + 1) = RegBytes * (j + 3) + RegBytes
      /\ RegBytes \in Nat
  BY <1>1, Registers
<1>9. sp' + RegBytes * ((j + 1) + 3) = sp + RegBytes * (j + 3)
  BY <1>1, <1>5, <1>7, <1>8
<1>10. s \in Strings /\ Len(s) \in Nat /\ s' = s
  BY <1>1, <1>5, ArgvTyped DEF Argv
<1>11. Slot(j + 1)' = Reg(0)
  <2>1. j \in 0 .. (j + 3) - 1 /\ Slot(j) = Reg(0)
    BY <1>1, <1>2 DEF Pushed
  <2> QED
    BY <1>5, <2>1
<1>12. InPlace(j + 1, 1, alloc_ptr)'
  <2>1. n + 1 - (j + 1) + 1 = n + 1 - j /\ 1 - 1 = 0
    BY <1>1
  <2>2. (Argv[Len(args) + 1 - (j + 1) + 1])' = s
    BY <1>5, <2>1 DEF Argv
  <2> HIDE DEF s
  <2>3. /\ \A b \in 1 .. Len(s) : ram'[ptr + b - 1] = s[b]
        /\ ram'[ptr + Len(s)] = 0
    <3>1. \A c \in M!Ram : ptr <= c /\ c <= ptr + Len(s) => ram'[c] = ram[c]
      <4> SUFFICES ASSUME NEW c \in M!Ram, ptr <= c PROVE ram'[c] = ram[c]
        OBVIOUS
      <4>1. c >= sp
        BY <1>2, <1>7, <1>8 DEF M!Ram
      <4> QED
        BY <1>5, <4>1
    <3>2. ptr + Len(s) < RamSize
      BY <1>2, <1>7, <1>10
    <3> QED
      BY <1>2, <1>10, <3>1, <3>2, StringKept
  <2>4. StringAt(ptr, s)
    BY <1>2
  <2>5. ptr \in 0 .. RamSize - 1
    BY <1>2, <1>7, <1>10
  <2>6. /\ Slot(1 - 1)' = Reg(ptr)
        /\ \A b \in 1 .. Len(s) : ram'[ptr + b - 1] = s[b]
        /\ ram'[ptr + Len(s)] = 0
        /\ sp' + RegBytes * ((j + 1) + 3) <= ptr
        /\ ptr + Len(s) < alloc_ptr'
    BY <1>2, <1>5, <1>7, <1>9, <2>1, <2>3
  <2> QED
    BY <2>2, <2>5, <2>6 DEF InPlace, StringAt
<1>13. ASSUME NEW i \in 1 .. j PROVE InPlace(j + 1, i + 1, alloc_ptr)'
  <2>1. InPlace(j, i, ptr)
    BY <1>2, <1>13 DEF Pushed
  <2>2. i - 1 \in 0 .. (j + 3) - 1 /\ (i - 1) + 1 = (i + 1) - 1 /\ 1 + i - 1 = (i + 1) - 1
        /\ (1 + j) + 3 = (j + 1) + 3 /\ 1 + j = j + 1 /\ 1 + i = i + 1
    BY <1>1, <1>13
  <2>3. Slot(1 + i - 1)' = Slot(i - 1)
    BY <1>5, <2>2
  <2>4. sp' + RegBytes * (1 + j + 3) = sp + RegBytes * (j + 3)
    BY <1>9, <2>2
  <2>5. \A c \in M!Ram : sp + RegBytes * (j + 3) <= c /\ c < ptr => ram'[c] = ram[c]
    <3> SUFFICES ASSUME NEW c \in M!Ram, sp + RegBytes * (j + 3) <= c PROVE ram'[c] = ram[c]
      OBVIOUS
    <3>1. c >= sp
      BY <1>7, <1>8 DEF M!Ram
    <3> QED
      BY <1>5, <3>1
  <2>6. j \in 0 .. Len(args) + 1 /\ alloc_ptr' \in Nat /\ ptr <= alloc_ptr'
    BY <1>1, <1>5, <1>7
  <2>7. \E a \in 0 .. RamSize - 1 :
          /\ Slot(1 + i - 1)' = Reg(a)
          /\ StringAt(a, Argv[Len(args) + 1 - (1 + j) + (1 + i)])'
          /\ sp' + RegBytes * (1 + j + 3) <= a
          /\ a + Len(Argv'[Len(args') + 1 - (1 + j) + (1 + i)]) < alloc_ptr'
    BY <1>2, <1>5, <1>7, <1>13, <2>1, <2>3, <2>4, <2>5, <2>6, InPlaceKept
  <2> QED
    BY <2>2, <2>7 DEF InPlace
<1>14. \A i \in 1 .. j + 1 : InPlace(j + 1, i, alloc_ptr)'
  <2> SUFFICES ASSUME NEW i \in 1 .. j + 1 PROVE InPlace(j + 1, i, alloc_ptr)'
    OBVIOUS
  <2>1. CASE i = 1
    BY <1>12, <2>1
  <2>2. CASE i # 1
    <3>1. i - 1 \in 1 .. j /\ (i - 1) + 1 = i
      BY <1>1, <2>2
    <3>2. InPlace(j + 1, (i - 1) + 1, alloc_ptr)'
      BY <1>13, <3>1
    <3> QED
      BY <3>1, <3>2
  <2> QED
    BY <2>1, <2>2
<1>15. Room((j + 1) + 3)'
  BY <1>1, <1>5
<1>16. Pushed(j + 1, alloc_ptr)'
  <2>1. sp' + RegBytes * ((j + 1) + 3) <= alloc_ptr' /\ alloc_ptr' <= alloc_ptr'
    <3> DEFINE end == sp + RegBytes * (j + 3)
    <3>1. end \in Nat /\ end <= ptr
      BY <1>7, <1>8
    <3>2. sp' + RegBytes * ((j + 1) + 3) = end
      BY <1>9
    <3> HIDE DEF end
    <3> QED
      <4>1. end <= alloc_ptr
        BY ONLY <1>2, <1>7, <3>1
      <4> QED
        BY ONLY <1>5, <1>7, <3>2, <4>1
  <2> QED
    BY <1>11, <1>14, <1>15, <2>1 DEF Pushed
<1> QED
  BY <1>6, <1>16 DEF Ready

(* The last push, of argc, completes what the guest finds. *)
LEMMA FromLast ==
    ASSUME MemInv, args \in ArgLists, NEW n \in Nat, n = Len(args), Ready(n + 1), Startup,
           phase' = "running"
    PROVE  todo' = <<>> /\ ArgvInPlace'
<1>1. /\ args \in Seq(Strings) /\ n \in Nat
      /\ 4 + 3 * (n + 1) \in 0 .. 3 * n + 7 /\ (4 + 3 * (n + 1)) + 1 = 3 * n + 8
      /\ (n + 1) + 3 \in 0 .. n + 4
  BY ListsTyped
<1>2. /\ Head(todo) = Layout(args)[3 * n + 8] /\ (StartStep => Done(3 * n + 8)')
      /\ Pushed(n + 1, alloc_ptr) /\ Room((n + 1) + 3)
  BY <1>1, AtPlace DEF Ready, Pushed
<1>3. Head(todo).op = "push_argc"
  <2>1. Layout(args)[3 * n + 8] = Do("push_argc", <<>>)
    BY <1>1, LayoutIs
  <2> QED
    BY <1>2, <2>1 DEF Do
<1>4. StartPush("push_argc", n + 1)
  BY <1>3 DEF Startup, StartStack, StartAllocate, StartWrite, StartPush, Starting
<1>5. /\ args' = args
      /\ Slot(0)' = Reg(n + 1)
      /\ \A i \in 0 .. ((n + 1) + 3) - 1 : Slot(i + 1)' = Slot(i)
      /\ \A i \in M!Ram : i >= sp => ram'[i] = ram[i]
  BY <1>1, <1>2, <1>4, PushStep
<1>6. todo' = <<>>
  <2>1. Done(3 * n + 8)' /\ args' \in ArgLists /\ Len(args') = n
    BY <1>2, <1>4, <1>5 DEF StartPush
  <2>2. todo' = SubSeq(Layout(args), (3 * n + 8) + 1, Len(Layout(args)))
    BY <1>5, <2>1 DEF Done
  <2>3. Layout(args) \in Seq(Step) /\ Len(Layout(args)) = 3 * n + 8
    BY <1>1, LayoutIs
  <2> QED
    BY <1>1, <2>2, <2>3, SubSeqProperties, EmptySeq
<1>7. alloc_ptr < RamSize /\ alloc_ptr \in Nat /\ sp \in Nat /\ RamSize \in Nat
  BY <1>2, BreakIsLow, MemoryAssumption DEF Room
<1>8. RegBytes * ((n + 1) + 3) \in Nat
  BY <1>1, Registers
<1>9. Len(Argv) = n + 1 /\ Argv' = Argv
  BY <1>5, ArgvTyped DEF Argv
<1>10. ASSUME NEW i \in 1 .. n + 1
       PROVE  \E a \in 0 .. RamSize - 1 :
                 /\ Slot(i)' = Reg(a)
                 /\ \A b \in 1 .. Len(Argv[i]) : ram'[a + b - 1] = Argv[i][b]
                 /\ ram'[a + Len(Argv[i])] = 0
  <2> DEFINE s == Argv[i]
  <2>1. InPlace(n + 1, i, alloc_ptr) /\ n + 1 - (n + 1) + i = i
    BY <1>1, <1>2, <1>10 DEF Pushed
  <2>2. PICK a \in 0 .. RamSize - 1 :
          /\ Slot(i - 1) = Reg(a) /\ StringAt(a, s)
          /\ sp + RegBytes * ((n + 1) + 3) <= a /\ a + Len(s) < alloc_ptr
    BY <2>1 DEF InPlace
  <2>3. s \in Strings /\ Len(s) \in Nat
    BY <1>10, ArgvTyped
  <2>4. Slot(i)' = Slot(i - 1)
    <3>1. i - 1 \in 0 .. ((n + 1) + 3) - 1 /\ (i - 1) + 1 = i
      BY <1>1, <1>10
    <3> QED
      BY <1>5, <3>1
  <2> HIDE DEF s
  <2>5. /\ \A b \in 1 .. Len(s) : ram'[a + b - 1] = s[b]
        /\ ram'[a + Len(s)] = 0
    <3>1. \A c \in M!Ram : a <= c /\ c <= a + Len(s) => ram'[c] = ram[c]
      BY <1>5, <1>7, <1>8, <2>2 DEF M!Ram
    <3>2. a \in Nat /\ a + Len(s) < RamSize
      BY <1>7, <2>2, <2>3
    <3> QED
      BY <2>2, <2>3, <3>1, <3>2, StringKept
  <2> QED
    BY <2>2, <2>4, <2>5 DEF s
<1>11. Slot((n + 1) + 1)' = Reg(0)
  <2>1. n + 1 \in 0 .. ((n + 1) + 3) - 1 /\ Slot(n + 1) = Reg(0)
    BY <1>1, <1>2 DEF Pushed
  <2> QED
    BY <1>5, <2>1
<1>12. ArgvInPlace'
  BY <1>5, <1>9, <1>10, <1>11 DEF ArgvInPlace, StringAt, Argv
<1> QED
  BY <1>6, <1>12

LEMMA NotDone ==
    ASSUME args \in ArgLists, args' = args, NEW d \in 0 .. 3 * Len(args) + 7, Done(d)'
    PROVE  todo' # <<>>
<1>1. args \in Seq(Strings) /\ d \in 0 .. Len(Layout(args)) - 1
  BY ListsTyped
<1>2. todo' = SubSeq(Layout(args), d + 1, Len(Layout(args)))
  BY DEF Done
<1> QED
  BY <1>1, <1>2, StepOff

(* Every step of the constructor that returns goes to the next place. *)
LEMMA StartStepInv ==
    ASSUME ArgsFitStack, MemInv, StartInv, Startup
    PROVE  /\ StartInv'
           /\ phase' = "running" /\ todo' = <<>> => ArgvInPlace'
<1>1. /\ phase = "running" /\ todo # <<>> /\ args' = args /\ args \in ArgLists
      /\ phase' \in {"running", "aborted"}
  BY DEF Startup, StartStack, StartAllocate, StartWrite, StartPush, Starting, StartStep, StartInv,
         M!Allocate, M!BulkWrite, M!Store, M!WriteFrom, M!WriteFromUnchecked, M!Abort
<1>2. CASE phase' = "aborted"
  BY <1>1, <1>2 DEF StartInv
<1>3. CASE phase' = "running"
  <2>1. Len(args) \in Nat
    BY <1>1, ListsTyped
  <2>2. CASE Fresh
    <3>1. Zeros(1)'
      BY <1>1, <1>3, <2>2, FromFresh
    <3>2. todo' # <<>>
      BY <1>1, <2>1, <3>1, NotDone DEF Zeros
    <3> QED
      BY <1>1, <1>3, <3>1, <3>2 DEF StartInv
  <2>3. ASSUME NEW d \in 1 .. 3, Zeros(d)
        PROVE  StartInv' /\ todo' # <<>>
    <3>1. IF d < 3 THEN Zeros(d + 1)' ELSE Ready(0)'
      BY <1>1, <1>3, <2>3, FromZeros
    <3>2. CASE d < 3
      <4>1. Zeros(d + 1)' /\ d + 1 \in 1 .. 3 /\ d + 1 \in 0 .. 3 * Len(args) + 7
        BY <2>1, <3>1, <3>2
      <4>2. todo' # <<>>
        BY <1>1, <4>1, NotDone DEF Zeros
      <4> QED
        BY <1>1, <1>3, <4>1, <4>2 DEF StartInv
    <3>3. CASE ~(d < 3)
      <4>1. Ready(0)' /\ 0 \in 0 .. Len(args') + 1 /\ 4 + 3 * 0 \in 0 .. 3 * Len(args) + 7
        BY <1>1, <2>1, <3>1, <3>3
      <4>2. todo' # <<>>
        BY <1>1, <4>1, NotDone DEF Ready
      <4> QED
        BY <1>1, <1>3, <4>1, <4>2 DEF StartInv
    <3> QED
      BY <3>2, <3>3
  <2>4. ASSUME NEW j \in 0 .. Len(args), Ready(j)
        PROVE  StartInv' /\ todo' # <<>>
    <3>1. Allocated(j)'
      BY <1>1, <1>3, <2>4, FromReady
    <3>2. 5 + 3 * j \in 0 .. 3 * Len(args) + 7
      BY <2>1
    <3>3. todo' # <<>>
      BY <1>1, <3>1, <3>2, NotDone DEF Allocated
    <3> QED
      BY <1>1, <1>3, <3>1, <3>3 DEF StartInv
  <2>5. ASSUME NEW j \in 0 .. Len(args), Allocated(j)
        PROVE  StartInv' /\ todo' # <<>>
    <3>1. Written(j)'
      BY <1>1, <1>3, <2>5, FromAllocated
    <3>2. 6 + 3 * j \in 0 .. 3 * Len(args) + 7
      BY <2>1
    <3>3. todo' # <<>>
      BY <1>1, <3>1, <3>2, NotDone DEF Written
    <3> QED
      BY <1>1, <1>3, <3>1, <3>3 DEF StartInv
  <2>6. ASSUME NEW j \in 0 .. Len(args), Written(j)
        PROVE  StartInv' /\ todo' # <<>>
    <3>1. Ready(j + 1)'
      BY <1>1, <1>3, <2>6, FromWritten
    <3>2. 4 + 3 * (j + 1) \in 0 .. 3 * Len(args) + 7 /\ j + 1 \in 0 .. Len(args') + 1
      BY <1>1, <2>1
    <3>3. todo' # <<>>
      BY <1>1, <3>1, <3>2, NotDone DEF Ready
    <3> QED
      BY <1>1, <1>3, <3>1, <3>2, <3>3, SMTT(20) DEF StartInv
  <2>7. ASSUME NEW j \in 0 .. Len(args) + 1, Ready(j), j = Len(args) + 1
        PROVE  StartInv' /\ ArgvInPlace'
    <3>1. j - 1 \in Nat /\ j - 1 = Len(args) /\ (j - 1) + 1 = j
      BY <2>1, <2>7, SMTT(20)
    <3>2. todo' = <<>> /\ ArgvInPlace'
      BY <1>1, <1>3, <2>7, <3>1, FromLast
    <3> QED
      BY <1>1, <1>3, <3>2 DEF StartInv
  <2>8. ASSUME NEW j \in 0 .. Len(args) + 1, Ready(j), j # Len(args) + 1
        PROVE  j \in 0 .. Len(args)
    BY <2>1, <2>8
  <2> QED
    BY <1>1, <2>2, <2>3, <2>4, <2>5, <2>6, <2>7, <2>8 DEF StartInv
<1> QED
  BY <1>1, <1>2, <1>3

LEMMA StepStart ==
    ASSUME ArgsFitStack, MemInv, StartInv, [Next]_vars
    PROVE  /\ StartInv'
           /\ todo # <<>> /\ todo' = <<>> /\ phase' = "running" => ArgvInPlace'
<1>1. CASE LoadProgram
  <2>1. phase = "loading" /\ args' = args /\ todo' = todo
    BY <1>1 DEF LoadProgram, M!LoadSegment, M!LoadDone, startup
  <2>2. Fresh'
    BY <2>1 DEF StartInv, Fresh, Done
  <2> QED
    BY <2>1, <2>2 DEF StartInv
<1>2. CASE Startup
  BY <1>2, StartStepInv
<1>3. CASE Next /\ ~LoadProgram /\ ~Startup
  <2>1. todo = <<>> /\ todo' = todo /\ args' = args /\ phase' # "loading"
    BY <1>3, CallShape DEF Running, startup
  <2> QED
    BY <2>1 DEF StartInv
<1>4. CASE UNCHANGED vars
  <2>1. /\ args' = args /\ todo' = todo /\ sp' = sp /\ ptr' = ptr
        /\ ram' = ram /\ alloc_ptr' = alloc_ptr /\ phase' = phase
    BY <1>4 DEF vars, memory
  <2>2. ASSUME NEW d, Done(d) PROVE Done(d)'
    BY <2>1, <2>2 DEF Done
  <2>3. ASSUME NEW k, Room(k) PROVE Room(k)'
    BY <2>1, <2>3 DEF Room
  <2>4. ASSUME NEW j, Pushed(j, ptr) PROVE Pushed(j, ptr)'
    BY <2>1, <2>4 DEF Pushed, Room, InPlace, StringAt, Slot, Argv
  <2>5. ASSUME NEW j, Pushed(j, alloc_ptr) PROVE Pushed(j, alloc_ptr)'
    BY <2>1, <2>5 DEF Pushed, Room, InPlace, StringAt, Slot, Argv
  <2>6. ASSUME NEW j, Written(j) PROVE Written(j)'
    BY <2>1, <2>2, <2>4, <2>6 DEF Written, StringAt, Argv
  <2> QED
    BY <2>1, <2>2, <2>3, <2>4, <2>5, <2>6 DEF StartInv, Fresh, Zeros, Ready, Allocated
<1> QED
  BY <1>1, <1>2, <1>3, <1>4 DEF Next

(* What the constructor leaves: when it returns, argc is at sp, above it    *)
(* the addresses of the complete strings in the order of argv, and a zero,  *)
(* for every program, every list of arguments that fits the stack and every *)
(* size of memory, stack and register.                                      *)
THEOREM ArgumentsInPlace ==
    ASSUME ArgsFitStack
    PROVE  Spec => ArgvWellFormed
<1> DEFINE Complete == todo # <<>> /\ todo' = <<>> /\ phase' = "running" => ArgvInPlace'
<1>1. Init => StartInv
  <2> SUFFICES ASSUME Init PROVE StartInv
    OBVIOUS
  <2>1. args \in ArgLists /\ todo = Layout(args) /\ phase = "loading"
    BY DEF Init, M!Init
  <2>2. Layout(args) \in Seq(Step)
    BY <2>1, ListsTyped, LayoutIs
  <2>3. Done(0)
    BY <2>1, <2>2 DEF Done
  <2> QED
    BY <2>1, <2>3 DEF StartInv, Fresh
<1>2. MemInv /\ StartInv /\ [Next]_vars => StartInv' /\ [Complete]_vars
  BY StepStart
<1> QED
  BY <1>1, <1>2, MemInvariant, PTL DEF Spec, ArgvWellFormed
=============================================================================
