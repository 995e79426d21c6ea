-------------------------------- MODULE MMU --------------------------------
(***************************************************************************)
(* The guest memory of vemu (src/MMU.cpp, include/MMU.h): one byte of RAM  *)
(* and one permission mask per address, a bump allocator (alloc_ptr) and   *)
(* the set of blocks a store has dirtied.                                  *)
(*                                                                         *)
(* A MMU lives inside one emulator, which is sequential: every action is   *)
(* one whole call.  load_file is the exception, one step per segment of    *)
(* its loop, because it runs to its end before anything else is called.    *)
(* A failed assert() aborts the process: phase becomes "aborted".          *)
(*                                                                         *)
(* The permission mask is a set of flags.  Addresses are unsigned integers *)
(* below AddrSpace (2^64 in the code) and their sums wrap, see Plus.       *)
(* The vectors are reserve()d, never resized: their bytes are whatever the *)
(* allocator returned.  The model is of the fuzz build, whose 128 MB come  *)
(* straight from mmap and are zero.                                        *)
(***************************************************************************)
EXTENDS Integers, Sequences

CONSTANTS
    AddrSpace,    \* number of addresses of a uint64_t: 2^64
    RamSize,      \* ram_size
    BlockSize,    \* BLOCK_SIZE, 4096
    Granule,      \* the 64 KiB to which load_file rounds the end of a segment
    AllocBase,    \* the initial alloc_ptr, 0x10000
    ByteBase,     \* number of values of a byte: 256
    RegBytes,     \* bytes in a register: 8
    Images,       \* the segment lists that read_elf() can return
    Addresses,    \* the addresses that the guest computes for its accesses
    AllocSizes,   \* the sizes passed to allocate()
    AccessSizes,  \* the sizes of load() and store(), in bytes: {1, 2, 4, 8}
    BulkSizes,    \* the sizes of the buffers passed to write_from()
    StoreValues   \* the register values that store() is given

Flags == {"EXEC", "WRITE", "READ", "RAW"}
Addr == 0 .. AddrSpace - 1
Ram == 0 .. RamSize - 1
Byte == 0 .. ByteBase - 1

(* A program header: p_vaddr and p_memsz are whatever the file says. *)
Segment == [perms : SUBSET {"EXEC", "WRITE", "READ"}, start_addr : Addr,
            mem_size : Addr, data : Seq(Byte)]

ASSUME SizesAssumption ==
    /\ AddrSpace \in Nat /\ RamSize \in Nat \ {0} /\ BlockSize \in Nat \ {0}
    /\ Granule \in Nat \ {0} /\ AllocBase \in Nat /\ ByteBase \in Nat \ {0}
    /\ RegBytes \in Nat \ {0}
    /\ 2 * (RamSize + Granule + AllocBase) <= AddrSpace

ASSUME InputsAssumption ==
    /\ Images \subseteq Seq(Segment)
    /\ Addresses \subseteq Addr
    /\ AllocSizes \subseteq 0 .. (AddrSpace \div 2) - 1
    /\ AccessSizes \subseteq 1 .. RegBytes /\ RegBytes < AddrSpace
    /\ BulkSizes \subseteq 1 .. AddrSpace - 1
    /\ StoreValues \subseteq [0 .. RegBytes - 1 -> Byte]

VARIABLES
    ram,         \* the bytes
    perm,        \* byte_permission
    alloc_ptr,   \* first address never allocated
    dirty,       \* dirty_blocks
    phase,       \* "loading", "running", "aborted" (an assert failed) or "undefined"
    segs,        \* the segments load_file has still to place
    acc,         \* the last access and what it returned
    \* History variables, read by the properties only:
    written,     \* the bytes written since they were last handed out
    snapshot,    \* ram when load_file returned: what reset_to() goes back to
    exposed      \* bytes written since then by other ways than the first block of a store

history == <<written, snapshot, exposed>>
vars == <<ram, perm, alloc_ptr, dirty, phase, segs, acc, written, snapshot, exposed>>

-----------------------------------------------------------------------------
(* The sum of two uint64_t. *)
Plus(x, y) == IF x + y < AddrSpace THEN x + y ELSE x + y - AddrSpace

(* The addresses of `for (i = a; i < a + n; i++)`: none when a + n wraps. *)
Range(a, n) == a .. Plus(a, n) - 1

(* assert(start_addr + len < ram_size): the last byte of RAM is never used. *)
BoundsUnchecked(a, n) == TRUE
Bounds(a, n) == Plus(a, n) < RamSize

CanWrite(a, n) == \A i \in Range(a, n) : "WRITE" \in perm[i]

BlockOf(a) == a \div BlockSize

RoundUp(x) == ((x + Granule - 1) \div Granule) * Granule

Larger(x, y) == IF x < y THEN y ELSE x

(* byte_permission after the bytes of R have been written. *)
ClearRawKeepsRaw(R) ==
    [i \in Ram |-> IF i \in R THEN perm[i] \cup {"READ"} ELSE perm[i]]
ClearRaw(R) ==
    [i \in Ram |-> IF i \in R /\ "RAW" \in perm[i]
                   THEN (perm[i] \cup {"READ"}) \ {"RAW"}
                   ELSE perm[i]]

Filled(R, p) == [i \in Ram |-> IF i \in R THEN p ELSE perm[i]]

(* ram with buf, a function on 0 .. n - 1, copied to address a. *)
Copied(a, n, buf) ==
    [i \in Ram |-> IF i \in Range(a, n) THEN buf[i - a] ELSE ram[i]]

(* load_file: the segment's file bytes, cut or zero-padded to mem_size. *)
Padded(seg) ==
    [k \in 0 .. seg.mem_size - 1 |-> IF k < Len(seg.data) THEN seg.data[k + 1] ELSE 0]

(* A register value is the function from 0 .. RegBytes - 1 to its bytes,    *)
(* least significant first.  store_byte .. store_dword write its low n.     *)
Value == [0 .. RegBytes - 1 -> Byte]
Zero == [k \in 0 .. RegBytes - 1 |-> 0]
LowBytes(v, n) == [k \in 0 .. n - 1 |-> v[k]]

(* load_byte .. load_dword: the zero-extended value of the n bytes at a.    *)
(* When a + n wraps, read_to copies nothing into its zeroed vector.         *)
LoadValue(a, n) ==
    [k \in 0 .. RegBytes - 1 |-> IF k < n /\ a + k \in Range(a, n) THEN ram[a + k] ELSE 0]

(* read_to: the exception it returns. *)
ReadResultFirst(a, n) ==
    IF \E i \in Range(a, n) \cap {a} : "RAW" \in perm[i] THEN "UninitializedMemoryAccess"
    ELSE IF \E i \in Range(a, n) \cap {a} : "READ" \notin perm[i] THEN "ReadMemoryWithNoPermission"
    ELSE "NormalExecutionReturn"
ReadResult(a, n) ==
    IF \E i \in Range(a, n) : "RAW" \in perm[i] THEN "UninitializedMemoryAccess"
    ELSE IF \E i \in Range(a, n) : "READ" \notin perm[i] THEN "ReadMemoryWithNoPermission"
    ELSE "NormalExecutionReturn"

Access(op, a, n, v, e) == [op |-> op, addr |-> a, len |-> n, val |-> v, exc |-> e]
NoAccess == Access("none", 0, 0, Zero, "NormalExecutionReturn")

(* assert() failed: the process ends where it stands. *)
Abort ==
    /\ phase' = "aborted"
    /\ UNCHANGED <<ram, perm, alloc_ptr, dirty, segs, acc, history>>

(* The process has written outside its vectors: nothing is known of it. *)
Undefined ==
    /\ phase' = "undefined"
    /\ UNCHANGED <<ram, perm, alloc_ptr, dirty, segs, acc, history>>

-----------------------------------------------------------------------------
(* MMU::MMU, and the start of load_file on one of the images. *)
Init ==
    /\ ram = [i \in Ram |-> 0]
    /\ perm = [i \in Ram |-> {}]
    /\ alloc_ptr = AllocBase
    /\ dirty = {}
    /\ segs \in Images
    /\ phase = "loading"
    /\ acc = NoAccess
    /\ written = {}
    /\ snapshot = [i \in Ram |-> 0]
    /\ exposed = {}

(* load_file: alloc_ptr after one segment. *)
BreakAtStart(seg) == Larger(alloc_ptr, seg.start_addr)
BreakAfter(seg) == Larger(alloc_ptr, RoundUp(seg.start_addr + seg.mem_size))

(* load_file: one iteration of its loop.  A sum that wraps passes the       *)
(* assertion of set_perms, and std::fill then writes outside the vector:    *)
(* from there on the program is undefined and nothing is said of it.        *)
LoadSegment ==
    /\ phase = "loading" /\ segs # <<>>
    /\ LET seg == Head(segs)
           R == Range(seg.start_addr, seg.mem_size)
       IN  IF Bounds(seg.start_addr, seg.mem_size)
              /\ seg.start_addr + seg.mem_size < AddrSpace
           THEN /\ ram' = Copied(seg.start_addr, seg.mem_size, Padded(seg))
                /\ perm' = Filled(R, seg.perms)
                /\ alloc_ptr' = BreakAfter(seg)
                /\ segs' = Tail(segs)
                /\ written' = written \cup R
                /\ UNCHANGED <<dirty, phase, acc, snapshot, exposed>>
           ELSE IF Bounds(seg.start_addr, seg.mem_size) THEN Undefined ELSE Abort

LoadDone ==
    /\ phase = "loading" /\ segs = <<>>
    /\ phase' = "running"
    /\ snapshot' = ram
    /\ UNCHANGED <<ram, perm, alloc_ptr, dirty, segs, acc, written, exposed>>

(* allocate: the stack, the argument strings and brk(). *)
AllocateOldPerms(n) == {"READ", "WRITE"}
AllocateNewPerms(n) == {"RAW", "WRITE"}
Allocate(n) ==
    /\ phase = "running"
    /\ IF Bounds(alloc_ptr, n)
       THEN LET R == Range(alloc_ptr, n)
            IN  /\ alloc_ptr' = Plus(alloc_ptr, n)
                /\ perm' = Filled(R, AllocateNewPerms(n))
                /\ written' = written \ R
                /\ acc' = Access("allocate", alloc_ptr, n, Zero, "NormalExecutionReturn")
                /\ UNCHANGED <<ram, dirty, phase, segs, snapshot, exposed>>
       ELSE Abort

(* write_from, and the insertion into dirty_blocks that store makes after    *)
(* it; out is the part of the range that becomes exposed.                   *)
WriteFromUnchecked(a, n, buf, op, v, blocks, out) ==
    /\ ram' = Copied(a, n, buf)
    /\ perm' = ClearRaw(Range(a, n))
    /\ written' = written \cup Range(a, n)
    /\ exposed' = exposed \cup out
    /\ dirty' = blocks
    /\ acc' = Access(op, a, n, v, "NormalExecutionReturn")
    /\ UNCHANGED <<alloc_ptr, phase, segs, snapshot>>
WriteFrom(a, n, buf, op, v, blocks, out) ==
    IF Bounds(a, n) /\ CanWrite(a, n)
    THEN WriteFromUnchecked(a, n, buf, op, v, blocks, out)
    ELSE Abort

(* The read() and fstat() system calls and write_string_to_addr. *)
BulkWrite(a, n, buf) ==
    phase = "running" /\ WriteFrom(a, n, buf, "bulk", Zero, dirty, Range(a, n))

(* store: the blocks marked after one at a.  Only the one of its first byte *)
(* is, and the bytes of the range in other blocks are exposed.              *)
MarkedUndivided(a) == dirty \cup {a}
Marked(a) == dirty \cup {BlockOf(a)}

PastFirstBlock(a, n) == {i \in Range(a, n) : BlockOf(i) # BlockOf(a)}

(* store: n bytes of register value v. *)
Store(a, n, v) ==
    /\ phase = "running"
    /\ WriteFrom(a, n, LowBytes(v, n), "store", v, Marked(a), PastFirstBlock(a, n))

(* load: it returns the bytes whatever the exception is, see acc. *)
Load(a, n) ==
    /\ phase = "running"
    /\ IF Bounds(a, n)
       THEN /\ acc' = Access("load", a, n, LoadValue(a, n), ReadResult(a, n))
            /\ UNCHANGED <<ram, perm, alloc_ptr, dirty, phase, segs, history>>
       ELSE Abort

(* reset_to(other), where other was loaded with the same image and not run. *)
(* A marked block beyond RAM (a wrapped store) makes the loop write outside *)
(* the vector: the process crashes or the stray bytes go unnoticed.         *)
Restored(i) == BlockOf(i) \in dirty
ResetTo ==
    /\ phase = "running"
    /\ ram' = [i \in Ram |-> IF Restored(i) THEN snapshot[i] ELSE ram[i]]
    /\ exposed' = {i \in exposed : ram'[i] # snapshot[i]}
    /\ dirty' = {}
    /\ acc' = NoAccess
    /\ phase' \in IF \E b \in dirty : b * BlockSize >= RamSize
                  THEN {"running", "aborted"} ELSE {"running"}
    /\ UNCHANGED <<perm, alloc_ptr, segs, written, snapshot>>

Next ==
    \/ LoadSegment
    \/ LoadDone
    \/ \E n \in AllocSizes : Allocate(n)
    \/ \E a \in Addresses, n \in BulkSizes : \E buf \in [0 .. n - 1 -> Byte] : BulkWrite(a, n, buf)
    \/ \E a \in Addresses, n \in AccessSizes, v \in StoreValues : Store(a, n, v)
    \/ \E a \in Addresses, n \in AccessSizes : Load(a, n)
    \/ ResetTo

Spec == Init /\ [][Next]_vars

-----------------------------------------------------------------------------
Accesses ==
    [op : {"none", "allocate", "bulk", "store", "load"}, addr : Nat, len : Nat, val : Value,
     exc : {"NormalExecutionReturn", "UninitializedMemoryAccess", "ReadMemoryWithNoPermission"}]

(* The variables hold the kind of value the members of MMU hold; a byte has *)
(* a permission mask of the four flags, and a marked block is any quotient  *)
(* of an address.                                                           *)
TypeOK ==
    /\ ram \in [Ram -> Byte]
    /\ perm \in [Ram -> SUBSET Flags]
    /\ alloc_ptr \in 0 .. RamSize + Granule + AllocBase
    /\ dirty \in SUBSET Nat
    /\ phase \in {"loading", "running", "aborted", "undefined"}
    /\ segs \in Seq(Segment)
    /\ acc \in Accesses
    /\ written \in SUBSET Ram
    /\ snapshot \in [Ram -> Byte]
    /\ exposed \in SUBSET Ram

(* What the RAW flag is for (allocate, write_from, read_to): a byte that a  *)
(* load may read without an exception has been written since it was handed  *)
(* out, by the loader or by the guest, however it came to be readable.      *)
ReadableWasWritten == \A i \in Ram : "READ" \in perm[i] => i \in written

(* RAW marks exactly the bytes of allocated memory nobody has written, and  *)
(* such a byte is not readable: read_to never returns stale heap contents   *)
(* as an ordinary value.                                                    *)
RawMeansUnwritten == \A i \in Ram : "RAW" \in perm[i] => /\ i \notin written
                                                         /\ "READ" \notin perm[i]

(* The break separates used from unused memory (load_file, allocate): past  *)
(* alloc_ptr no byte has a permission or was ever written, so no allocation *)
(* overlaps a segment of the program or an earlier allocation.              *)
NothingPastBreak == \A i \in Ram : i >= alloc_ptr => perm[i] = {} /\ i \notin written

(* Once the program runs, text and read-only data keep their contents and   *)
(* their permissions, through any sequence of stores, system-call writes,   *)
(* allocations and resets.                                                  *)
ReadOnlyIsKept ==
    [][phase = "running" =>
         \A i \in Ram : perm[i] # {} /\ "WRITE" \notin perm[i]
                        => ram'[i] = ram[i] /\ perm'[i] = perm[i]]_vars

(* The break never moves down: what brk() has handed out stays allocated.   *)
BreakNeverShrinks == [][alloc_ptr' >= alloc_ptr]_vars

(* What reset_to() can undo: a byte that no longer is as it was loaded lies  *)
(* in a marked block, however the stores, resets and allocations came, when *)
(* only stores touched it, each in its first block.  store() marks no other *)
(* block and write_from none: what those write stays behind after a reset.  *)
ChangedIsMarked ==
    phase = "running" =>
        \A i \in Ram \ exposed : ram[i] # snapshot[i] => BlockOf(i) \in dirty

(* To its users the memory is cells with or without contents, a set of      *)
(* readable and one of writable cells, and a break (Memory): the masks, the *)
(* sums that wrap, the rounding and the reset of marked blocks keep that.   *)
Contents(i) == IF perm[i] = {} \/ "RAW" \in perm[i] THEN {} ELSE {ram[i]}
Cells ==
    INSTANCE Memory WITH
        Cells <- Ram, Top <- AddrSpace,
        alive <- phase \in {"loading", "running"}, loading <- phase = "loading",
        contents <- [i \in Ram |-> Contents(i)],
        readable <- {i \in Ram : "READ" \in perm[i]},
        writable <- {i \in Ram : "WRITE" \in perm[i]},
        brk <- alloc_ptr, access <- acc
ImplementsMemory == Cells!Spec

(* assert(start_addr + len < ram_size) in read_to and write_from: an access *)
(* that returns lies inside RAM.                                            *)
AccessInsideRam ==
    acc.op \in {"load", "store", "bulk"} => acc.addr + acc.len < RamSize
=============================================================================
