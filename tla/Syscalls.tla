------------------------------ MODULE Syscalls ------------------------------
(***************************************************************************)
(* The system calls of fuzz_emu (VEmu::ECALL under FUZZ_ENV in             *)
(* src/VEmu.cpp) on the table of open files (file_table in include/VEmu.h) *)
(* and on the guest memory, which is MMU.  One action is one ECALL with    *)
(* any arguments.  The guest's own loads and stores are the business of    *)
(* MMU's runs and are left out here.  Before the first call the            *)
(* constructor of VEmu loads the program and lays out stack and arguments. *)
(*                                                                         *)
(* The argument and result registers are unsigned numbers below AddrSpace, *)
(* like addresses.  A file is the sequence of its bytes, any bytes if the  *)
(* host's read fails; one whose length the host refuses to tell (a pipe, a *)
(* terminal) has none and the length -1.  The host side (open, lseek, the  *)
(* descriptor it returns) is external.                                     *)
(***************************************************************************)
EXTENDS Integers, Sequences, SequencesExt

CONSTANTS
    AddrSpace, RamSize, BlockSize, Granule, AllocBase, ByteBase, RegBytes, Images,
    Addresses, AllocSizes, AccessSizes, BulkSizes, StoreValues,   \* of MMU
    ArgLists,    \* the argument lists, each a sequence of strings: sequences of bytes
    ProgName,    \* bin_file_name
    StackSize,   \* STACK_SIZE
    ArgBytes,    \* the 256 bytes allocated for each argument
    StrayBytes,  \* bound: the bytes that may lie in front of a file's buffer
    HostFiles,   \* the contents of the files that the guest names
    MaxHostFd,   \* bound: descriptors of the process, its RLIMIT_NOFILE
    IntSpace,    \* number of values of an int: 2^32
    Fds,         \* the descriptors the guest passes
    Breaks,      \* the arguments of brk()
    Offsets,     \* the offsets of lseek(), modulo AddrSpace
    Counts,      \* the sizes of read() and write()
    StatBytes,   \* the size of riscv_stat
    MaxSeeks     \* bound: calls that move a position with no end to stop at

VARIABLES
    ram, perm, alloc_ptr, dirty, phase, segs, acc, written, snapshot, exposed,  \* of MMU
    args,        \* the arguments of the guest program
    todo,        \* what the constructor has still to do after load_file
    sp, ptr,     \* iregs[REG_SP], and the last address allocated for a string
    file_table,  \* the open files
    host_fds,    \* number of descriptors the process has open
    a0,          \* iregs[REG_A0]
    has_exited,  \* set by exit_emu()
    nseeks,      \* calls of lseek(), and of read() on a file without length
    call         \* history: the last system call and what it did

M == INSTANCE MMU

memory == <<ram, perm, alloc_ptr, dirty, phase, segs, acc, written, snapshot, exposed>>
startup == <<args, todo, sp, ptr>>
files == <<file_table, host_fds, nseeks>>
vars == <<memory, args, todo, sp, ptr, file_table, host_fds, nseeks, a0, has_exited, call>>

Unsigned == 0 .. AddrSpace - 1
HalfSpace == AddrSpace \div 2
MinusOne == AddrSpace - 1

ASSUME SyscallsAssumption ==
    /\ AddrSpace \in Nat /\ MaxHostFd \in 3 .. HalfSpace
    /\ IntSpace \in Nat \ {0} /\ 2 * MaxHostFd <= IntSpace
    /\ HostFiles \subseteq Seq(0 .. ByteBase - 1)
    /\ ArgLists \subseteq Seq(Seq(1 .. ByteBase - 1)) /\ ProgName \in Seq(1 .. ByteBase - 1)
    /\ \A l \in ArgLists : \A i \in 1 .. Len(l) : Len(l[i]) < HalfSpace
    /\ Len(ProgName) < HalfSpace
    /\ StackSize \in 0 .. HalfSpace - 1 /\ ArgBytes \in 0 .. HalfSpace - 1
    /\ StrayBytes \subseteq 0 .. ByteBase - 1
    /\ \A f \in HostFiles : Len(f) < HalfSpace
    /\ Fds \subseteq Unsigned /\ Breaks \subseteq Unsigned
    /\ Offsets \subseteq Unsigned /\ Counts \subseteq Unsigned
    /\ StatBytes \in 1 .. HalfSpace /\ MaxSeeks \in Nat

(* What MMU assumes of its sizes and images. *)
ASSUME MemoryAssumption ==
    /\ RamSize \in Nat \ {0} /\ Granule \in Nat \ {0} /\ AllocBase \in Nat
    /\ ByteBase \in Nat \ {0} /\ RegBytes \in Nat \ {0}
    /\ 2 * (RamSize + Granule + AllocBase) <= AddrSpace
    /\ Images \subseteq Seq(M!Segment) /\ Addresses \subseteq Unsigned

-----------------------------------------------------------------------------
Signed(x) == IF x < HalfSpace THEN x ELSE x - AddrSpace
Minus(x, y) == IF x >= y THEN x - y ELSE x - y + AddrSpace

(* The int that a register holds.  A negative one is a number here that no  *)
(* descriptor reaches.                                                      *)
ToInt(x) == x % IntSpace

(* A FileHandle.  inside is history: the guest has not moved idx past the   *)
(* end with lseek().                                                        *)
FileHandle(fd, data, len) == [fd |-> fd, data |-> data, len |-> len, idx |-> 0, inside |-> TRUE]
Sized(h) == h.len # MinusOne

(* The first entry of the table for fd; 0 if there is none. *)
Entries(fd) == {i \in 1 .. Len(file_table) : file_table[i].fd = fd}
EntryOf(fd) ==
    IF Entries(fd) = {} THEN 0
    ELSE CHOOSE i \in Entries(fd) : \A j \in Entries(fd) : i <= j

WithoutNext(s, i) == SubSeq(s, 1, i) \o SubSeq(s, i + 2, Len(s))
Without(s, i) == SubSeq(s, 1, i - 1) \o SubSeq(s, i + 1, Len(s))

Call(name, fd, buf, n, from, data) ==
    [name |-> name, fd |-> fd, buf |-> buf, n |-> n, from |-> from, data |-> data,
     sized |-> TRUE]
NoCall == Call("none", 0, 0, 0, 0, <<>>)

Running == phase = "running" /\ ~has_exited /\ todo = <<>>

(* A failed assert, an exception nobody catches or exit(). *)
Die ==
    /\ M!Abort
    /\ call' = NoCall
    /\ UNCHANGED <<startup, files, a0, has_exited>>

Return(x, c) == a0' = x /\ call' = c /\ UNCHANGED <<startup, has_exited>>

-----------------------------------------------------------------------------
(* What VEmu::VEmu does after load_file, in order: the stack, three zeros   *)
(* of which the last ends argv, the arguments from the last to the first,   *)
(* each allocated, copied and pushed, the program's name, and argc.         *)
Do(op, s) == [op |-> op, s |-> s]
PassString(s) == <<Do("allocate", <<>>), Do("write", s), Do("push_ptr", <<>>)>>
PassArgsForward(l) == FlattenSeq([i \in 1 .. Len(l) |-> PassString(l[i])])
PassArgs(l) == FlattenSeq([i \in 1 .. Len(l) |-> PassString(l[Len(l) + 1 - i])])
Layout(l) ==
    <<Do("stack", <<>>), Do("push_zero", <<>>), Do("push_zero", <<>>), Do("push_zero", <<>>)>>
        \o PassArgs(l) \o PassString(ProgName) \o <<Do("push_argc", <<>>)>>

(* The register that holds x. *)
Reg(x) == [k \in 0 .. RegBytes - 1 |-> (x \div ByteBase^k) % ByteBase]

-----------------------------------------------------------------------------
(* The emulator has loaded its program; descriptors that earlier emulators  *)
(* of the process opened may still be open.                                 *)
Init ==
    /\ M!Init
    /\ args \in ArgLists /\ todo = Layout(args)
    /\ sp = 0 /\ ptr = 0
    /\ file_table = <<FileHandle(0, <<>>, 0), FileHandle(1, <<>>, 0), FileHandle(2, <<>>, 0)>>
    /\ host_fds \in 3 .. MaxHostFd
    /\ nseeks = 0
    /\ a0 = 0
    /\ has_exited = FALSE
    /\ call = NoCall

(* VEmu::VEmu: the program is loaded before it can make a system call.      *)
LoadProgram ==
    /\ M!LoadSegment \/ M!LoadDone
    /\ call' = NoCall
    /\ UNCHANGED <<startup, files, a0, has_exited>>

Starting(op) == phase = "running" /\ todo # <<>> /\ Head(todo).op = op

StartStep ==
    todo' = Tail(todo) /\ UNCHANGED <<args, files, a0, has_exited, call>>

StartStack ==
    /\ Starting("stack") /\ StartStep
    /\ M!Allocate(StackSize)
    /\ sp' = M!Plus(alloc_ptr, StackSize)
    /\ UNCHANGED ptr

StartAllocate ==
    /\ Starting("allocate") /\ StartStep
    /\ M!Allocate(ArgBytes)
    /\ ptr' = alloc_ptr
    /\ UNCHANGED sp

(* write_string_to_addr: the string and a zero. *)
StartWrite ==
    /\ Starting("write") /\ StartStep
    /\ LET s == Head(todo).s
       IN M!BulkWrite(ptr, Len(s) + 1, [k \in 0 .. Len(s) |-> IF k < Len(s) THEN s[k + 1] ELSE 0])
    /\ UNCHANGED <<sp, ptr>>

(* push_to_stack *)
StartPush(op, x) ==
    /\ Starting(op) /\ StartStep
    /\ M!Store(Minus(sp, RegBytes), RegBytes, Reg(x))
    /\ sp' = Minus(sp, RegBytes)
    /\ UNCHANGED ptr

Startup ==
    \/ StartStack \/ StartAllocate \/ StartWrite
    \/ StartPush("push_zero", 0) \/ StartPush("push_ptr", ptr)
    \/ StartPush("push_argc", Len(args) + 1)

(* The signed distance from the break.  When it overflows, the compiler may *)
(* have wrapped it or compared the two numbers instead.                     *)
Increment(addr) == IF addr = 0 THEN 0 ELSE Signed(addr) - alloc_ptr
BrkResultOld(inc) == alloc_ptr
BrkResult(inc) == M!Plus(alloc_ptr, inc)

SysBrk(addr) ==
    /\ Running
    /\ LET inc == Increment(addr)
       IN  \/ /\ inc < 0
              /\ Return(MinusOne, Call("brk", 0, 0, 0, 0, <<>>))
              /\ UNCHANGED <<memory, files>>
           \/ inc < -HalfSpace /\ Die
           \/ /\ inc >= 0
              /\ M!Allocate(inc)
              /\ IF phase' = "running"
                 THEN Return(BrkResult(inc), Call("brk", 0, alloc_ptr, inc, 0, <<>>))
                 ELSE Return(a0, NoCall)
              /\ UNCHANGED files

(* VERBOSE_OUTPUT is off: nothing is written, and all of it was. *)
SysWrite(count) ==
    /\ Running
    /\ Return(count, Call("write", 0, 0, count, 0, <<>>))
    /\ UNCHANGED <<memory, files>>

(* open: a file that is missing, one descriptor too many or no memory for   *)
(* the file is an assert.  The host's descriptors are never closed, so the  *)
(* lowest free one is new.                                                  *)
OpenedFdIndex == Len(file_table)
OpenedFd == host_fds
FileSizeWithZero(data) == Len(data) + 1
FileSize(data) == Len(data)
Opened(h) ==
    /\ file_table' = Append(file_table, h)
    /\ host_fds' = host_fds + 1
    /\ Return(h.fd, Call("open", h.fd, 0, 0, 0, h.data))
    /\ UNCHANGED <<memory, nseeks>>
SysOpen(data) ==
    /\ Running
    /\ IF host_fds < MaxHostFd
       THEN Opened(FileHandle(OpenedFd, data, FileSize(data)))
       ELSE Die

(* lseek fails: the size is -1, the buffer one of malloc(0) that the failed *)
(* read leaves as it is, and the zero goes in front of it, fatal or not.    *)
SysOpenUnsized ==
    /\ Running /\ host_fds < MaxHostFd
    /\ Die \/ Opened(FileHandle(OpenedFd, <<>>, MinusOne))
SysOpenMissing == Running /\ Die

(* close: an unknown descriptor ends the emulator with status 12. *)
SysClose(fd) ==
    /\ Running
    /\ IF EntryOf(ToInt(fd)) = 0
       THEN has_exited' = TRUE /\ UNCHANGED file_table
       ELSE file_table' = Without(file_table, EntryOf(ToInt(fd))) /\ UNCHANGED has_exited
    /\ call' = Call("close", fd, 0, 0, 0, <<>>)
    /\ UNCHANGED <<memory, startup, host_fds, nseeks, a0>>

(* exit: the status, a remainder by 255, is returned by run(). *)
SysExit ==
    /\ Running
    /\ has_exited' = TRUE
    /\ call' = Call("exit", 0, 0, 0, 0, <<>>)
    /\ UNCHANGED <<memory, startup, files, a0>>

(* fstat: the file is searched by the int, but 1 is told from the others by *)
(* the whole register.  The size stored is that of the last file opened; of *)
(* the structure its low byte is kept.                                      *)
StatSize(fd) == IF fd = 1 THEN 0 ELSE file_table[Len(file_table)].len
StatBuf(fd) == [k \in 0 .. StatBytes - 1 |-> IF k = 0 THEN StatSize(fd) % ByteBase ELSE 0]
SysFstat(fd, buf) ==
    /\ Running
    /\ IF EntryOf(ToInt(fd)) = 0
       THEN Die
       ELSE /\ M!BulkWrite(buf, StatBytes, StatBuf(fd))
            /\ IF phase' = "running" THEN Return(0, Call("fstat", fd, buf, StatBytes, 0, <<>>))
                                     ELSE Return(a0, NoCall)
            /\ UNCHANGED files

(* lseek: no position is refused. *)
Sought(h, offset, whence) ==
    CASE whence = "SEEK_SET" -> offset
      [] whence = "SEEK_CUR" -> M!Plus(h.idx, offset)
      [] whence = "SEEK_END" -> M!Plus(h.len, offset)
SysLseek(fd, offset, whence) ==
    /\ Running
    /\ IF EntryOf(fd) = 0
       THEN Return(MinusOne, Call("lseek", fd, 0, 0, 0, <<>>)) /\ UNCHANGED <<file_table, nseeks>>
       ELSE LET h == file_table[EntryOf(fd)]
                i == Sought(h, offset, whence)
            IN  /\ nseeks < MaxSeeks /\ nseeks' = nseeks + 1
                /\ file_table' = [file_table EXCEPT ![EntryOf(fd)].idx = i,
                                                    ![EntryOf(fd)].inside = (i <= h.len)]
                /\ Return(i, Call("lseek", fd, 0, 0, 0, <<>>))
    /\ UNCHANGED <<memory, host_fds>>
SysLseekBadWhence(fd) == Running /\ EntryOf(fd) # 0 /\ Die

(* read: how many bytes it copies.  A length of half the address space or   *)
(* more, from a position past the end or a huge count, is refused by the    *)
(* vector's constructor with an exception that nobody catches.              *)
ReadCount(h, count) == IF M!Plus(h.idx, count) >= h.len THEN Minus(h.len, h.idx) ELSE count

(* The bytes copied: those of the file, or with idx negative or the length  *)
(* unknown whatever the heap holds there, if reading it does not crash.     *)
ReadDataFromStart(h, n) ==
    IF Sized(h) /\ h.idx <= h.len
    THEN {[k \in 0 .. n - 1 |-> h.data[k + 1]]}
    ELSE [0 .. n - 1 -> StrayBytes]
ReadData(h, n) ==
    IF Sized(h) /\ h.idx <= h.len
    THEN {[k \in 0 .. n - 1 |-> h.data[h.idx + k + 1]]}
    ELSE [0 .. n - 1 -> StrayBytes]

(* The position afterwards. *)
AdvancedByCount(h, n, count) == M!Plus(h.idx, count)
Advanced(h, n, count) == M!Plus(h.idx, n)

ReadCall(fd, buf, n, h) ==
    [Call("read", fd, buf, n, h.idx, h.data) EXCEPT !.sized = Sized(h)]

SysRead(fd, buf, count) ==
    /\ Running
    /\ IF EntryOf(fd) = 0
       THEN Die
       ELSE LET h == file_table[EntryOf(fd)]
                n == ReadCount(h, count)
            IN  IF n = 0
                THEN /\ call' = ReadCall(fd, buf, 0, h)
                     /\ a0' = fd   \* the register still holds the argument
                     /\ UNCHANGED <<memory, startup, files, has_exited>>
                ELSE \/ (n >= HalfSpace \/ h.idx > h.len \/ ~Sized(h)) /\ Die
                     \/ /\ n < HalfSpace
                        /\ \E b \in ReadData(h, n) : M!BulkWrite(buf, n, b)
                        /\ file_table' = [file_table EXCEPT ![EntryOf(fd)].idx = Advanced(h, n, count)]
                        /\ IF phase' = "running"
                           THEN Return(n, ReadCall(fd, buf, n, h))
                           ELSE Return(a0, NoCall)
                        /\ Sized(h) \/ nseeks < MaxSeeks
                        /\ nseeks' = IF Sized(h) THEN nseeks ELSE nseeks + 1
                        /\ UNCHANGED host_fds

(* A number that ECALL does not know: exit(EXIT_FAILURE). *)
Unsupported == Running /\ Die

Next ==
    \/ LoadProgram
    \/ Startup
    \/ \E addr \in Breaks : SysBrk(addr)
    \/ \E n \in Counts : SysWrite(n)
    \/ \E f \in HostFiles : SysOpen(f)
    \/ SysOpenUnsized
    \/ SysOpenMissing
    \/ \E fd \in Fds : SysClose(fd)
    \/ SysExit
    \/ \E fd \in Fds, buf \in Addresses : SysFstat(fd, buf)
    \/ \E fd \in Fds, o \in Offsets, w \in {"SEEK_SET", "SEEK_CUR", "SEEK_END"} : SysLseek(fd, o, w)
    \/ \E fd \in Fds : SysLseekBadWhence(fd)
    \/ \E fd \in Fds, buf \in Addresses, n \in Counts : SysRead(fd, buf, n)
    \/ Unsupported

Spec == Init /\ [][Next]_vars

-----------------------------------------------------------------------------
Handle ==
    [fd : 0 .. MaxHostFd - 1, data : Seq(0 .. ByteBase - 1), len : Unsigned,
     idx : Unsigned, inside : BOOLEAN]

(* The table holds handles whose len is the length of their data, or -1     *)
(* where the host did not tell it, and the result register a 64-bit number. *)
TypeOK ==
    /\ file_table \in Seq(Handle)
    /\ \A i \in 1 .. Len(file_table) : file_table[i].len \in {Len(file_table[i].data), MinusOne}
    /\ host_fds \in 3 .. MaxHostFd
    /\ nseeks \in 0 .. MaxSeeks
    /\ a0 \in Unsigned
    /\ has_exited \in BOOLEAN

(* Every system call finds its file by the first entry with its descriptor: *)
(* no two open files share one, after any opens and closes (0, 1 and 2      *)
(* included), so a read or a seek reaches the file that was opened.         *)
FdsDistinct ==
    \A i, j \in 1 .. Len(file_table) :
        /\ file_table[i].fd < host_fds
        /\ file_table[i].fd = file_table[j].fd => i = j

(* Unless the guest itself seeks past the end, no sequence of reads, of any *)
(* size up to 2^64 - 1, takes the position out of the file: `idx + count'   *)
(* may wrap, `len - idx' may not.                                           *)
IndexInFile ==
    \A i \in 1 .. Len(file_table) :
        file_table[i].inside => file_table[i].idx <= file_table[i].len

(* A read that returns a count has put exactly that many bytes of the file, *)
(* from its position on, into the guest's memory (ECALL, write_from).  Of a *)
(* file without a length nothing is claimed: the code has no bytes of it.   *)
ReadDelivers ==
    call.name = "read" /\ call.n > 0 /\ call.sized /\ call.from <= Len(call.data)
        /\ call.buf + call.n < AddrSpace /\ phase = "running" =>
            /\ a0 = call.n
            /\ call.from + call.n <= Len(call.data)
            /\ \A k \in 0 .. call.n - 1 : ram[call.buf + k] = call.data[call.from + k + 1]

(* brk() returns the break it has set, or -1 and leaves the break where it  *)
(* was; what it hands out is memory that nobody has used yet.               *)
BrkReturnsBreak ==
    [][call'.name = "brk" =>
         /\ a0' = alloc_ptr' \/ (a0' = MinusOne /\ alloc_ptr' = alloc_ptr)
         /\ \A i \in alloc_ptr .. alloc_ptr' - 1 : perm[i] = {} /\ perm'[i] = {"RAW", "WRITE"}]_vars

(* The arguments in memory: at sp their number, above it their addresses,   *)
(* and a zero.                                                              *)
Slot(i) == [k \in 0 .. RegBytes - 1 |-> ram[sp + i * RegBytes + k]]
StringAt(a, s) ==
    /\ \A k \in 1 .. Len(s) : ram[a + k - 1] = s[k]
    /\ ram[a + Len(s)] = 0
ArgvInPlace ==
    LET argv == <<ProgName>> \o args
    IN  /\ Slot(0) = Reg(Len(argv))
        /\ \A i \in 1 .. Len(argv) :
              \E a \in 0 .. RamSize - 1 : Slot(i) = Reg(a) /\ StringAt(a, argv[i])
        /\ Slot(Len(argv) + 1) = Reg(0)

(* What the guest finds when it starts: argc, and argv in order with the    *)
(* program's name first; every string is complete, though each was          *)
(* allocated, copied and pushed while the rest grew around it (VEmu::VEmu,  *)
(* push_to_stack, write_string_to_addr).                                    *)
ArgvWellFormed ==
    [][todo # <<>> /\ todo' = <<>> /\ phase' = "running" => ArgvInPlace']_vars

(* What the guest can know of its files: the open ones with their position, *)
(* and the answer to the last call.  An fstat() whose buffer goes past the  *)
(* last address stores nothing (`addr + len' wraps in write_from) and tells *)
(* the guest nothing.                                                       *)
FileCalls == {"open", "close", "lseek", "read", "fstat"}
Answered == call.name \in FileCalls /\ ~(call.name = "fstat" /\ call.buf + call.n >= AddrSpace)
OpenFiles ==
    [fd \in {file_table[i].fd : i \in 1 .. Len(file_table)} |->
        [data |-> file_table[EntryOf(fd)].data, pos |-> file_table[EntryOf(fd)].idx,
         sized |-> Sized(file_table[EntryOf(fd)])]]
LastAnswer ==
    IF Answered
    THEN [op |-> call.name, fd |-> call.fd,
          value |-> CASE call.name = "close" -> 0
                      [] call.name = "fstat" -> ram[call.buf]
                      [] OTHER -> a0]
    ELSE [op |-> "none", fd |-> 0, value |-> 0]
Alive == phase \in {"loading", "running"} /\ ~has_exited

(* The guest sees its files as a function from descriptors to contents and  *)
(* positions (FileTable): the search in a vector that grows and shrinks,    *)
(* the sums that wrap and the copies implement that.  What FileTable itself *)
(* takes over from the code, see there, is not judged by this.              *)
Files ==
    INSTANCE FileTable WITH
        Failed <- MinusOne, SizeBase <- ByteBase,
        alive <- Alive, files <- OpenFiles, answer <- LastAnswer
FilesAreTable == Files!Spec
=============================================================================
