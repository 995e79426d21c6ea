# A verification project for vemu

vemu is an emulator of a RISC-V machine (RV64IMA, part of F and of the
privileged architecture) in C++. One source tree makes two programs:

* `test_emu` runs the RISC-V test suite on a machine with a memory, a UART, a
  CLINT and a PLIC; exceptions and interrupts are taken as the privileged
  architecture says.
* `fuzz_emu` runs a user program again and again on mutated images; there are
  no devices, exceptions are ignored unless fatal, and ECALL is a subset of the
  Linux system calls.

A third build, general emulation, is an `#error` in `main.cpp`.

This directory holds TLA+ models of the parts with state and control worth
checking, TLC configurations for small instances of them, and proofs that TLAPS
checks. `PROJECT.json` maps every definition to the lines it translates.

## Inventory

| Part | State | Operations | What makes it correct |
|---|---|---|---|
| Guest memory (`MMU.cpp`) | bytes, a permission mask per byte, the break `alloc_ptr`, dirty blocks | load_file, allocate, set_perms, write_from, read_to, load, store, reset_to | flags tell which bytes were written; allocations do not overlap; read-only memory stays; the block a store changes first is marked for reset_to |
| Hart (`VEmu.cpp`) | mode, pc, CSRs | run, trap, take_interrupt, check_pending_interrupt, MRET, SRET, CSR instructions, ECALL | saved trap state survives; returns resume; Machine mode only through MTVEC |
| UART (`UART.cpp`) | 256 register bytes shared by two threads | the reader thread's loop; load, store | no byte overwritten before RX was cleared, no register bit lost, no endless wait |
| Fuzzing loop (`FuzzThread.cpp`, `util.cpp`, `main.cpp`) | images of target and corpus, file locks, mutation history | get_random_free_file, push_mutate, pop_mutate, dispatch | mutations can be undone; a file serves one run; dispatch waits for ever only when the files run out |
| System calls and startup (`VEmu::VEmu`, `VEmu::ECALL`, `FUZZ_ENV`) | file table, `a0`, the guest memory | push_to_stack, write_string_to_addr; brk, write, open, close, exit, fstat, lseek, read | descriptors unique, positions in their files, data delivered, the break reported; argv complete and in order |
| Instructions (`VEmu.cpp`, `RegFile.cpp`) | 32 registers, pc, memory | about 100 methods | agree with the identities of the ISA at the boundaries of both widths |
| Bus, CLINT, PLIC (`Bus.cpp`, `CLINT.cpp`, `PLIC.cpp`) | device list; two and four 64-bit cells | load, store by address range; the poll with the PLIC claim | an address reaches one device; cells hold what was stored |
| Decoder (`InstructionDecoder.cpp`) | caches of decoded instructions and of formats, shared by all emulators | decode, get_fields, get_immediate | one instruction per encoding; immediates as the formats have them; the caches change nothing |
| Floating point, ELF reader, test driver | | | not modelled, see the end |

They interact by calls: the run loop fetches through the bus from the memory,
instructions load and store through the bus, system calls use the memory
directly, and check_pending_interrupt polls the UART's flag. The only
concurrency is the UART's reader thread, which shares the registers with the
emulator thread without a lock. The fuzzing loop builds one emulator per run.

What is hard here: the two unlocked read-modify-writes of the line status
register; nested traps over one set of CSRs; `pc -= 4` before a `pc += 4` that
may or may not follow; 64-bit sums that wrap inside assertions; locks that are
never released; undo data applied to the wrong file; system calls with
arguments up to 2^64 - 1; device ranges that touch; decoding by table order and
through caches that outlive a program. The list, line by line, is under `hazards`.

## The modules

Each component is a module; `MC<module>` extends it with the values of the
constants that are not plain numbers. History variables, which record what a
property needs and no action reads, are marked in the declarations. Operators
that occur just before another one of a similar name and are used by nothing
(`BoundsUnchecked` before `Bounds`) are deliberate faults: replacing the second
by the first must break a property, which shows that the property can fail.

* **MMU** A byte has a set of flags. Each action is one call, a failed assert
  ends the process (`phase = "aborted"`). `load_file` is one step per segment:
  its three calls set_perms, write_from, set_perms cannot be observed in
  between. Sums of addresses wrap (`Plus`), and `Range` is what the loops over
  `i < a + n` visit, nothing when the sum wraps. `WriteFrom` is shared by
  `Store`, which marks the block of its first byte, and `BulkWrite`, which marks
  none; `exposed` records the bytes that either of them changes without a mark,
  which `reset_to` will not find. A segment may have any address and size; one
  whose end wraps passes the assertion of set_perms, `std::fill` then leaves the
  vector, and nothing is said of the process afterwards (`Undefined`).
* **Memory** What MMU promises: cells with or without contents, a readable and
  a writable set, a break. No flags, blocks or wrapping. MMU implements it
  (`ImplementsMemory`): a cell has contents unless its mask is empty or has RAW.
* **Hart** An iteration of `run()` is `Poll`, `Fetch` and one instruction.
  Memory and the integer registers are not modelled: any fetch result and any
  instruction with any operand may come next. Addresses count bytes and wrap;
  bit CSRs are sets of bit numbers; the masks of the code (`~1U`), which clear
  bit 0 and everything above bit 31, are `Low` and `LowBits`: a trap at an odd or
  a high pc saves another one. The CSR instructions write every CSR that traps
  use, the two cause registers among them. A shift by 64 or more in the delegation test is
  undefined; `Delegated` is the set of answers the build can give.
  `mframe` and `sframe` record what the last trap into each mode interrupted.
* **UART** Two threads; every access to the register array is a step, so
  `|=` and `&=` are two. `rpc` and `gpc` are the places in the code. The
  mutex is not a variable, since the reader thread never takes it and the
  emulator thread is the only one that does.
* **Bus** extends UART with the devices beside it. Addresses are the real ones;
  `Target` is the search through the device list. Every access of the guest to
  the port goes through `LoadPort` and `StorePort`, so the interleavings are
  those of UART; RAM behind the bus gives any answer that MMU can give.
  `PollPort` is the part of check_pending_interrupt that talks to the devices:
  nothing ever sets the port's flag, but the constructor does not clear it
  either, so its first value is any. Hart has the other part.
* **Mailbox** What the port promises about stdin: a box for one byte, filled in
  the order of the input when it is free, and always filled again. UART behind
  Bus implements it (`PortIsMailbox`, with its fairness); the box is full from
  the store to RHR until the guest clears RX. The last byte comes again and
  again at the end of the input, since the thread does not look at `cin`'s state;
  with no input at all it is whatever the uninitialized variable holds.
* **Fuzz** `dispatch` step by step, because each step can end the process.
  Random numbers are any numbers. `pop_mutate` takes positions of the target to
  another file: where that file has no such position the write lands somewhere
  on the heap, and `RestoreOutside` lets it change any byte of any image and any
  lock, or crash. `stray` records that this has happened.
* **Syscalls** The table of open files on an instance of MMU (`M`). Registers
  are numbers below `AddrSpace`; `ToInt` is the `(int)` cast of close and fstat,
  which read and lseek do not have. When the host's lseek fails, `len` is
  (size_t)-1 and the buffer holds nothing (`SysOpenUnsized`): a later read of that
  entry copies bytes from the heap or crashes. A file's contents may be any bytes,
  which includes a read that failed. Before
  the first call the constructor runs: `todo` is the list of allocations, copies
  and pushes it has still to make (`Layout`), each a step, as each can fail an
  assertion.
* **FileTable** What the calls on files promise: a function from descriptors to
  contents and positions in plain arithmetic. Syscalls implements it
  (`FilesAreTable`). It states three oddities of the code as they are: a read
  at the end of a file answers with the descriptor, fstat with the size of the
  file opened last, and close and fstat take the low half of a descriptor. The
  refinement shows that these are the only ones. An fstat whose buffer goes past the last address stores
  nothing (the sum in `write_from` wraps) and counts as no call on a file.
* **Decoder** A word is the set of its bits, so masks are intersections and
  shifts move bit numbers; the tables are written as value and names. A loop
  that returns the first fitting entry is the set of fitting names (`Fits`), of
  which `Unambiguous` shows that it has one member at most. Both caches are
  state; a table without the name asked for throws, and the process ends
  (`status = "crashed"`).
* **ISA** What the instruction methods compute, as operators on numbers below
  2^XLEN, and one action per kind of instruction. Powers of two are the
  recursive function `Pow2`, and `&`, `|`, `^` are sums over the bits, so that
  both can be reasoned about. `ByteBits` is any power of two (8 in the code): the
  shifts take their amount modulo the width, which for other widths would not be
  a mask of its low bits. An access may be refused: an atomic operation then
  returns at the load or at the store (`AmoReturns`), and only one that gets past
  both combines, stores and writes rd (`AmoStores`).
* **MMUProofs, HartProofs, UARTProofs, BusProofs, FuzzProofs, DecoderProofs,
  SyscallsProofs, ISAProofs** The theorems. BusProofs builds on UARTProofs, as
  Bus does on UART.

## The runs

| Run | Shows | Bounds |
|---|---|---|
| `mmu` | the flag, break, read-only and dirty-block properties, and that MMU implements Memory | 8 bytes of RAM, blocks of 2, addresses wrapping at 24, four images: text and data, a segment cut to its memory size, one that does not fit, one whose end wraps |
| `hart` | frames, handler entry, resumption, entry of Machine mode | 8 byte addresses of which 4 fit 32 bits, code at 0, 3 and 6 (one odd, one high), 2 CSR writes, one fetch fault, a fatal and a non-fatal exception |
| `bus` | flow control, transmitter bit, delivery of all of stdin, registers that read back, and that the port implements Mailbox | 2 bytes of input, one store to LSR, one accepted store to CLINT or PLIC; 9 addresses: registers of all three, the last of PLIC, one without a register, one in RAM; all four sizes |
| `fuzz` | undo data, locking, termination | 2 corpus files, 3 runs, up to 3 mutations; bytes take 2 values |
| `syscalls` | the arguments at the start, descriptors, positions, reads, brk, and that the calls implement FileTable | numbers wrapping at 42, 18 bytes of RAM with a stack of 7 and strings of 2, one argument list that fits and one with a string too long, a file of 2 bytes, files without length, up to 2 spare descriptors, ints wrapping at 10 (so that 13 is 3 to close and fstat), 1 seek or read of a file without length, one byte left for brk |
| `isa` | division, products, word operations, exchanges with memory, jumps | bytes of 1 bit (words of 4, registers of 8), 10 boundary values in 2 registers beside x0, one instruction from each such state |
| `decoder` | caches, ambiguity, names, immediates, words that end the emulator | about 25 000 words: every opcode with every funct3, every opcode in use with every funct3 and funct7, and rs2 where it matters; the words of the test programs with their disassembly; programs of several words for the caches |

The bounds are chosen so that each of these happens: addresses that wrap, a
store across two blocks, a byte written, reset and written again, an allocation
after a segment that ends inside a granule; a trap inside a handler of the same
and of the other mode, at an odd and at a high pc, delegation on and off, every MPP, vectored and direct
entry; a reader thread overtaken at each of its steps, and end of input; the
same byte mutated twice, and a restore inside and outside its file; a read at, across and past the end of a file and a
seek before its beginning; the claim of a port interrupt, a store to the last
address before RHR, and accesses of a refused size between any two steps of the
reader; two words that differ in one field after both orders of decoding them; every operand pair with a zero, -1, or the smallest
number in either width.
Two CSR writes are enough for one enabling write and one that arms an interrupt
or changes the return address; HartProofs has no such bound. For ISA one
instruction is enough, since any register contents may precede it.

Deadlock is checked for `hart` (a terminated hart stutters), `bus` and `decoder`
(an ended process stutters). The
other models stop where the program stops: after an abort, an exit, a bound, or
in `fuzz` when every file is locked and a run waits forever.

Five runs state what a comment, an assertion or the README says and find the
code doing something else; `findings` quotes the lines.

* `mmu_wrap` An access at the top of the address space passes the bounds
  assertion and does nothing.
* `hart_mret` MRET to Machine mode aborts: the two bits are compared with 0x11.
* `hart_interrupt` The first instruction after an interrupt is the word before
  the handler.
* `uart_lost` RX announces a byte the guest already has, because load8 clears
  RX before it reads RHR.
* `fuzz_target` The program being fuzzed is not restored after a run.

The models also follow the code in places where it differs from what a reader of
the RISC-V or POSIX manuals expects, but where the repository says nothing that a
run could contradict:

* LB, LH and LW of a refused load raise nothing and extend the old value of rd;
* SC.W and SC.D report success also when the store was refused, and need no
  reservation; LR.W does not extend the sign of what it loads;
* read() at the end of a file answers with the descriptor, fstat() with the size
  of the file opened last, and close() never gives a descriptor back to the host;
* writing SIE, and CSRRC, use a logical not where a bitwise one is meant;
* after a fetch fault that is not fatal the word returned beside the exception is
  executed;
* `reset_to` does not find what a store changed past its first block, nor what
  read() and fstat() wrote;
* `push_mutate` divides by zero for a segment without file bytes.

## Fairness

`Bus!BusLiveSpec`: weak fairness of the reader thread and of the two steps
inside `load8`, as the operating system schedules both threads and neither
blocks inside them. `EveryByteArrives` and the liveness of Mailbox are about
guests that keep loading RHR, so it also assumes strong fairness of that load
through the bus (strong, since the guest may be doing something else each time);
the code cannot force a guest to read.

`Fuzz!LiveSpec`: weak fairness of the steps of the loop (`Loop`). It stands for
two facts outside the loop: the process is scheduled, and the random generator
reaches the index of a free file if there is one. The guest's run is not fair,
since `VEmu::run` has no step limit and a mutated program may go on for ever.
When all files are locked `GetFile` is disabled and no fairness helps.
`DispatchEnds` says that these two are the only ways not to end: a guest that runs
for ever, or a search after every file has been used (or a lock was overwritten
by a stray restore). The run has fewer files than runs, so that the second one
happens.

## What is proved

TLAPS proves the following for every value of the constants that satisfies the
named assumptions. Each theorem rests on an inductive invariant; every one of
them was checked by TLC before its proof.

* MMUProofs. `TypeCorrect`; `PermissionsSound`, `RawSound`, `BreakSeparates`
  (ReadableWasWritten, RawMeansUnwritten, NothingPastBreak); `ReadOnlyKept`;
  `ChangesMarked` (ChangedIsMarked); `BreakMonotone`. The inductive invariant is
  TypeOK with the three flag and break invariants (`PermInv`). TypeOK's bound on
  the break is needed for the sums of allocate not to wrap; NothingPastBreak
  makes allocation harmless for the other two, as the bytes it takes were never
  written. Assumptions: sizes are naturals, RAM with one granule and the initial
  break fits twice into the address space, and sizes passed to allocate are
  non-negative as signed numbers, as brk ensures. `MemoryImplemented`: every
  step of MMU is a step of Memory. `RefInv` adds to the above that a byte that is
  not writable equals the snapshot once the program runs, which is why reset_to
  cannot change a cell that Memory holds constant. ChangesMarked is about the
  bytes that stores wrote in their first block only: the code marks no others.
* HartProofs. `TypeCorrect`, `FramesIntact`, `SupervisorFramesIntact`,
  `ExceptionsHandled`, `MachineEntry`, `Resumption`. The inductive invariant is
  TypeOK, both frame invariants and ExceptionEntersHandler, with the fact that
  no exception is outstanding when an instruction executes. Each action has a
  lemma; the traps share one on what EnterS and EnterM leave. The Machine frame
  excludes User and Supervisor code while it is on, so only a trap in Machine
  mode, which replaces the frame, or a CSR write, which gives it up, can touch it;
  the Supervisor frame needs that a delegated trap never comes from Machine mode.
  What is saved, and resumed, of the pc is `Low(pc)`.
* UARTProofs. `TypeCorrect`, `FlowControl`, `TransmitterStaysReady`. FlowControl
  needs, at each place of the reader and of load8, what the copies of LSR and
  RX say of the acknowledgement (`FlowInv`); TransmitterStaysReady that the
  copies have TX as well (`TxInv`).
* BusProofs. The same three for the whole bus (`BusTypeCorrect`,
  `BusFlowControl`, `BusTransmitterReady`): the lemmas of UARTProofs are about
  the steps on the port, wherever they come from, and the other devices leave
  the port alone. `RegistersKept` (RegistersReadBack), from `CellInv`, which says
  of each cell of CLINT and PLIC and of the port's LCR what was stored there
  last. `MailboxImplemented`: each step is one of Mailbox, from FlowInv and
  `MailInv`, which says at each place of the reader how many of the bytes it has
  taken from stdin it has delivered; this is PortIsMailbox without its fairness.
* FuzzProofs. `TypeCorrect`, `MutationsUndone` (HistoryUndoes), `FilesRunOnce`
  (OneRunPerFile), `FreeFileExists`. The invariant says in which steps which
  file is locked and that undoing the history gives the image before the
  mutation; a byte hit twice keeps its first entry. FreeFileExists is the
  counting argument behind DispatchEnds: fewer files are locked than runs were
  begun. All but TypeCorrect hold until a restore writes outside its file
  (`~stray`); afterwards images and locks may be anything.
* DecoderProofs. `CachesInvisible` (CacheIsTransparent; `CacheInv`: both caches
  hold what decoding afresh gives), `ImmediatesRight` (ImmediatesMatchFormat,
  bit by bit, for each format), `OthersAnswered` (OnlyFloatStops),
  `NamesUnambiguous` (Unambiguous, format by format from the tables). They hold
  for all 2^32 words, of which TLC sees about 25 000.
* SyscallsProofs. `TypeCorrect`, `DescriptorsDistinct` (FdsDistinct),
  `PositionsInside` (IndexInFile), `ReadsDelivered` (ReadDelivers), `BrkHonest`
  (BrkReturnsBreak), `FilesImplemented` (FilesAreTable: every step is a step of
  FileTable). `TableInv` says that the table is sorted by descriptor, because
  descriptors only grow and entries never pass each other: so the linear search
  finds the one entry of a descriptor, and the last entry is the file opened
  last. It also bounds a file by half the address space, without which
  `idx + count >= len` could be false for a sum that has wrapped; a file whose
  length the host did not tell has the largest length instead, and ReadsDelivered
  is about the others. `MemInv` is
  what the calls need of the memory, `CallInv` that no call precedes the end of
  the constructor. `ArgumentsInPlace` (ArgvWellFormed): `StartInv` says at each
  place of the constructor which arguments are on the stack and where their
  strings are. The strings lie above the stack, each above the ones before it,
  and pushes go down from the stack's top, so no step meets what is in place;
  that the list of steps has its k-th argument where it should is an induction
  over FlattenSeq's recursion. Assumptions: those of MMU; files, strings and the
  two sizes of the constructor are below half the address space. ArgumentsInPlace
  also has the hypothesis `ArgsFitStack`, since the code never checks it: an
  argument list that does not fit the stack (1 MB, more than 131 000 arguments)
  is pushed into whatever lies below. The instance of the run satisfies it.
* ISAProofs. `TypeCorrect`, `DivisionIsExact` (DivisionIdentity),
  `ProductsAreExact` (ProductHalves), `WordsStayWords` (WordOpsAreWords),
  `AtomicsExchange` (AmosExchange), `JumpsReturn` (JumpsLink), for every
  width, every operand and every sequence of instructions; TLC has 10 values per
  register of 8 bits. The inductive invariant is TypeOK with the fact that the
  operands recorded in `last` are register values (`LastOperands`). The
  properties of division, products and words are then lemmas about the operators:
  - powers of two: that `Pow2` exists, is a homomorphism from sums to products
    and grows, by induction;
  - division: `\div` and `%` are the one pair with the usual bounds (`DivMod`),
    so adding a multiple of the modulus changes no remainder (`ModShift`), and
    reading a number as signed, unsigned, or as a word changes it by a multiple
    of 2^XLEN or 2^WLEN;
  - MULHSU: the product of the operands as 128-bit numbers differs from the exact
    one by a multiple of 2^128, and its upper half is that of the exact one.
  AtomicsExchange cuts memory into the bytes below, of and above the operand,
  shows that writing the middle part leaves the other two and reads back as
  written (`MemWithFacts`), and then has the sums, minima and maxima case by case.
  Assumptions: the byte width is a power of two; register and memory values,
  immediates and addresses are below 2^XLEN.

Induction over the natural numbers is not a rule of the provers at hand; the two
modules that need it prove it for sets, from the library's theorem that `<` on Nat
is well-founded (`SetInduction`).

The proofs changed the models in five places. ISA does not use Bitwise any more,
and its byte width is assumed to be a power of two, without which
WordOpsAreWords is false (above). The strings passed to the guest are assumed to
be shorter than half the address space: a longer one would wrap the sum in
write_from, which then writes nothing. ImmediatesMatchFormat is about
a running decoder, since after get_string_name throws the current instruction
is still the previous one. Mailbox allows any byte when the input is empty. The
answer of an fstat with a wrapping buffer is none (above): FilesAreTable was
false for such addresses, which the instance of the run does not have.

Only model-checked:

* the liveness properties EveryByteArrives, DispatchEnds and the fairness half
  of PortIsMailbox (the prover has neither fairness nor ENABLED);
* AgreesWithDisassembly, which is about the words of the test programs.

## Not modelled

* The floating-point instructions: without SUPPORT_SOFTFLOAT, which no build
  sets by itself, each returns IllegalInstruction, which Hart has; with it they
  are calls of the host's arithmetic and of a library outside the repository.
  That FSQRT.S has no method and FNMADD.S and FCVT.S.L no name is in Decoder.
  `RS3_MASK` lacks bit 27 (defs.h), as Decoder has it; only these instructions
  use rs3.
* The ELF reader (an external library) and the formats it reads.
* The test driver, register dumps, messages, exit codes.
* The link from decoder to execution: Hart and ISA let any decoded instruction
  come next, with any fields, so they do not depend on Decoder.
* The constructors for raw binaries (`read_file`, `VEmu(bytes)`): an allocation
  and a copy like the ones of the ELF path; no build uses them.
* The lifetime of the UART object, which its detached thread outlives.

## Plan

1. (done) MMU, Hart, UART, Fuzz, Syscalls and ISA with their runs; proofs for
   MMU, Hart and UART.
2. (done) Bus with CLINT and PLIC, composed with UART; Decoder; the start of a
   guest program; the abstract specifications Memory, Mailbox and FileTable with
   the refinements.
3. (done) Proofs: the refinements of Memory, Mailbox (safety) and FileTable; the
   invariants of Fuzz, Syscalls, Decoder and of the registers behind Bus.
4. (done) Proofs about ISA, with powers of two and bitwise operations that can be
   reasoned about, and of the arguments that the constructor lays out.
