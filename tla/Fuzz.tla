-------------------------------- MODULE Fuzz --------------------------------
(***************************************************************************)
(* The fuzzing loop of fuzz_emu: main() reads the corpus and the target,   *)
(* and FuzzThread::dispatch() makes its runs (src/main.cpp,                *)
(* src/FuzzThread.cpp, src/util.cpp).                                      *)
(*                                                                         *)
(* A run locks a free file of the corpus, mutates some bytes of the target *)
(* image, builds an emulator from that image, undoes the mutation and runs *)
(* the emulator.  The steps of a run are separate actions because each one *)
(* can end the process.  The random numbers are any numbers; that they     *)
(* come from one global generator with a fixed seed only makes the runs    *)
(* repeatable.  An image is a function from its positions, pairs of a      *)
(* segment and an offset in the segment's file bytes, to bytes.            *)
(***************************************************************************)
EXTENDS Naturals, Sequences, FiniteSets

CONSTANTS
    Corpus,        \* the files of the corpus directory
    Target,        \* the program to fuzz
    SegSizes,      \* the file sizes of the segments of every file
    Contents,      \* the images as read_elf() returns them
    Byte,          \* the values of a byte
    Rands,         \* the bytes gen_rand() % 255 can produce: never 255
    MaxMutations,  \* at most 7 bytes are mutated in a run
    Runs           \* the argument of dispatch(), 100

Files == Corpus \cup {Target}
Positions(f) == UNION {{s} \X (0 .. SegSizes[f][s + 1] - 1) : s \in 0 .. Len(SegSizes[f]) - 1}

ASSUME FuzzAssumption ==
    /\ IsFiniteSet(Corpus) /\ Target \notin Corpus
    /\ Rands \subseteq Byte
    /\ SegSizes \in [Files -> Seq(Nat)]
    /\ DOMAIN Contents = Files /\ \A f \in Files : Contents[f] \in [Positions(f) -> Byte]
    /\ MaxMutations \in Nat /\ Runs \in Nat

VARIABLES
    pc,        \* where main() or dispatch() is; "done", "exited", "crashed"
    data,      \* the images: FileInfo::segments[].data
    locked,    \* the files whose FileInfo::lock is held
    runs,      \* runs still to begin
    input,     \* input_info
    nbytes,    \* mutations still to make in this run
    hist,      \* MutationHistory: the first value of each mutated position
    \* History variables, read by the properties only:
    stray,     \* a restore has written outside the file it was for
    base,      \* the target image when the run began
    runs_of    \* how many runs each file of the corpus was the input of

vars == <<pc, data, locked, runs, input, nbytes, hist, stray, base, runs_of>>

Empty == [p \in {} |-> {}]

Ended == {"done", "exited", "crashed"}

(* Control goes on to `place' and nothing else changes. *)
GoTo(place) ==
    /\ pc' = place
    /\ UNCHANGED <<data, locked, runs, input, nbytes, hist, stray, base, runs_of>>

-----------------------------------------------------------------------------
Init ==
    /\ pc = "read"
    /\ data = Contents
    /\ locked = {}
    /\ runs = Runs
    /\ input = Target
    /\ nbytes = 0
    /\ hist = Empty
    /\ stray = FALSE
    /\ base = Contents[Target]
    /\ runs_of = [f \in Corpus |-> 0]

(* Corpus::Corpus and read_elf: a file that is no ELF file ends main(). *)
ReadFiles ==
    /\ pc = "read"
    /\ GoTo("loop") \/ GoTo("exited")

(* while (runs--), and a fresh MutationHistory. *)
BeginRun ==
    /\ pc = "loop"
    /\ IF runs = 0
       THEN GoTo("done")
       ELSE /\ runs' = runs - 1
            /\ hist' = Empty
            /\ base' = data[Target]
            /\ pc' = "get"
            /\ UNCHANGED <<data, locked, input, nbytes, stray, runs_of>>

(* get_random_free_file: it tries random files until one can be locked, and *)
(* nobody ever unlocks one.  With no file at all it divides by zero.        *)
FreeAlways == Corpus
FreeFirst == {CHOOSE f \in Corpus : TRUE} \ locked
Free == Corpus \ locked
GetFile ==
    /\ pc = "get"
    /\ IF Corpus = {}
       THEN GoTo("crashed")
       ELSE \E f \in Free, n \in 0 .. MaxMutations :
               /\ input' = f
               /\ locked' = locked \cup {f}
               /\ runs_of' = [runs_of EXCEPT ![f] = @ + 1]
               /\ nbytes' = n
               /\ pc' = "mutate"
               /\ UNCHANGED <<data, runs, hist, stray, base>>

(* push_mutate(target, n, hist): one iteration.  Both remainders are taken  *)
(* by sizes that an ELF file may have as zero.                              *)
RememberedLatest(p) == [q \in DOMAIN hist \cup {p} |-> IF q = p THEN data[Target][p] ELSE hist[q]]
Remembered(p) == IF p \in DOMAIN hist THEN hist ELSE RememberedLatest(p)
Mutate(p, v) ==
    /\ hist' = Remembered(p)
    /\ data' = [data EXCEPT ![Target][p] = v]
    /\ nbytes' = nbytes - 1
    /\ UNCHANGED <<pc, locked, runs, input, stray, base, runs_of>>
PushMutate ==
    /\ pc = "mutate" /\ nbytes > 0
    /\ IF SegSizes[Target] = <<>>
       THEN GoTo("crashed")
       ELSE \E s \in 0 .. Len(SegSizes[Target]) - 1 :
               IF SegSizes[Target][s + 1] = 0
               THEN GoTo("crashed")
               ELSE \E b \in 0 .. SegSizes[Target][s + 1] - 1, v \in Rands : Mutate(<<s, b>>, v)

(* VEmu::VEmu(target, substitute_input(...)): the emulator copies the image *)
(* to its own memory, or aborts when it does not fit; `{}' is the input.    *)
Build ==
    /\ pc = "mutate" /\ nbytes = 0
    /\ GoTo("pop") \/ GoTo("crashed")

(* pop_mutate(input_info, hist): the remembered bytes of the target go back *)
(* into the file of the corpus.  Positions outside that file are undefined  *)
(* behaviour: a stray write crashes the process or lands on the heap, where *)
(* the images and the locks of all files are; each changes at most one byte *)
(* of an image, and any lock may end up held or free.                       *)
Undone(image, h) == [p \in DOMAIN image |-> IF p \in DOMAIN h THEN h[p] ELSE image[p]]
Restored == [data EXCEPT ![input] = Undone(@, hist)]
Outside == DOMAIN hist \ Positions(input)
Places == UNION {{f} \X Positions(f) : f \in Files}
Scribbled(images, bytes) ==
    [f \in Files |-> [p \in Positions(f) |->
        IF <<f, p>> \in DOMAIN bytes THEN bytes[<<f, p>>] ELSE images[f][p]]]
RestoreInside ==
    /\ Outside = {}
    /\ data' = Restored
    /\ UNCHANGED <<locked, stray>>
RestoreOutside ==
    /\ Outside # {}
    /\ stray' = TRUE
    /\ locked' \in SUBSET Corpus
    /\ \E hit \in SUBSET Places :
          /\ Cardinality(hit) <= Cardinality(Outside)
          /\ \E bytes \in [hit -> {hist[p] : p \in Outside}] : data' = Scribbled(Restored, bytes)
PopMutate ==
    /\ pc = "pop"
    /\ \/ /\ RestoreInside \/ RestoreOutside
          /\ pc' = "run"
          /\ UNCHANGED <<runs, input, nbytes, hist, base, runs_of>>
       \/ Outside # {} /\ GoTo("crashed")

(* em.run(): the guest exits, or ends the whole process: a fatal exception  *)
(* or an unsupported system call exits, a failed assert crashes.            *)
Run ==
    /\ pc = "run"
    /\ GoTo("loop") \/ GoTo("exited") \/ GoTo("crashed")

(* The steps of the loop itself. *)
Loop == ReadFiles \/ BeginRun \/ GetFile \/ PushMutate \/ Build \/ PopMutate

Next == Loop \/ Run

Spec == Init /\ [][Next]_vars

(* The loop is one thread that the operating system runs, and the generator *)
(* comes to the index of a free file if one exists.  A guest need not       *)
(* terminate, since VEmu::run() has no step limit: Run is not fair.         *)
LiveSpec == Spec /\ WF_vars(Loop)

-----------------------------------------------------------------------------
(* Images keep their positions and hold bytes; what is remembered is a byte *)
(* of some position of the target.                                          *)
TypeOK ==
    /\ pc \in {"read", "loop", "get", "mutate", "pop", "run"} \cup Ended
    /\ DOMAIN data = Files
    /\ \A f \in Files : data[f] \in [Positions(f) -> Byte]
    /\ locked \subseteq Corpus
    /\ runs \in 0 .. Runs
    /\ input \in Files
    /\ nbytes \in 0 .. MaxMutations
    /\ stray \in BOOLEAN
    /\ DOMAIN hist \subseteq Positions(Target) /\ \A p \in DOMAIN hist : hist[p] \in Byte

(* push_mutate remembers enough to undo a run: putting the remembered bytes *)
(* back into the target restores the image the run began with, however      *)
(* often the same byte was mutated.  Nothing is claimed once a restore has  *)
(* written outside its file.                                                *)
HistoryUndoes ==
    pc \in {"mutate", "pop", "run"} /\ ~stray => Undone(data[Target], hist) = base

(* The lock of a corpus file (get_random_free_file) hands each file to at   *)
(* most one run, so the corpus bounds the runs dispatch() can make; and a   *)
(* file that no run has taken is as it was read, as long as pop_mutate has  *)
(* not written outside a file.                                              *)
OneRunPerFile ==
    ~stray => \A f \in Corpus : /\ runs_of[f] <= 1
                                /\ runs_of[f] = 0 => data[f] = Contents[f]

(* dispatch() comes to its end, or a guest runs for ever, or the search for *)
(* a free file goes round for ever; the last only when every file has been  *)
(* the input of a run already, or a stray write has broken a lock.          *)
DispatchEnds ==
    <>[](\/ pc \in Ended \cup {"run"}
         \/ pc = "get" /\ (stray \/ \A f \in Corpus : runs_of[f] > 0))

(* "The fuzz target expects a corpus path along with the command line of    *)
(* the program to fuzz", whose input is what `{}' stands for (README): the  *)
(* program is the same in every run.                                        *)
TargetIsKept == pc = "get" /\ ~stray => base = Contents[Target]
=============================================================================
