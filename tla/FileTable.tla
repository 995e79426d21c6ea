----------------------------- MODULE FileTable -----------------------------
(***************************************************************************)
(* What the file system calls of fuzz_emu amount to for the guest: a       *)
(* function from descriptors to files with a position, and the answer to   *)
(* the last call.  Positions are plain numbers here, counts are compared   *)
(* without wrapping, and a descriptor names one file.                      *)
(*                                                                         *)
(* It describes the code, not POSIX, in three places: a read that finds     *)
(* nothing left answers with the descriptor, fstat answers with the size of *)
(* the file opened last, and close and fstat look at the low half of the    *)
(* descriptor only.  A file whose length the host would not tell is open    *)
(* but has no contents, and reading it may do anything.                     *)
(***************************************************************************)
EXTENDS Naturals, Sequences

CONSTANTS
    HostFiles,  \* the contents of the files that can be opened
    Counts,     \* the sizes of reads
    Failed,     \* the answer -1
    IntSpace,   \* number of values of the int that close and fstat take
    SizeBase    \* sizes are reported modulo this

VARIABLES
    alive,   \* the emulator has neither exited nor been stopped
    files,   \* [descriptor -> [data, pos, sized]]
    answer   \* the last call on a file, and what it returned

vars == <<alive, files, answer>>

None == [op |-> "none", fd |-> 0, value |-> 0]
Answers(op, fd, value) == answer' = [op |-> op, fd |-> fd, value |-> value]
Called(op) == answer'.op = op   \* which call this step is
Low(fd) == fd % IntSpace
Size(h) == IF h.sized THEN Len(h.data) ELSE Failed
Beyond(h) == ~h.sized \/ h.pos > Len(h.data)
MoveTo(fd, pos) == files' = [files EXCEPT ![fd].pos = pos]

Init ==
    /\ alive = TRUE
    /\ files = [fd \in 0 .. 2 |-> [data |-> <<>>, pos |-> 0, sized |-> TRUE]]
    /\ answer = None

(* A new file gets a descriptor above all that are open. *)
Open(data, sized) ==
    LET fd == answer'.fd IN
    /\ Answers("open", fd, fd)
    /\ \A g \in DOMAIN files : g < fd
    /\ files' = [g \in DOMAIN files \cup {fd} |->
                    IF g = fd THEN [data |-> data, pos |-> 0, sized |-> sized] ELSE files[g]]

Close(fd) ==
    /\ Answers("close", fd, 0)
    /\ Low(fd) \in DOMAIN files
    /\ files' = [g \in DOMAIN files \ {Low(fd)} |-> files[g]]

Seek(fd, pos) == Answers("lseek", fd, pos) /\ MoveTo(fd, pos)
SeekUnknown(fd) == Answers("lseek", fd, Failed) /\ fd \notin DOMAIN files /\ UNCHANGED files

(* As many bytes as were asked for or are left. *)
Read(fd, count) ==
    LET h == files[fd]
        left == Len(h.data) - h.pos
        n == IF count < left THEN count ELSE left
    IN  /\ ~Beyond(h)
        /\ Answers("read", fd, IF n = 0 THEN fd ELSE n)
        /\ MoveTo(fd, h.pos + n)

(* Past the end, or without an end, a read may do anything to the position. *)
ReadOutside(fd) ==
    /\ Answers("read", fd, answer'.value)
    /\ Beyond(files[fd])
    /\ MoveTo(fd, files'[fd].pos)

Newest == CHOOSE fd \in DOMAIN files : \A g \in DOMAIN files : g <= fd
Stat(fd) ==
    /\ Answers("fstat", fd, IF fd = 1 THEN 0 ELSE Size(files[Newest]) % SizeBase)
    /\ Low(fd) \in DOMAIN files
    /\ UNCHANGED files

(* A call that concerns no file. *)
Other == answer' = None /\ UNCHANGED files

(* exit, a descriptor that is not open, a failed assert.  What is left of   *)
(* the files then is nobody's business.                                     *)
Stop == alive /\ alive' = FALSE

Next ==
    \/ Stop
    \/ /\ alive /\ alive'
       /\ \/ Other
          \/ \E data \in HostFiles : Open(data, TRUE)
          \/ Open(<<>>, FALSE)
          \/ Called("close") /\ Close(answer'.fd)
          \/ Called("fstat") /\ Stat(answer'.fd)
          \/ \E fd \in DOMAIN files \cap {answer'.fd} :
                \/ Called("lseek") /\ Seek(fd, files'[fd].pos)
                \/ Called("read") /\ (ReadOutside(fd) \/ \E n \in Counts : Read(fd, n))
          \/ Called("lseek") /\ SeekUnknown(answer'.fd)

Spec == Init /\ [][Next]_vars
=============================================================================
