------------------------------- MODULE Memory -------------------------------
(***************************************************************************)
(* What the guest memory promises to the rest of the emulator: cells with  *)
(* or without contents, of which some may be read and some written, and a  *)
(* break below which they lie.  There are no flags, blocks or addresses    *)
(* that wrap here.                                                         *)
(*                                                                         *)
(* A cell without contents can be writable, fresh from an allocation, but  *)
(* never readable.  Rights of the program's cells do not change any more   *)
(* once it runs; a fresh cell becomes readable when it is first written.   *)
(***************************************************************************)
EXTENDS Naturals

CONSTANTS
    Cells,   \* the addresses of RAM
    Top      \* accesses that would end past this address are not described

VARIABLES
    alive,     \* no assertion has failed
    loading,   \* the program is still being placed
    contents,  \* [Cells -> {} or the singleton of a byte]
    readable,  \* the cells that may be read
    writable,  \* the cells that may be written
    brk,       \* the first address never allocated
    access     \* the last access: its kind, address, length, value and exception

vars == <<alive, loading, contents, readable, writable, brk, access>>

rights == <<readable, writable>>
Span(a, n) == {i \in Cells : a <= i /\ i < a + n}
SameRights(i) == (i \in readable' <=> i \in readable) /\ (i \in writable' <=> i \in writable)
Alike(i, j) == (i \in readable' <=> j \in readable') /\ (i \in writable' <=> j \in writable')
Ok == access'.exc = "NormalExecutionReturn"

Init ==
    /\ alive = TRUE /\ loading = TRUE
    /\ contents = [i \in Cells |-> {}]
    /\ readable = {} /\ writable = {}
    /\ brk \in Nat
    /\ access.op = "none"

(* A segment takes a range of cells, whatever was there, with one set of    *)
(* rights; all of them lie below the break afterwards.                      *)
Place ==
    /\ loading /\ loading'
    /\ brk' >= brk
    /\ \E a, b \in Cells :
          /\ b <= brk'
          /\ \A i \in Cells \ Span(a, b - a) : contents'[i] = contents[i] /\ SameRights(i)
          /\ \A i, j \in Span(a, b - a) : Alike(i, j)
    /\ \A i \in Cells : i >= brk' => contents'[i] = {} /\ i \notin readable' \cup writable'
    /\ \A i \in readable' : contents'[i] # {}
    /\ UNCHANGED access

Started == loading /\ ~loading' /\ UNCHANGED <<contents, rights, brk, access>>

(* The next n cells, which nobody has had before. *)
Grow ==
    LET a == access'.addr
        n == access'.len
    IN  /\ access'.op = "allocate"
        /\ a = brk /\ brk' = brk + n
        /\ \A i \in Span(a, n) : contents[i] = {} /\ i \notin readable \cup writable
        /\ writable' = writable \cup Span(a, n)
        /\ UNCHANGED <<contents, readable>>

(* All the cells of a write are writable, and none but them changes. *)
Write ==
    LET a == access'.addr
        n == access'.len
        S == Span(a, n)
    IN  /\ access'.op \in {"store", "bulk"} /\ a + n < Top
        /\ S \subseteq writable
        /\ \A i \in Cells \ S : contents'[i] = contents[i]
        /\ \A i \in S : contents'[i] # {}
        /\ access'.op = "store" => \A i \in S : contents'[i] = {access'.val[i - a]}
        /\ readable' = readable \cup {i \in S : contents[i] = {}}
        /\ UNCHANGED <<writable, brk>>

(* A read without an exception returns what the cells hold; one with an     *)
(* exception touched a cell that may not be read.                           *)
Read ==
    LET a == access'.addr
        S == Span(a, access'.len)
    IN  /\ access'.op = "load" /\ a + access'.len < Top
        /\ IF Ok THEN S \subseteq readable /\ \A i \in S : contents[i] = {access'.val[i - a]}
                 ELSE ~(S \subseteq readable)
        /\ UNCHANGED <<contents, rights, brk>>

(* An access past the top of the address space changes no cell. *)
Beyond ==
    /\ access'.op \in {"store", "bulk", "load"} /\ access'.addr + access'.len >= Top
    /\ UNCHANGED <<contents, rights, brk>>

(* A reset gives no cell contents that had none, and takes none away: the   *)
(* rights and the break stay as the program left them.                      *)
Reset ==
    /\ access'.op = "none"
    /\ \A i \in Cells : (contents'[i] = {}) <=> (contents[i] = {})
    /\ \A i \in readable \ writable : contents'[i] = contents[i]
    /\ UNCHANGED <<rights, brk>>

Next ==
    /\ alive
    /\ \/ alive' = FALSE   \* a failed assertion
       \/ /\ alive'
          /\ \/ Place \/ Started
             \/ ~loading /\ ~loading' /\ (Grow \/ Write \/ Read \/ Beyond \/ Reset)

Spec == Init /\ [][Next]_vars
=============================================================================
