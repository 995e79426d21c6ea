-------------------------------- MODULE UART --------------------------------
(***************************************************************************)
(* The serial port (src/UART.cpp, include/UART.h): 256 bytes of registers  *)
(* shared by two threads.  The reader thread, which the constructor        *)
(* detaches, takes bytes from stdin and never locks the mutex; the         *)
(* emulator thread runs load() and store() for the guest, and locks it     *)
(* against nobody.  Every access to uart_mem is therefore a step of its    *)
(* own, and `|=' and `&=' are two: the devices exist in test_emu alone,    *)
(* which is built without optimisation, so each access in the source is    *)
(* one in the program.                                                     *)
(*                                                                         *)
(* A byte is the set of its bits.  The registers kept are the two that the *)
(* code gives a meaning and LCR, which stands for the others.  The guest   *)
(* may load and store any of them at any time.                             *)
(***************************************************************************)
EXTENDS Naturals, Sequences

CONSTANTS
    Stdin,        \* the bytes that arrive on standard input before its end
    StoreValues,  \* the bytes that the guest stores
    MaxLsrStores  \* bound: stores of the guest to LSR

Bits == 0 .. 7
Byte == SUBSET Bits
RX == 0   \* UART_LSR_RX
TX == 5   \* UART_LSR_TX
Regs == {"RHR", "LSR", "LCR"}

(* What a load or store of the guest can return, here or elsewhere on the bus. *)
ReturnException ==
    {"NormalExecutionReturn", "LoadAccessFault", "StoreAMOAccessFault",
     "ReadMemoryWithNoPermission", "UninitializedMemoryAccess"}

ASSUME UARTAssumption ==
    /\ Stdin \in Seq(Byte)
    /\ StoreValues \subseteq Byte
    /\ MaxLsrStores \in Nat

VARIABLES
    uart_mem,      \* the registers
    rpc, c, rtmp,  \* the reader: its place, the byte read, its copy of LSR
    taken,         \* number of bytes it has taken from stdin
    gpc, gtmp,     \* the emulator: its place in load8, its copy of LSR
    ret,           \* what the last finished load() or store() returned
    nstores,       \* stores to LSR so far, bounded by MaxLsrStores
    \* History variables, read by the properties only:
    acked,         \* the guest has cleared RX since RHR was last written
    rhr_read,      \* the byte in RHR has been returned to the guest
    saw_rx,        \* the guest has seen RX set since it last loaded RHR
    polite         \* the guest has loaded RHR only after seeing RX, and never stored LSR

reader == <<rpc, c, rtmp, taken>>
guest == <<gpc, gtmp, ret, nstores, saw_rx, polite>>
vars == <<uart_mem, rpc, c, rtmp, taken, gpc, gtmp, ret, nstores, acked, rhr_read, saw_rx, polite>>

-----------------------------------------------------------------------------
(* UART::UART: c is uninitialised until the first byte arrives. *)
Init ==
    /\ uart_mem = [r \in Regs |-> IF r = "LSR" THEN {TX} ELSE {}]
    /\ rpc = "get" /\ c \in {{}, Bits} /\ rtmp = {}
    /\ taken = 0
    /\ gpc = "idle" /\ gtmp = {} /\ ret = "NormalExecutionReturn"
    /\ nstores = 0
    /\ acked = TRUE /\ rhr_read = TRUE /\ saw_rx = FALSE /\ polite = TRUE

(* The reader thread.  `cin >> c' waits for a byte; once stdin has ended it *)
(* fails at once, every time, and leaves c as it was.                       *)
Get ==
    /\ rpc = "get"
    /\ IF taken < Len(Stdin)
       THEN c' = Stdin[taken + 1] /\ taken' = taken + 1
       ELSE UNCHANGED <<c, taken>>
    /\ rpc' = "spin"
    /\ UNCHANGED <<uart_mem, rtmp, guest, acked, rhr_read>>

(* The busy-wait on LSR; it goes round without a change while RX is set.    *)
SpinAlways == rpc = "spin"
SpinDone == rpc = "spin" /\ RX \notin uart_mem["LSR"]
Spin ==
    /\ SpinDone
    /\ rpc' = "put"
    /\ UNCHANGED <<uart_mem, c, rtmp, taken, guest, acked, rhr_read>>

Put ==
    /\ rpc = "put"
    /\ uart_mem' = [uart_mem EXCEPT !["RHR"] = c]
    /\ rpc' = "load_lsr"
    /\ acked' = FALSE /\ rhr_read' = FALSE
    /\ UNCHANGED <<c, rtmp, taken, guest>>

LoadLsr ==
    /\ rpc = "load_lsr"
    /\ rtmp' = uart_mem["LSR"]
    /\ rpc' = "store_lsr"
    /\ UNCHANGED <<uart_mem, c, taken, guest, acked, rhr_read>>

RaisedWide(b) == b \cup {8}
Raised(b) == b \cup {RX}
StoreLsr ==
    /\ rpc = "store_lsr"
    /\ uart_mem' = [uart_mem EXCEPT !["LSR"] = Raised(rtmp)]
    /\ rpc' = "get"
    /\ UNCHANGED <<c, rtmp, taken, guest, acked, rhr_read>>

Reader == Get \/ Spin \/ Put \/ LoadLsr \/ StoreLsr

-----------------------------------------------------------------------------
(* load8 of any register but RHR: one access. *)
Load8(r) ==
    /\ gpc = "idle" /\ r # "RHR"
    /\ ret' = "NormalExecutionReturn"
    /\ saw_rx' = (saw_rx \/ (r = "LSR" /\ RX \in uart_mem["LSR"]))
    /\ UNCHANGED <<uart_mem, reader, gpc, gtmp, nstores, acked, rhr_read, polite>>

(* load8 of RHR: RX is cleared in LSR before RHR is read. *)
Load8Rhr ==
    /\ gpc = "idle"
    /\ gtmp' = uart_mem["LSR"]
    /\ gpc' = "clear"
    /\ polite' = (polite /\ saw_rx)
    /\ saw_rx' = FALSE
    /\ UNCHANGED <<uart_mem, reader, ret, nstores, acked, rhr_read>>

LoweredAll(b) == {}
LoweredNothing(b) == b
Lowered(b) == b \ {RX}
ClearRx ==
    /\ gpc = "clear"
    /\ uart_mem' = [uart_mem EXCEPT !["LSR"] = Lowered(gtmp)]
    /\ gpc' = "read"
    /\ acked' = TRUE
    /\ UNCHANGED <<reader, gtmp, ret, nstores, rhr_read, saw_rx, polite>>

ReadRhr ==
    /\ gpc = "read"
    /\ ret' = "NormalExecutionReturn"
    /\ rhr_read' = TRUE
    /\ gpc' = "idle"
    /\ UNCHANGED <<uart_mem, reader, gtmp, nstores, acked, saw_rx, polite>>

(* store8: to THR, the address of RHR, it prints; else it is a plain store. *)
Store8(r, v) ==
    /\ gpc = "idle"
    /\ r = "LSR" => nstores < MaxLsrStores
    /\ uart_mem' = IF r = "RHR" THEN uart_mem ELSE [uart_mem EXCEPT ![r] = v]
    /\ nstores' = IF r = "LSR" THEN nstores + 1 ELSE nstores
    /\ acked' = (acked \/ (r = "LSR" /\ RX \notin v))
    /\ polite' = (polite /\ r # "LSR")
    /\ ret' = "NormalExecutionReturn"
    /\ UNCHANGED <<reader, gpc, gtmp, rhr_read, saw_rx>>

(* load() and store() of any size but 8 bits. *)
WrongSize(e) ==
    /\ gpc = "idle"
    /\ ret' = e
    /\ UNCHANGED <<uart_mem, reader, gpc, gtmp, nstores, acked, rhr_read, saw_rx, polite>>

Guest ==
    \/ \E r \in Regs : Load8(r)
    \/ Load8Rhr \/ ClearRx \/ ReadRhr
    \/ \E r \in Regs, v \in StoreValues : Store8(r, v)
    \/ \E e \in {"LoadAccessFault", "StoreAMOAccessFault"} : WrongSize(e)

Next == Reader \/ Guest

Spec == Init /\ [][Next]_vars

-----------------------------------------------------------------------------
(* The members of UART hold bytes, and both threads are at a place of their *)
(* code.                                                                    *)
TypeOK ==
    /\ uart_mem \in [Regs -> Byte]
    /\ rpc \in {"get", "spin", "put", "load_lsr", "store_lsr"}
    /\ c \in Byte /\ rtmp \in Byte
    /\ taken \in 0 .. Len(Stdin)
    /\ gpc \in {"idle", "clear", "read"} /\ gtmp \in Byte
    /\ ret \in ReturnException
    /\ nstores \in 0 .. MaxLsrStores
    /\ acked \in BOOLEAN /\ rhr_read \in BOOLEAN /\ saw_rx \in BOOLEAN /\ polite \in BOOLEAN

(* Flow control (the busy-wait of the reader thread): RHR is overwritten    *)
(* only after the guest has cleared RX since the last byte, by a load of    *)
(* RHR or a store to LSR, in every interleaving of the two unlocked         *)
(* read-modify-writes of LSR.                                               *)
AckedBeforeOverwrite == [][rpc = "put" /\ rpc' = "load_lsr" => acked]_vars

(* The transmitter stays ready ("the transmit-holding reg is empty", the    *)
(* constructor): unless the guest stores to LSR itself, no interleaving of  *)
(* the two read-modify-writes loses the TX bit.                             *)
TransmitterReady == nstores = 0 => TX \in uart_mem["LSR"]

(* Under a guest that goes on loading RHR, the reader never stays in its    *)
(* busy-wait: every byte of stdin is taken and reaches RHR.                 *)
EveryByteArrives ==
    \A k \in 1 .. Len(Stdin) : <>(taken >= k /\ rpc = "load_lsr")

(* "The 0th bit if set, data is received and is stored in either receive    *)
(* holding register or in the UART FIFO" (defs.h): a guest that waits for   *)
(* RX before every load of RHR finds in it a byte it has not had yet.       *)
RxMeansUnread ==
    polite /\ gpc = "idle" /\ RX \in uart_mem["LSR"] => ~rhr_read
=============================================================================
