-------------------------------- MODULE Bus --------------------------------
(***************************************************************************)
(* The bus of test_emu (src/Bus.cpp) with its three devices: CLINT and     *)
(* PLIC, which are 64-bit cells, and the serial port with its reader       *)
(* thread, which is module UART.  An access goes to the first device whose *)
(* range holds the address, and to the MMU if there is none.  Every access *)
(* of the guest to the port comes through here.                            *)
(*                                                                         *)
(* Addresses are the real ones.  The addresses of no device lie in RAM;    *)
(* what happens to them there is module MMU, and here any of its results.  *)
(***************************************************************************)
EXTENDS UART

CONSTANTS
    Addresses,     \* the addresses the guest uses
    Data,          \* the values it stores in CLINT and PLIC
    MaxCellStores  \* bound: stores to CLINT and PLIC that are accepted

CLINT_BASE == \h2000000
CLINT_SIZE == \h10000
CLINT_MTIMECMP == CLINT_BASE + \h4000
CLINT_MTIME == CLINT_BASE + \hbff8
PLIC_BASE == \hc000000
PLIC_SIZE == \h4000000
PLIC_PENDING == PLIC_BASE + \h1000
PLIC_SENABLE == PLIC_BASE + \h2080
PLIC_SPRIORITY == PLIC_BASE + \h201000
PLIC_SCLAIM == PLIC_BASE + \h201004
UART_BASE == \h10000000
UART_SIZE == \h100
UART_RHR == UART_BASE
UART_LCR == UART_BASE + 3
UART_LSR == UART_BASE + 5
UART_IRQ == 10

ClintRegs == {CLINT_MTIMECMP, CLINT_MTIME}
PlicRegs == {PLIC_PENDING, PLIC_SENABLE, PLIC_SPRIORITY, PLIC_SCLAIM}
Sizes == {8, 16, 32, 64}

VARIABLES
    clint, plic,   \* their registers, by address
    interrupting,  \* UART::interrupting, which the constructor does not set
    ncell,         \* accepted stores to CLINT and PLIC, bounded by MaxCellStores
    \* History variables, read by the properties only:
    last,          \* what the guest last stored in each register with the right size
    delivered      \* how much of stdin has reached RHR

cells == <<clint, plic, interrupting, ncell, last>>
busVars == <<vars, cells, delivered>>

-----------------------------------------------------------------------------
(* The devices in the order of Bus::devices. *)
Devices == <<"CLINT", "PLIC", "UART">>
Base(d) == CASE d = "CLINT" -> CLINT_BASE [] d = "PLIC" -> PLIC_BASE [] d = "UART" -> UART_BASE
Size(d) == CASE d = "CLINT" -> CLINT_SIZE [] d = "PLIC" -> PLIC_SIZE [] d = "UART" -> UART_SIZE

InRangeInclusive(d, addr) == addr >= Base(d) /\ addr <= Base(d) + Size(d)
InRange(d, addr) == addr >= Base(d) /\ addr < Base(d) + Size(d)

Target(addr) ==
    LET fits == {i \in 1 .. Len(Devices) : InRange(Devices[i], addr)}
    IN IF fits = {} THEN "MMU" ELSE Devices[CHOOSE i \in fits : \A j \in fits : i <= j]

RegAt(addr) ==
    CASE addr = UART_RHR -> "RHR" [] addr = UART_LSR -> "LSR" [] addr = UART_LCR -> "LCR"

ASSUME BusAssumption ==
    /\ \A a \in Addresses : Target(a) = "UART" => a \in {UART_RHR, UART_LSR, UART_LCR}
    /\ Data \subseteq Nat
    /\ MaxCellStores \in Nat

BusInit ==
    /\ Init
    /\ clint = [a \in ClintRegs |-> 0] /\ plic = [a \in PlicRegs |-> 0]
    /\ interrupting \in BOOLEAN
    /\ ncell = 0
    /\ last = [a \in ClintRegs \cup PlicRegs \cup {UART_LCR} |-> IF a = UART_LCR THEN {} ELSE 0]
    /\ delivered = 0

-----------------------------------------------------------------------------
(* CLINT and PLIC: load64 and store64.  An address with no register reads   *)
(* as 0 and ignores stores.                                                 *)
ClintLoad64(addr) == IF addr \in ClintRegs THEN clint[addr] ELSE 0
ClintStore64(addr, data) == [a \in ClintRegs |-> IF a = addr THEN data ELSE clint[a]]
PlicLoad64(addr) == IF addr \in PlicRegs THEN plic[addr] ELSE 0
PlicStore64FallsThrough(addr, data) ==
    [a \in PlicRegs |-> IF a = addr \/ (addr = PLIC_SENABLE /\ a = PLIC_SPRIORITY)
                        THEN data ELSE plic[a]]
PlicStore64(addr, data) == [a \in PlicRegs |-> IF a = addr THEN data ELSE plic[a]]

LoadAnswer(sz) == IF sz = 64 THEN "NormalExecutionReturn" ELSE "LoadAccessFault"
StoreAnswer(sz) == IF sz = 64 THEN "NormalExecutionReturn" ELSE "StoreAMOAccessFault"

(* The answer of a device that is not the port. *)
Answer(e) ==
    /\ gpc = "idle" /\ ret' = e
    /\ UNCHANGED <<uart_mem, reader, gpc, gtmp, nstores, acked, rhr_read, saw_rx, polite>>

(* CLINT::store and PLIC::store, the bus having chosen the device. *)
StoredClint(addr, data, sz) ==
    IF Target(addr) = "CLINT" /\ sz = 64 THEN ClintStore64(addr, data) ELSE clint
StoredPlic(addr, data, sz) ==
    IF Target(addr) = "PLIC" /\ sz = 64 THEN PlicStore64(addr, data) ELSE plic

-----------------------------------------------------------------------------
(* Bus::load.  MMU::load passes on what read_to found. *)
LoadCell(addr, sz) ==
    /\ Target(addr) \in {"CLINT", "PLIC"}
    /\ Answer(LoadAnswer(sz))
    /\ UNCHANGED <<cells, delivered>>

LoadPort(addr, sz) ==
    /\ Target(addr) = "UART"
    /\ IF sz # 8 THEN WrongSize("LoadAccessFault")
       ELSE IF addr = UART_RHR THEN Load8Rhr ELSE Load8(RegAt(addr))
    /\ UNCHANGED <<cells, delivered>>

LoadRam(addr) ==
    /\ Target(addr) = "MMU"
    /\ \E e \in {"NormalExecutionReturn", "ReadMemoryWithNoPermission",
                 "UninitializedMemoryAccess"} : Answer(e)
    /\ UNCHANGED <<cells, delivered>>

(* Bus::store.  Whatever MMU::store returns, the bus returns success. *)
StoreCell(addr, data, sz) ==
    /\ Target(addr) \in {"CLINT", "PLIC"}
    /\ sz = 64 => ncell < MaxCellStores
    /\ Answer(StoreAnswer(sz))
    /\ clint' = StoredClint(addr, data, sz) /\ plic' = StoredPlic(addr, data, sz)
    /\ ncell' = IF sz = 64 THEN ncell + 1 ELSE ncell
    /\ last' = [a \in DOMAIN last |-> IF a = addr /\ sz = 64 THEN data ELSE last[a]]
    /\ UNCHANGED <<interrupting, delivered>>

StorePort(addr, byte, sz) ==
    /\ Target(addr) = "UART"
    /\ IF sz # 8 THEN WrongSize("StoreAMOAccessFault") ELSE Store8(RegAt(addr), byte)
    /\ last' = [a \in DOMAIN last |-> IF a = addr /\ sz = 8 THEN byte ELSE last[a]]
    /\ UNCHANGED <<clint, plic, interrupting, ncell, delivered>>

StoreRam(addr) ==
    /\ Target(addr) = "MMU"
    /\ Answer("NormalExecutionReturn")
    /\ UNCHANGED <<cells, delivered>>

(* The poll of check_pending_interrupt: an interrupt of the port is to be   *)
(* claimed in the PLIC, by a store of the value 32 with the size UART_IRQ.  *)
(* Its result is dropped.                                                   *)
PollPort ==
    /\ gpc = "idle"
    /\ interrupting' = FALSE
    /\ plic' = IF interrupting THEN StoredPlic(PLIC_SCLAIM, 32, UART_IRQ) ELSE plic
    /\ UNCHANGED <<vars, clint, ncell, last, delivered>>

(* Steps of the port alone: its thread, and the rest of a load of RHR.      *)
PortStep ==
    /\ Reader \/ ClearRx \/ ReadRhr
    /\ delivered' = IF rpc = "put" /\ rpc' # "put" THEN taken ELSE delivered
    /\ UNCHANGED cells

BusNext ==
    \/ \E a \in Addresses, sz \in Sizes : LoadCell(a, sz) \/ LoadPort(a, sz)
    \/ \E a \in Addresses : LoadRam(a) \/ StoreRam(a)
    \/ \E a \in Addresses, sz \in Sizes :
          \/ \E d \in Data : StoreCell(a, d, sz)
          \/ \E b \in StoreValues : StorePort(a, b, sz)
    \/ PollPort
    \/ PortStep

BusSpec == BusInit /\ [][BusNext]_busVars

(* The operating system runs both threads, and the guest loads RHR, through *)
(* the bus, again and again.                                                *)
BusLiveSpec ==
    /\ BusSpec
    /\ WF_busVars(PortStep /\ Reader)
    /\ WF_busVars(PortStep /\ (ClearRx \/ ReadRhr))
    /\ SF_busVars(LoadPort(UART_RHR, 8))

-----------------------------------------------------------------------------
(* What a 64-bit load of a register of CLINT or PLIC, or a byte load of     *)
(* LCR, returns now.                                                        *)
Value(addr) ==
    CASE Target(addr) = "CLINT" -> ClintLoad64(addr)
      [] Target(addr) = "PLIC" -> PlicLoad64(addr)
      [] Target(addr) = "UART" -> uart_mem[RegAt(addr)]

(* The registers that no hardware changes hold what the guest stored in     *)
(* them last with the size the device accepts: refused stores, stores to    *)
(* the neighbour's range and the claim of the interrupt poll leave them     *)
(* alone (Bus::load, Bus::store and the switches of CLINT and PLIC).        *)
RegistersReadBack == \A a \in DOMAIN last : Value(a) = last[a]

(* Behind the bus the port is a mailbox for the bytes of stdin: in order,   *)
(* none left out, none replaced before the guest has cleared RX, the last   *)
(* one again and again at the end of stdin, and always another one for a    *)
(* guest that goes on reading.                                              *)
Port == INSTANCE Mailbox WITH full <- ~acked, byte <- uart_mem["RHR"], sent <- delivered
PortIsMailbox == Port!Spec
=============================================================================
