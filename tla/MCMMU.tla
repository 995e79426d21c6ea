------------------------------- MODULE MCMMU -------------------------------
(* Small memories for MMU: four program images over eight bytes of RAM,    *)
(* blocks of two bytes and addresses that wrap at 24.  The images have text *)
(* and data of which the second overlaps a block of the first, a segment    *)
(* longer in the file than in memory, one that ends past RAM, and one whose *)
(* end wraps round the addresses.                                           *)
EXTENDS MMU, TLC

Text == [perms |-> {"READ", "EXEC"}, start_addr |-> 1, mem_size |-> 1, data |-> <<1>>]
Data == [perms |-> {"READ", "WRITE"}, start_addr |-> 2, mem_size |-> 2, data |-> <<1>>]
Cut == [perms |-> {"WRITE"}, start_addr |-> 2, mem_size |-> 1, data |-> <<1, 1>>]
TooHigh == [perms |-> {"READ"}, start_addr |-> 5, mem_size |-> 3, data |-> <<>>]
Wrapped == [perms |-> {"READ"}, start_addr |-> 23, mem_size |-> 2, data |-> <<1>>]

MCImages == {<<Text, Data>>, <<Cut, Text>>, <<Data, TooHigh>>, <<Data, Wrapped>>}
MCAddresses == {1, 2, 3, 4, 5, 23}
MCAllocSizes == {1, 2}
MCAccessSizes == {1, 2}
MCBulkSizes == {2}
MCStoreValues == {(0 :> 0 @@ 1 :> 1)}
=============================================================================
