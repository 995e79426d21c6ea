----------------------------- MODULE MCSyscalls -----------------------------
(* A memory of 18 bytes with one data segment, a stack of seven registers   *)
(* of a byte, room for arguments of one character (the second list has one  *)
(* too long), a file of two bytes, at most two descriptors to spare and one *)
(* byte that brk() can still hand out.  Numbers wrap at 42; 41 is -1.  An   *)
(* int wraps at 10: to close and fstat, 13 is 3.                            *)
EXTENDS Syscalls

Data == [perms |-> {"READ", "WRITE"}, start_addr |-> 1, mem_size |-> 2, data |-> <<1>>]
MCImages == {<<Data>>}
MCAddresses == {2}
MCAllocSizes == {}
MCAccessSizes == {}
MCBulkSizes == {}
MCStoreValues == {}
MCArgLists == {<<<<3>>, <<4>>>>, <<<<5, 6>>>>}
MCProgName == <<7>>
MCHostFiles == {<<1, 0>>}
MCFds == {1, 3, 13}
MCBreaks == {0, 2, 17, 18, 25}
MCOffsets == {1, 41}
MCCounts == {1, 41}
=============================================================================
