-------------------------- MODULE MCAddressSpace --------------------------
(* Pages of four words.  User space is three tables wide: the program from *)
(* page 0, the heap growing into the second table, the stack in the last   *)
(* two pages of the third; page 12 is the kernel.  Both programs have the  *)
(* shape of the linked applications: text from the start of user space,    *)
(* then data and bss at an offset inside a page.                           *)
EXTENDS AddressSpace

CONSTANTS hello, nterm

MCImage ==
  [f \in {hello, nterm} |->
     IF f = hello
       THEN [disk |-> 0, size |-> 6,
             segs |-> << [vaddr |-> 0, offset |-> 0, filesz |-> 3, memsz |-> 3],
                         [vaddr |-> 7, offset |-> 3, filesz |-> 2, memsz |-> 3] >>]
       ELSE [disk |-> 6, size |-> 9,
             segs |-> << [vaddr |-> 0, offset |-> 0, filesz |-> 2, memsz |-> 2],
                         [vaddr |-> 6, offset |-> 2, filesz |-> 5, memsz |-> 7] >>]]
MCInitImage == [p \in Proc |-> IF p = 0 THEN hello ELSE nterm]
MCSegments  == <<12>>
MCStoreAt   == {17}
MCBrkAt     == {13, 18}
=============================================================================
