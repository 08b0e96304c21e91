--------------------------- MODULE MCNanosKernel ---------------------------
(* The process core on a small machine: pcb[0] runs hello, the others      *)
(* nterm.  "lost" stands for any path that is not on the ramdisk.          *)
EXTENDS NanosKernel

CONSTANTS hello, lost

MCPrograms  == {hello, Nterm}
MCMissing   == {lost}
MCInitImage == [p \in Proc |-> IF p = 0 THEN hello ELSE Nterm]
MCImgPages  == [f \in MCPrograms |-> IF f = hello THEN 1 ELSE 2]
=============================================================================
