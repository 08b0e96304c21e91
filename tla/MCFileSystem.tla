---------------------------- MODULE MCFileSystem ----------------------------
(* A file of two bytes and, right behind it, one of a single byte; a       *)
(* screen of one line.  SizeT - 1 stands for a length or an offset of -1.  *)
EXTENDS FileSystem

MCfiles  == << [size |-> 2, disk_offset |-> 0], [size |-> 1, disk_offset |-> 2] >>
MCImage  == [a \in 0 .. 2 |-> a]
MCLength == {1, 3, SizeT - 1}
MCOffset == {0, 1, SizeT - 1}
=============================================================================
