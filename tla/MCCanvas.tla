------------------------------ MODULE MCCanvas ------------------------------
(* As many programs as nanos-lite has processes, on a screen of four       *)
(* pixels in two lines.                                                    *)
EXTENDS Canvas

MCfiles == << [size |-> 1, disk_offset |-> 0] >>
MCImage == [a \in {0} |-> a]
=============================================================================
