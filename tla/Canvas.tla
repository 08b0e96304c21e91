------------------------------- MODULE Canvas -------------------------------
(***************************************************************************)
(* Programs that draw: NDL_DrawRect() of libndl on the file system.        *)
(*                                                                         *)
(* Every program keeps a frame of the whole screen and draws it with three *)
(* system calls, lseek(fbdev, 0, SEEK_SET), write(fbdev, frame) and        *)
(* close(fbdev).  The timer may give the CPU to another program between    *)
(* any two of them, and the offset of /dev/fb belongs to all of them.      *)
(***************************************************************************)
EXTENDS FileSystem

CONSTANT Program        \* programs, named by the pixels they paint

ASSUME CanvasAssumption == Program \subseteq Nat \ {0} /\ Width * Height < SizeT

VARIABLE pc             \* the call a program makes next

drawVars == <<vars, pc>>

FrameLength == Width * Height

CanvasInit == Init /\ pc = [p \in Program |-> "lseek"]

At(p, here, next) == pc[p] = here /\ pc' = [pc EXCEPT ![p] = next]

Rewind(p) == At(p, "lseek", "write") /\ SeekSet(FD_FBDEV, 0)
Draw(p)   == At(p, "write", "close") /\ fb_write(p, FrameLength)
Finish(p) == At(p, "close", "lseek") /\ fs_close(FD_FBDEV)

CanvasNext == \E p \in Program : Rewind(p) \/ Draw(p) \/ Finish(p)

CanvasSpec == CanvasInit /\ [][CanvasNext]_drawVars

----------------------------------------------------------------------------
(* Whatever calls of other programs come between lseek() and write(), a    *)
(* program that draws shows its whole frame: fb_write() takes a write of   *)
(* that length as a frame, wherever the shared offset stands, as long as   *)
(* fs_write() does not cut it (NDL.c:102-104, fs.c:96-104,                 *)
(* device.c:49-50).  For that /dev/fb must be as long as all programs      *)
(* together can move the offset between two lseek().                       *)
FrameWhole ==
  [][\A p \in Program : pc[p] = "write" /\ pc'[p] = "close" =>
       screen' = [i \in Pixel |-> p]]_drawVars

(* Drawing never stops the machine, and never leaves the frame of one      *)
(* program mixed with that of another (gpu.c:18-38).                       *)
OneFrame ==
  /\ machine = "runs"
  /\ \A i, j \in Pixel : screen[i] = screen[j]
=============================================================================
