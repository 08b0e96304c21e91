---------------------------- MODULE CanvasProofs ----------------------------
(***************************************************************************)
(* Proofs about Canvas, for a screen of any size.  Between two calls that  *)
(* rewind the shared offset each program draws at most once, because the   *)
(* call after its write() is a close(): the offset is never further than a *)
(* frame for every program that has drawn and not yet closed.              *)
(***************************************************************************)
EXTENDS Canvas, FileSystemProofs, FiniteSetTheorems

Closing == {p \in Program : pc[p] = "close"}

CanvasInv ==
  /\ open_offset \in [Fd -> Word]
  /\ pc \in [Program -> {"lseek", "write", "close"}]
  /\ DOMAIN screen = Pixel
  /\ open_offset[FD_FBDEV] <= FrameLength * Cardinality(Closing)
  /\ OneFrame

(* nanos-lite has four processes (proc.c:3), and /dev/fb the length of     *)
(* four frames, because it is counted in bytes (fs.c:43).                  *)
FewPrograms == IsFiniteSet(Program) /\ Cardinality(Program) <= 4

LEMMA FrameBuffer ==
  /\ FrameLength \in Nat \ {0} /\ FbSize = 4 * FrameLength
  /\ Size(FD_FBDEV) = FbSize /\ FrameLength \in Word /\ Pixel = 0 .. FrameLength - 1
<1>1. FrameLength \in Nat \ {0}
  BY FileSystemAssumption DEF FrameLength
<1>2. FbSize = 4 * FrameLength
  BY <1>1, FileSystemAssumption DEF FbSize, FrameLength
<1>3. Size(FD_FBDEV) = FbSize
  BY Numbers DEF Size
<1> QED BY <1>1, <1>2, <1>3, Numbers DEF Word, Pixel, FrameLength

LEMMA Count ==
  ASSUME FewPrograms, NEW S \in SUBSET Program
  PROVE  IsFiniteSet(S) /\ Cardinality(S) \in 0 .. 4
<1>1. IsFiniteSet(S) /\ Cardinality(S) <= Cardinality(Program)
  BY FS_Subset DEF FewPrograms
<1> QED BY <1>1, FS_CardinalityType DEF FewPrograms

LEMMA CanvasStart ==
  ASSUME FewPrograms, CanvasInit
  PROVE  CanvasInv
<1>1. Closing = {}
  BY DEF CanvasInit, Closing
<1>2. FrameLength * Cardinality(Closing) = 0
  BY <1>1, FS_EmptySet, FrameBuffer
<1> QED BY <1>2, Numbers DEF CanvasInv, CanvasInit, Init, OneFrame, Word

(* The offset is at the start of the file again.                           *)
LEMMA Rewound ==
  ASSUME FewPrograms, CanvasInv, open_offset' = [open_offset EXCEPT ![FD_FBDEV] = 0],
         pc' \in [Program -> {"lseek", "write", "close"}], UNCHANGED <<screen, machine>>
  PROVE  CanvasInv'
<1>1. Closing' \in SUBSET Program
  BY DEF Closing
<1>2. Cardinality(Closing') \in Nat
  BY <1>1, Count
<1>3. FrameLength * Cardinality(Closing') >= 0
  BY <1>2, FrameBuffer
<1>4. OneFrame'
  BY DEF CanvasInv, OneFrame
<1> QED BY <1>3, <1>4, Numbers DEF CanvasInv, Word

(* A program that draws has not drawn since, so the offset is at most      *)
(* three frames, and the whole frame is written.                           *)
LEMMA Drawn ==
  ASSUME FewPrograms, CanvasInv, NEW p \in Program, Draw(p)
  PROVE  CanvasInv' /\ screen' = [i \in Pixel |-> p]
<1> DEFINE o == open_offset[FD_FBDEV]  k == Cardinality(Closing)
<1>1. /\ pc[p] = "write" /\ pc' = [pc EXCEPT ![p] = "close"]
      /\ fb_write(p, FrameLength) /\ machine = "runs"
  BY DEF Draw, At, fb_write
<1>2. Closing' = Closing \cup {p} /\ p \notin Closing
  BY <1>1 DEF Closing, CanvasInv
<1>3. /\ k \in Nat /\ k + 1 <= 4 /\ Cardinality(Closing') = k + 1
  <2>1. Closing \in SUBSET Program /\ Closing' \in SUBSET Program
    BY DEF Closing
  <2>2. IsFiniteSet(Closing) /\ k \in Nat /\ Cardinality(Closing') <= 4
    BY <2>1, Count
  <2>3. Cardinality(Closing \cup {p}) = k + 1
    BY <1>2, <2>2, FS_AddElement
  <2> QED BY <1>2, <2>2, <2>3
<1>4. /\ FrameLength * (k + 1) = FrameLength * k + FrameLength
      /\ FrameLength * (k + 1) <= 4 * FrameLength
  BY <1>3, FrameBuffer
<1>5. /\ o \in Word /\ o <= FrameLength * k
      /\ FrameLength \in Nat \ {0} /\ 4 * FrameLength < SizeT /\ SizeT \in Nat
      /\ FrameLength * k \in Int
  <2>1. o \in Word /\ o <= FrameLength * k
    BY Numbers DEF CanvasInv
  <2>2. FrameLength \in Nat \ {0} /\ 4 * FrameLength < SizeT /\ SizeT \in Nat
    BY FrameBuffer, Numbers
  <2> QED BY <1>3, <2>1, <2>2
<1> HIDE DEF o, k
<1>6. o + FrameLength <= FbSize /\ Add(o, FrameLength) = o + FrameLength
  <2>1. o + FrameLength <= FbSize /\ o + FrameLength < SizeT
    BY <1>4, <1>5, FrameBuffer DEF Word
  <2> QED BY <1>5, <2>1, AddIs, FrameBuffer
<1>7. Cut(FD_FBDEV, FrameLength) = FrameLength
  BY <1>5, <1>6, FrameBuffer DEF Cut, o, Word
<1>8. {Target(o, FrameLength, i) : i \in 0 .. FrameLength - 1} = Pixel
  BY FrameBuffer DEF Target, FrameLength
<1>9. /\ open_offset' = [open_offset EXCEPT ![FD_FBDEV] = o + FrameLength]
      /\ screen' = [i \in Pixel |-> p] /\ machine' = machine
  <2>1. FrameLength <= FbSize
    BY FrameBuffer
  <2>2. screen' = [i \in Pixel |-> IF i \in Pixel THEN p ELSE screen[i]] /\ machine' = machine
    BY <1>1, <1>7, <1>8, <2>1 DEF fb_write, o
  <2>3. open_offset' = [open_offset EXCEPT ![FD_FBDEV] = o + FrameLength]
    BY <1>1, <1>6, <1>7 DEF fb_write, Advance, o
  <2> QED BY <2>2, <2>3
<1>10. open_offset' \in [Fd -> Word] /\ open_offset'[FD_FBDEV] = o + FrameLength
  BY <1>5, <1>6, <1>9, FrameBuffer, AddIs, Numbers DEF CanvasInv
<1>11. OneFrame'
  BY <1>1, <1>9 DEF OneFrame
<1>12. o + FrameLength <= FrameLength * (k + 1)
  BY <1>4, <1>5 DEF Word
<1> QED BY <1>1, <1>3, <1>9, <1>10, <1>11, <1>12 DEF CanvasInv

LEMMA CanvasStep ==
  ASSUME FewPrograms, CanvasInv, [CanvasNext]_drawVars
  PROVE  /\ CanvasInv'
         /\ \A p \in Program : pc[p] = "write" /\ pc'[p] = "close" =>
              screen' = [i \in Pixel |-> p]
<1>1. ASSUME NEW p \in Program, Draw(p)
      PROVE  /\ CanvasInv'
             /\ \A q \in Program : pc[q] = "write" /\ pc'[q] = "close" =>
                  screen' = [i \in Pixel |-> q]
  BY <1>1, Drawn DEF Draw, At, CanvasInv
<1>2. ASSUME NEW p \in Program, Rewind(p) \/ Finish(p)
      PROVE  /\ CanvasInv'
             /\ \A q \in Program : ~(pc[q] = "write" /\ pc'[q] = "close")
  <2>1. /\ pc' \in [Program -> {"lseek", "write", "close"}]
        /\ \A q \in Program : ~(pc[q] = "write" /\ pc'[q] = "close")
    BY <1>2 DEF Rewind, Finish, At, CanvasInv
  <2>2. open_offset' = [open_offset EXCEPT ![FD_FBDEV] = 0] /\ UNCHANGED <<screen, machine>>
    BY <1>2, FrameBuffer DEF Rewind, Finish, SeekSet, SeekTo, fs_close, FD_FBDEV
  <2> QED BY <2>1, <2>2, Rewound
<1>3. CASE UNCHANGED drawVars
  BY <1>3 DEF drawVars, vars, CanvasInv, OneFrame, Closing
<1> QED BY <1>1, <1>2, <1>3 DEF CanvasNext

LEMMA CanvasInvariance ==
  ASSUME FewPrograms
  PROVE  CanvasSpec => []CanvasInv
<1>1. CanvasInit => CanvasInv
  BY CanvasStart
<1>2. CanvasInv /\ [CanvasNext]_drawVars => CanvasInv'
  BY CanvasStep
<1> QED BY <1>1, <1>2, PTL DEF CanvasSpec

(* Up to four programs never mix their frames and never stop the machine.  *)
THEOREM OneFrameCorrect ==
  ASSUME FewPrograms
  PROVE  CanvasSpec => []OneFrame
<1>1. CanvasInv => OneFrame
  BY DEF CanvasInv
<1> QED BY <1>1, CanvasInvariance, PTL

(* And each shows its whole frame when it draws, wherever the others have  *)
(* left the offset.                                                        *)
THEOREM FrameWholeCorrect ==
  ASSUME FewPrograms
  PROVE  CanvasSpec => FrameWhole
<1>1. CanvasInv /\ [CanvasNext]_drawVars
        => [\A p \in Program : pc[p] = "write" /\ pc'[p] = "close" =>
              screen' = [i \in Pixel |-> p]]_drawVars
  BY CanvasStep
<1> QED BY <1>1, CanvasInvariance, PTL DEF CanvasSpec, FrameWhole
=============================================================================
