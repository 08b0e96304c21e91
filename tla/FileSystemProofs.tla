-------------------------- MODULE FileSystemProofs --------------------------
(***************************************************************************)
(* Proofs about FileSystem, for any file table, ramdisk and screen, and    *)
(* for all contents, lengths and offsets of the calls.                     *)
(***************************************************************************)
EXTENDS FileSystem, SequenceTheorems, TLAPS

(* Lengths and offsets are below 2^32, and a sum or a difference of two of *)
(* them wraps at most once.                                                *)
Word == 0 .. SizeT - 1

LEMMA Numbers ==
  /\ SizeT \in Nat \ {0} /\ RamdiskSize \in Nat /\ FbSize \in Nat
  /\ 2 * RamdiskSize < SizeT /\ 2 * FbSize < SizeT
  /\ Length \subseteq Word /\ Offset \subseteq Word /\ EndOffset \subseteq Word
  /\ Fd \subseteq Word /\ Regular \subseteq Fd
  /\ {FD_STDIN, FD_STDOUT, FD_STDERR, FD_EVENT, FD_FBINFO, FD_FBDEV} \subseteq Fd \ Regular
<1>1. Width * Height \in Nat /\ Len(files) \in Nat
  BY FileSystemAssumption
<1>2. RamdiskSize \in Nat /\ SizeT \in Nat /\ SizeT > 2 * RamdiskSize /\ SizeT > 2 * FbSize
  BY FileSystemAssumption
<1>3. FbSize \in Nat
  BY <1>1 DEF FbSize
<1>4. Length \subseteq Word /\ Offset \subseteq Word /\ EndOffset \subseteq Word
  BY FileSystemAssumption DEF Word
<1>5. /\ Fd \subseteq Word /\ Regular \subseteq Fd
      /\ {FD_STDIN, FD_STDOUT, FD_STDERR, FD_EVENT, FD_FBINFO, FD_FBDEV} \subseteq Fd \ Regular
  <2>1. NR_FILES \in Nat /\ NR_FILES >= 6 /\ NR_FILES < SizeT
    BY <1>1, FileSystemAssumption DEF NR_FILES
  <2> QED
    BY <1>2, <2>1 DEF Word, Fd, Regular, FD_STDIN, FD_STDOUT, FD_STDERR,
                      FD_EVENT, FD_FBINFO, FD_FBDEV
<1> QED BY <1>2, <1>3, <1>4, <1>5

LEMMA AddIs ==
  ASSUME NEW a \in Word, NEW b \in Word
  PROVE  /\ Add(a, b) = IF a + b < SizeT THEN a + b ELSE a + b - SizeT
         /\ Add(a, b) \in Word
<1>1. ASSUME NEW d \in Nat \ {0}, NEW x \in 0 .. d - 1, NEW y \in 0 .. d - 1
      PROVE  (x + y) % d = IF x + y < d THEN x + y ELSE x + y - d
  OBVIOUS
<1>2. Add(a, b) = IF a + b < SizeT THEN a + b ELSE a + b - SizeT
  BY <1>1, Numbers DEF Add, Word
<1> QED BY <1>2, Numbers DEF Word

LEMMA MinusIs ==
  ASSUME NEW a \in Word, NEW b \in Word
  PROVE  /\ Minus(a, b) = IF b <= a THEN a - b ELSE a - b + SizeT
         /\ Minus(a, b) \in Word
<1>1. ASSUME NEW d \in Nat \ {0}, NEW x \in 0 .. d - 1, NEW y \in 0 .. d - 1
      PROVE  (x - y) % d = IF y <= x THEN x - y ELSE x - y + d
  OBVIOUS
<1>2. Minus(a, b) = IF b <= a THEN a - b ELSE a - b + SizeT
  BY <1>1, Numbers DEF Minus, Word
<1> QED BY <1>2, Numbers DEF Word

(* What init_fs() and files.h make of the table.                           *)
LEMMA Table ==
  ASSUME NEW fd \in Fd
  PROVE  /\ Size(fd) \in Word /\ 2 * Size(fd) < SizeT
         /\ disk_offset(fd) \in Word
         /\ fd \in Regular => disk_offset(fd) + Size(fd) <= RamdiskSize
<1>0. files \in Seq([size : Nat, disk_offset : Nat])
  BY FileSystemAssumption
<1>1. CASE fd \in Regular
  <2>1. fd - 5 \in 1 .. Len(files)
    BY <1>0, <1>1 DEF Regular, NR_FILES
  <2>2. files[fd - 5] \in [size : Nat, disk_offset : Nat]
    BY <1>0, <2>1, ElementOfSeq
  <2>3. Size(fd) \in Nat /\ disk_offset(fd) \in Nat
    BY <1>1, <2>2 DEF Size, disk_offset
  <2>4. disk_offset(fd) + Size(fd) <= RamdiskSize
    BY <1>1, FileSystemAssumption
  <2> QED BY <2>3, <2>4, Numbers DEF Word
<1>2. CASE fd \notin Regular
  BY <1>2, Numbers DEF Size, disk_offset, Word
<1> QED BY <1>1, <1>2

LEMMA CutIs ==
  ASSUME NEW fd \in Fd, NEW len \in Word, open_offset[fd] \in Word
  PROVE  /\ Cut(fd, len) \in Word
         /\ open_offset[fd] <= Size(fd) =>
              /\ Cut(fd, len) <= len
              /\ \/ /\ Cut(fd, len) <= Size(fd) - open_offset[fd]
                    /\ Add(open_offset[fd], Cut(fd, len)) = open_offset[fd] + Cut(fd, len)
                 \/ /\ open_offset[fd] + Cut(fd, len) >= SizeT
                    /\ Add(open_offset[fd], Cut(fd, len)) <= Size(fd)
<1> DEFINE o == open_offset[fd]  s == Size(fd)
<1>1. s \in Word /\ o \in Word /\ 2 * s < SizeT
  BY Table
<1>2. /\ Add(o, len) = (IF o + len < SizeT THEN o + len ELSE o + len - SizeT)
      /\ Add(o, len) \in Word
  BY <1>1, AddIs
<1>3. /\ Minus(s, o) = (IF o <= s THEN s - o ELSE s - o + SizeT)
      /\ Minus(s, o) \in Word
  BY <1>1, MinusIs
<1>4. Cut(fd, len) = IF Add(o, len) > s THEN Minus(s, o) ELSE len
  BY DEF Cut
<1> HIDE DEF o, s
<1>5. CASE Add(o, len) > s
  <2>1. Cut(fd, len) = Minus(s, o)
    BY <1>4, <1>5
  <2>2. ASSUME o <= s PROVE Minus(s, o) <= len /\ Minus(s, o) = s - o /\ Add(o, s - o) = s
    <3>1. s - o \in Word /\ o + (s - o) = s
      BY <1>1, <2>2, Numbers DEF Word
    <3>2. Add(o, s - o) = s
      BY <1>1, <3>1, AddIs, Numbers DEF Word
    <3> QED BY <1>1, <1>2, <1>3, <1>5, <2>2, <3>2, Numbers DEF Word
  <2> QED BY <1>1, <1>3, <2>1, <2>2, Numbers DEF o, s, Word
<1>6. CASE ~(Add(o, len) > s)
  BY <1>1, <1>2, <1>4, <1>6, Numbers DEF o, s, Word
<1> QED BY <1>5, <1>6

----------------------------------------------------------------------------
(* What a call does to each part of the state, whatever call it is.        *)
LEMMA TypeInit == Init => TypeOK
  BY Numbers DEF Init, TypeOK, Word

LEMMA TypeStep == TypeOK /\ [Next]_vars => TypeOK'
<1> SUFFICES ASSUME TypeOK, [Next]_vars PROVE TypeOK'
  OBVIOUS
<1> USE DEF TypeOK
<1>0. /\ open_offset \in [Fd -> Word] /\ \A fd \in Fd : open_offset[fd] \in Word
      /\ gprx \in Word /\ 0 \in Word /\ Fd \subseteq Word
  BY Numbers DEF Word
<1>1. ASSUME NEW fd \in Fd, NEW n \in Word, Advance(fd, n)
      PROVE  open_offset' \in [Fd -> Word]
  BY <1>0, <1>1, AddIs DEF Advance
<1>2. ASSUME NEW fd \in Fd, NEW offset \in Word, SeekTo(fd, offset)
      PROVE  /\ open_offset' \in [Fd -> Word] /\ gprx' \in Word
             /\ UNCHANGED <<ramdisk, screen>> /\ machine' \in {"runs", "stopped"}
  BY <1>0, <1>2 DEF SeekTo, Returns, Stop
<1>3. ASSUME NEW fd \in Fd, fs_open(fd) \/ fs_close(fd) PROVE TypeOK'
  BY <1>0, <1>3 DEF fs_open, fs_close, Returns, Word
<1>4. ASSUME NEW fd \in Fd, ReadDevice(fd) PROVE TypeOK'
  <2>1. TextLength(fd) \subseteq Word
    BY <1>0, Numbers DEF TextLength
  <2> QED BY <1>0, <1>4, <2>1 DEF ReadDevice, Returns, Stop, Word
<1>5. ASSUME NEW fd \in Fd, NEW len \in Length, fs_read(fd, len) PROVE TypeOK'
  <2>1. Cut(fd, len) \in Word
    BY <1>0, CutIs, Numbers
  <2>2. open_offset' \in [Fd -> Word] /\ gprx' \in Word
    BY <1>0, <1>1, <1>5, <2>1 DEF fs_read, Returns, Stop
  <2> QED BY <1>5, <2>2 DEF fs_read, Returns, Stop, Word
<1>6. ASSUME NEW fd \in Fd, NEW len \in Length, NEW v \in Value, fs_write(fd, v, len)
      PROVE  TypeOK'
  <2>1. Cut(fd, len) \in Word
    BY <1>0, CutIs, Numbers
  <2>2. open_offset' \in [Fd -> Word] /\ gprx' \in Word
    BY <1>0, <1>1, <1>6, <2>1 DEF fs_write, Returns, Stop
  <2>3. DOMAIN ramdisk' = Disk
    BY <1>6 DEF fs_write, Stop
  <2> QED BY <1>6, <2>2, <2>3 DEF fs_write, Returns, Stop, Word
<1>7. ASSUME NEW len \in Length, NEW v \in Value, fb_write(v, len) PROVE TypeOK'
  <2>1. Cut(FD_FBDEV, len) \in Word
    BY <1>0, CutIs, Numbers
  <2>2. open_offset' \in [Fd -> Word] /\ gprx' \in Word
    BY <1>0, <1>1, <1>7, <2>1, Numbers DEF fb_write, Returns, Stop
  <2>3. DOMAIN screen' = Pixel
    BY <1>7 DEF fb_write, Stop
  <2> QED BY <1>7, <2>2, <2>3 DEF fb_write, Returns, Stop, Word
<1>8. ASSUME NEW fd \in Fd, NEW len \in Length, WriteDevice(fd, len) PROVE TypeOK'
  BY <1>0, <1>8, Numbers DEF WriteDevice, Returns, Stop, Word
<1>9. ASSUME NEW fd \in Fd, NEW offset \in Offset, SeekSet(fd, offset) \/ SeekCur(fd, offset)
      PROVE  TypeOK'
  <2>1. offset \in Word /\ Add(open_offset[fd], offset) \in Word
    BY <1>0, AddIs, Numbers
  <2>2. \E o \in Word : SeekTo(fd, o) /\ UNCHANGED opened
    BY <1>9, <2>1 DEF SeekSet, SeekCur
  <2> QED BY <1>2, <2>2 DEF Word
<1>10. ASSUME NEW fd \in Fd, NEW offset \in EndOffset, SeekEnd(fd, offset) PROVE TypeOK'
  <2>1. Add(Size(fd), offset) \in Word
    BY Table, AddIs, Numbers
  <2> QED BY <1>0, <1>10, <2>1 DEF SeekEnd, Returns, Stop, Word
<1>11. OpenMissing \/ BadFd => TypeOK'
  BY <1>0, Numbers DEF OpenMissing, BadFd, Stop, Returns, Word
<1>12. CASE UNCHANGED vars
  BY <1>12 DEF vars
<1>13. ASSUME NEW fd \in Fd, SeekOther(fd) PROVE TypeOK'
  BY <1>0, <1>13 DEF SeekOther, Returns, Stop, Word
<1> QED
  BY <1>3, <1>4, <1>5, <1>6, <1>7, <1>8, <1>9, <1>10, <1>11, <1>12, <1>13
  DEF Next, Stopped

(* Every variable holds a value of its kind, whatever programs call with,  *)
(* offsets beyond the size included.                                       *)
THEOREM FileSystemTypes == Spec => []TypeOK
  BY TypeInit, TypeStep, PTL DEF Spec

----------------------------------------------------------------------------
(* The programs of navy-apps give SEEK_END no offset but 0.  With one that *)
(* puts a file beyond its size, or before its start, what follows does not *)
(* hold.                                                                   *)
LEMMA OffsetInit == Init => OffsetInFile
<1>1. \A fd \in Fd : Size(fd) >= 0
  BY Table DEF Word
<1> QED BY <1>1 DEF Init, OffsetInFile

LEMMA OffsetStep ==
  ASSUME EndOffset \subseteq {0}, TypeOK, OffsetInFile, [Next]_vars
  PROVE  OffsetInFile'
<1> SUFFICES ASSUME machine' = "runs" PROVE \A fd \in Fd : open_offset'[fd] <= Size(fd)
  BY DEF OffsetInFile
<1> USE DEF OffsetInFile
<1>0. /\ open_offset \in [Fd -> Word]
      /\ \A fd \in Fd : open_offset[fd] \in Word /\ Size(fd) \in Nat
  BY Table DEF TypeOK, Word
<1>1. ASSUME NEW fd \in Fd, NEW len \in Word, machine = "runs", Advance(fd, Cut(fd, len)),
             machine' = "runs"
      PROVE  \A f \in Fd : open_offset'[f] <= Size(f)
  <2>1. /\ open_offset[fd] <= Size(fd)
        /\ Cut(fd, len) \in Word
        /\ \/ /\ Cut(fd, len) <= Size(fd) - open_offset[fd]
              /\ Add(open_offset[fd], Cut(fd, len)) = open_offset[fd] + Cut(fd, len)
           \/ Add(open_offset[fd], Cut(fd, len)) <= Size(fd)
    BY <1>0, <1>1, CutIs
  <2>2. Add(open_offset[fd], Cut(fd, len)) <= Size(fd)
    BY <1>0, <2>1 DEF Word
  <2> QED BY <1>0, <1>1, <2>2 DEF Advance
<1>2. ASSUME NEW fd \in Fd, NEW offset \in Word, machine = "runs", SeekTo(fd, offset),
             machine' = "runs"
      PROVE  \A f \in Fd : open_offset'[f] <= Size(f)
  BY <1>0, <1>2 DEF SeekTo, Stop
<1>3. ASSUME NEW fd \in Fd, fs_open(fd) \/ fs_close(fd)
      PROVE \A f \in Fd : open_offset'[f] <= Size(f)
  BY <1>0, <1>3 DEF fs_open, fs_close
<1>4. ASSUME NEW fd \in Fd, NEW len \in Length, fs_read(fd, len)
      PROVE \A f \in Fd : open_offset'[f] <= Size(f)
  BY <1>1, <1>4, Numbers DEF fs_read, Stop
<1>5. ASSUME NEW fd \in Fd, NEW len \in Length, NEW v \in Value, fs_write(fd, v, len)
      PROVE \A f \in Fd : open_offset'[f] <= Size(f)
  BY <1>1, <1>5, Numbers DEF fs_write
<1>6. ASSUME NEW len \in Length, NEW v \in Value, fb_write(v, len)
      PROVE \A f \in Fd : open_offset'[f] <= Size(f)
  BY <1>1, <1>6, Numbers DEF fb_write
<1>7. ASSUME NEW fd \in Fd, NEW offset \in Offset, SeekSet(fd, offset) \/ SeekCur(fd, offset)
      PROVE \A f \in Fd : open_offset'[f] <= Size(f)
  <2>1. offset \in Word /\ Add(open_offset[fd], offset) \in Word
    BY <1>0, AddIs, Numbers
  <2> QED BY <1>2, <1>7, <2>1 DEF SeekSet, SeekCur
<1>8. ASSUME NEW fd \in Fd, NEW offset \in EndOffset, SeekEnd(fd, offset)
      PROVE \A f \in Fd : open_offset'[f] <= Size(f)
  <2>1. Add(Size(fd), offset) = Size(fd)
    BY Table, AddIs, Numbers DEF Word
  <2> QED BY <1>0, <1>8, <2>1 DEF SeekEnd, Stop
<1>9. CASE UNCHANGED open_offset /\ (UNCHANGED machine \/ machine = "runs")
  BY <1>9
<1>10. ASSUME NEW fd \in Fd, NEW len \in Length, ReadDevice(fd) \/ WriteDevice(fd, len)
       PROVE UNCHANGED open_offset /\ machine = "runs"
  BY <1>10 DEF ReadDevice, WriteDevice
<1>11. OpenMissing \/ BadFd \/ Stopped \/ UNCHANGED vars
         => UNCHANGED open_offset /\ (UNCHANGED machine \/ machine = "runs")
  BY DEF OpenMissing, BadFd, Stopped, vars
<1>12. ASSUME NEW fd \in Fd, ReadDevice(fd) \/ SeekOther(fd)
       PROVE  UNCHANGED open_offset /\ machine = "runs"
  BY <1>12 DEF ReadDevice, SeekOther
<1> QED
  BY <1>3, <1>4, <1>5, <1>6, <1>7, <1>8, <1>9, <1>10, <1>11, <1>12 DEF Next

(* A copy that comes back is inside the file.                              *)
LEMMA CopyInFile ==
  ASSUME NEW fd \in Regular, NEW len \in Word, open_offset[fd] \in Word,
         open_offset[fd] <= Size(fd), InRamdisk(Start(fd), Cut(fd, len))
  PROVE  /\ Start(fd) = disk_offset(fd) + open_offset[fd]
         /\ Cut(fd, len) \in 0 .. Size(fd) - open_offset[fd]
         /\ Add(open_offset[fd], Cut(fd, len)) = open_offset[fd] + Cut(fd, len)
<1>0. fd \in Fd
  BY Numbers
<1>1. /\ Size(fd) \in Word /\ disk_offset(fd) \in Word
      /\ disk_offset(fd) + Size(fd) <= RamdiskSize
  BY <1>0, Table
<1>2. Start(fd) = disk_offset(fd) + open_offset[fd]
  <2>1. disk_offset(fd) + open_offset[fd] < SizeT
    BY <1>1, Numbers DEF Word
  <2> QED BY <1>1, <2>1, AddIs DEF Start
<1>3. disk_offset(fd) + open_offset[fd] + Cut(fd, len) <= RamdiskSize
  BY <1>2 DEF InRamdisk
<1>4. /\ Cut(fd, len) \in Word
      /\ \/ /\ Cut(fd, len) <= Size(fd) - open_offset[fd]
            /\ Add(open_offset[fd], Cut(fd, len)) = open_offset[fd] + Cut(fd, len)
         \/ open_offset[fd] + Cut(fd, len) >= SizeT
  BY <1>0, CutIs
<1>5. ~(open_offset[fd] + Cut(fd, len) >= SizeT)
  BY <1>1, <1>3, <1>4, Numbers DEF Word
<1> QED BY <1>1, <1>2, <1>4, <1>5, Numbers DEF Word

LEMMA WriteStep ==
  ASSUME TypeOK, OffsetInFile, Next
  PROVE  \E fd \in Fd : \A a \in Disk :
           ramdisk'[a] # ramdisk[a] =>
             /\ fd \in Regular
             /\ a - disk_offset(fd) \in open_offset[fd] .. open_offset'[fd] - 1
             /\ a - disk_offset(fd) < Size(fd)
<1>1. CASE UNCHANGED ramdisk
  BY <1>1, Numbers
<1>2. CASE ~UNCHANGED ramdisk
  <2>1. PICK fd \in Fd, len \in Length, v \in Value : fs_write(fd, v, len)
    BY <1>2 DEF Next, fs_open, fs_close, ReadDevice, fs_read, WriteDevice, SeekSet, SeekCur,
                SeekTo, SeekEnd, SeekOther, fb_write, OpenMissing, BadFd, Stopped, vars, Stop
  <2>2. /\ machine = "runs" /\ fd \in Regular /\ Advance(fd, Cut(fd, len))
        /\ InRamdisk(Start(fd), Cut(fd, len))
        /\ ramdisk' = [a \in Disk |-> IF a \in Start(fd) .. Start(fd) + Cut(fd, len) - 1
                                        THEN v ELSE ramdisk[a]]
    BY <1>2, <2>1 DEF fs_write, Stop
  <2>3. open_offset[fd] \in Word /\ open_offset[fd] <= Size(fd) /\ len \in Word
    BY <2>1, <2>2, Numbers DEF TypeOK, OffsetInFile, Word
  <2>4. /\ Start(fd) = disk_offset(fd) + open_offset[fd]
        /\ Cut(fd, len) \in 0 .. Size(fd) - open_offset[fd]
        /\ open_offset'[fd] = open_offset[fd] + Cut(fd, len)
    BY <2>2, <2>3, CopyInFile DEF Advance, TypeOK
  <2>5. disk_offset(fd) \in Nat /\ Size(fd) \in Nat
    BY Table DEF Word
  <2>6. ASSUME NEW a \in Disk, ramdisk'[a] # ramdisk[a]
        PROVE  /\ a - disk_offset(fd) \in open_offset[fd] .. open_offset'[fd] - 1
               /\ a - disk_offset(fd) < Size(fd)
    <3>1. a \in Start(fd) .. Start(fd) + Cut(fd, len) - 1 /\ a \in Int
      BY <2>2, <2>6, Numbers DEF Disk
    <3>2. open_offset[fd] \in Int
      BY <2>3, Numbers DEF Word
    <3> QED BY <2>4, <2>5, <3>1, <3>2
  <2> QED BY <2>2, <2>6
<1> QED BY <1>1, <1>2

(* No file ever stands beyond its size.                                    *)
THEOREM OffsetCorrect ==
  ASSUME EndOffset \subseteq {0}
  PROVE  Spec => []OffsetInFile
<1>1. TypeOK /\ OffsetInFile /\ [Next]_vars => OffsetInFile'
  BY OffsetStep
<1> QED BY <1>1, OffsetInit, FileSystemTypes, PTL DEF Spec

(* A call changes bytes of one file only, those its offset moves over.     *)
THEOREM WritesCorrect ==
  ASSUME EndOffset \subseteq {0}
  PROVE  Spec => WritesInPlace
<1>1. TypeOK /\ OffsetInFile /\ [Next]_vars
        => [\E fd \in Fd : \A a \in Disk :
             ramdisk'[a] # ramdisk[a] =>
               /\ fd \in Regular
               /\ a - disk_offset(fd) \in open_offset[fd] .. open_offset'[fd] - 1
               /\ a - disk_offset(fd) < Size(fd)]_vars
  BY WriteStep
<1> QED BY <1>1, OffsetCorrect, FileSystemTypes, PTL DEF Spec, WritesInPlace

----------------------------------------------------------------------------
(* The files as Files sees them.                                           *)
File(f)  == [i \in 1 .. Size(f) |-> ramdisk[disk_offset(f) + i - 1]]
Content  == [f \in Regular |-> File(f)]
Cursor   == [f \in Regular |-> open_offset[f]]
Bytes    == Value \cup {Image[a] : a \in Disk}

LEMMA Mapped ==
  ASSUME NEW f \in Regular, open_offset[f] \in Word
  PROVE  /\ Len(Content[f]) = Size(f) /\ Size(f) \in Nat /\ Content[f] = File(f)
         /\ Cursor[f] = open_offset[f]
         /\ Abs!Left(f) = Size(f) - open_offset[f]
<1>1. Size(f) \in Nat
  BY Table, Numbers DEF Word
<1>2. Content[f] = File(f) /\ Cursor[f] = open_offset[f]
  BY DEF Content, Cursor
<1>3. Len(File(f)) = Size(f)
  BY <1>1 DEF File
<1> QED BY <1>1, <1>2, <1>3 DEF Abs!Left, Content, File, Cursor

LEMMA CursorMoves ==
  ASSUME NEW f \in Regular, NEW o, open_offset \in [Fd -> Word],
         open_offset' = [open_offset EXCEPT ![f] = o]
  PROVE  Cursor' = [Cursor EXCEPT ![f] = o]
  BY Numbers DEF Cursor

LEMMA DeviceMoves ==
  ASSUME NEW fd \in Fd \ Regular, NEW o, open_offset \in [Fd -> Word],
         open_offset' = [open_offset EXCEPT ![fd] = o]
  PROVE  Cursor' = Cursor
  BY Numbers DEF Cursor

LEMMA SliceIs ==
  ASSUME NEW s, NEW o \in Nat, NEW n \in Nat
  PROVE  SubSeq(s, o + 1, o + n) = [i \in 1 .. n |-> s[o + i]]
<1> DEFINE S == {s[i] : i \in o + 1 .. o + n}
           t == SubSeq(s, o + 1, o + n)
<1>1. /\ t \in Seq(S)
      /\ Len(t) = IF o + 1 <= o + n THEN (o + n) - (o + 1) + 1 ELSE 0
      /\ \A i \in 1 .. (o + n) - (o + 1) + 1 : t[i] = s[(o + 1) + i - 1]
  BY SubSeqProperties
<1>2. Len(t) = n /\ \A i \in 1 .. n : t[i] = s[o + i]
  BY <1>1
<1>3. t \in [1 .. n -> S]
  BY <1>1, <1>2, LenProperties
<1> QED BY <1>2, <1>3

LEMMA ReadImplements ==
  ASSUME NEW f \in Regular, NEW len \in Length, TypeOK, OffsetInFile, fs_read(f, len)
  PROVE  Abs!Read(f) \/ Abs!Stop
<1> DEFINE n == Cut(f, len)  o == open_offset[f]
<1>0. /\ open_offset \in [Fd -> Word] /\ o \in Word /\ o <= Size(f) /\ len \in Word
      /\ machine = "runs"
  BY Numbers DEF TypeOK, OffsetInFile, Word, fs_read
<1>1. CASE ~(f \in opened /\ InRamdisk(Start(f), n))
  <2>1. UNCHANGED <<ramdisk, gprx, buf>> /\ machine' = "stopped"
    BY <1>1 DEF fs_read, Stop
  <2> QED BY <2>1 DEF Abs!Stop
<1>2. CASE f \in opened /\ InRamdisk(Start(f), n)
  <2>1. /\ Advance(f, n) /\ gprx' = n /\ buf' = [i \in 1 .. n |-> ramdisk[Start(f) + i - 1]]
        /\ UNCHANGED <<ramdisk, machine>>
    BY <1>2 DEF fs_read, Returns
  <2>2. /\ Start(f) = disk_offset(f) + o
        /\ n \in 0 .. Size(f) - o
        /\ Add(o, n) = o + n
    BY <1>0, <1>2, CopyInFile
  <2>3. /\ Abs!Left(f) = Size(f) - o /\ Cursor[f] = o /\ Content[f] = File(f)
        /\ Size(f) \in Nat /\ o \in Nat /\ disk_offset(f) \in Int
    BY <1>0, Mapped, Table, Numbers DEF Word
  <2> HIDE DEF n, o
  <2>4. SubSeq(Content[f], o + 1, o + n) = buf'
    <3>1. SubSeq(File(f), o + 1, o + n) = [i \in 1 .. n |-> File(f)[o + i]]
      BY <2>2, <2>3, SliceIs
    <3>2. ASSUME NEW i \in 1 .. n PROVE File(f)[o + i] = ramdisk[Start(f) + i - 1]
      BY <2>2, <2>3, <3>2 DEF File
    <3> QED BY <2>1, <2>3, <3>1, <3>2
  <2>5. Cursor' = [Cursor EXCEPT ![f] = @ + n]
    BY <1>0, <2>1, <2>2, <2>3, CursorMoves DEF Advance, o
  <2>6. Content' = Content
    BY <2>1 DEF Content, File
  <2> QED BY <2>1, <2>2, <2>3, <2>4, <2>5, <2>6
          DEF Abs!Read, Abs!Move, Content, File, Cursor
<1> QED BY <1>1, <1>2

LEMMA WriteImplements ==
  ASSUME NEW f \in Regular, NEW len \in Length, NEW v \in Value,
         TypeOK, OffsetInFile, fs_write(f, v, len)
  PROVE  Abs!Write(f) \/ Abs!Stop
<1> DEFINE n == Cut(f, len)  o == open_offset[f]
<1>0. /\ open_offset \in [Fd -> Word] /\ o \in Word /\ o <= Size(f) /\ len \in Word
      /\ machine = "runs"
  BY Numbers DEF TypeOK, OffsetInFile, Word, fs_write
<1>1. CASE ~(f \in opened /\ InRamdisk(Start(f), n))
  <2>1. UNCHANGED <<ramdisk, gprx, buf>> /\ machine' = "stopped"
    BY <1>1 DEF fs_write, Stop
  <2> QED BY <2>1 DEF Abs!Stop
<1>2. CASE f \in opened /\ InRamdisk(Start(f), n)
  <2>1. /\ Advance(f, n) /\ gprx' = n /\ buf' = <<>> /\ UNCHANGED machine
        /\ ramdisk' = [a \in Disk |-> IF a \in Start(f) .. Start(f) + n - 1
                                        THEN v ELSE ramdisk[a]]
    BY <1>2 DEF fs_write, Returns
  <2>2. /\ Start(f) = disk_offset(f) + o
        /\ n \in 0 .. Size(f) - o
        /\ Add(o, n) = o + n
    BY <1>0, <1>2, CopyInFile
  <2>3. /\ Abs!Left(f) = Size(f) - o /\ Cursor[f] = o /\ Content[f] = File(f)
        /\ Size(f) \in Nat /\ o \in Nat /\ disk_offset(f) \in Nat
        /\ disk_offset(f) + Size(f) <= RamdiskSize
    BY <1>0, Mapped, Table, Numbers DEF Word
  <2> HIDE DEF n, o
  <2>4. ASSUME NEW g \in Regular, NEW i \in 1 .. Size(g)
        PROVE  File(g)'[i] = IF g = f /\ i \in o + 1 .. o + n THEN v ELSE File(g)[i]
    <3>1. /\ disk_offset(g) \in Nat /\ Size(g) \in Nat /\ g \in Int /\ f \in Int
          /\ disk_offset(g) + Size(g) <= RamdiskSize /\ RamdiskSize \in Nat
      BY Table, Numbers DEF Word, Fd
    <3>2. disk_offset(g) + i - 1 \in Disk
      BY <3>1 DEF Disk
    <3>3. File(g)[i] = ramdisk[disk_offset(g) + i - 1]
          /\ File(g)'[i] = ramdisk'[disk_offset(g) + i - 1]
      BY DEF File
    <3>4. g # f => disk_offset(g) + i - 1 \notin Start(f) .. Start(f) + n - 1
      <4>1. /\ f < g => disk_offset(f) + Size(f) <= disk_offset(g)
            /\ g < f => disk_offset(g) + Size(g) <= disk_offset(f)
        BY FileSystemAssumption
      <4> QED BY <2>2, <2>3, <3>1, <4>1
    <3>5. g = f => (disk_offset(g) + i - 1 \in Start(f) .. Start(f) + n - 1
                      <=> i \in o + 1 .. o + n)
      BY <2>2, <2>3, <3>1
    <3> QED BY <2>1, <3>2, <3>3, <3>4, <3>5
  <2>5. Cursor' = [Cursor EXCEPT ![f] = @ + n]
    BY <1>0, <2>1, <2>2, <2>3, CursorMoves DEF Advance, o
  <2>6. Content' = [Content EXCEPT ![f] =
          [i \in DOMAIN @ |-> IF i \in Cursor[f] + 1 .. Cursor[f] + n THEN v ELSE @[i]]]
    <3>1. File(f)' = [i \in DOMAIN Content[f] |->
             IF i \in Cursor[f] + 1 .. Cursor[f] + n THEN v ELSE Content[f][i]]
      <4>1. DOMAIN Content[f] = 1 .. Size(f)
        BY <2>3 DEF File
      <4>2. File(f)' = [i \in 1 .. Size(f) |-> File(f)'[i]]
        BY DEF File
      <4> QED BY <2>3, <2>4, <4>1, <4>2
    <3>2. ASSUME NEW g \in Regular, g # f PROVE File(g)' = Content[g]
      <4>1. File(g)' = [i \in 1 .. Size(g) |-> File(g)'[i]]
            /\ File(g) = [i \in 1 .. Size(g) |-> File(g)[i]]
        BY DEF File
      <4> QED BY <2>4, <3>2, <4>1 DEF Content
    <3> QED BY <3>1, <3>2 DEF Content
  <2>7. v \in Bytes /\ n \in 0 .. Abs!Left(f)
    BY <2>2, <2>3 DEF Bytes
  <2> QED BY <2>1, <2>5, <2>6, <2>7 DEF Abs!Write, Abs!Move, Content, File, Cursor, Bytes
<1> QED BY <1>1, <1>2

(* open(), close() and lseek() of a file move its cursor, those of another *)
(* descriptor nothing that Files sees.                                     *)
LEMMA MoveImplements ==
  ASSUME NEW fd \in Fd, NEW o, NEW r \in Word, TypeOK,
         open_offset' = [open_offset EXCEPT ![fd] = o], Returns(r, <<>>),
         UNCHANGED <<ramdisk, machine>>,
         fd \in Regular => o = 0 \/ (o = r /\ o <= Size(fd))
  PROVE  Abs!Next
<1>0. open_offset \in [Fd -> Word] /\ gprx' = r /\ r \in Nat /\ buf' = <<>> /\ Content' = Content
  BY Numbers DEF TypeOK, Word, Returns, Content, File
<1>1. CASE fd \in Regular
  <2>1. Cursor' = [Cursor EXCEPT ![fd] = o]
    BY <1>0, <1>1, CursorMoves
  <2>2. Len(Content[fd]) = Size(fd)
    BY <1>0, <1>1, Mapped
  <2>3. CASE o = 0
    <3>1. Abs!Reset(fd)
      BY <1>0, <2>1, <2>3 DEF Abs!Reset, Content, File, Cursor
    <3> QED BY <1>1, <3>1 DEF Abs!Next
  <2>4. CASE o = r /\ o <= Size(fd)
    <3>1. o \in 0 .. Len(Content[fd])
      BY <1>0, <2>2, <2>4, Table, Numbers DEF Word
    <3>2. Abs!Seek(fd)
      BY <1>0, <2>1, <2>4, <3>1 DEF Abs!Seek, Content, File, Cursor
    <3> QED BY <1>1, <3>2 DEF Abs!Next
  <2> QED BY <1>1, <2>3, <2>4
<1>2. CASE fd \notin Regular
  <2>1. Cursor' = Cursor
    BY <1>0, <1>2, DeviceMoves
  <2>2. Abs!Other
    BY <1>0, <2>1 DEF Abs!Other, Content, File, Cursor
  <2> QED BY <2>2 DEF Abs!Next
<1> QED BY <1>1, <1>2

LEMMA StillImplements ==
  ASSUME NEW n \in Word, Returns(n, <<>>), UNCHANGED <<Cursor, ramdisk, machine>>
  PROVE  Abs!Next
<1>1. Content' = Content
  BY DEF Content, File
<1>2. n \in Nat
  BY Numbers DEF Word
<1> QED BY <1>1, <1>2 DEF Abs!Next, Abs!Other, Content, File, Cursor, Returns

LEMMA StopImplements == Stop => Abs!Next
  BY DEF Stop, Abs!Next, Abs!Stop, Content, File

LEMMA ImplementsInit == Init => Abs!Init
  BY Numbers DEF Init, Abs!Init

LEMMA ImplementsStep ==
  ASSUME EndOffset \subseteq {0}, TypeOK, OffsetInFile, [Next]_vars
  PROVE  [machine = "runs" /\ Abs!Next]_Abs!vars
<1>0. /\ open_offset \in [Fd -> Word] /\ \A fd \in Fd : open_offset[fd] \in Word
      /\ 0 \in Word /\ Fd \subseteq Word
      /\ Length \subseteq Word /\ Offset \subseteq Word /\ EndOffset \subseteq Word
  BY Numbers DEF TypeOK, Word
<1>1. ASSUME NEW fd \in Fd, fs_open(fd) PROVE Abs!Next
  BY <1>0, <1>1, MoveImplements DEF fs_open
<1>2. ASSUME NEW fd \in Fd, fs_close(fd) PROVE Abs!Next
  <2>1. CASE fd > 2
    BY <1>0, <1>2, <2>1, MoveImplements DEF fs_close
  <2>2. CASE ~(fd > 2)
    <3>1. Cursor' = Cursor
      BY <1>2, <2>2 DEF fs_close, Cursor
    <3> QED BY <1>0, <1>2, <3>1, StillImplements DEF fs_close
  <2> QED BY <2>1, <2>2
<1>3. ASSUME NEW fd \in Fd, ReadDevice(fd) PROVE Abs!Next
  <2>1. TextLength(fd) \subseteq Word
    BY <1>0 DEF TextLength
  <2>2. Cursor' = Cursor
    BY <1>3 DEF ReadDevice, Cursor
  <2> QED BY <1>3, <2>1, <2>2, StillImplements, StopImplements DEF ReadDevice
<1>4. ASSUME NEW fd \in Fd, NEW len \in Length, fs_read(fd, len) PROVE Abs!Next
  BY <1>4, ReadImplements DEF fs_read, Abs!Next
<1>5. ASSUME NEW fd \in Fd, NEW len \in Length, NEW v \in Value, fs_write(fd, v, len)
      PROVE  Abs!Next
  BY <1>5, WriteImplements DEF fs_write, Abs!Next
<1>6. ASSUME NEW fd \in Fd, NEW len \in Length, WriteDevice(fd, len) PROVE Abs!Next
  <2>1. Cursor' = Cursor
    BY <1>6 DEF WriteDevice, Cursor
  <2> QED BY <1>0, <1>6, <2>1, StillImplements, StopImplements DEF WriteDevice
<1>7. ASSUME NEW fd \in Fd, NEW offset \in Word, SeekTo(fd, offset) PROVE Abs!Next
  BY <1>7, MoveImplements, StopImplements DEF SeekTo
<1>8. ASSUME NEW fd \in Fd, NEW offset \in Offset, SeekSet(fd, offset) \/ SeekCur(fd, offset)
      PROVE  Abs!Next
  <2>1. offset \in Word /\ Add(open_offset[fd], offset) \in Word
    BY <1>0, AddIs
  <2> QED BY <1>7, <1>8, <2>1 DEF SeekSet, SeekCur
<1>9. ASSUME NEW fd \in Fd, NEW offset \in EndOffset, SeekEnd(fd, offset) PROVE Abs!Next
  <2>1. Add(Size(fd), offset) = Size(fd) /\ Size(fd) \in Word /\ Size(fd) <= Size(fd)
    BY Table, AddIs, Numbers DEF Word
  <2> QED BY <1>9, <2>1, MoveImplements, StopImplements DEF SeekEnd
<1>10. ASSUME NEW len \in Length, NEW v \in Value, fb_write(v, len) PROVE Abs!Next
  <2>1. Cut(FD_FBDEV, len) \in Word
    BY <1>0, CutIs, Numbers
  <2>2. Cursor' = Cursor
    BY <1>0, <1>10, DeviceMoves, Numbers DEF fb_write, Advance
  <2> QED BY <1>10, <2>1, <2>2, StillImplements, StopImplements DEF fb_write
<1>11. ASSUME OpenMissing PROVE Abs!Next
  <2>1. Cursor' = Cursor
    BY <1>11 DEF OpenMissing, Cursor
  <2> QED BY <1>0, <1>11, <2>1, StillImplements, Numbers DEF OpenMissing
<1>12. ASSUME UNCHANGED vars PROVE UNCHANGED Abs!vars
  BY <1>12 DEF vars, Abs!vars
<1>13. ASSUME NEW fd \in Fd, SeekOther(fd) PROVE Abs!Next
  <2>1. Cursor' = Cursor
    BY <1>13 DEF SeekOther, Cursor
  <2> QED BY <1>0, <1>13, <2>1, StillImplements, StopImplements DEF SeekOther
<1>14. BadFd => Abs!Next
  BY StopImplements DEF BadFd
<1>15. ASSUME Next PROVE machine = "runs" \/ UNCHANGED vars
  BY <1>15 DEF Next, fs_open, fs_close, ReadDevice, fs_read, fs_write, WriteDevice, SeekSet,
               SeekCur, SeekEnd, SeekOther, fb_write, OpenMissing, BadFd, Stopped
<1> QED
  BY <1>1, <1>2, <1>3, <1>4, <1>5, <1>6, <1>8, <1>9, <1>10, <1>11, <1>12, <1>13, <1>14, <1>15
  DEF Next, Stopped

(* The table and the ramdisk are files of their own, each with its bytes   *)
(* and one cursor.                                                         *)
THEOREM FilesCorrect ==
  ASSUME EndOffset \subseteq {0}
  PROVE  Spec => Implements
<1>1. TypeOK /\ OffsetInFile /\ [Next]_vars => [machine = "runs" /\ Abs!Next]_Abs!vars
  BY ImplementsStep
<1>2. [machine = "runs" /\ Abs!Next]_Abs!vars
        => [(machine = "runs") = TRUE /\ Abs!Next]_Abs!vars
  OBVIOUS
<1> QED
  BY <1>1, <1>2, ImplementsInit, OffsetCorrect, FileSystemTypes, PTL
  DEF Spec, Implements, Abs!Spec
=============================================================================
