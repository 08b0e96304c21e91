----------------------------- MODULE FileSystem -----------------------------
(***************************************************************************)
(* The file system of nanos-lite: the file table of fs.c, the ramdisk of   *)
(* ramdisk.c and the frame buffer of device.c behind file 5.               *)
(*                                                                         *)
(* A file descriptor is the index of a file in the table, and the table    *)
(* holds the only offset of the file: all processes share it.  Every call  *)
(* is a system call and so atomic; the order of the calls of different     *)
(* processes is free.  The loader's calls are calls like any other.        *)
(*                                                                         *)
(* A byte is a value, a pixel is a value, and a length or an offset is a   *)
(* size_t, which counts modulo SizeT.  A program writes one value over and *)
(* over.                                                                   *)
(***************************************************************************)
EXTENDS Integers, Sequences

CONSTANTS
  SizeT,        \* 2^32
  files,        \* files.h: sequence of [size, disk_offset], from fd 6 on
  RamdiskSize,
  Width, Height,\* of the screen, in pixels
  Image,        \* Image[a]: the byte at a of the ramdisk image
  Value,        \* bound: the bytes and pixels programs write
  Length,       \* bound: the lengths programs read and write
  Offset,       \* bound: the offsets programs seek to
  EndOffset     \* bound: the offsets programs give with SEEK_END

FD_STDIN  == 0
FD_STDOUT == 1
FD_STDERR == 2
FD_EVENT  == 3
FD_FBINFO == 4
FD_FBDEV  == 5

NR_FILES == 6 + Len(files)
Fd       == 0 .. NR_FILES - 1
Regular  == 6 .. NR_FILES - 1
Pixel    == 0 .. Width * Height - 1
Disk     == 0 .. RamdiskSize - 1

(* init_fs() sets the size of /dev/fb to vmemsz, which is in bytes; the    *)
(* offsets and lengths of fb_write() are in pixels.                        *)
Mut_FbSize == Width * Height            \* mutant: vmemsz in pixels
FbSize     == Width * Height * 4

Size(fd)        == IF fd \in Regular THEN files[fd - 5].size
                   ELSE IF fd = FD_FBDEV THEN FbSize ELSE 0
disk_offset(fd) == IF fd \in Regular THEN files[fd - 5].disk_offset ELSE 0

ASSUME FileSystemAssumption ==
  /\ {RamdiskSize, Width, Height} \subseteq Nat \ {0}
  /\ SizeT \in Nat /\ SizeT > 2 * RamdiskSize /\ SizeT > 2 * FbSize
  /\ files \in Seq([size : Nat, disk_offset : Nat])
  /\ \A fd \in Regular : disk_offset(fd) + Size(fd) <= RamdiskSize
  /\ \A f, g \in Regular : f < g => disk_offset(f) + Size(f) <= disk_offset(g)
  /\ NR_FILES < SizeT       \* the table is in memory
  /\ Length \cup Offset \cup EndOffset \subseteq 0 .. SizeT - 1

VARIABLES
  open_offset,  \* of every entry of file_table
  opened,       \* entries whose read and write functions are set
  ramdisk, screen,
  gprx,         \* what the last call returned
  buf,          \* what the last call wrote to the caller's buffer
  machine       \* "runs", or "stopped" by a panic or a wild access

vars == <<open_offset, opened, ramdisk, screen, gprx, buf, machine>>

Add(a, b)   == (a + b) % SizeT
Minus(a, b) == (a - b) % SizeT

Init ==
  /\ open_offset = [fd \in Fd |-> 0]
  /\ opened = Fd \ Regular
  /\ ramdisk = [a \in Disk |-> Image[a]]
  /\ screen = [i \in Pixel |-> 0]
  /\ gprx = 0 /\ buf = <<>> /\ machine = "runs"

Returns(n, bytes) == gprx' = n /\ buf' = bytes

(* A failed assertion, a panic(), a jump through a null function pointer   *)
(* or a copy that leaves memory: nothing runs after it.                    *)
Stop == machine' = "stopped" /\ UNCHANGED <<ramdisk, screen, gprx, buf>>

----------------------------------------------------------------------------
(* A path that names no file gives 2, the descriptor of stderr.            *)
fs_open(fd) ==
  /\ machine = "runs"
  /\ open_offset' = [open_offset EXCEPT ![fd] = 0]
  /\ opened' = opened \cup {fd}
  /\ Returns(fd, <<>>)
  /\ UNCHANGED <<ramdisk, screen, machine>>

OpenMissing ==
  /\ machine = "runs" /\ Returns(FD_STDERR, <<>>)
  /\ UNCHANGED <<open_offset, opened, ramdisk, screen, machine>>

(* The length a read or write is cut to, and where it starts.  Nothing     *)
(* keeps the difference from wrapping when the offset is beyond the size.  *)
Mut_Cut(fd, len) ==     \* mutant: the offset is forgotten in the comparison
  IF len > Size(fd) THEN Minus(Size(fd), open_offset[fd]) ELSE len

Cut(fd, len) ==
  IF Add(open_offset[fd], len) > Size(fd)
    THEN Minus(Size(fd), open_offset[fd]) ELSE len

Mut_Start(fd) == disk_offset(fd)        \* mutant: always the first byte
Start(fd)     == Add(disk_offset(fd), open_offset[fd])

Mut_Advance(fd, n) ==   \* mutant: an offset of a wider type
  open_offset' = [open_offset EXCEPT ![fd] = @ + n]

Advance(fd, n) == open_offset' = [open_offset EXCEPT ![fd] = Add(@, n)]

(* ramdisk_read() and ramdisk_write() assert on the wrapped sum; a length  *)
(* that wraps it passes, but memcpy() then runs out of memory.  Either way *)
(* only a copy inside the ramdisk comes back.                              *)
InRamdisk(at, n) == at + n <= RamdiskSize

fs_read(fd, len) ==
  LET n  == Cut(fd, len)
      at == Start(fd)
  IN  /\ machine = "runs" /\ fd \in Regular
      /\ IF fd \in opened /\ InRamdisk(at, n)
           THEN /\ Advance(fd, n)
                /\ Returns(n, [i \in 1 .. n |-> ramdisk[at + i - 1]])
                /\ UNCHANGED <<ramdisk, screen, machine>>
           ELSE Stop /\ UNCHANGED open_offset
      /\ UNCHANGED opened

(* The devices ignore the offset: stdin is empty, the keyboard gives the   *)
(* text of a key or nothing, the screen size is a text (only their length  *)
(* here), the others cannot be read.                                       *)
TextLength(fd) ==
  CASE fd = FD_STDIN  -> {0}
    [] fd = FD_EVENT  -> {0} \cup Length
    [] fd = FD_FBINFO -> Length
    [] OTHER          -> {}

ReadDevice(fd) ==
  /\ machine = "runs" /\ fd \in Fd \ Regular
  /\ \/ /\ \E n \in TextLength(fd) : Returns(n, <<>>)
        /\ UNCHANGED <<ramdisk, screen, machine>>
     \/ fd \in {FD_STDOUT, FD_STDERR, FD_FBDEV} /\ Stop
  /\ UNCHANGED <<open_offset, opened>>

(* fs_write() advances the offset before it writes.                        *)
fs_write(fd, v, len) ==
  LET n  == Cut(fd, len)
      at == Start(fd)
  IN  /\ machine = "runs" /\ fd \in Regular
      /\ Advance(fd, n)
      /\ IF fd \in opened /\ InRamdisk(at, n)
           THEN /\ ramdisk' = [a \in Disk |-> IF a \in at .. at + n - 1
                                                THEN v ELSE ramdisk[a]]
                /\ Returns(n, <<>>) /\ UNCHANGED <<screen, machine>>
           ELSE Stop
      /\ UNCHANGED opened

(* fb_write() of n pixels at offset: where its i-th pixel goes.  A whole   *)
(* frame goes to the origin; what fits in a line goes to its place; else   *)
(* the offset is increased by i in round i.  Pixels beyond the screen are  *)
(* an access out of bound to the emulator; what it drew before is not      *)
(* kept.  No program draws from a null buffer.                             *)
Mut_Target(offset, n, i) ==     \* mutant: a frame is drawn at the offset
  IF n <= Width - (offset % Width) THEN offset + i ELSE offset + (i * (i + 1)) \div 2

Target(offset, n, i) ==
  IF n = Width * Height THEN i
  ELSE IF n <= Width - (offset % Width) THEN offset + i
  ELSE offset + (i * (i + 1)) \div 2

fb_write(v, len) ==
  LET n    == Cut(FD_FBDEV, len)
      hits == {Target(open_offset[FD_FBDEV], n, i) : i \in 0 .. n - 1}
  IN  /\ machine = "runs"
      /\ Advance(FD_FBDEV, n)
      /\ IF n <= FbSize /\ hits \subseteq Pixel
           THEN /\ screen' = [i \in Pixel |-> IF i \in hits THEN v ELSE screen[i]]
                /\ Returns(n, <<>>) /\ UNCHANGED <<ramdisk, machine>>
           ELSE Stop
      /\ UNCHANGED opened

(* stdout and stderr print; stdin, the keyboard and the screen size cannot *)
(* be written.                                                             *)
WriteDevice(fd, len) ==
  /\ machine = "runs" /\ fd \in Fd \ (Regular \cup {FD_FBDEV})
  /\ IF fd \in {FD_STDOUT, FD_STDERR}
       THEN Returns(len, <<>>) /\ UNCHANGED <<ramdisk, screen, machine>>
       ELSE Stop
  /\ UNCHANGED <<open_offset, opened>>

(* fs_lseek(): SEEK_SET and SEEK_CUR panic beyond the size of the file,    *)
(* SEEK_END does not look at it.                                           *)
Mut_SeekTo(fd, offset) ==       \* mutant: the check against the size is gone
  /\ fd > 2
  /\ open_offset' = [open_offset EXCEPT ![fd] = offset]
  /\ Returns(offset, <<>>) /\ UNCHANGED <<ramdisk, screen, machine>>

SeekTo(fd, offset) ==
  IF fd > 2 /\ offset <= Size(fd)
    THEN /\ open_offset' = [open_offset EXCEPT ![fd] = offset]
         /\ Returns(offset, <<>>) /\ UNCHANGED <<ramdisk, screen, machine>>
    ELSE Stop /\ UNCHANGED open_offset

SeekSet(fd, offset) == /\ machine = "runs" /\ SeekTo(fd, offset)
                       /\ UNCHANGED opened

SeekCur(fd, offset) == /\ machine = "runs"
                       /\ SeekTo(fd, Add(open_offset[fd], offset))
                       /\ UNCHANGED opened

SeekEnd(fd, offset) ==
  LET end == Add(Size(fd), offset)
  IN  /\ machine = "runs"
      /\ IF fd > 2
           THEN /\ open_offset' = [open_offset EXCEPT ![fd] = end]
                /\ Returns(end, <<>>) /\ UNCHANGED <<ramdisk, screen, machine>>
           ELSE Stop /\ UNCHANGED open_offset
      /\ UNCHANGED opened

(* An unknown whence moves nothing.                                        *)
SeekOther(fd) ==
  /\ machine = "runs"
  /\ IF fd > 2 THEN Returns(open_offset[fd], <<>>) /\ UNCHANGED <<ramdisk, screen, machine>>
               ELSE Stop
  /\ UNCHANGED <<open_offset, opened>>

fs_close(fd) ==
  /\ machine = "runs"
  /\ open_offset' = IF fd > 2 THEN [open_offset EXCEPT ![fd] = 0] ELSE open_offset
  /\ Returns(0, <<>>)
  /\ UNCHANGED <<opened, ramdisk, screen, machine>>

(* A descriptor beyond the table fails the assertion at the top of every   *)
(* call; no program makes up a negative one.                               *)
BadFd == machine = "runs" /\ Stop /\ UNCHANGED <<open_offset, opened>>

Stopped == machine = "stopped" /\ UNCHANGED vars

Next ==
  \/ \E fd \in Fd :
       \/ fs_open(fd) \/ fs_close(fd)
       \/ ReadDevice(fd) \/ SeekOther(fd)
       \/ \E len \in Length : \/ fs_read(fd, len)
                              \/ WriteDevice(fd, len)
                              \/ \E v \in Value : fs_write(fd, v, len)
       \/ \E offset \in Offset : SeekSet(fd, offset) \/ SeekCur(fd, offset)
       \/ \E offset \in EndOffset : SeekEnd(fd, offset)
  \/ \E len \in Length, v \in Value : fb_write(v, len)
  \/ OpenMissing \/ BadFd
  \/ Stopped

Spec == Init /\ [][Next]_vars

----------------------------------------------------------------------------
(* Every variable holds a value of its kind.                               *)
TypeOK ==
  /\ open_offset \in [Fd -> 0 .. SizeT - 1]
  /\ opened \subseteq Fd
  /\ DOMAIN ramdisk = Disk /\ DOMAIN screen = Pixel
  /\ gprx \in 0 .. SizeT - 1
  /\ machine \in {"runs", "stopped"}

(* fs.c:112 and 117 panic with "file operation exceed max size": while the *)
(* machine runs no file stands beyond its size, so that the difference in  *)
(* fs_read() and fs_write() does not wrap (fs.c:78, 100).  It holds as     *)
(* long as programs do not seek beyond the end with SEEK_END (fs.c:120).   *)
OffsetInFile ==
  machine = "runs" => \A fd \in Fd : open_offset[fd] <= Size(fd)

(* A call changes bytes of one file only, and only those the file's offset *)
(* moves over (fs.c:87-106, ramdisk.c:20-24).  Again SEEK_END is out: with *)
(* an offset before the start of the file the sum at fs.c:102 wraps, and   *)
(* the write falls on the file in front of it.                             *)
WritesInPlace ==
  [][\E fd \in Fd : \A a \in Disk :
       ramdisk'[a] # ramdisk[a] =>
         /\ fd \in Regular
         /\ a - disk_offset(fd) \in open_offset[fd] .. open_offset'[fd] - 1
         /\ a - disk_offset(fd) < Size(fd)]_vars

(* The file table and the ramdisk implement Files: every file is a         *)
(* sequence of bytes of its own, with one cursor that its readers and      *)
(* writers share.                                                          *)
Abs == INSTANCE Files WITH
  File    <- Regular,
  Byte    <- Value \cup {Image[a] : a \in Disk},
  content <- [fd \in Regular |-> [i \in 1 .. Size(fd) |-> ramdisk[disk_offset(fd) + i - 1]]],
  cursor  <- [fd \in Regular |-> open_offset[fd]],
  read    <- buf,
  result  <- gprx,
  running <- machine = "runs"

Implements == Abs!Spec
=============================================================================
