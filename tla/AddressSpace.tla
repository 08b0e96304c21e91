---------------------------- MODULE AddressSpace ----------------------------
(***************************************************************************)
(* Address spaces of nanos-lite on AM (riscv32-nemu): the page allocator   *)
(* and brk of mm.c, the two-level tables of vme.c, the loading of a        *)
(* program by loader.c and context_uload() of proc.c, and the walk of the  *)
(* tables by the MMU of nemu (mmu.c).                                      *)
(*                                                                         *)
(* Physical memory is one array of words that holds directories, tables    *)
(* and data alike, so that a write to a wrong place shows.  A page is W    *)
(* words and a table W entries (4096 bytes and 1024 entries in the code);  *)
(* addresses are word addresses and page numbers.  Calls of different      *)
(* processes come in any order; which process runs is the business of      *)
(* module NanosKernel.                                                     *)
(***************************************************************************)
EXTENDS Integers, Sequences, SequencesExt

CONSTANTS
  W,            \* words in a page, entries in a table
  UserPages,    \* user space is the pages below this one
  StackPages,   \* STACK_SIZE / PGSIZE
  Segments,     \* sequence of the kernel's pages, mapped to themselves
  HeapStart,    \* first page of the heap given to new_page()
  HeapEnd,      \* bound: end of the modelled physical memory
  NProc,        \* MAX_NR_PROC
  File,         \* executables on the ramdisk
  Image,        \* Image[f]: [disk, size, segs], segs a sequence of
                \*   [vaddr, offset, filesz, memsz]
  InitImage,    \* the program init_proc loads for each process
  StoreAt,      \* bound: the addresses programs write to
  BrkAt,        \* bound: the addresses programs pass to brk()
  Reserve       \* bound: the pages a call may take; it needs them free

Proc       == 0 .. NProc - 1
kas        == HeapStart        \* the first page vme_init() takes
UserAddr   == 0 .. UserPages * W - 1
StackFirst == UserPages - StackPages
PhysAddr   == HeapStart * W .. HeapEnd * W - 1

(* A word of memory: its kind, and what tells it apart.                    *)
Zero     == <<"zero", 0>>
NoWord   == <<"none", 0>>
Pte(ppn) == <<"pte", ppn>>
Disk(k)  == <<"disk", k>>
Junk     == <<"junk", 0>>      \* a page nobody has written yet
Args     == <<"args", 0>>      \* what context_uload() leaves at the stack's top
Stored(p) == <<"user", p>>

Segment == [vaddr : Nat, offset : Nat, filesz : Nat, memsz : Nat]

FirstPage(s) == s.vaddr \div W
LastPage(s)  == (s.vaddr + s.memsz) \div W

(* The kernel is mapped from the start of its tables on, and behind user   *)
(* space.  A heap that reached the stack would need more memory than the   *)
(* machine has.                                                            *)
ASSUME AddressSpaceAssumption ==
  /\ {W, UserPages, StackPages, HeapStart, HeapEnd, NProc, Reserve} \subseteq Nat \ {0}
  /\ UserPages % W = 0 /\ UserPages < W * W /\ StackPages \in 2 .. UserPages - 1
  /\ HeapStart < HeapEnd
  /\ Segments \in Seq(UserPages .. W * W - 1)
  /\ \A i \in DOMAIN Segments : Segments[i] % W = 0 \/ (i > 1 /\ Segments[i] = Segments[i - 1] + 1)
  /\ InitImage \in [Proc -> File]
  /\ BrkAt \subseteq 0 .. StackFirst * W /\ StoreAt \subseteq UserAddr

(* What the linker makes of an application: text from the start of a table *)
(* on, without bss; everything else behind it, in the same table, a page   *)
(* apart.                                                                  *)
ASSUME ImageAssumption ==
  \A f \in File :
    LET segs == Image[f].segs
    IN  /\ Image[f] \in [disk : Nat, size : Nat, segs : Seq(Segment) \ {<<>>}]
        /\ \A i \in DOMAIN segs :
             /\ segs[i].filesz <= segs[i].memsz
             /\ segs[i].offset + segs[i].filesz <= Image[f].size
             /\ LastPage(segs[i]) < StackFirst
             /\ {FirstPage(segs[i]) \div W, LastPage(segs[i]) \div W}
                  = {FirstPage(segs[1]) \div W}
        /\ segs[1].vaddr % W = 0 /\ FirstPage(segs[1]) % W = 0
        /\ segs[1].filesz = segs[1].memsz
        /\ \A i, j \in DOMAIN segs :
             i < j => segs[i].vaddr + segs[i].memsz <= FirstPage(segs[j]) * W

VARIABLES mem,      \* physical memory, from HeapStart on
          pf,       \* next page new_page() hands out
          dir,      \* as.ptr of each PCB
          root,     \* pdir of each context: what satp holds when p runs
          max_brk   \* page number

vars == <<mem, pf, dir, root, max_brk>>

Write(m, at, words) ==
  [a \in DOMAIN m |-> IF a \in at .. at + Len(words) - 1
                        THEN words[a - at + 1] ELSE m[a]]

Zeros(n) == [i \in 1 .. n |-> Zero]

----------------------------------------------------------------------------
(* The operations work on a memory in progress: a record of mem and pf.    *)
new_page(m, n) == [m EXCEPT !.pf = @ + n]

Mut_pg_alloc(m) ==      \* mutant: new_page() does not advance pf
  [m EXCEPT !.mem = Write(@, m.pf * W, Zeros(W))]

pg_alloc(m) == [new_page(m, 1) EXCEPT !.mem = Write(@, m.pf * W, Zeros(W))]

(* map(): a missing second-level table is allocated, and the entry then    *)
(* goes to the first place of the new table whatever va is.                *)
Mut_map(m, pdir, va, pa) ==     \* mutant: the new table is not allocated
  LET pte1 == pdir * W + (va \div W)
  IN  IF m.mem[pte1] = Zero
        THEN [m EXCEPT !.mem[pte1] = Pte(m.pf), !.mem[m.pf * W] = Pte(pa)]
        ELSE [m EXCEPT !.mem[m.mem[pte1][2] * W + (va % W)] = Pte(pa)]

map(m, pdir, va, pa) ==
  LET pte1 == pdir * W + (va \div W)
  IN  IF m.mem[pte1] = Zero
        THEN [pg_alloc(m) EXCEPT !.mem[pte1] = Pte(m.pf),
                                 !.mem[m.pf * W] = Pte(pa)]
        ELSE [m EXCEPT !.mem[m.mem[pte1][2] * W + (va % W)] = Pte(pa)]

(* protect(): a fresh directory, with the kernel's entries copied.         *)
Mut_protect(m) == pg_alloc(m)   \* mutant: without the memcpy()

protect(m) ==
  [pg_alloc(m) EXCEPT
     !.mem = Write(@, m.pf * W, [i \in 1 .. W |-> m.mem[kas * W + i - 1]])]

(* fs_read(fd, at, W) from offset l.at of the file, cut at its end: a      *)
(* memory l.m and an offset become others.                                 *)
Count(f, from) == IF from + W > Image[f].size THEN Image[f].size - from ELSE W

Read(m, f, from, at) ==
  [m EXCEPT !.mem = Write(@, at, [i \in 1 .. Count(f, from) |->
                                    Disk(Image[f].disk + from + i - 1)])]

Mut_fs_read(l, f, at) ==        \* mutant: open_offset is not advanced
  [m |-> Read(l.m, f, l.at, at), at |-> l.at]

fs_read(l, f, at) == [m |-> Read(l.m, f, l.at, at), at |-> l.at + Count(f, l.at)]

(* One PT_LOAD segment, page by page up to and including the page of its   *)
(* end.  Each read starts at the segment's offset in the page and so ends  *)
(* that far into the next physical page; the bss is cleared from there on  *)
(* as if the pages of the segment were contiguous.                         *)
LoadPage(l, pdir, f, s, va) ==
  fs_read([m |-> map(new_page(l.m, 1), pdir, va, l.m.pf), at |-> l.at],
          f, l.m.pf * W + (s.vaddr % W))

LoadSegment(m, pdir, f, s) ==
  LET read[i \in 0 .. LastPage(s) - FirstPage(s) + 1] ==
        IF i = 0 THEN [m |-> m, at |-> s.offset]
        ELSE LoadPage(read[i - 1], pdir, f, s, FirstPage(s) + i - 1)
      bss == m.pf * W + (s.vaddr % W) + s.filesz
  IN  [read[LastPage(s) - FirstPage(s) + 1].m EXCEPT
         !.mem = Write(@, bss, Zeros(s.memsz - s.filesz))]

loader(m, pdir, f) ==
  LET segs == Image[f].segs
      loaded[i \in 0 .. Len(segs)] ==
        IF i = 0 THEN m ELSE LoadSegment(loaded[i - 1], pdir, f, segs[i])
  IN  loaded[Len(segs)]

EndOf(f) == LastPage(Last(Image[f].segs)) + 1

(* The user stack: StackPages fresh pages below the end of user space, the *)
(* arguments at their top.                                                 *)
MapStack(m, pdir) ==
  LET stack[i \in 0 .. StackPages] ==
        IF i = 0 THEN new_page(m, StackPages)
        ELSE map(stack[i - 1], pdir, StackFirst + i - 1, m.pf + i - 1)
  IN  [stack[StackPages] EXCEPT !.mem[(m.pf + StackPages) * W - 1] = Args]

(* context_uload() for the directory m.pf, up to the loader and with it.   *)
Prepare(m)  == MapStack(protect(m), m.pf)
Uload(m, f) == loader(Prepare(m), m.pf, f)

(* vme_init(), and the memory when init_proc() has loaded p programs.      *)
vme_init ==
  LET mapped[i \in 0 .. Len(Segments)] ==
        IF i = 0 THEN pg_alloc([mem |-> [a \in PhysAddr |-> Junk], pf |-> HeapStart])
        ELSE map(mapped[i - 1], kas, Segments[i], Segments[i])
  IN  mapped[Len(Segments)]

init_proc[p \in 0 .. NProc] ==
  IF p = 0 THEN vme_init ELSE Uload(init_proc[p - 1], InitImage[p - 1])

ASSUME MemoryAssumption == \A p \in 0 .. NProc : init_proc[p].pf < HeapEnd

Init ==
  /\ mem = init_proc[NProc].mem /\ pf = init_proc[NProc].pf
  /\ dir = [p \in Proc |-> init_proc[p].pf] /\ root = dir
  /\ max_brk = [p \in Proc |-> EndOf(InitImage[p])]

(* The loop of mm_brk(): zeroed pages from page first up to page last.     *)
Brk(m, pdir, first, last) ==
  LET grown[i \in 0 .. last - first] ==
        IF i = 0 THEN m
        ELSE map(pg_alloc(grown[i - 1]), pdir, first + i - 1, grown[i - 1].pf)
  IN  grown[last - first]

----------------------------------------------------------------------------
Memory == [mem |-> mem, pf |-> pf]

(* Bound: new_page() itself never runs out.                                *)
Becomes(m) ==
  /\ pf + Reserve <= HeapEnd /\ m.pf <= HeapEnd
  /\ mem' = m.mem /\ pf' = m.pf

SysExecve(p, f) ==
  /\ Becomes(Uload(Memory, f))
  /\ dir' = [dir EXCEPT ![p] = pf] /\ root' = [root EXCEPT ![p] = pf]
  /\ max_brk' = [max_brk EXCEPT ![p] = EndOf(f)]

(* A path that is not there: as.ptr is already replaced when loader() finds*)
(* out, the context is not.                                                *)
SysExecveMissing(p) ==
  /\ Becomes(Prepare(Memory))
  /\ dir' = [dir EXCEPT ![p] = pf]
  /\ UNCHANGED <<root, max_brk>>

(* mm_brk(): whole pages from max_brk until brk is covered.                *)
SysBrk(p, brk) ==
  LET last == (brk + W - 1) \div W
  IN  IF brk > max_brk[p] * W
        THEN /\ Becomes(Brk(Memory, dir[p], max_brk[p], last))
             /\ max_brk' = [max_brk EXCEPT ![p] = last]
             /\ UNCHANGED <<dir, root>>
        ELSE UNCHANGED vars

(* The walk of isa_mmu_translate() for a page; Junk and data words have no *)
(* valid bit here, the code panics where the walk finds none.              *)
Valid(w) == w[1] = "pte"

Walk(d, page) ==
  LET pte1 == mem[d * W + (page \div W)]
  IN  IF Valid(pte1) THEN mem[pte1[2] * W + (page % W)] ELSE NoWord

isa_mmu_translate(d, a) == Walk(d, a \div W)[2] * W + (a % W)

(* What p was promised: its image and heap, and its stack.  Programs are   *)
(* taken to keep to it: no access is checked against more than a valid     *)
(* entry, and the kernel's pages, tables included, are valid in every      *)
(* directory.                                                              *)
Owns(p, a) == a < max_brk[p] * W \/ a >= (StackFirst + 1) * W

Store(p, a) ==
  /\ Owns(p, a) /\ Valid(Walk(root[p], a \div W))
  /\ mem' = [mem EXCEPT ![isa_mmu_translate(root[p], a)] = Stored(p)]
  /\ UNCHANGED <<pf, dir, root, max_brk>>

Next ==
  \E p \in Proc :
    \/ \E f \in File : SysExecve(p, f)
    \/ SysExecveMissing(p)
    \/ \E brk \in BrkAt : SysBrk(p, brk)
    \/ \E a \in StoreAt : Store(p, a)

Spec == Init /\ [][Next]_vars

----------------------------------------------------------------------------
(* Every variable holds a value of its kind; an entry of a table names a   *)
(* page of the kernel or one that new_page() has given out.                *)
Word == ({"zero", "junk", "args"} \X {0}) \cup ({"user"} \X Proc)
          \cup ({"pte"} \X (Range(Segments) \cup HeapStart .. pf - 1))
          \cup ({"disk"} \X Nat)

TypeOK ==
  /\ DOMAIN mem = PhysAddr /\ \A a \in PhysAddr : mem[a] \in Word
  /\ pf \in HeapStart + 1 .. HeapEnd
  /\ dir \in [Proc -> HeapStart .. pf - 1] /\ root \in [Proc -> HeapStart .. pf - 1]
  /\ max_brk \in [Proc -> 1 .. StackFirst]

(* The pages that hold directories and tables, and those mapped in user    *)
(* space.                                                                  *)
Dirs         == {kas} \cup {dir[p] : p \in Proc} \cup {root[p] : p \in Proc}
Tables(d)    == {mem[d * W + i][2] : i \in {i \in 0 .. W - 1 : Valid(mem[d * W + i])}}
UserPpns(d)  == {Walk(d, v)[2] : v \in {v \in 0 .. UserPages - 1 : Valid(Walk(d, v))}}

(* No page mapped in user space holds a table or a directory, and none is  *)
(* mapped in the user space of two processes: whatever the order in which  *)
(* processes load programs, fail to, and grow (vme.c:50-106, mm.c:7-40).   *)
(* It says what the allocator and the tables keep apart, not what a        *)
(* program is kept from: above user space every directory maps all of the  *)
(* memory to itself (vme.c:13-15, 36-42, 56), and neither map() nor        *)
(* isa_mmu_translate() knows of protection (vme.c:98, mmu.c:28-73).        *)
UserPagesApart ==
  /\ \A d, e \in Dirs : UserPpns(d) \cap (Dirs \cup Tables(e)) = {}
  /\ \A p, q \in Proc : p # q => UserPpns(root[p]) \cap UserPpns(root[q]) = {}

(* The kernel is mapped alike in every directory the machine may translate *)
(* with: a trap runs with the tables of the program it interrupts          *)
(* (vme.c:50-57 copies the entries once, no later map() may touch them).   *)
KernelEverywhere ==
  \A d \in Dirs : \A i \in DOMAIN Segments :
    Walk(d, Segments[i]) = Pte(Segments[i])

(* mmu.c:39-52 panics at an address without a valid entry; the stack that  *)
(* context_uload() maps (proc.c:60-68) is memory the program may use.      *)
StackMapped ==
  \A p \in Proc : \A v \in StackFirst .. UserPages - 1 : Valid(Walk(root[p], v))

(* The tables implement memories of their own: see VirtualMemory.  The     *)
(* lowest page of the stack is left out, because of the entry map()        *)
(* misplaces (StackMapped).                                                *)
Space(p) ==
  [a \in UserAddr |->
     IF Owns(p, a) /\ Valid(Walk(root[p], a \div W))
       THEN mem[isa_mmu_translate(root[p], a)] ELSE NoWord]

InSegment(s, a) == a \in s.vaddr .. s.vaddr + s.memsz - 1

Promised ==
  [f \in File |->
    LET segs == Range(Image[f].segs)
        top  == UserPages * W - 1
        word(a) == LET s == CHOOSE s \in segs : InSegment(s, a)
                   IN  IF a < s.vaddr + s.filesz
                         THEN Disk(Image[f].disk + s.offset + a - s.vaddr) ELSE Zero
    IN  [a \in {top} \cup {a \in UserAddr : \E s \in segs : InSegment(s, a)} |->
           IF a = top THEN Args ELSE word(a)]]

AtFirst ==
  [f \in File |->
     {a \in UserAddr :
        \/ a >= (StackFirst + 1) * W
        \/ \E s \in Range(Image[f].segs) : a \div W \in FirstPage(s) .. LastPage(s)}]

Abs == INSTANCE VirtualMemory WITH
  Addr  <- UserAddr,
  Image <- Promised,
  Start <- AtFirst,
  space <- [p \in Proc |-> Space(p)],
  lost  <- {p \in Proc : dir[p] # root[p]}

Implements == Abs!Spec
=============================================================================
