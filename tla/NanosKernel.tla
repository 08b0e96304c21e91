---------------------------- MODULE NanosKernel ----------------------------
(***************************************************************************)
(* The process core of nanos-lite on AM (riscv32-nemu): the trap entry and *)
(* exit of trap.S, the address-space bookkeeping of cte.c and vme.c, the   *)
(* scheduler of proc.c and the system calls that replace, grow or stop a   *)
(* process (syscall.c).                                                    *)
(*                                                                         *)
(* Kernel code runs with mstatus.MIE = 0, so a handler is never            *)
(* interrupted; what interleaves is the order of traps, of timer ticks and *)
(* of the key events the scheduler happens to read.  A trap is modelled in *)
(* the stages the code has: entry (frame saved), dispatch to the scheduler *)
(* or to a system call, return (frame restored).                           *)
(*                                                                         *)
(* Abstractions.  A page directory is a number, given out in order by the  *)
(* bump allocator.  The registers of a user program are the directory they *)
(* were created for, so that "the program runs in its own address space"   *)
(* can be said.  Of an address space only the pages from the load address  *)
(* up to the program break are kept; the user stack and the two-level      *)
(* tables are in module AddressSpace.                                      *)
(***************************************************************************)
EXTENDS Integers

CONSTANTS
  NProc,      \* MAX_NR_PROC: pcb[0] runs in the background, 1.. are foreground
  Boot,       \* pcb_boot, the PCB that belongs to no process
  Null,       \* the null pointer
  Programs,   \* paths of the executables on the ramdisk
  Missing,    \* paths that fs_open does not find
  Nterm,      \* "/bin/nterm"
  InitPath,   \* initial curr_pathname: "bin/nterm", which is not Nterm
  InitImage,  \* InitImage[p]: the program init_proc loads into pcb[p]
  ImgPages,   \* ImgPages[f]: pages loader() maps for the segments of f
  Period,     \* schedule_cnt counts modulo this (500)
  Poll,       \* schedule() polls the keyboard every Poll calls (10)
  MaxDir,     \* bound: page directories allocated in a behaviour
  MaxPage     \* bound: pages below the program break

Proc  == 0 .. NProc - 1
Owner == Proc \cup {Boot}
Kas   == 1                          \* kas.ptr, the kernel's own directory
Dir   == Kas .. MaxDir

ASSUME KernelAssumption ==
  /\ NProc \in Nat /\ NProc > 1
  /\ Boot \notin Proc
  /\ Nterm \in Programs
  /\ Programs \cap Missing = {}
  /\ InitPath \in Missing
  /\ InitImage \in [Proc -> Programs]
  /\ MaxPage \in Nat
  /\ ImgPages \in [Programs -> 1 .. MaxPage]
  /\ Period \in Nat \ {0} /\ Poll \in Nat \ {0}
  /\ MaxDir \in Nat /\ MaxDir >= NProc + 1
  /\ Null \notin Dir /\ Null \notin Owner \X {1, 2}

(* A kernel stack holds at most two frames: a user trap at its top (depth  *)
(* 1) and, below it, the trap of a yield() made by a system call.          *)
Slot  == Owner \X {1, 2}
Top(p)   == <<p, 1>>
Below(s) == <<s[1], 2>>

(* Where mepc of a frame resumes: a user instruction, or the kernel code   *)
(* after the yield() of main, of SYS_yield, of SYS_execve or of SYS_exit.  *)
Resume == {"user", "main", "yield", "execve", "exit"}
Frame  == [next_priv : {0, 1}, pdir : Dir \cup {Null},
           mepc : Resume, gpr : Dir \cup {Null}]

VARIABLES
  \* fields of the PCBs
  cp,             \* saved context: the slot of a frame
  dir,            \* as.ptr
  max_brk,        \* first page above the break
  stack,          \* the frames in the kernel stacks, dead ones included
  \* globals of proc.c and syscall.c
  current, fg_pcb, schedule_cnt, ev_buf, curr_pathname,
  \* the machine
  satp, mscratch, intr,
  phase,          \* which part of the code the CPU executes
  c,              \* the Context* the handler works on (in the kernel)
  regs,           \* user registers (in user mode)
  \* physical memory
  ndir,           \* directories allocated so far
  mapped          \* pages mapped in each directory

pcbVars   == <<cp, dir, max_brk>>
schedVars == <<fg_pcb, schedule_cnt, ev_buf>>
vars == <<pcbVars, stack, current, schedVars, curr_pathname, satp, mscratch,
          intr, phase, c, regs, ndir, mapped>>

Phase == {"main", "user", "sched", "syscall", "return", "halt", "panic"}

----------------------------------------------------------------------------
(* context_uload(p, f): protect() takes a fresh directory before the file  *)
(* is looked for; ucontext() writes the new frame over the top of the      *)
(* kernel stack, also when that is the frame of the running system call.   *)
Mut_UserFrame(d) ==     \* mutant: ucontext() forgets pdir
  [next_priv |-> 1, pdir |-> Null, mepc |-> "user", gpr |-> d]

UserFrame(d) == [next_priv |-> 1, pdir |-> d, mepc |-> "user", gpr |-> d]

Mut_protect(p) ==       \* mutant: the directory given out last is used again
  ndir < MaxDir /\ ndir' = ndir + 1 /\ dir' = [dir EXCEPT ![p] = ndir]

protect(p) ==
  /\ ndir < MaxDir
  /\ ndir' = ndir + 1
  /\ dir' = [dir EXCEPT ![p] = ndir + 1]

Mut_loader(p, f) ==     \* mutant: the page loop stops one page early
  /\ max_brk' = [max_brk EXCEPT ![p] = ImgPages[f]]
  /\ mapped' = [mapped EXCEPT ![ndir + 1] = 0 .. ImgPages[f] - 2]

loader(p, f) ==
  /\ max_brk' = [max_brk EXCEPT ![p] = ImgPages[f]]
  /\ mapped' = [mapped EXCEPT ![ndir + 1] = 0 .. ImgPages[f] - 1]

Mut_WithContext(p) ==   \* mutant: the foreground PCB gets the new program
  [stack EXCEPT ![Top(fg_pcb)] = UserFrame(ndir + 1)]

WithContext(p) == [stack EXCEPT ![Top(p)] = UserFrame(ndir + 1)]

(* The machine after init_proc(), when main() is about to yield().         *)
NoFrame == [next_priv |-> 0, pdir |-> Null, mepc |-> "main", gpr |-> Null]

Init ==
  /\ cp = [o \in Owner |-> IF o \in Proc THEN Top(o) ELSE Null]
  /\ dir = [o \in Owner |-> IF o \in Proc THEN o + 2 ELSE Null]
  /\ max_brk = [o \in Owner |->
                  IF o \in Proc THEN ImgPages[InitImage[o]] ELSE 0]
  /\ stack = [s \in Slot |-> IF s[1] \in Proc /\ s[2] = 1
                               THEN UserFrame(s[1] + 2) ELSE NoFrame]
  /\ current = Boot /\ fg_pcb = 1 /\ schedule_cnt = 0 /\ ev_buf = 0
  /\ curr_pathname = InitPath
  /\ satp = Kas /\ mscratch = Null /\ intr = FALSE
  /\ phase = "main" /\ c = Top(Boot) /\ regs = Null
  /\ ndir = NProc + 1
  /\ mapped = [d \in Dir |-> IF d \in 2 .. NProc + 1
                               THEN 0 .. ImgPages[InitImage[d - 2]] - 1
                               ELSE {}]

----------------------------------------------------------------------------
(* Trap entry.  trap.S never writes the pdir word of a frame: for a user   *)
(* trap it still holds what ucontext() or the last trap left there, for a  *)
(* trap taken inside the kernel it is an arbitrary word of the stack.      *)
(* __am_get_cur_as() keeps a null word and replaces any other by satp.     *)
PdirWord(s) == IF s[1] \in Proc /\ s[2] = 1 THEN {stack[s].pdir}
                                            ELSE {Null, Kas}

__am_get_cur_as(word) == IF word = Null THEN Null ELSE satp

SaveFrame(base, s, priv, pc, gpr) ==
  /\ \E word \in PdirWord(s) :
       stack' = [base EXCEPT ![s] =
                   [next_priv |-> priv, pdir |-> __am_get_cur_as(word),
                    mepc |-> pc, gpr |-> gpr]]
  /\ mscratch' = Null
  /\ c' = s

(* A trap from user mode: sp and mscratch are swapped, so the frame goes   *)
(* where mscratch points, the top of the kernel stack.                     *)
UserTrap(next) ==
  /\ phase = "user" /\ mscratch # Null
  /\ SaveFrame(stack, mscratch, 1, "user", regs)
  /\ regs' = Null
  /\ phase' = next
  /\ UNCHANGED <<pcbVars, current, schedVars, curr_pathname, satp, ndir, mapped>>

(* yield() inside the kernel: mscratch is 0, the frame goes below the one  *)
(* of the system call, and the event dispatched is EVENT_YIELD.            *)
KernelYield(base, s, pc) ==
  /\ SaveFrame(base, s, 0, pc, Null)
  /\ phase' = "sched"
  /\ UNCHANGED <<schedVars, satp, intr, regs>>

(* The alarm handler raises cpu.intr at any time; the flag is tested after *)
(* every instruction and taken only in user mode, where MIE is 1.          *)
TimerTick ==
  /\ phase \notin {"halt", "panic"} /\ ~intr
  /\ intr' = TRUE
  /\ UNCHANGED <<pcbVars, stack, current, schedVars, curr_pathname, satp,
                 mscratch, phase, c, regs, ndir, mapped>>

Mut_TimerInterrupt ==   \* mutant: do_event() ignores EVENT_IRQ_TIMER
  intr /\ intr' = FALSE /\ UserTrap("return")

TimerInterrupt == intr /\ intr' = FALSE /\ UserTrap("sched")
Ecall          == UNCHANGED intr /\ UserTrap("syscall")

MainYield ==
  /\ phase = "main"
  /\ KernelYield(stack, Top(Boot), "main")
  /\ UNCHANGED <<pcbVars, current, curr_pathname, ndir, mapped>>

----------------------------------------------------------------------------
(* events_read() leaves ev_buf alone when no key is waiting; otherwise the *)
(* buffer holds the number of the function key pressed, or 0 for any other *)
(* event.  A stale event is therefore acted on again by every later call.  *)
Mut_events_read ==      \* mutant: one function key more than there are PCBs
  IF schedule_cnt % Poll = 0 THEN ev_buf' \in 0 .. NProc ELSE UNCHANGED ev_buf

events_read ==
  IF schedule_cnt % Poll = 0 THEN ev_buf' \in Proc \* no event leaves it at ev_buf
                             ELSE UNCHANGED ev_buf

Mut_Counted == schedule_cnt     \* mutant: the increment is forgotten
Counted     == (schedule_cnt + 1) % Period

schedule ==
  /\ phase = "sched"
  /\ cp' = [cp EXCEPT ![current] = c]
  /\ events_read
  /\ fg_pcb' = IF ev_buf' # 0 THEN ev_buf' ELSE fg_pcb
  /\ current' = IF schedule_cnt = 0 THEN 0 ELSE fg_pcb'
  /\ schedule_cnt' = Counted
  /\ c' = cp'[current']
  /\ phase' = "return"
  /\ UNCHANGED <<dir, max_brk, stack, curr_pathname, satp, mscratch, intr,
                 regs, ndir, mapped>>

(* __am_switch(c) and the exit half of trap.S.  A frame of next_priv 0     *)
(* resumes the kernel: SYS_yield and SYS_execve then return the frame of   *)
(* their own trap, SYS_exit falls through to halt(), main() panics.        *)
Mut___am_switch(f) == UNCHANGED satp    \* mutant: set_satp() is not called
__am_switch(f) == satp' = IF f.pdir = Null THEN satp ELSE f.pdir

ReturnToUser ==
  /\ phase = "return" /\ stack[c].next_priv = 1
  /\ __am_switch(stack[c])
  /\ mscratch' = c
  /\ regs' = stack[c].gpr
  /\ phase' = "user"
  /\ UNCHANGED <<pcbVars, stack, current, schedVars, curr_pathname, intr, c,
                 ndir, mapped>>

(* Behind the yield() of SYS_exit is halt(), behind that of main a panic;  *)
(* the inductive invariant shows that only that of SYS_yield is resumed.   *)
ReturnToKernel ==
  /\ phase = "return" /\ stack[c].next_priv = 0
  /\ __am_switch(stack[c])
  /\ \/ /\ stack[c].mepc \in {"yield", "execve"}
        /\ c' = Top(c[1])
        /\ UNCHANGED phase
     \/ /\ stack[c].mepc = "exit" /\ phase' = "halt" /\ UNCHANGED c
     \/ /\ stack[c].mepc = "main" /\ phase' = "panic" /\ UNCHANGED c
  /\ UNCHANGED <<pcbVars, stack, current, schedVars, curr_pathname, mscratch,
                 intr, regs, ndir, mapped>>

----------------------------------------------------------------------------
(* do_syscall                                                              *)
SysYield ==
  /\ phase = "syscall"
  /\ KernelYield(stack, Below(c), "yield")
  /\ UNCHANGED <<pcbVars, current, curr_pathname, ndir, mapped>>

(* The new context replaces the frame of this system call, switch_boot_pcb *)
(* makes schedule() save the dying one in pcb_boot.                        *)
Mut_Replace(f, pc) ==   \* mutant: without switch_boot_pcb()
  /\ protect(current)
  /\ loader(current, f)
  /\ cp' = [cp EXCEPT ![current] = Top(current)]
  /\ KernelYield(WithContext(current), Below(c), pc)
  /\ UNCHANGED current

Replace(f, pc) ==
  /\ protect(current)
  /\ loader(current, f)
  /\ cp' = [cp EXCEPT ![current] = Top(current)]
  /\ current' = Boot
  /\ KernelYield(WithContext(current), Below(c), pc)

SysExecve(f) ==
  /\ phase = "syscall"
  /\ curr_pathname' = f
  /\ Replace(f, "execve")

(* loader() returns -2 after protect() has already replaced as.ptr and the *)
(* path has been recorded; the program goes on with its old context.       *)
SysExecveMissing(f) ==
  /\ phase = "syscall"
  /\ curr_pathname' = f
  /\ protect(current)
  /\ phase' = "return"
  /\ UNCHANGED <<cp, max_brk, stack, current, schedVars, satp, mscratch, intr,
                 c, regs, mapped>>

SysExitToNterm ==
  /\ phase = "syscall" /\ curr_pathname # Nterm
  /\ curr_pathname' = Nterm
  /\ Replace(Nterm, "exit")

SysExitHalt ==
  /\ phase = "syscall" /\ curr_pathname = Nterm
  /\ phase' = "halt"
  /\ UNCHANGED <<pcbVars, stack, current, schedVars, curr_pathname, satp,
                 mscratch, intr, c, regs, ndir, mapped>>

(* mm_brk(): only growth does anything, and it maps into as of current.    *)
SysBrk(brk) ==
  /\ phase = "syscall"
  /\ IF brk > max_brk[current]
       THEN /\ mapped' = [mapped EXCEPT ![dir[current]] =
                            @ \cup (max_brk[current] .. brk - 1)]
            /\ max_brk' = [max_brk EXCEPT ![current] = brk]
       ELSE UNCHANGED <<mapped, max_brk>>
  /\ phase' = "return"
  /\ UNCHANGED <<cp, dir, stack, current, schedVars, curr_pathname, satp,
                 mscratch, intr, c, regs, ndir>>

(* The file-system calls and gettimeofday return to the caller; a number   *)
(* outside the switch panics.                                              *)
SysOther ==
  /\ phase = "syscall"
  /\ phase' \in {"return", "panic"}
  /\ UNCHANGED <<pcbVars, stack, current, schedVars, curr_pathname, satp,
                 mscratch, intr, c, regs, ndir, mapped>>

(* halt() and panic() stop the machine for good.                           *)
Stopped == phase \in {"halt", "panic"} /\ UNCHANGED vars

do_syscall ==
  \/ SysYield
  \/ \E f \in Programs : SysExecve(f)
  \/ \E f \in Missing : SysExecveMissing(f)
  \/ SysExitToNterm
  \/ SysExitHalt
  \/ \E brk \in 0 .. MaxPage : SysBrk(brk)
  \/ SysOther

Kernel == MainYield \/ schedule \/ ReturnToUser \/ ReturnToKernel \/ do_syscall

Next == TimerTick \/ TimerInterrupt \/ Ecall \/ Kernel \/ Stopped

Spec == Init /\ [][Next]_vars

(* The emulated CPU and the host's interval timer never stop: the kernel   *)
(* runs every handler to its end, ticks keep coming, and a pending tick is *)
(* taken after some instruction in user mode.                              *)
Fairness == WF_vars(Kernel) /\ WF_vars(TimerTick) /\ SF_vars(TimerInterrupt)

FairSpec == Spec /\ Fairness

----------------------------------------------------------------------------
(* Every variable holds a value of its kind.                               *)
TypeOK ==
  /\ cp \in [Owner -> Slot \cup {Null}] /\ \A p \in Proc : cp[p] # Null
  /\ dir \in [Owner -> Dir \cup {Null}]
  /\ max_brk \in [Owner -> 0 .. MaxPage]
  /\ stack \in [Slot -> Frame]
  /\ current \in Owner
  /\ fg_pcb \in Proc /\ schedule_cnt \in 0 .. Period - 1 /\ ev_buf \in Proc
  /\ curr_pathname \in Programs \cup Missing
  /\ satp \in Dir /\ mscratch \in Slot \cup {Null} /\ intr \in BOOLEAN
  /\ phase \in Phase
  /\ c \in Slot
  /\ regs \in Dir \cup {Null}
  /\ ndir \in Dir
  /\ mapped \in [Dir -> SUBSET (0 .. MaxPage - 1)]

(* Whenever a user program runs, it runs in the address space its context  *)
(* was created for, the turn is that of a real PCB, and the next trap will *)
(* find the top of that PCB's own kernel stack in mscratch: whatever words *)
(* trap.S leaves in the pdir slots of nested frames (trap.S:44-111,        *)
(* vme.c:62-70), in every order of traps, yields and replaced programs.    *)
UserRuns ==
  phase = "user" =>
    /\ current \in Proc
    /\ mscratch = Top(current)
    /\ satp = regs

(* A process that is not running can be resumed: its saved context lies in *)
(* its own kernel stack and is a user trap or the yield() of its SYS_yield *)
(* below such a trap, never the dead frame of a program that execve or     *)
(* exit replaced (proc.c:139-160, syscall.c:26-32 and 71-80).              *)
Parked(p) ==
  /\ \/ cp[p] = Top(p)
     \/ cp[p] = <<p, 2>> /\ stack[<<p, 2>>].mepc = "yield"
  /\ stack[Top(p)].next_priv = 1
  /\ stack[Top(p)].pdir = stack[Top(p)].gpr

ParkedResumable == \A p \in Proc \ {current} : Parked(p)

(* No directory serves two processes, neither as as.ptr of two PCBs nor as *)
(* the space of two saved contexts (proc.c:58, vme.c:50-57).               *)
SeparateSpaces ==
  \A p, q \in Proc : p # q =>
    /\ dir[p] # dir[q]
    /\ p # current /\ q # current => stack[Top(p)].gpr # stack[Top(q)].gpr

(* While the directory of the running PCB is the one the CPU translates    *)
(* with, every page below max_brk is mapped in it, so the program can use  *)
(* the heap it was granted (mm.c:28-40, loader.c:43-57).                   *)
HeapMapped ==
  phase = "user" /\ satp = dir[current] =>
    0 .. max_brk[current] - 1 \subseteq mapped[satp]

(* proc.h:14 keeps max_brk to decide when map() must be called: what lies  *)
(* below it needs no mapping.  A failed execve breaks this, because it has *)
(* replaced as.ptr under a program that goes on in its old directory.      *)
BelowBrkMapped ==
  phase = "user" => 0 .. max_brk[current] - 1 \subseteq mapped[satp]

(* The kernel stack of a process that is not in a trap of its own is left  *)
(* alone by everybody else's traps, programs and exits (trap.S pushes      *)
(* where mscratch or sp points, ucontext writes the stack of its PCB).     *)
OthersUntouched ==
  [][\A p \in Proc : p # current /\ p # c[1] =>
       \A k \in {1, 2} : stack'[<<p, k>>] = stack[<<p, k>>]]_vars

(* The core implements ProcessSwitch: seen from outside the kernel, the    *)
(* stages of a trap are one CPU that carries several contexts.             *)
Off == phase \in {"halt", "panic"}

Abs == INSTANCE ProcessSwitch WITH
  Idle    <- Boot,
  Space   <- Dir,
  First   <- [p \in Proc |-> p + 2],
  NoSpace <- Null,
  mode    <- IF phase = "user" THEN "user" ELSE IF Off THEN "off" ELSE "kernel",
  turn    <- c[1],
  ctx     <- [p \in Proc |-> IF phase = "user" /\ p = current
                               THEN regs ELSE stack[Top(p)].gpr],
  space   <- IF phase = "user" THEN satp ELSE Null,
  issued  <- Kas .. ndir

Implements == Abs!Spec

(* Until the machine stops, the background process runs again and again,   *)
(* whatever the programs do: every Period-th call of schedule() picks      *)
(* pcb[0] and the timer forces the calls (proc.c:155-156).                 *)
BackgroundRuns == []<>((phase = "user" /\ current = 0) \/ Off)

(* A process that is in the foreground gets the CPU unless the user takes  *)
(* the foreground away or the machine stops (proc.c:152-158).              *)
ForegroundRuns ==
  \A p \in Proc \ {0} :
    fg_pcb = p ~> (phase = "user" /\ current = p) \/ fg_pcb # p \/ Off

(* The inductive invariant.  Every process has a user frame at the top of  *)
(* its stack at all times; in user mode it is the stale copy of the last   *)
(* trap, which still names the right directory.  What a context slot s of  *)
(* process p may be, and what ties the CPU to current in each phase:       *)
Resumable(p, s) == s = Top(p) \/ (s = <<p, 2>> /\ stack[s].mepc = "yield")

Frames ==
  /\ \A p \in Proc : /\ stack[Top(p)].next_priv = 1
                     /\ stack[Top(p)].pdir = stack[Top(p)].gpr
                     /\ stack[Top(p)].gpr \in 2 .. ndir
  /\ \A o \in Owner : stack[<<o, 2>>].next_priv = 0

Control ==
  /\ phase \in {"user", "syscall"} => current \in Proc /\ c = Top(current)
  /\ phase = "user" => /\ mscratch = Top(current)
                       /\ satp = regs /\ regs = stack[Top(current)].gpr
  /\ phase = "return" => current \in Proc /\ Resumable(current, c)
  /\ phase = "sched" /\ current \in Proc => Resumable(current, c)
  /\ phase = "main" => current = Boot /\ c = Top(Boot)

Spaces ==
  /\ \A p \in Proc : dir[p] \in 2 .. ndir
  /\ \A p, q \in Proc : p # q => /\ dir[p] # dir[q]
                                /\ stack[Top(p)].gpr # stack[Top(q)].gpr

Heaps ==
  \A p \in Proc : stack[Top(p)].gpr = dir[p] =>
    0 .. max_brk[p] - 1 \subseteq mapped[dir[p]]

IInv ==
  /\ TypeOK /\ Frames /\ Control /\ Spaces /\ Heaps
  /\ \A p \in Proc \ {current} : Resumable(p, cp[p])
=============================================================================
