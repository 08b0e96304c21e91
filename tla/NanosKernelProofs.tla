------------------------- MODULE NanosKernelProofs -------------------------
(***************************************************************************)
(* Theorems about the process core, for every number of processes, every   *)
(* set of programs and every bound.                                        *)
(***************************************************************************)
EXTENDS NanosKernel, TLAPS

LEMMA Basics ==
  /\ 0 \in Proc /\ Proc \subseteq Owner /\ Proc \subseteq Int
  /\ Boot \in Owner /\ Boot \notin Proc
  /\ Kas \in Dir /\ Dir \subseteq Int /\ Null \notin Dir
  /\ \A o \in Owner : Top(o) \in Slot /\ <<o, 2>> \in Slot
  /\ \A s \in Slot : s[1] \in Owner /\ s = <<s[1], s[2]>> /\ s # Null
                     /\ Below(s) \in Slot
BY KernelAssumption DEF Proc, Owner, Kas, Dir, Slot, Top, Below

LEMMA SaveFrameType ==
  ASSUME TypeOK, NEW base \in [Slot -> Frame], NEW s \in Slot,
         NEW priv \in {0, 1}, NEW pc \in Resume, NEW gpr \in Dir \cup {Null},
         SaveFrame(base, s, priv, pc, gpr)
  PROVE  stack' \in [Slot -> Frame] /\ mscratch' = Null /\ c' = s
BY DEF TypeOK, SaveFrame, __am_get_cur_as, Frame

LEMMA TypeInit == Init => TypeOK
<1> SUFFICES ASSUME Init PROVE TypeOK
  OBVIOUS
<1> USE Basics, KernelAssumption
<1>1. \A p \in Proc : p + 2 \in Dir
  BY DEF Proc, Dir, Kas
<1>2. /\ cp \in [Owner -> Slot \cup {Null}]
      /\ dir \in [Owner -> Dir \cup {Null}] /\ \A p \in Proc : cp[p] # Null
  BY <1>1 DEF Init
<1>3. max_brk \in [Owner -> 0 .. MaxPage]
  BY DEF Init
<1>4. stack \in [Slot -> Frame]
  BY <1>1 DEF Init, UserFrame, NoFrame, Frame, Resume
<1>5. mapped \in [Dir -> SUBSET (0 .. MaxPage - 1)]
  <2>1. \A d \in 2 .. NProc + 1 : d - 2 \in Proc
    BY DEF Proc
  <2>2. \A f \in Programs : 0 .. ImgPages[f] - 1 \subseteq 0 .. MaxPage - 1
    OBVIOUS
  <2> QED
    BY <2>1, <2>2 DEF Init
<1>6. current \in Owner /\ satp \in Dir /\ c \in Slot
  BY DEF Init
<1>9. ndir \in Dir
  BY DEF Init, Dir, Kas
<1>7. fg_pcb \in Proc /\ ev_buf \in Proc /\ schedule_cnt \in 0 .. Period - 1
  BY DEF Init, Proc
<1>8. /\ curr_pathname \in Programs \cup Missing /\ mscratch \in Slot \cup {Null}
      /\ intr \in BOOLEAN /\ phase \in Phase /\ regs \in Dir \cup {Null}
  BY DEF Init, Phase
<1> QED
  BY <1>2, <1>3, <1>4, <1>5, <1>6, <1>7, <1>8, <1>9 DEF TypeOK

LEMMA Fresh ==
  ASSUME ndir \in Dir, NEW p, protect(p)
  PROVE  ndir' = ndir + 1 /\ ndir + 1 \in Dir
BY KernelAssumption DEF protect, Dir, Kas

LEMMA TypeStep == TypeOK /\ [Next]_vars => TypeOK'
<1> SUFFICES ASSUME TypeOK, [Next]_vars PROVE TypeOK'
  OBVIOUS
<1> USE DEF pcbVars, schedVars
<1>1. ASSUME NEW next \in {"sched", "syscall"}, UserTrap(next), intr' \in BOOLEAN
      PROVE  TypeOK'
  <2>1. mscratch \in Slot /\ "user" \in Resume /\ regs \in Dir \cup {Null}
    BY <1>1 DEF UserTrap, Resume, TypeOK
  <2>2. stack' \in [Slot -> Frame] /\ mscratch' = Null /\ c' = mscratch
    BY <1>1, <2>1, SaveFrameType DEF UserTrap, TypeOK
  <2> QED
    BY <1>1, <2>1, <2>2 DEF UserTrap, TypeOK, Phase
<1>2. ASSUME NEW base \in [Slot -> Frame], NEW s \in Slot, NEW pc \in Resume,
             KernelYield(base, s, pc)
      PROVE  /\ stack' \in [Slot -> Frame] /\ mscratch' = Null /\ c' \in Slot
             /\ phase' = "sched"
             /\ UNCHANGED <<fg_pcb, schedule_cnt, ev_buf, satp, intr, regs>>
  BY <1>2, SaveFrameType DEF KernelYield
<1>3. ASSUME NEW f \in Programs, NEW pc \in Resume,
             Replace(f, pc), curr_pathname' \in Programs
      PROVE  TypeOK'
  <2>1. ndir' \in Dir /\ ndir + 1 \in Dir
    BY <1>3, Fresh DEF Replace, TypeOK
  <2>2. dir' \in [Owner -> Dir \cup {Null}]
    BY <1>3, <2>1 DEF Replace, protect, TypeOK
  <2>3. WithContext(current) \in [Slot -> Frame] /\ Below(c) \in Slot
    BY <2>1, Basics DEF WithContext, UserFrame, Frame, Resume, TypeOK
  <2>4. KernelYield(WithContext(current), Below(c), pc)
    BY <1>3 DEF Replace
  <2>5. /\ stack' \in [Slot -> Frame] /\ mscratch' = Null /\ c' \in Slot
        /\ phase' = "sched"
        /\ UNCHANGED <<fg_pcb, schedule_cnt, ev_buf, satp, intr, regs>>
    BY <1>2, <2>3, <2>4
  <2>6. ImgPages[f] \in 0 .. MaxPage
    BY KernelAssumption
  <2>7. 0 .. ImgPages[f] - 1 \in SUBSET (0 .. MaxPage - 1)
    BY <2>6, KernelAssumption
  <2>8. /\ max_brk' \in [Owner -> 0 .. MaxPage]
        /\ mapped' \in [Dir -> SUBSET (0 .. MaxPage - 1)]
    BY <1>3, <2>6, <2>7 DEF Replace, loader, TypeOK
  <2>9. /\ cp' \in [Owner -> Slot \cup {Null}]
        /\ \A p \in Proc : cp'[p] # Null
        /\ current' \in Owner
    BY <1>3, Basics DEF Replace, TypeOK
  <2> QED
    BY <1>3, <2>1, <2>2, <2>5, <2>8, <2>9 DEF TypeOK, Phase
<1>4. CASE TimerTick
  BY <1>4 DEF TimerTick, TypeOK
<1>5. CASE TimerInterrupt
  BY <1>1, <1>5 DEF TimerInterrupt
<1>6. CASE Ecall
  BY <1>1, <1>6 DEF Ecall, TypeOK
<1>7. CASE MainYield
  <2>1. /\ stack' \in [Slot -> Frame] /\ mscratch' = Null /\ c' \in Slot
        /\ phase' = "sched"
        /\ UNCHANGED <<fg_pcb, schedule_cnt, ev_buf, satp, intr, regs>>
    BY <1>2, <1>7, Basics DEF MainYield, Resume, TypeOK
  <2> QED
    BY <1>7, <2>1 DEF MainYield, TypeOK, Phase
<1>8. CASE schedule
  <2>1. ev_buf' \in Proc /\ fg_pcb' \in Proc /\ current' \in Proc
    BY <1>8, Basics DEF schedule, events_read, TypeOK
  <2>2. schedule_cnt' \in 0 .. Period - 1
    BY <1>8, KernelAssumption DEF schedule, Counted, TypeOK
  <2>3. /\ cp' \in [Owner -> Slot \cup {Null}]
        /\ \A p \in Proc : cp'[p] # Null
        /\ c' = cp'[current']
    BY <1>8, Basics DEF schedule, TypeOK
  <2>4. c' \in Slot
    BY <2>1, <2>3, Basics
  <2> QED
    BY <1>8, <2>1, <2>2, <2>3, <2>4, Basics DEF schedule, TypeOK, Phase
<1>9. CASE ReturnToUser
  <2>1. stack[c].pdir \in Dir \cup {Null} /\ stack[c].gpr \in Dir \cup {Null}
    BY DEF TypeOK, Frame
  <2> QED
    BY <1>9, <2>1 DEF ReturnToUser, __am_switch, TypeOK, Phase
<1>10. CASE ReturnToKernel
  <2>1. stack[c].pdir \in Dir \cup {Null} /\ Top(c[1]) \in Slot
    BY Basics DEF TypeOK, Frame
  <2> QED
    BY <1>10, <2>1 DEF ReturnToKernel, __am_switch, TypeOK, Phase
<1>11. CASE SysYield
  <2>1. /\ stack' \in [Slot -> Frame] /\ mscratch' = Null /\ c' \in Slot
        /\ phase' = "sched"
        /\ UNCHANGED <<fg_pcb, schedule_cnt, ev_buf, satp, intr, regs>>
    BY <1>2, <1>11, Basics DEF SysYield, Resume, TypeOK
  <2> QED
    BY <1>11, <2>1 DEF SysYield, TypeOK, Phase
<1>12. ASSUME NEW f \in Programs, SysExecve(f) PROVE TypeOK'
  BY <1>3, <1>12 DEF SysExecve, Resume
<1>13. ASSUME NEW f \in Missing, SysExecveMissing(f) PROVE TypeOK'
  <2>1. ndir' \in Dir /\ ndir + 1 \in Dir
    BY <1>13, Fresh DEF SysExecveMissing, TypeOK
  <2>2. dir' \in [Owner -> Dir \cup {Null}]
    BY <1>13, <2>1 DEF SysExecveMissing, protect, TypeOK
  <2> QED
    BY <1>13, <2>1, <2>2 DEF SysExecveMissing, TypeOK, Phase
<1>14. CASE SysExitToNterm
  BY <1>3, <1>14, KernelAssumption DEF SysExitToNterm, Resume
<1>15. CASE SysExitHalt
  BY <1>15 DEF SysExitHalt, TypeOK, Phase
<1>16. ASSUME NEW brk \in 0 .. MaxPage, SysBrk(brk) PROVE TypeOK'
  <2>1. max_brk' \in [Owner -> 0 .. MaxPage]
    BY <1>16 DEF SysBrk, TypeOK
  <2>2. max_brk[current] .. brk - 1 \subseteq 0 .. MaxPage - 1
    BY KernelAssumption DEF TypeOK
  <2>3. mapped' \in [Dir -> SUBSET (0 .. MaxPage - 1)]
    BY <1>16, <2>2 DEF SysBrk, TypeOK
  <2> QED
    BY <1>16, <2>1, <2>3 DEF SysBrk, TypeOK, Phase
<1>17. CASE SysOther
  BY <1>17 DEF SysOther, TypeOK, Phase
<1>18. CASE UNCHANGED vars
  BY <1>18 DEF vars, TypeOK
<1> QED
  BY <1>4, <1>5, <1>6, <1>7, <1>8, <1>9, <1>10, <1>11, <1>12, <1>13, <1>14,
     <1>15, <1>16, <1>17, <1>18 DEF Next, Kernel, do_syscall, Stopped

(* Every variable holds a value of its kind in every reachable state of    *)
(* the process core (proc.c, syscall.c, trap.S, cte.c, vme.c).             *)
THEOREM TypeCorrect == Spec => []TypeOK
<1> QED
  BY TypeInit, TypeStep, PTL DEF Spec

----------------------------------------------------------------------------
(* What a trap leaves behind: one frame changes, and its pdir word is satp *)
(* when the slot already held a context of a process.                      *)
LEMMA SaveFrameEffect ==
  ASSUME TypeOK, NEW base \in [Slot -> Frame], NEW s \in Slot,
         NEW priv \in {0, 1}, NEW pc \in Resume, NEW gpr \in Dir \cup {Null},
         SaveFrame(base, s, priv, pc, gpr)
  PROVE  /\ \A t \in Slot : t # s => stack'[t] = base[t]
         /\ stack'[s].next_priv = priv /\ stack'[s].mepc = pc
         /\ stack'[s].gpr = gpr
         /\ s[1] \in Proc /\ s[2] = 1 /\ stack[s].pdir # Null
              => stack'[s].pdir = satp
BY DEF SaveFrame, PdirWord, __am_get_cur_as, TypeOK

LEMMA Slots ==
  /\ \A o \in Owner : Top(o) \in Slot /\ <<o, 2>> \in Slot /\ Top(o)[1] = o
  /\ \A o, q \in Owner : Top(o) # <<q, 2>> /\ (Top(o) = Top(q) => o = q)
                        /\ (<<o, 2>> = <<q, 2>> => o = q)
  /\ \A o \in Owner : Below(Top(o)) = <<o, 2>>
BY DEF Top, Below, Slot

(* Frames, Spaces and Heaps look only at the directories the top frames    *)
(* name: a step that keeps those and the memory keeps the three.           *)
LEMMA TopsKept ==
  ASSUME TypeOK, Frames, Spaces, Heaps,
         \A p \in Proc : /\ stack'[Top(p)].next_priv = 1
                         /\ stack'[Top(p)].pdir = stack'[Top(p)].gpr
                         /\ stack'[Top(p)].gpr = stack[Top(p)].gpr,
         \A o \in Owner : stack'[<<o, 2>>].next_priv = 0,
         UNCHANGED <<dir, ndir, max_brk, mapped>>
  PROVE  Frames' /\ Spaces' /\ Heaps'
<1>1. \A p \in Proc : stack'[Top(p)].gpr \in 2 .. ndir'
  BY DEF Frames
<1>2. Frames'
  BY <1>1 DEF Frames, Top
<1>3. Spaces'
  BY DEF Spaces, Top
<1>4. Heaps'
  BY DEF Heaps, Top
<1> QED
  BY <1>2, <1>3, <1>4

LEMMA TopSpace ==
  ASSUME TypeOK, Frames
  PROVE  \A p \in Proc : stack[Top(p)].gpr \in Dir /\ stack[Top(p)].gpr # Null
<1>1. 2 .. ndir \subseteq Dir
  BY KernelAssumption DEF TypeOK, Dir, Kas
<1> QED
  BY <1>1, Basics DEF Frames

LEMMA IInvInit == Init => IInv
<1> SUFFICES ASSUME Init PROVE IInv
  OBVIOUS
<1>1. TypeOK
  BY TypeInit
<1>2. \A p \in Proc : /\ dir[p] = p + 2 /\ cp[p] = Top(p)
                     /\ stack[Top(p)].next_priv = 1
                     /\ stack[Top(p)].pdir = p + 2 /\ stack[Top(p)].gpr = p + 2
  BY Basics DEF Init, Top, UserFrame
<1>3. \A o \in Owner : stack[<<o, 2>>].next_priv = 0
  <2>1. \A o \in Owner : <<o, 2>> \in Slot /\ <<o, 2>>[2] # 1
    BY Basics
  <2> QED
    BY <2>1 DEF Init, NoFrame
<1>9. \A p \in Proc : p + 2 \in 2 .. ndir /\ \A q \in Proc : p # q => p + 2 # q + 2
  BY KernelAssumption DEF Init, Proc
<1>4. Frames
  BY <1>2, <1>3, <1>9 DEF Frames
<1>5. Control
  BY Basics DEF Control, Init
<1>6. Spaces
  BY <1>2, <1>9 DEF Spaces
<1>7. Heaps
  <2>1. \A p \in Proc : p + 2 \in Dir /\ p + 2 \in 2 .. NProc + 1
                      /\ (p + 2) - 2 = p
    BY KernelAssumption DEF Proc, Dir, Kas
  <2>2. \A p \in Proc : mapped[p + 2] = 0 .. ImgPages[InitImage[p]] - 1
                      /\ max_brk[p] = ImgPages[InitImage[p]]
    BY <2>1, Basics DEF Init
  <2> QED
    BY <1>2, <2>2 DEF Heaps
<1>8. \A p \in Proc \ {current} : Resumable(p, cp[p])
  BY <1>2 DEF Resumable
<1> QED
  BY <1>1, <1>4, <1>5, <1>6, <1>7, <1>8 DEF IInv

LEMMA IInvStep == IInv /\ [Next]_vars => IInv'
<1> SUFFICES ASSUME IInv, [Next]_vars PROVE IInv'
  OBVIOUS
<1> DEFINE Others == \A p \in Proc \ {current} : Resumable(p, cp[p])
<1> USE DEF pcbVars, schedVars
<1>a. TypeOK /\ Frames /\ Control /\ Spaces /\ Heaps /\ Others
  BY DEF IInv
<1>b. TypeOK'
  BY <1>a, TypeStep
<1>c. SUFFICES Frames' /\ Control' /\ Spaces' /\ Heaps' /\ Others'
  BY <1>b DEF IInv
<1>1. ASSUME NEW next \in {"sched", "syscall"}, UserTrap(next)
      PROVE  Frames' /\ Control' /\ Spaces' /\ Heaps' /\ Others'
  <2>1. /\ current \in Proc /\ c = Top(current) /\ mscratch = Top(current)
        /\ satp = regs /\ regs = stack[Top(current)].gpr
    BY <1>1, <1>a DEF UserTrap, Control
  <2>2. SaveFrame(stack, Top(current), 1, "user", regs)
    BY <1>1, <2>1 DEF UserTrap
  <2>3. /\ \A t \in Slot : t # Top(current) => stack'[t] = stack[t]
        /\ stack'[Top(current)].next_priv = 1
        /\ stack'[Top(current)].gpr = regs
        /\ stack[Top(current)].pdir # Null => stack'[Top(current)].pdir = satp
        /\ c' = Top(current)
    <3>1. /\ Top(current) \in Slot /\ Top(current)[1] \in Proc
          /\ Top(current)[2] = 1 /\ "user" \in Resume
      BY <2>1, Basics DEF Top, Resume
    <3>2. stack \in [Slot -> Frame] /\ regs \in Dir \cup {Null} /\ 1 \in {0, 1}
      BY <1>a DEF TypeOK
    <3>3. c' = Top(current)
      BY <2>2 DEF SaveFrame
    <3> QED
      BY <1>a, <2>2, <3>1, <3>2, <3>3, SaveFrameEffect
  <2>4. stack[Top(current)].pdir # Null
    BY <1>a, <2>1, TopSpace DEF Frames
  <2>5. UNCHANGED <<cp, dir, max_brk, current, ndir, mapped>> /\ phase' = next
    BY <1>1 DEF UserTrap
  <2>6. \A p \in Proc : /\ stack'[Top(p)].next_priv = 1
                        /\ stack'[Top(p)].pdir = stack'[Top(p)].gpr
                        /\ stack'[Top(p)].gpr = stack[Top(p)].gpr
    BY <1>a, <2>1, <2>3, <2>4, Slots, Basics DEF Frames
  <2>7. \A o \in Owner : stack'[<<o, 2>>] = stack[<<o, 2>>]
    BY <2>1, <2>3, Slots, Basics
  <2>8. Frames' /\ Spaces' /\ Heaps'
    BY <1>a, <2>5, <2>6, <2>7, TopsKept DEF Frames
  <2>9. Control'
    BY <2>1, <2>3, <2>5 DEF Control, Resumable, Top
  <2>10. Others'
    BY <1>a, <2>5, <2>7, Basics DEF Resumable, Top
  <2> QED
    BY <2>8, <2>9, <2>10
<1>2. CASE TimerTick
  BY <1>a, <1>2 DEF TimerTick, Frames, Control, Spaces, Heaps, Resumable, Top
<1>3. CASE MainYield
  <2>1. /\ current = Boot /\ SaveFrame(stack, Top(Boot), 0, "main", Null)
        /\ phase' = "sched" /\ UNCHANGED <<cp, dir, max_brk, current, ndir, mapped>>
    BY <1>a, <1>3 DEF MainYield, KernelYield, Control
  <2>2. \A t \in Slot : t # Top(Boot) => stack'[t] = stack[t]
    BY <1>a, <2>1, Slots, Basics, SaveFrameEffect DEF Resume, TypeOK
  <2>3. /\ \A p \in Proc : stack'[Top(p)] = stack[Top(p)]
        /\ \A o \in Owner : stack'[<<o, 2>>] = stack[<<o, 2>>]
    BY <2>2, Slots, Basics
  <2>4. Frames' /\ Spaces' /\ Heaps'
    BY <1>a, <2>1, <2>3, TopsKept DEF Frames
  <2>5. Control' /\ Others'
    BY <1>a, <2>1, <2>3, Basics DEF Control, Resumable, Top
  <2> QED
    BY <2>4, <2>5
<1>4. CASE schedule
  <2>1. /\ cp' = [cp EXCEPT ![current] = c] /\ c' = cp'[current']
        /\ phase = "sched" /\ phase' = "return"
        /\ UNCHANGED <<dir, max_brk, stack, ndir, mapped>>
    BY <1>4 DEF schedule
  <2>2. current' \in Proc
    BY <1>4, <1>a, Basics DEF schedule, events_read, TypeOK
  <2>3. \A p \in Proc : Resumable(p, cp'[p])
    BY <1>a, <2>1, Basics DEF Control, TypeOK
  <2>4. Others'
    BY <2>1, <2>2, <2>3 DEF Resumable, Top
  <2>5. Control'
    BY <2>1, <2>2, <2>3 DEF Control, Resumable, Top
  <2> QED
    BY <1>a, <2>1, <2>4, <2>5 DEF Frames, Spaces, Heaps, Top
<1>5. CASE ReturnToUser
  <2>1. /\ phase = "return" /\ stack[c].next_priv = 1 /\ phase' = "user"
        /\ mscratch' = c /\ regs' = stack[c].gpr /\ __am_switch(stack[c])
        /\ UNCHANGED <<cp, dir, max_brk, stack, current, c, ndir, mapped>>
    BY <1>5 DEF ReturnToUser
  <2>2. current \in Proc /\ c = Top(current)
    BY <1>a, <2>1, Basics DEF Control, Resumable, Frames
  <2>3. satp' = stack[c].gpr
    BY <1>a, <2>1, <2>2, TopSpace DEF __am_switch, Frames
  <2>4. Control'
    BY <2>1, <2>2, <2>3 DEF Control, Top
  <2> QED
    BY <1>a, <2>1, <2>4 DEF Frames, Spaces, Heaps, Resumable, Top
<1>6. CASE ReturnToKernel
  <2>1. /\ phase = "return" /\ stack[c].next_priv = 0
        /\ UNCHANGED <<cp, dir, max_brk, stack, current, ndir, mapped>>
    BY <1>6 DEF ReturnToKernel
  <2>2. current \in Proc /\ c = <<current, 2>> /\ stack[c].mepc = "yield"
    BY <1>a, <2>1 DEF Control, Resumable, Frames
  <2>3. phase' = "return" /\ c' = Top(current)
    BY <1>6, <2>1, <2>2 DEF ReturnToKernel
  <2>4. Control'
    BY <2>1, <2>2, <2>3 DEF Control, Resumable, Top
  <2> QED
    BY <1>a, <2>1, <2>4 DEF Frames, Spaces, Heaps, Resumable, Top
<1>7. CASE SysYield
  <2>1. current \in Proc /\ c = Top(current) /\ Below(c) = <<current, 2>>
    BY <1>a, <1>7, Slots, Basics DEF SysYield, Control
  <2>2. /\ SaveFrame(stack, <<current, 2>>, 0, "yield", Null) /\ phase' = "sched"
        /\ UNCHANGED <<cp, dir, max_brk, current, ndir, mapped>>
    BY <1>7, <2>1 DEF SysYield, KernelYield
  <2>3. /\ \A t \in Slot : t # <<current, 2>> => stack'[t] = stack[t]
        /\ stack'[<<current, 2>>].next_priv = 0
        /\ stack'[<<current, 2>>].mepc = "yield" /\ c' = <<current, 2>>
    BY <1>a, <2>1, <2>2, Slots, Basics, SaveFrameEffect DEF Resume, SaveFrame, TypeOK
  <2>4. /\ \A p \in Proc : stack'[Top(p)] = stack[Top(p)]
        /\ \A o \in Owner : o # current => stack'[<<o, 2>>] = stack[<<o, 2>>]
    BY <2>1, <2>3, Slots, Basics
  <2>5. Frames' /\ Spaces' /\ Heaps'
    BY <1>a, <2>2, <2>3, <2>4, TopsKept DEF Frames
  <2>6. Control'
    BY <2>1, <2>2, <2>3 DEF Control, Resumable
  <2>7. Others'
    BY <1>a, <2>2, <2>4, Basics DEF Resumable, Top
  <2> QED
    BY <2>5, <2>6, <2>7
<1>8. ASSUME NEW f \in Programs, NEW pc \in Resume, phase = "syscall", Replace(f, pc)
      PROVE  Frames' /\ Control' /\ Spaces' /\ Heaps' /\ Others'
  <2>1. current \in Proc /\ c = Top(current) /\ Below(c) = <<current, 2>>
    BY <1>a, <1>8, Slots, Basics DEF Control
  <2>2. ndir' = ndir + 1 /\ ndir + 1 \in Dir /\ ndir \in Int
    BY <1>a, <1>8, Fresh, Basics DEF Replace, TypeOK
  <2>3. /\ SaveFrame(WithContext(current), <<current, 2>>, 0, pc, Null)
        /\ phase' = "sched" /\ current' = Boot
        /\ cp' = [cp EXCEPT ![current] = Top(current)]
        /\ dir' = [dir EXCEPT ![current] = ndir + 1]
        /\ max_brk' = [max_brk EXCEPT ![current] = ImgPages[f]]
        /\ mapped' = [mapped EXCEPT ![ndir + 1] = 0 .. ImgPages[f] - 1]
    BY <1>8, <2>1 DEF Replace, KernelYield, protect, loader
  <2>4. WithContext(current) \in [Slot -> Frame]
    BY <1>a, <2>2 DEF WithContext, UserFrame, Frame, Resume, TypeOK
  <2>5. /\ \A t \in Slot : t # <<current, 2>> => stack'[t] = WithContext(current)[t]
        /\ stack'[<<current, 2>>].next_priv = 0
    BY <1>a, <2>1, <2>3, <2>4, Slots, Basics, SaveFrameEffect
  <2>6. /\ stack'[Top(current)] = UserFrame(ndir + 1)
        /\ \A p \in Proc : p # current => stack'[Top(p)] = stack[Top(p)]
        /\ \A o \in Owner : o # current => stack'[<<o, 2>>] = stack[<<o, 2>>]
    <3>1. \A t \in Slot : WithContext(current)[t] =
                          IF t = Top(current) THEN UserFrame(ndir + 1) ELSE stack[t]
      BY <1>a, <2>1, Slots DEF WithContext, TypeOK
    <3> QED
      BY <2>1, <2>5, <3>1, Slots, Basics
  <2>7. Frames'
    <3>1. 2 .. ndir \subseteq 2 .. ndir' /\ ndir + 1 \in 2 .. ndir'
      BY <1>a, <2>1, <2>2 DEF Spaces
    <3> QED
      BY <1>a, <2>2, <2>5, <2>6, <3>1 DEF Frames, UserFrame, Top
  <2>8. \A p \in Proc : /\ dir'[p] = IF p = current THEN ndir + 1 ELSE dir[p]
                        /\ stack'[Top(p)].gpr = IF p = current THEN ndir + 1
                                                ELSE stack[Top(p)].gpr
    BY <1>a, <2>3, <2>6, Basics DEF UserFrame, TypeOK
  <2>9. \A p \in Proc : /\ dir[p] \in 2 .. ndir /\ dir[p] # ndir + 1
                        /\ stack[Top(p)].gpr \in 2 .. ndir
                        /\ stack[Top(p)].gpr # ndir + 1
    BY <1>a, <2>2 DEF Spaces, Frames
  <2>10. Spaces'
    <3>1. \A d \in 2 .. ndir : d \in 2 .. ndir'
      BY <2>2
    <3>2. ndir + 1 \in 2 .. ndir'
      BY <2>1, <2>2, <2>9
    <3>3. \A p \in Proc : dir'[p] \in 2 .. ndir'
      BY <2>8, <2>9, <3>1, <3>2
    <3>4. \A p, q \in Proc : p # q => /\ dir'[p] # dir'[q]
                                   /\ stack'[Top(p)].gpr # stack'[Top(q)].gpr
      BY <1>a, <2>8, <2>9 DEF Spaces
    <3> QED
      BY <3>3, <3>4 DEF Spaces, Top
  <2>11. Heaps'
    <3>1. \A p \in Proc : p # current =>
             max_brk'[p] = max_brk[p] /\ mapped'[dir[p]] = mapped[dir[p]]
      BY <1>a, <2>3, <2>9, Basics DEF TypeOK
    <3>2. max_brk'[current] = ImgPages[f] /\ mapped'[ndir + 1] = 0 .. ImgPages[f] - 1
      BY <1>a, <2>2, <2>3, Basics DEF TypeOK
    <3>3. ASSUME NEW p \in Proc, stack'[Top(p)].gpr = dir'[p]
          PROVE  0 .. max_brk'[p] - 1 \subseteq mapped'[dir'[p]]
      <4>1. CASE p = current
        BY <2>8, <3>2, <4>1
      <4>2. CASE p # current
        BY <1>a, <2>8, <3>1, <3>3, <4>2 DEF Heaps
      <4> QED
        BY <4>1, <4>2
    <3> QED
      BY <3>3 DEF Heaps, Top
  <2>12. Control'
    BY <2>3, Basics DEF Control
  <2>13. Others'
    <3>1. cp'[current] = Top(current)
      BY <1>a, <2>1, <2>3, Basics DEF TypeOK
    <3>2. \A p \in Proc : p # current => cp'[p] = cp[p]
      BY <1>a, <2>3, Basics DEF TypeOK
    <3>3. \A p \in Proc : p # current => stack'[<<p, 2>>] = stack[<<p, 2>>]
      BY <2>6, Basics
    <3>4. ASSUME NEW p \in Proc PROVE Resumable(p, cp[p])'
      <4>1. CASE p = current
        BY <3>1, <4>1 DEF Resumable, Top
      <4>2. CASE p # current
        BY <1>a, <3>2, <3>3, <4>2 DEF Resumable, Top
      <4> QED
        BY <4>1, <4>2
    <3> QED
      BY <3>4
  <2> QED
    BY <2>7, <2>10, <2>11, <2>12, <2>13
<1>9. ASSUME NEW f \in Missing, SysExecveMissing(f)
      PROVE  Frames' /\ Control' /\ Spaces' /\ Heaps' /\ Others'
  <2>1. /\ current \in Proc /\ c = Top(current) /\ phase' = "return"
        /\ ndir' = ndir + 1 /\ ndir + 1 \in Dir /\ ndir \in Int
        /\ dir' = [dir EXCEPT ![current] = ndir + 1]
        /\ UNCHANGED <<cp, max_brk, stack, current, c, mapped>>
    BY <1>a, <1>9, Fresh, Basics DEF SysExecveMissing, protect, Control, TypeOK
  <2>2. \A p \in Proc : dir'[p] = IF p = current THEN ndir + 1 ELSE dir[p]
    BY <1>a, <2>1, Basics DEF TypeOK
  <2>3. \A p \in Proc : /\ dir[p] \in 2 .. ndir /\ dir[p] # ndir + 1
                        /\ stack[Top(p)].gpr \in 2 .. ndir
                        /\ stack[Top(p)].gpr # ndir + 1
    BY <1>a, <2>1 DEF Spaces, Frames
  <2>4. \A d \in 2 .. ndir : d \in 2 .. ndir'
    BY <2>1
  <2>5. ndir + 1 \in 2 .. ndir'
    BY <2>1, <2>3
  <2>6. Frames'
    BY <1>a, <2>1, <2>4 DEF Frames, Top
  <2>7. Spaces'
    BY <1>a, <2>1, <2>2, <2>3, <2>4, <2>5 DEF Spaces, Top
  <2>8. Heaps'
    BY <1>a, <2>1, <2>2, <2>3 DEF Heaps, Top
  <2>9. Control' /\ Others'
    BY <1>a, <2>1 DEF Control, Resumable, Top
  <2> QED
    BY <2>6, <2>7, <2>8, <2>9
<1>10. ASSUME NEW brk \in 0 .. MaxPage, SysBrk(brk)
       PROVE  Frames' /\ Control' /\ Spaces' /\ Heaps' /\ Others'
  <2>1. /\ current \in Proc /\ c = Top(current) /\ phase' = "return"
        /\ UNCHANGED <<cp, dir, stack, current, c, ndir>>
    BY <1>a, <1>10 DEF SysBrk, Control
  <2>2. Frames' /\ Control' /\ Spaces' /\ Others'
    BY <1>a, <2>1 DEF Frames, Control, Spaces, Resumable, Top
  <2>3. Heaps'
    <3>1. CASE brk > max_brk[current]
      <4>1. /\ mapped' = [mapped EXCEPT ![dir[current]] =
                            @ \cup (max_brk[current] .. brk - 1)]
            /\ max_brk' = [max_brk EXCEPT ![current] = brk]
        BY <1>10, <3>1 DEF SysBrk
      <4>2. \A p \in Proc : dir[p] \in Dir
        BY <1>a, KernelAssumption DEF TypeOK, Spaces, Dir, Kas
      <4>3. \A p \in Proc : p # current =>
              max_brk'[p] = max_brk[p] /\ mapped'[dir[p]] = mapped[dir[p]]
        BY <1>a, <2>1, <4>1, Basics DEF TypeOK, Spaces
      <4>4. /\ max_brk'[current] = brk
            /\ mapped'[dir[current]] = mapped[dir[current]] \cup
                                          (max_brk[current] .. brk - 1)
        BY <1>a, <2>1, <4>1, <4>2, Basics DEF TypeOK
      <4>5. 0 .. brk - 1 \subseteq (0 .. max_brk[current] - 1) \cup
                                     (max_brk[current] .. brk - 1)
        BY <1>a, KernelAssumption DEF TypeOK
      <4> QED
        BY <1>a, <2>1, <4>3, <4>4, <4>5 DEF Heaps, Top
    <3>2. CASE ~(brk > max_brk[current])
      BY <1>a, <1>10, <2>1, <3>2 DEF SysBrk, Heaps, Top
    <3> QED
      BY <3>1, <3>2
  <2> QED
    BY <2>2, <2>3
<1>11. CASE SysExitHalt
  BY <1>a, <1>11 DEF SysExitHalt, Frames, Control, Spaces, Heaps, Resumable, Top
<1>12. CASE SysOther
  BY <1>a, <1>12 DEF SysOther, Frames, Control, Spaces, Heaps, Resumable, Top
<1>13. CASE UNCHANGED vars
  BY <1>a, <1>13 DEF vars, Frames, Control, Spaces, Heaps, Resumable, Top
<1>14. CASE TimerInterrupt \/ Ecall
  BY <1>1, <1>14 DEF TimerInterrupt, Ecall
<1>15. ASSUME NEW f \in Programs, SysExecve(f)
       PROVE  Frames' /\ Control' /\ Spaces' /\ Heaps' /\ Others'
  BY <1>8, <1>15 DEF SysExecve, Resume
<1>16. CASE SysExitToNterm
  BY <1>8, <1>16, KernelAssumption DEF SysExitToNterm, Resume
<1> QED
  BY <1>2, <1>3, <1>4, <1>5, <1>6, <1>7, <1>9, <1>10, <1>11, <1>12, <1>13,
     <1>14, <1>15, <1>16 DEF Next, Kernel, do_syscall, Stopped

LEMMA Inductive == Spec => []IInv
<1> QED
  BY IInvInit, IInvStep, PTL DEF Spec

(* A user program always runs in its own address space, with the kernel    *)
(* stack of its own PCB armed for the next trap.                           *)
THEOREM UserRunsCorrect == Spec => []UserRuns
<1>1. IInv => UserRuns
  BY DEF IInv, Control, UserRuns
<1> QED
  BY <1>1, Inductive, PTL

(* No dead frame is ever resumed: what a parked PCB holds is a user trap   *)
(* or a kernel yield of its current program.                               *)
THEOREM ParkedCorrect == Spec => []ParkedResumable
<1>1. IInv => ParkedResumable
  BY DEF IInv, Frames, Resumable, Parked, ParkedResumable
<1> QED
  BY <1>1, Inductive, PTL

(* Address spaces are never shared between processes.                      *)
THEOREM SpacesCorrect == Spec => []SeparateSpaces
<1>1. IInv => SeparateSpaces
  BY DEF IInv, Spaces, SeparateSpaces
<1> QED
  BY <1>1, Inductive, PTL

(* The heap a program was granted is mapped as long as its directory is    *)
(* the one the PCB names.                                                  *)
THEOREM HeapCorrect == Spec => []HeapMapped
<1>1. IInv => HeapMapped
  BY DEF IInv, Heaps, Control, HeapMapped
<1> QED
  BY <1>1, Inductive, PTL

----------------------------------------------------------------------------
(* The refinement.  Under the invariant the context of a process is, in    *)
(* every phase, the space named by the top frame of its stack.             *)
Ctx == [p \in Proc |-> stack[Top(p)].gpr]

LEMMA CtxIs ==
  IInv => Ctx = [p \in Proc |-> IF phase = "user" /\ p = current
                                  THEN regs ELSE stack[Top(p)].gpr]
BY DEF IInv, Control, Ctx

LEMMA UserTrapKeeps ==
  ASSUME IInv, NEW next \in {"sched", "syscall"}, UserTrap(next)
  PROVE  /\ \A t \in Slot : t # Top(current) => stack'[t] = stack[t]
         /\ Ctx' = Ctx /\ c' = c /\ current \in Proc /\ c = Top(current)
<1>1. /\ TypeOK /\ current \in Proc /\ mscratch = Top(current)
      /\ c = Top(current) /\ regs = stack[Top(current)].gpr
  BY DEF IInv, Control, UserTrap
<1>2. SaveFrame(stack, Top(current), 1, "user", regs)
  BY <1>1 DEF UserTrap
<1>3. /\ stack \in [Slot -> Frame] /\ regs \in Dir \cup {Null} /\ 1 \in {0, 1}
      /\ Top(current) \in Slot /\ "user" \in Resume
  BY <1>1, Slots, Basics DEF TypeOK, Resume
<1>4. /\ \A t \in Slot : t # Top(current) => stack'[t] = stack[t]
      /\ stack'[Top(current)].gpr = regs
  BY <1>1, <1>2, <1>3, SaveFrameEffect
<1>5. \A p \in Proc : stack'[Top(p)].gpr = stack[Top(p)].gpr
  BY <1>1, <1>4, Slots, Basics
<1>6. c' = c
  BY <1>1, <1>2 DEF SaveFrame
<1> QED
  BY <1>1, <1>4, <1>5, <1>6 DEF Ctx, Top

LEMMA KernelYieldKeeps ==
  ASSUME TypeOK, NEW base \in [Slot -> Frame], NEW o \in Owner, NEW s \in Slot,
         s = <<o, 2>> \/ (o = Boot /\ s = Top(o)), NEW pc \in Resume,
         KernelYield(base, s, pc)
  PROVE  /\ \A t \in Slot : t # s => stack'[t] = base[t]
         /\ \A p \in Proc : stack'[Top(p)] = base[Top(p)]
         /\ c' = s /\ s[1] = o /\ phase' = "sched"
<1>1. SaveFrame(base, s, 0, pc, Null) /\ phase' = "sched"
  BY DEF KernelYield
<1>2. 0 \in {0, 1} /\ Null \in Dir \cup {Null}
  OBVIOUS
<1>3. /\ \A t \in Slot : t # s => stack'[t] = base[t]
      /\ c' = s
  BY <1>1, <1>2, SaveFrameEffect DEF SaveFrame
<1>4. \A p \in Proc : Top(p) \in Slot /\ Top(p) # s
  BY Slots, Basics
<1> QED
  BY <1>1, <1>3, <1>4, Slots DEF Top

LEMMA ReplaceKeeps ==
  ASSUME IInv, NEW f \in Programs, NEW pc \in Resume, phase = "syscall",
         Replace(f, pc)
  PROVE  /\ current \in Proc /\ c[1] = current /\ c'[1] = current
         /\ phase' = "sched"
         /\ ndir' = ndir + 1 /\ ndir + 1 \in Dir
         /\ Ctx' = [Ctx EXCEPT ![current] = ndir + 1]
         /\ \A p \in Proc, k \in {1, 2} :
              p # current => stack'[<<p, k>>] = stack[<<p, k>>]
<1>1. /\ TypeOK /\ current \in Proc /\ c = Top(current)
      /\ Below(c) = <<current, 2>> /\ c[1] = current
  BY Slots, Basics DEF IInv, Control
<1>2. ndir' = ndir + 1 /\ ndir + 1 \in Dir
  BY <1>1, Fresh DEF Replace, TypeOK
<1>3. WithContext(current) \in [Slot -> Frame]
  BY <1>1, <1>2 DEF WithContext, UserFrame, Frame, Resume, TypeOK
<1>4. KernelYield(WithContext(current), <<current, 2>>, pc)
  BY <1>1 DEF Replace
<1>5. current \in Owner /\ <<current, 2>> \in Slot
  BY <1>1, Slots, Basics
<1>6. /\ \A t \in Slot : t # <<current, 2>> => stack'[t] = WithContext(current)[t]
      /\ \A p \in Proc : stack'[Top(p)] = WithContext(current)[Top(p)]
      /\ c'[1] = current /\ phase' = "sched"
  BY <1>1, <1>3, <1>4, <1>5, KernelYieldKeeps
<1>7. \A t \in Slot : WithContext(current)[t] =
                      IF t = Top(current) THEN UserFrame(ndir + 1) ELSE stack[t]
  BY <1>1, Slots DEF WithContext, TypeOK
<1>8. \A p \in Proc : stack'[Top(p)].gpr = IF p = current THEN ndir + 1
                                                       ELSE stack[Top(p)].gpr
  BY <1>1, <1>6, <1>7, Slots, Basics DEF UserFrame
<1>9. Ctx' = [Ctx EXCEPT ![current] = ndir + 1]
  BY <1>1, <1>8 DEF Ctx, Top
<1>10. \A p \in Proc, k \in {1, 2} :
         /\ <<p, k>> \in Slot
         /\ p # current => <<p, k>> # Top(current) /\ <<p, k>> # <<current, 2>>
  BY Basics DEF Top, Slot
<1>11. \A p \in Proc, k \in {1, 2} :
         p # current => stack'[<<p, k>>] = stack[<<p, k>>]
  BY <1>6, <1>7, <1>10
<1> QED
  BY <1>1, <1>2, <1>6, <1>9, <1>11

(* The kernel stack of a process outside its own traps is left alone.      *)
THEOREM OthersUntouchedCorrect == Spec => OthersUntouched
<1> DEFINE A == \A p \in Proc : p # current /\ p # c[1] =>
                  \A k \in {1, 2} : stack'[<<p, k>>] = stack[<<p, k>>]
<1>1. ASSUME IInv, Next PROVE A \/ UNCHANGED vars
  <2> SUFFICES A
    OBVIOUS
  <2>a. \A p \in Proc, k \in {1, 2} : <<p, k>> \in Slot /\ <<p, k>>[1] = p
    BY Basics DEF Slot
  <2>1. ASSUME NEW next \in {"sched", "syscall"}, UserTrap(next) PROVE A
    BY <1>1, <2>1, <2>a, UserTrapKeeps DEF Top
  <2>2. CASE TimerInterrupt \/ Ecall
    BY <2>1, <2>2 DEF TimerInterrupt, Ecall
  <2>3. CASE MainYield
    <3>1. /\ TypeOK /\ stack \in [Slot -> Frame] /\ "main" \in Resume
          /\ Boot \in Owner /\ Top(Boot) \in Slot
          /\ KernelYield(stack, Top(Boot), "main")
      BY <1>1, <2>3, Slots, Basics DEF MainYield, IInv, TypeOK, Resume
    <3>2. \A t \in Slot : t # Top(Boot) => stack'[t] = stack[t]
      BY <3>1, KernelYieldKeeps
    <3> QED
      BY <2>a, <3>2, Basics DEF Top
  <2>4. CASE SysYield
    <3>1. current \in Proc /\ c = Top(current) /\ Below(c) = <<current, 2>>
      BY <1>1, <2>4, Slots, Basics DEF SysYield, IInv, Control
    <3>2. /\ TypeOK /\ stack \in [Slot -> Frame] /\ "yield" \in Resume
          /\ current \in Owner /\ <<current, 2>> \in Slot
          /\ KernelYield(stack, <<current, 2>>, "yield")
      BY <1>1, <2>4, <3>1, Slots, Basics DEF SysYield, IInv, TypeOK, Resume
    <3>3. \A t \in Slot : t # <<current, 2>> => stack'[t] = stack[t]
      BY <3>2, KernelYieldKeeps
    <3> QED
      BY <2>a, <3>1, <3>3
  <2>5. ASSUME NEW f \in Programs, SysExecve(f) PROVE A
    BY <1>1, <2>5, ReplaceKeeps DEF SysExecve, Resume
  <2>6. CASE SysExitToNterm
    BY <1>1, <2>6, ReplaceKeeps, KernelAssumption DEF SysExitToNterm, Resume
  <2>7. CASE UNCHANGED stack
    BY <2>7
  <2> QED
    BY <1>1, <2>2, <2>3, <2>4, <2>5, <2>6, <2>7
       DEF Next, Kernel, do_syscall, Stopped, vars, TimerTick, schedule,
           ReturnToUser, ReturnToKernel, SysExecveMissing, SysExitHalt, SysBrk,
           SysOther
<1>2. IInv /\ [Next]_vars => [A]_vars
  BY <1>1
<1> QED
  BY <1>2, Inductive, PTL DEF Spec, OthersUntouched

Mode  == IF phase = "user" THEN "user" ELSE IF Off THEN "off" ELSE "kernel"
Where == IF phase = "user" THEN satp ELSE Null
AbsVars == <<Mode, c[1], Ctx, Where, Kas .. ndir>>

LEMMA AbsInit == Init => Abs!Init
<1> SUFFICES ASSUME Init PROVE Abs!Init
  OBVIOUS
<1>1. \A p \in Proc : stack[Top(p)].gpr = p + 2
  <2> SUFFICES ASSUME NEW p \in Proc PROVE stack[Top(p)].gpr = p + 2
    OBVIOUS
  <2>1. Top(p) \in Slot /\ Top(p)[1] = p /\ Top(p)[2] = 1
    BY Basics DEF Top, Slot
  <2>2. stack[Top(p)] = UserFrame(p + 2)
    BY <2>1 DEF Init
  <2> QED
    BY <2>2 DEF UserFrame
<1>2. \A p \in Proc : p + 2 \in Kas .. ndir
  BY KernelAssumption DEF Init, Proc, Kas
<1>3. c[1] = Boot /\ phase = "main"
  BY DEF Init, Top
<1>4. [p \in Proc |-> IF phase = "user" /\ p = current
                        THEN regs ELSE stack[Top(p)].gpr] = [p \in Proc |-> p + 2]
  BY <1>1, <1>3
<1> QED
  BY <1>2, <1>3, <1>4 DEF Abs!Init, Off

(* The steps of the specification, told by what the abstraction sees.      *)
TrapMove    == Mode = "user" /\ Mode' = "kernel" /\ Where' = Null
                 /\ UNCHANGED <<c[1], Ctx, Kas .. ndir>>
SwitchMove  == Mode = "kernel" /\ (c[1])' \in Proc
                 /\ UNCHANGED <<Mode, Ctx, Where, Kas .. ndir>>
ResumeMove  == Mode = "kernel" /\ c[1] \in Proc /\ Mode' = "user"
                 /\ Where' = Ctx[c[1]] /\ UNCHANGED <<c[1], Ctx, Kas .. ndir>>
StopMove    == Mode = "kernel" /\ Mode' = "off"
                 /\ UNCHANGED <<c[1], Ctx, Where, Kas .. ndir>>
ReplaceMove == Mode = "kernel" /\ c[1] \in Proc
                 /\ ndir' = ndir + 1 /\ ndir + 1 \in Dir
                 /\ Ctx' = [Ctx EXCEPT ![c[1]] = ndir + 1]
                 /\ UNCHANGED <<Mode, c[1], Where>>
FailMove    == Mode = "kernel" /\ ndir' = ndir + 1 /\ ndir + 1 \in Dir
                 /\ UNCHANGED <<Mode, c[1], Ctx, Where>>
AbsMove == \/ UNCHANGED AbsVars
           \/ TrapMove \/ SwitchMove \/ ResumeMove \/ StopMove
           \/ ReplaceMove \/ FailMove

LEMMA AbsStep == ASSUME IInv, IInv', Next PROVE AbsMove
<1> USE DEF Mode, Where, AbsVars, Off
<1> USE DEF AbsMove, TrapMove, SwitchMove, ResumeMove, StopMove, ReplaceMove,
            FailMove
<1>a. TypeOK /\ Control /\ Control'
  BY DEF IInv
<1>b. stack' = stack => Ctx' = Ctx
  BY DEF Ctx, Top
<1>1. ASSUME NEW next \in {"sched", "syscall"}, UserTrap(next)
      PROVE  TrapMove
  BY <1>1, UserTrapKeeps DEF UserTrap
<1>2. ASSUME TimerInterrupt \/ Ecall PROVE AbsMove
  BY <1>1, <1>2 DEF TimerInterrupt, Ecall
<1>3. ASSUME TimerTick PROVE AbsMove
  BY <1>b, <1>3 DEF TimerTick
<1>4. ASSUME MainYield PROVE AbsMove
  <2>1. /\ stack \in [Slot -> Frame] /\ "main" \in Resume
        /\ Boot \in Owner /\ Top(Boot) \in Slot /\ c = Top(Boot)
        /\ KernelYield(stack, Top(Boot), "main")
    BY <1>a, <1>4, Slots, Basics DEF MainYield, Control, TypeOK, Resume
  <2>2. (\A p \in Proc : stack'[Top(p)] = stack[Top(p)]) /\ c' = c /\ phase' = "sched"
    BY <1>a, <2>1, KernelYieldKeeps
  <2>3. Ctx' = Ctx
    BY <2>2 DEF Ctx, Top
  <2> QED
    BY <1>4, <2>2, <2>3 DEF MainYield
<1>5. ASSUME schedule PROVE AbsMove
  <2>1. phase' = "return" /\ (c[1])' \in Proc
    BY <1>a, <1>5 DEF schedule, Control, Resumable, Top
  <2> QED
    BY <1>b, <1>5, <2>1 DEF schedule
<1>6. ASSUME ReturnToUser PROVE AbsMove
  <2>1. /\ phase = "return" /\ phase' = "user" /\ UNCHANGED <<stack, c, current, ndir>>
    BY <1>6 DEF ReturnToUser
  <2>2. /\ current \in Proc /\ c[1] = current /\ c'[1] = current
        /\ satp' = stack'[Top(current)].gpr
    BY <1>a, <2>1 DEF Control, Top
  <2>3. Ctx[c[1]] = satp'
    BY <2>1, <2>2 DEF Ctx
  <2> QED
    BY <1>b, <2>1, <2>2, <2>3
<1>7. ASSUME ReturnToKernel PROVE AbsMove
  <2>1. /\ current \in Proc /\ c = <<current, 2>> /\ stack[c].mepc = "yield"
        /\ phase = "return"
    BY <1>a, <1>7 DEF ReturnToKernel, IInv, Control, Resumable, Frames
  <2>2. phase' = "return" /\ c'[1] = c[1] /\ UNCHANGED <<stack, ndir>>
    BY <1>7, <2>1 DEF ReturnToKernel, Top
  <2> QED
    BY <1>b, <2>1, <2>2
<1>8. ASSUME SysYield PROVE AbsMove
  <2>1. /\ current \in Proc /\ c = Top(current) /\ Below(c) = <<current, 2>>
        /\ stack \in [Slot -> Frame] /\ "yield" \in Resume
        /\ current \in Owner /\ <<current, 2>> \in Slot
    BY <1>a, <1>8, Slots, Basics DEF SysYield, Control, TypeOK, Resume
  <2>2. KernelYield(stack, <<current, 2>>, "yield")
    BY <1>8, <2>1 DEF SysYield
  <2>3. /\ \A p \in Proc : stack'[Top(p)] = stack[Top(p)]
        /\ c'[1] = current /\ phase' = "sched"
    BY <1>a, <2>1, <2>2, KernelYieldKeeps
  <2>4. Ctx' = Ctx
    BY <2>3 DEF Ctx, Top
  <2>5. c'[1] = c[1]
    BY <2>1, <2>3 DEF Top
  <2> QED
    BY <1>8, <2>3, <2>4, <2>5 DEF SysYield
<1>9. ASSUME NEW f \in Programs, NEW pc \in Resume, phase = "syscall", Replace(f, pc)
      PROVE  ReplaceMove
  BY <1>9, ReplaceKeeps
<1>10. ASSUME NEW f \in Programs, SysExecve(f) PROVE AbsMove
  BY <1>9, <1>10 DEF SysExecve, Resume
<1>11. ASSUME SysExitToNterm PROVE AbsMove
  BY <1>9, <1>11, KernelAssumption DEF SysExitToNterm, Resume
<1>12. ASSUME NEW f \in Missing, SysExecveMissing(f) PROVE AbsMove
  BY <1>a, <1>b, <1>12, Fresh DEF SysExecveMissing, TypeOK
<1>13. ASSUME SysExitHalt PROVE AbsMove
  BY <1>b, <1>13 DEF SysExitHalt
<1>14. ASSUME NEW brk \in 0 .. MaxPage, SysBrk(brk) PROVE AbsMove
  BY <1>b, <1>14 DEF SysBrk
<1>15. ASSUME SysOther PROVE AbsMove
  BY <1>b, <1>15 DEF SysOther
<1>16. ASSUME Stopped PROVE AbsMove
  BY <1>b, <1>16 DEF Stopped, vars
<1> QED
  BY <1>2, <1>3, <1>4, <1>5, <1>6, <1>7, <1>8, <1>10, <1>11, <1>12, <1>13,
     <1>14, <1>15, <1>16 DEF Next, Kernel, do_syscall

(* Each of these moves is a step of the abstract specification.            *)
LEMMA MoveIs ==
  ASSUME IInv, IInv', AbsMove
  PROVE  [Abs!Next]_<<IF phase = "user" THEN "user" ELSE IF Off THEN "off" ELSE "kernel",
                      c[1],
                      [p \in Proc |-> IF phase = "user" /\ p = current
                                        THEN regs ELSE stack[Top(p)].gpr],
                      IF phase = "user" THEN satp ELSE Null,
                      Kas .. ndir>>
<1>1. Ctx = [p \in Proc |-> IF phase = "user" /\ p = current
                              THEN regs ELSE stack[Top(p)].gpr]
  BY CtxIs
<1>2. Ctx' = [p \in Proc |-> IF phase' = "user" /\ p = current'
                               THEN regs' ELSE stack'[Top(p)].gpr]
  BY DEF IInv, Control, Ctx, Top
<1>3. ASSUME ndir + 1 \in Dir, ndir' = ndir + 1
      PROVE  ndir + 1 \in Dir \ (Kas .. ndir)
               /\ Kas .. ndir' = (Kas .. ndir) \cup {ndir + 1}
  <2>1. ndir \in Int /\ ndir >= 1 /\ ndir' \in Int
    BY <1>3, KernelAssumption DEF IInv, TypeOK, Dir, Kas
  <2>2. ndir + 1 \notin Kas .. ndir
    BY <2>1 DEF Kas
  <2>3. Kas .. ndir + 1 = (Kas .. ndir) \cup {ndir + 1}
    BY <2>1 DEF Kas
  <2> QED
    BY <1>3, <2>2, <2>3
<1>4. CASE UNCHANGED AbsVars
  BY <1>1, <1>2, <1>4 DEF AbsVars, Mode, Where
<1>5. CASE TrapMove
  BY <1>1, <1>2, <1>5 DEF TrapMove, Mode, Where, Abs!Next, Abs!Trap
<1>6. CASE SwitchMove
  BY <1>1, <1>2, <1>6 DEF SwitchMove, Mode, Where, Abs!Next, Abs!Switch
<1>7. CASE ResumeMove
  BY <1>1, <1>2, <1>7 DEF ResumeMove, Mode, Where, Abs!Next, Abs!Resume
<1>8. CASE StopMove
  BY <1>1, <1>2, <1>8 DEF StopMove, Mode, Where, Abs!Next, Abs!Stop
<1>9. CASE ReplaceMove
  BY <1>1, <1>2, <1>3, <1>9
     DEF ReplaceMove, Mode, Where, Abs!Next, Abs!Replace, Abs!Issue
<1>10. CASE FailMove
  <2>1. Abs!Fail(ndir + 1)
    BY <1>1, <1>2, <1>3, <1>10 DEF FailMove, Mode, Where, Abs!Fail, Abs!Issue
  <2>2. \E d \in Dir : Abs!Replace(d) \/ Abs!Fail(d)
    BY <1>10, <2>1 DEF FailMove
  <2> QED
    BY <2>2 DEF Abs!Next
<1> QED
  BY <1>4, <1>5, <1>6, <1>7, <1>8, <1>9, <1>10 DEF AbsMove

LEMMA StutterIs ==
  ASSUME UNCHANGED vars
  PROVE  UNCHANGED <<IF phase = "user" THEN "user" ELSE IF Off THEN "off" ELSE "kernel",
                      c[1],
                      [p \in Proc |-> IF phase = "user" /\ p = current
                                        THEN regs ELSE stack[Top(p)].gpr],
                      IF phase = "user" THEN satp ELSE Null,
                      Kas .. ndir>>
BY DEF vars, Off, Top

(* The process core implements ProcessSwitch: whatever the order of traps, *)
(* ticks, yields, brk, execve and exit, what happens to the contexts is    *)
(* what one CPU carrying several processes may do.                         *)
THEOREM ImplementsCorrect == Spec => Implements
<1>1. IInv /\ IInv' /\ [Next]_vars =>
        [Abs!Next]_<<IF phase = "user" THEN "user" ELSE IF Off THEN "off" ELSE "kernel",
                      c[1],
                      [p \in Proc |-> IF phase = "user" /\ p = current
                                        THEN regs ELSE stack[Top(p)].gpr],
                      IF phase = "user" THEN satp ELSE Null,
                      Kas .. ndir>>
  BY AbsStep, MoveIs, StutterIs
<1> QED
  BY <1>1, AbsInit, Inductive, PTL DEF Spec, Implements, Abs!Spec
=============================================================================
