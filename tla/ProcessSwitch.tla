--------------------------- MODULE ProcessSwitch ---------------------------
(***************************************************************************)
(* What the process core promises, with nothing about frames, stacks or    *)
(* page tables: one CPU carries the contexts of several processes.  In     *)
(* user mode the CPU runs the context of the process whose turn it is, in  *)
(* that context's own address space; in the kernel the turn may pass to    *)
(* another process, and the process whose turn it is may be given a new    *)
(* context in an address space nobody has ever used.  No other step        *)
(* touches a context.                                                      *)
(***************************************************************************)
CONSTANTS Proc,       \* processes
          Idle,       \* whose turn it is before the first switch
          Space,      \* address spaces; a context is named by its own
          First,      \* First[p]: the context p starts with
          NoSpace     \* the CPU is not in user mode

VARIABLES mode, turn, ctx, space, issued

Init ==
  /\ mode = "kernel" /\ turn = Idle
  /\ ctx = First
  /\ space = NoSpace
  /\ First \in [Proc -> issued]

Trap ==
  /\ mode = "user" /\ mode' = "kernel" /\ space' = NoSpace
  /\ UNCHANGED <<turn, ctx, issued>>

Switch ==
  /\ mode = "kernel" /\ turn' \in Proc
  /\ UNCHANGED <<mode, ctx, space, issued>>

Resume ==
  /\ mode = "kernel" /\ turn \in Proc
  /\ mode' = "user" /\ space' = ctx[turn]
  /\ UNCHANGED <<turn, ctx, issued>>

Issue(d) == d \in Space \ issued /\ issued' = issued \cup {d}

Replace(d) ==
  /\ mode = "kernel" /\ turn \in Proc
  /\ Issue(d)
  /\ ctx' = [ctx EXCEPT ![turn] = d]
  /\ UNCHANGED <<mode, turn, space>>

(* A program that cannot be loaded costs an address space, nothing else.   *)
Fail(d) ==
  /\ mode = "kernel" /\ Issue(d)
  /\ UNCHANGED <<mode, turn, ctx, space>>

Stop ==
  /\ mode = "kernel" /\ mode' = "off"
  /\ UNCHANGED <<turn, ctx, space, issued>>

Next ==
  \/ Trap \/ Switch \/ Resume \/ Stop
  \/ \E d \in Space : Replace(d) \/ Fail(d)

Spec == Init /\ [][Next]_<<mode, turn, ctx, space, issued>>
=============================================================================
