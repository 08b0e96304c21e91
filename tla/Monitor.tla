------------------------------ MODULE Monitor ------------------------------
(***************************************************************************)
(* NEMU's monitor: the states of the emulator (nemu_state), the loop of    *)
(* cpu-exec.c that executes instructions, and the commands of the simple   *)
(* debugger (sdb.c), in a build with watchpoints and differential testing. *)
(*                                                                         *)
(* It is one thread.  An instruction, difftest_step(), scan_wp(), the test *)
(* whether to go on, and the devices with the interrupts come one after    *)
(* the other; scan_wp() and the commands w and d are the loops of module   *)
(* Watchpoints.  What an instruction does is how it ends and what it makes *)
(* of the watched values.                                                  *)
(***************************************************************************)
EXTENDS Watchpoints

CONSTANTS
  Forever,      \* the uint64_t -1 of cmd_c: more than ever runs
  Step          \* bound: the numbers the user gives to si

ASSUME MonitorAssumption == Step \subseteq Nat /\ Forever \notin Nat

VARIABLES
  state, halt_ret,      \* nemu_state
  is_skip_ref,          \* of dut.c
  n,                    \* of execute(): instructions left
  is_batch_mode,
  phase,                \* where the thread is
  outcome,              \* history: how the program ended: "none" while it runs
  old                   \* history: val when the last scan_wp() began

nemu        == <<state, halt_ret, is_skip_ref, n, outcome>>
monitorVars == <<nemu, is_batch_mode, phase, old>>
allVars     == <<vars, monitorVars>>

MonitorInit ==
  /\ Init
  /\ state = "STOP" /\ halt_ret = 0 /\ is_skip_ref = FALSE /\ n = 0
  /\ is_batch_mode \in BOOLEAN /\ phase = "prompt"
  /\ outcome = "none" /\ old = val

----------------------------------------------------------------------------
(* Commands.  In batch mode there is a single one, c.                      *)
AtPrompt == phase = "prompt" /\ pc = "ready"
Back     == IF is_batch_mode THEN "left" ELSE "prompt"

Mut_Started(k) == state' = "RUNNING" /\ phase' = "fetch"
                                \* mutant: the loop tests n at its end

Started(k) ==
  IF k = 0 THEN state' = "STOP" /\ phase' = Back
           ELSE state' = "RUNNING" /\ phase' = "fetch"

cpu_exec(k) ==
  /\ AtPrompt
  /\ IF state \in {"END", "ABORT"}
       THEN phase' = Back /\ UNCHANGED <<state, n>>
       ELSE n' = k /\ Started(k)
  /\ UNCHANGED <<vars, halt_ret, is_skip_ref, outcome, is_batch_mode, old>>

cmd_c  == cpu_exec(Forever)
cmd_si == ~is_batch_mode /\ \E k \in Step : cpu_exec(k)

cmd_w == /\ AtPrompt /\ ~is_batch_mode
         /\ \E e \in Expr : Add(e)
         /\ UNCHANGED monitorVars

cmd_d == /\ AtPrompt /\ ~is_batch_mode
         /\ \E no \in Node : Remove(no)
         /\ UNCHANGED monitorVars

cmd_q ==
  /\ AtPrompt /\ ~is_batch_mode
  /\ state' = "END" /\ phase' = "left"
  /\ UNCHANGED <<vars, halt_ret, is_skip_ref, n, outcome, is_batch_mode, old>>

EndOfInput ==
  /\ AtPrompt /\ ~is_batch_mode /\ phase' = "left"
  /\ UNCHANGED <<vars, nemu, is_batch_mode, old>>

(* The loops behind w, d and scan_wp().                                    *)
WatchLoop == Loop /\ UNCHANGED monitorVars

----------------------------------------------------------------------------
(* An instruction: one that is skipped by the reference machine because it *)
(* touches a device, or an ordinary one; ebreak, with the program's result *)
(* in a0; or an invalid one.                                               *)
Mut_set_nemu_state(s, r) ==     \* mutant: without difftest_skip_ref()
  state' = s /\ halt_ret' = r /\ UNCHANGED is_skip_ref

set_nemu_state(s, r) ==
  state' = s /\ halt_ret' = r /\ is_skip_ref' = TRUE

exec_once ==
  /\ phase = "fetch" /\ phase' = "difftest"
  /\ Execute
  /\ \/ is_skip_ref' \in {is_skip_ref, TRUE} /\ UNCHANGED <<state, halt_ret, outcome>>
     \/ set_nemu_state("END", 0) /\ outcome' = "good"
     \/ set_nemu_state("END", 1) /\ outcome' = "bad"
     \/ set_nemu_state("ABORT", -1) /\ outcome' = "bad"
  /\ UNCHANGED <<n, is_batch_mode, old>>

(* difftest_step(): a difference aborts, without a halt_ret.  scan_wp()    *)
(* begins.                                                                 *)
difftest_step ==
  /\ phase = "difftest" /\ phase' = "scan"
  /\ is_skip_ref' = FALSE
  /\ \/ UNCHANGED <<state, outcome>>
     \/ ~is_skip_ref /\ state' = "ABORT" /\ outcome' = "bad"
  /\ Scan /\ old' = val
  /\ UNCHANGED <<halt_ret, n, is_batch_mode>>

(* The end of trace_and_difftest(), and whether execute() goes on.         *)
Mut_AfterScan == IF changed /\ n # Forever /\ state = "RUNNING" THEN "STOP" ELSE state
                        \* mutant: only si looks at the result
AfterScan     == IF changed /\ state = "RUNNING" THEN "STOP" ELSE state

Mut_GoesOn(s) == s \in {"RUNNING", "QUIT"}
                        \* mutant: closing the window does not end the loop
GoesOn(s)     == s = "RUNNING"

Break ==
  /\ phase = "scan" /\ pc = "ready"
  /\ state' = AfterScan
  /\ phase' = IF GoesOn(AfterScan) THEN "device" ELSE Back
  /\ UNCHANGED <<vars, halt_ret, is_skip_ref, n, outcome, is_batch_mode, old>>

(* device_update() sees the window closed, or not; an interrupt may change *)
(* the pc and so a value.  When the steps are used up cpu_exec() returns.  *)
Device ==
  /\ phase = "device"
  /\ Execute
  /\ n' = IF n = Forever THEN n ELSE n - 1
  /\ \E s \in {"RUNNING", "QUIT"} :
       IF n' = 0 THEN phase' = Back /\ state' = IF s = "RUNNING" THEN "STOP" ELSE s
                 ELSE phase' = "fetch" /\ state' = s
  /\ UNCHANGED <<halt_ret, is_skip_ref, outcome, is_batch_mode, old>>

Left == phase = "left" /\ UNCHANGED allVars

Run == WatchLoop \/ exec_once \/ difftest_step \/ Break \/ Device

Command == cmd_c \/ cmd_si \/ cmd_w \/ cmd_d \/ cmd_q \/ EndOfInput

MonitorNext == Command \/ Run \/ Left

MonitorSpec     == MonitorInit /\ [][MonitorNext]_allVars
MonitorFairSpec == MonitorSpec /\ WF_allVars(Run)
                                \* the thread never waits but at the prompt

(* What main() returns.                                                    *)
Mut_is_exit_status_bad == ~(state = "END" /\ halt_ret = 0)
                        \* mutant: a closed window counts as failure
is_exit_status_bad == ~((state = "END" /\ halt_ret = 0) \/ state = "QUIT")

----------------------------------------------------------------------------
(* Every variable holds a value of its kind.                               *)
MonitorTypeOK ==
  /\ TypeOK
  /\ state \in {"RUNNING", "STOP", "END", "ABORT", "QUIT"}
  /\ halt_ret \in {-1, 0, 1}
  /\ is_skip_ref \in BOOLEAN /\ is_batch_mode \in BOOLEAN
  /\ n \in Nat \cup {Forever}
  /\ phase \in {"prompt", "fetch", "difftest", "scan", "device", "left"}
  /\ outcome \in {"none", "good", "bad"}
  /\ old \in [Node -> Val \cup {Null}]

(* "Program execution has ended": a program that has ended, well, badly or *)
(* by an abort, is never executed any further, and nothing turns one       *)
(* verdict into another (cpu-exec.c:128-131, hostcall.c:21-26,             *)
(* dut.c:121-127).                                                         *)
StaysEnded == [][outcome # "none" => UNCHANGED <<outcome, value>>]_allVars

(* The program runs on to its next instruction only if no watched value    *)
(* differs from the one the debugger knew (cpu-exec.c:49-56).              *)
NothingMissed ==
  phase = "device" => \A i \in used : value[expr[i]] = old[i]

(* Execution that comes back to the prompt before its steps are used up,   *)
(* with a program that can go on, has something to show: the scan found a  *)
(* watched value changed (cpu-exec.c:49-56, watchpoint.c:182-198).         *)
StopsForAReason ==
  [][phase # "prompt" /\ phase' = "prompt" /\ state' = "STOP" =>
       n' = 0 \/ \E i \in used : val[i] # old[i]]_allVars

(* In batch mode the exit status tells how the program ended, and is good  *)
(* also when the window was closed before it ended (state.c:20-24).        *)
BatchVerdict ==
  phase = "left" /\ is_batch_mode => (is_exit_status_bad <=> outcome = "bad")

(* The exit status of an aborted or badly ended program is bad, however    *)
(* the user leaves the debugger (state.c:20-24).                           *)
BadIsBad == phase = "left" /\ outcome = "bad" => is_exit_status_bad

(* si comes back after its steps, and closing the window ends c, whatever  *)
(* the program does (cpu-exec.c:93-107).                                   *)
ComesBack ==
  phase = "fetch" /\ (n # Forever \/ state = "QUIT") ~> phase \in {"prompt", "left"}
=============================================================================
