--------------------------- MODULE MonitorProofs ---------------------------
(***************************************************************************)
(* Proofs about Monitor, for a pool of any size and any number of steps.   *)
(* Every step of the monitor is one of Watchpoints or leaves it alone, so  *)
(* the invariant of the lists and loops (IInv) holds here too, and what    *)
(* the monitor adds is proved on top of it.                                *)
(***************************************************************************)
EXTENDS Monitor, WatchpointsProofs

(* Where the thread may be while a loop of Watchpoints runs.               *)
Control ==
  /\ phase \in {"fetch", "difftest", "device", "left"} => pc = "ready"
  /\ phase = "scan" => pc \in {"ready", "scan"}
  /\ phase = "prompt" => pc # "scan"

(* What nemu_state says of a program that has ended and of one that has    *)
(* not; the command q overwrites it.                                       *)
Verdict ==
  \/ phase = "left" /\ ~is_batch_mode
  \/ outcome = "none" /\ state \in {"RUNNING", "STOP", "QUIT"}
  \/ outcome = "good" /\ state = "END" /\ halt_ret = 0
  \/ outcome = "bad" /\ (state = "ABORT" \/ (state = "END" /\ halt_ret = 1))

(* An ended program is not run, and the reference machine has skipped the  *)
(* instruction that ended it.                                              *)
Progress ==
  /\ phase \in {"fetch", "device"} => outcome = "none"
  /\ phase \in {"fetch", "difftest", "scan", "device"} => state # "STOP" /\ n # 0
  /\ phase = "difftest" /\ outcome # "none" => is_skip_ref

(* Without commands there are no watchpoints, and c runs without a bound.  *)
Batch ==
  is_batch_mode =>
    /\ used = {} /\ pc \in {"ready", "scan"}
    /\ phase = "prompt" => state = "STOP"
    /\ phase \in {"fetch", "difftest", "scan", "device"} => n = Forever
    /\ phase = "left" => state \notin {"RUNNING", "STOP"}

(* A scan has not touched the nodes from curr on, and has found a change   *)
(* if and only if a node has another value than before it.                 *)
Scanned ==
  phase = "scan" =>
    /\ changed <=> \E i \in used : val[i] # old[i]
    /\ pc = "scan" => \A i \in used : cur # Null /\ cur <= i => val[i] = old[i]
    /\ pc = "ready" => \A i \in used : val[i] = value[expr[i]]

MonitorInv ==
  MonitorTypeOK /\ Control /\ Verdict /\ Progress /\ Batch /\ Scanned /\ NothingMissed

----------------------------------------------------------------------------
LEMMA MonitorCalls == [MonitorNext]_allVars => [Next]_vars
<1>1. ASSUME MonitorNext PROVE Next \/ UNCHANGED vars
  BY <1>1 DEF MonitorNext, Command, cmd_c, cmd_si, cpu_exec, cmd_w, cmd_d, cmd_q, EndOfInput,
              Run, WatchLoop, exec_once, difftest_step, Break, Device, Left, allVars, Next
<1> QED BY <1>1 DEF allVars

(* The debugger's use of its watchpoints is one that Watchpoints allows:   *)
(* what is proved of the pool and of its loops holds in the monitor.       *)
THEOREM MonitorImplements == MonitorSpec => Spec
<1>1. MonitorInit => Init
  BY DEF MonitorInit
<1> QED BY <1>1, MonitorCalls, PTL DEF MonitorSpec, Spec

LEMMA MonitorStart == MonitorInit => MonitorInv
<1> SUFFICES ASSUME MonitorInit PROVE MonitorInv
  OBVIOUS
<1>1. TypeOK
  BY InitInv DEF MonitorInit, IInv
<1>2. MonitorTypeOK
  BY <1>1 DEF MonitorInit, MonitorTypeOK, TypeOK
<1> QED BY <1>2 DEF MonitorInit, Init, MonitorInv, Control, Verdict, Progress, Batch, Scanned, NothingMissed

LEMMA PromptStep ==
  ASSUME IInv, TypeOK', MonitorInv, Command
  PROVE  MonitorInv'
<1> USE DEF MonitorInv, MonitorTypeOK, Control, Verdict, Progress, Batch, Scanned, NothingMissed
<1>1. ASSUME NEW k \in Nat \cup {Forever}, cpu_exec(k), is_batch_mode => k = Forever
      PROVE  MonitorInv'
  BY <1>1, MonitorAssumption DEF cpu_exec, AtPrompt, Back, Started, vars, lists, data
<1>2. cmd_c \/ cmd_si => MonitorInv'
  BY <1>1, MonitorAssumption DEF cmd_c, cmd_si
<1>3. ASSUME cmd_w \/ cmd_d PROVE MonitorInv'
  <2>1. pc' # "scan" /\ ~is_batch_mode /\ phase = "prompt" /\ UNCHANGED monitorVars
    BY <1>3 DEF cmd_w, cmd_d, AtPrompt, Add, Remove, Watched
  <2> QED BY <2>1 DEF monitorVars, nemu
<1>4. cmd_q \/ EndOfInput => MonitorInv'
  BY DEF cmd_q, EndOfInput, AtPrompt, vars, lists, data, nemu
<1> QED BY <1>2, <1>3, <1>4 DEF Command

(* A round of scan_wp() compares the node at curr, whose value is the one  *)
(* it had before the scan.                                                 *)
LEMMA ScanRound ==
  ASSUME IInv, MonitorInv, phase = "scan", ScanNext, UNCHANGED monitorVars
  PROVE  Scanned'
<1> USE DEF MonitorInv, MonitorTypeOK, Scanned, monitorVars
<1>0. /\ \A i \in Node : i \in Int
      /\ Null \notin Node /\ used \subseteq Node /\ cur \in used \cup {Null}
      /\ pc = "scan" /\ UNCHANGED <<used, expr, value, old, phase>>
      /\ val \in [Node -> Val \cup {Null}]
  BY NodesAreIntegers DEF IInv, TypeOK, Loops, ScanNext, data
<1>1. CASE cur = Null
  <2>1. UNCHANGED <<val, changed, cur>> /\ pc' = "ready"
    BY <1>1 DEF ScanNext, data
  <2>2. \A i \in used : val[i] = value[expr[i]]
    BY <1>0, <1>1 DEF IInv, Fresh
  <2> QED BY <1>0, <2>1, <2>2
<1>2. CASE cur # Null
  <2>1. /\ changed' = (changed \/ value[expr[cur]] # val[cur])
        /\ val' = [val EXCEPT ![cur] = value[expr[cur]]]
        /\ cur' = next[cur] /\ pc' = "scan"
    BY <1>0, <1>2 DEF ScanNext, Compare
  <2>2. cur \in used /\ val[cur] = old[cur]
    BY <1>0, <1>2
  <2>3. val'[cur] = value[expr[cur]] /\ \A i \in used \ {cur} : val'[i] = val[i]
    BY <1>0, <2>1, <2>2
  <2>4. changed' <=> \E i \in used : val'[i] # old[i]
    BY <1>0, <2>1, <2>2, <2>3 DEF TypeOK
  <2>5. ASSUME NEW i \in used, next[cur] # Null, next[cur] <= i
        PROVE  val'[i] = old[i]
    <3>1. next[cur] \in used /\ cur < next[cur]
      BY <2>2, <2>5, NextNode DEF IInv, TypeOK, Pointer
    <3>2. i # cur /\ cur <= i
      BY <1>0, <2>2, <2>5, <3>1
    <3> QED BY <1>0, <1>2, <2>3, <3>2
  <2> QED BY <1>0, <2>1, <2>4, <2>5
<1> QED BY <1>1, <1>2

LEMMA RunStep ==
  ASSUME IInv, TypeOK', MonitorInv, Run
  PROVE  MonitorInv'
<1> USE DEF MonitorInv, MonitorTypeOK, Control, Verdict, Progress, Batch, Scanned, NothingMissed
<1>1. ASSUME WatchLoop PROVE MonitorInv'
  <2>0. UNCHANGED monitorVars
    BY <1>1 DEF WatchLoop
  <2>1. CASE phase = "scan"
    <3>1. ScanNext
      BY <1>1, <2>1 DEF WatchLoop, Loop, Insert, Find, Unlink, Free
    <3>2. Scanned'
      BY <2>0, <2>1, <3>1, ScanRound
    <3>3. pc' \in {"ready", "scan"} /\ used' = used
      BY <3>1 DEF ScanNext
    <3> HIDE DEF Scanned
    <3> QED BY <2>0, <2>1, <3>2, <3>3 DEF monitorVars, nemu
  <2>2. CASE phase # "scan"
    <3>1. phase = "prompt" /\ pc \notin {"ready", "scan"} /\ pc' # "scan" /\ ~is_batch_mode
      BY <1>1, <2>2 DEF WatchLoop, Loop, Insert, Find, Unlink, Free, ScanNext, Watched, Pass,
                        Release
    <3> QED BY <2>0, <3>1 DEF monitorVars, nemu
  <2> QED BY <2>1, <2>2
<1>2. ASSUME exec_once PROVE MonitorInv'
  BY <1>2 DEF exec_once, Execute, set_nemu_state, data
<1>3. ASSUME difftest_step PROVE MonitorInv'
  <2>1. Scanned'
    BY <1>3 DEF difftest_step, Scan, data
  <2> HIDE DEF Scanned
  <2> QED BY <1>3, <2>1 DEF difftest_step, Scan, data, IInv, TypeOK
<1>4. ASSUME Break PROVE MonitorInv'
  BY <1>4 DEF Break, AfterScan, GoesOn, Back, vars, data
<1>5. ASSUME Device PROVE MonitorInv'
  BY <1>5, MonitorAssumption DEF Device, Execute, Back, data
<1> QED BY <1>1, <1>2, <1>3, <1>4, <1>5 DEF Run

LEMMA MonitorStep == IInv /\ IInv' /\ MonitorInv /\ [MonitorNext]_allVars => MonitorInv'
<1> SUFFICES ASSUME IInv, TypeOK', MonitorInv, [MonitorNext]_allVars PROVE MonitorInv'
  BY DEF IInv
<1>1. ASSUME UNCHANGED allVars PROVE MonitorInv'
  BY <1>1 DEF MonitorInv, MonitorTypeOK, Control, Verdict, Progress, Batch, Scanned,
              NothingMissed, allVars, vars, lists, data, monitorVars, nemu
<1> QED BY <1>1, PromptStep, RunStep DEF MonitorNext, Left

LEMMA PoolInvariance == MonitorSpec => []IInv
  BY MonitorImplements, Invariance, PTL

LEMMA MonitorInvariance == MonitorSpec => []MonitorInv
  BY MonitorStart, MonitorStep, PoolInvariance, PTL DEF MonitorSpec

(* Every variable holds a value of its kind.                               *)
THEOREM MonitorTypes == MonitorSpec => []MonitorTypeOK
  BY MonitorInvariance, PTL DEF MonitorInv

(* The program goes on only if no watched value has changed.               *)
THEOREM NothingMissedCorrect == MonitorSpec => []NothingMissed
  BY MonitorInvariance, PTL DEF MonitorInv

(* In batch mode the exit status is bad if and only if the program ended   *)
(* badly.                                                                  *)
THEOREM BatchVerdictCorrect == MonitorSpec => []BatchVerdict
<1>1. MonitorInv => BatchVerdict
  BY DEF MonitorInv, Verdict, Batch, BatchVerdict, is_exit_status_bad
<1> QED BY <1>1, MonitorInvariance, PTL

(* A program that has ended is never run again, nor is its end changed.    *)
THEOREM StaysEndedCorrect == MonitorSpec => StaysEnded
<1>1. ASSUME MonitorInv, [MonitorNext]_allVars
      PROVE  [outcome # "none" => UNCHANGED <<outcome, value>>]_allVars
  <2> SUFFICES ASSUME outcome # "none", MonitorNext PROVE UNCHANGED <<outcome, value>>
    BY <1>1
  <2>1. phase \notin {"fetch", "device"} /\ (phase = "difftest" => is_skip_ref)
    BY <1>1 DEF MonitorInv, Progress
  <2>2. Command => UNCHANGED <<outcome, value>>
    BY DEF Command, cmd_c, cmd_si, cpu_exec, cmd_w, cmd_d, cmd_q, EndOfInput, Add, Remove,
           vars, monitorVars, nemu
  <2>3. Loop => UNCHANGED value
    BY DEF Loop, Insert, Find, Unlink, Free, ScanNext, Pass, Release
  <2>4. Run \/ Left => UNCHANGED <<outcome, value>>
    BY <2>1, <2>3 DEF Run, WatchLoop, exec_once, difftest_step, Scan, Break, Device, Left,
                      allVars, vars, monitorVars, nemu
  <2> QED BY <2>2, <2>4 DEF MonitorNext
<1> QED BY <1>1, MonitorInvariance, PTL DEF MonitorSpec, StaysEnded

(* Coming back to the prompt early has a changed value as its reason.      *)
THEOREM StopsForAReasonCorrect == MonitorSpec => StopsForAReason
<1>1. ASSUME MonitorInv, [MonitorNext]_allVars
      PROVE  [phase # "prompt" /\ phase' = "prompt" /\ state' = "STOP" =>
                n' = 0 \/ \E i \in used : val[i] # old[i]]_allVars
  <2> SUFFICES ASSUME phase # "prompt", phase' = "prompt", state' = "STOP", MonitorNext
               PROVE  n' = 0 \/ \E i \in used : val[i] # old[i]
    BY <1>1
  <2>1. Break \/ Device
    BY DEF MonitorNext, Command, cmd_c, cmd_si, cpu_exec, cmd_w, cmd_d, cmd_q, EndOfInput,
           AtPrompt, Run, WatchLoop, exec_once, difftest_step, Left, allVars, monitorVars
  <2>2. CASE Break
    BY <1>1, <2>2 DEF Break, AfterScan, MonitorInv, Progress, Scanned
  <2>3. CASE Device
    BY <2>3 DEF Device
  <2> QED BY <2>1, <2>2, <2>3
<1> QED BY <1>1, MonitorInvariance, PTL DEF MonitorSpec, StopsForAReason
=============================================================================
