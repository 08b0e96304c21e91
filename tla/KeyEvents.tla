------------------------------ MODULE KeyEvents ------------------------------
(***************************************************************************)
(* The keyboard, from the user's keys to the programs.                     *)
(*                                                                         *)
(* NEMU collects the events of the host's window every now and then        *)
(* (device.c) and puts those of known keys into a ring (keyboard.c) behind *)
(* a register of the i8042.  The register has two readers in nanos-lite:   *)
(* read("/dev/events") of the programs, and schedule(), which looks for    *)
(* the function keys that choose the foreground program.  libminiSDL keeps *)
(* the state of every key in the program (event.c).                        *)
(*                                                                         *)
(* The rounds of device_update(), the CPU, the user and the debugger's     *)
(* user are what interleaves: nanos-lite is not interrupted, so that a     *)
(* read and a call of schedule() are one step each.  When schedule() polls *)
(* and when it runs pcb[0] is left open: NanosKernel has its counter.      *)
(***************************************************************************)
EXTENDS Naturals, Sequences, FiniteSets, SequencesExt

CONSTANTS
  KEY_QUEUE_LEN,
  Key,            \* the keys of the user's keyboard
  Mapped,         \* those that keymap[] knows
  Repeating,      \* those the host repeats while they are held
  Foreground,     \* which program a function key chooses, by key
  Modifier,       \* the keys that change the meaning of the others
  Program,        \* the processes that read events; pcb[0] reads none
  Scheduler,      \* schedule(), the other reader
  NONE,           \* AM_KEY_NONE
  Window,         \* the event of the window being closed, SDL_QUIT
  MaxEvents       \* bound: events the user makes

Event == [key : Key, down : BOOLEAN]

ASSUME KeyAssumption ==
  /\ KEY_QUEUE_LEN \in Nat /\ KEY_QUEUE_LEN > 1
  /\ Mapped \subseteq Key /\ Modifier \subseteq Key /\ IsFiniteSet(Modifier)
  /\ Repeating \subseteq Key \ Modifier
  /\ 0 \notin Program /\ 1 \in Program
  /\ DOMAIN Foreground \subseteq Mapped
  /\ \A k \in DOMAIN Foreground : Foreground[k] \in Program
  /\ MaxEvents \in Nat
  /\ NONE \notin Event \cup {Window} /\ Window \notin Event
  /\ Scheduler # NONE /\ {Scheduler, NONE} \cap Program = {}

VARIABLES
  held, host,                 \* the keys held down, SDL's queue of events
  nemu_state,
  key_queue, key_f, key_r,
  ev_buf, fg_pcb, current,    \* of proc.c
  msg,                        \* what a program's read returned, until used
  keystat,                    \* of libminiSDL, in each program
  made,                       \* how many events there were
  fate,                       \* history: who read the last event of a key
  dropped,                    \* history: keys whose last event nobody will read
  missed                      \* history: programs that missed an event

hostVars   == <<held, host, made>>
ring       == <<key_queue, key_f, key_r>>
kernel     == <<ev_buf, fg_pcb, current>>
appVars    == <<msg, keystat>>
keyHistory == <<fate, dropped, missed>>
keyVars    == <<hostVars, nemu_state, ring, kernel, appVars, keyHistory>>

KeyInit ==
  /\ held = {} /\ host = <<>> /\ made = 0
  /\ nemu_state = "RUNNING"
  /\ key_queue = [i \in 0 .. KEY_QUEUE_LEN - 1 |-> NONE]
  /\ key_f = 0 /\ key_r = 0
  /\ ev_buf = NONE /\ fg_pcb = 1 /\ current = 0
  /\ msg = [p \in Program |-> NONE]
  /\ keystat = [p \in Program |-> [k \in Key |-> FALSE]]
  /\ fate = [k \in Key |-> NONE] /\ dropped = {} /\ missed = {}

----------------------------------------------------------------------------
(* The user, and SDL on the host.                                          *)
Post(e) ==
  /\ nemu_state = "RUNNING"
  /\ made < MaxEvents /\ made' = made + 1
  /\ host' = Append(host, e)
  /\ dropped' = IF e = Window THEN dropped ELSE dropped \ {e.key}
  /\ UNCHANGED <<nemu_state, ring, kernel, appVars, fate, missed>>

Press(k) ==
  /\ k \notin held \/ k \in Repeating
  /\ held' = held \cup {k} /\ Post([key |-> k, down |-> TRUE])

Release(k) ==
  /\ k \in held
  /\ held' = held \ {k} /\ Post([key |-> k, down |-> FALSE])

CloseWindow == UNCHANGED held /\ Post(Window)

----------------------------------------------------------------------------
(* The ring.  One slot stays free.                                         *)
Succ(i) == (i + 1) % KEY_QUEUE_LEN

Mut_key_enqueue(e) ==   \* mutant: the test is on the old index
  /\ key_queue' = [key_queue EXCEPT ![key_r] = e]
  /\ key_r' = Succ(key_r)
  /\ nemu_state' = IF Succ(key_r') = key_f THEN "ABORT" ELSE nemu_state
  /\ UNCHANGED key_f

key_enqueue(e) ==
  /\ key_queue' = [key_queue EXCEPT ![key_r] = e]
  /\ key_r' = Succ(key_r)
  /\ nemu_state' = IF key_r' = key_f THEN "ABORT" ELSE nemu_state
  /\ UNCHANGED key_f

key_dequeue ==
  IF key_f = key_r THEN NONE ELSE key_queue[key_f]

Dequeued ==
  /\ key_f' = IF key_f = key_r THEN key_f ELSE Succ(key_f)
  /\ UNCHANGED <<key_queue, key_r>>

(* An event that no program will see.                                      *)
Dropped(e) ==
  IF e = Window THEN UNCHANGED keyHistory
  ELSE /\ dropped' = dropped \cup {e.key}
       /\ missed' = IF e.key \in Mapped THEN Program ELSE missed
       /\ UNCHANGED fate

send_key(e) ==
  IF nemu_state = "RUNNING" /\ e.key \in Mapped
    THEN key_enqueue(e) /\ UNCHANGED keyHistory
    ELSE Dropped(e) /\ UNCHANGED <<nemu_state, ring>>

(* device_update(): a round of its loop over the events of the host, which *)
(* come when they like, so that the guest may go on after any of them.     *)
device_update ==
  /\ nemu_state \in {"RUNNING", "QUIT"} /\ host # <<>>
  /\ host' = Tail(host)
  /\ IF Head(host) = Window
       THEN nemu_state' = "QUIT" /\ UNCHANGED <<ring, keyHistory>>
       ELSE send_key(Head(host))
  /\ UNCHANGED <<held, made, kernel, appVars>>

(* The debugger's prompt: every command throws away what the host has      *)
(* collected, the one that goes on included.  The machine may also have    *)
(* come to it because the window was closed.                               *)
sdb_mainloop ==
  /\ (nemu_state = "RUNNING" /\ host # <<>>) \/ nemu_state = "QUIT"
  /\ nemu_state' = "RUNNING"
  /\ host' = <<>>
  /\ dropped' = dropped \cup {e.key : e \in Range(host) \ {Window}}
  /\ missed' = IF host = <<>> THEN missed ELSE Program
  /\ UNCHANGED <<held, made, ring, kernel, appVars, fate>>

----------------------------------------------------------------------------
(* nanos-lite: schedule() reads an event in one call of ten, and keeps the *)
(* text of the last one it read.  first is the background turn.            *)
Guest == nemu_state = "RUNNING"

FunctionDown(e) == e # NONE /\ e.down /\ e.key \in DOMAIN Foreground

events_read(old) == IF key_dequeue = NONE THEN old ELSE key_dequeue

PolledBySchedule ==
  LET e == key_dequeue IN
  IF e = NONE THEN UNCHANGED keyHistory
  ELSE /\ fate' = [fate EXCEPT ![e.key] = Scheduler]
       /\ missed' = IF e.key \in DOMAIN Foreground THEN missed ELSE Program
       /\ UNCHANGED dropped

Mut_schedule(poll, first) ==    \* mutant: polls in the background turn only
  /\ Guest
  /\ IF poll /\ first
       THEN ev_buf' = events_read(ev_buf) /\ Dequeued /\ PolledBySchedule
       ELSE UNCHANGED <<ev_buf, ring, keyHistory>>
  /\ fg_pcb' = IF FunctionDown(ev_buf') THEN Foreground[ev_buf'.key] ELSE fg_pcb
  /\ current' = IF first THEN 0 ELSE fg_pcb'
  /\ UNCHANGED <<hostVars, nemu_state, appVars>>

schedule(poll, first) ==
  /\ Guest
  /\ IF poll THEN ev_buf' = events_read(ev_buf) /\ Dequeued /\ PolledBySchedule
             ELSE UNCHANGED <<ev_buf, ring, keyHistory>>
  /\ fg_pcb' = IF FunctionDown(ev_buf') THEN Foreground[ev_buf'.key] ELSE fg_pcb
  /\ current' = IF first THEN 0 ELSE fg_pcb'
  /\ UNCHANGED <<hostVars, nemu_state, appVars>>

(* NDL_PollEvent(): a program reads /dev/events.  A function key that goes *)
(* to a program chooses nobody; a modifier key that goes to one program is *)
(* missed by the others.                                                   *)
Runs(p) == Guest /\ current = p

NDL_PollEvent(p) ==
  LET e == key_dequeue IN
  /\ Runs(p) /\ e # NONE
  /\ msg' = [msg EXCEPT ![p] = e]
  /\ Dequeued
  /\ fate' = [fate EXCEPT ![e.key] = p]
  /\ missed' = IF FunctionDown(e) THEN Program
               ELSE IF e.key \in Modifier THEN missed \cup (Program \ {p})
               ELSE missed
  /\ UNCHANGED <<hostVars, nemu_state, kernel, keystat, dropped>>

(* SDL_PollEvent(), SDL_WaitEvent() and SDL_GetKeyState() have the event   *)
(* and note the state of its key.                                          *)
Mut_KeyState(p) ==      \* mutant: a release is not noted
  keystat' = [keystat EXCEPT ![p][msg[p].key] = @ \/ msg[p].down]

KeyState(p) == keystat' = [keystat EXCEPT ![p][msg[p].key] = msg[p].down]

UseEvent(p) ==
  /\ Runs(p) /\ msg[p] # NONE
  /\ msg' = [msg EXCEPT ![p] = NONE]
  /\ KeyState(p)
  /\ UNCHANGED <<hostVars, ring, kernel, fate, dropped>>

(* The program of process p is replaced by a fresh one.                    *)
FreshProgram(p) ==
  /\ keystat' = [keystat EXCEPT ![p] = [k \in Key |-> FALSE]]
  /\ fate' = [k \in Key |-> IF fate[k] = p THEN NONE ELSE fate[k]]
  /\ UNCHANGED dropped

----------------------------------------------------------------------------
(* Every variable holds a value of its kind.                               *)
KeyTypeOK ==
  /\ held \subseteq Key /\ made \in 0 .. MaxEvents
  /\ host \in Seq(Event \cup {Window})
  /\ nemu_state \in {"RUNNING", "QUIT", "END", "ABORT", "PANIC"}
  /\ key_queue \in [0 .. KEY_QUEUE_LEN - 1 -> Event \cup {NONE}]
  /\ key_f \in DOMAIN key_queue /\ key_r \in DOMAIN key_queue
  /\ ev_buf \in Event \cup {NONE} /\ fg_pcb \in Program
  /\ current \in Program \cup {0}
  /\ msg \in [Program -> Event \cup {NONE}]
  /\ keystat \in [Program -> [Key -> BOOLEAN]]
  /\ fate \in [Key -> Program \cup {Scheduler, NONE}]
  /\ dropped \subseteq Key /\ missed \subseteq Program

(* The events that wait in the ring.                                       *)
Waiting ==
  [i \in 1 .. (key_r + KEY_QUEUE_LEN - key_f) % KEY_QUEUE_LEN |->
     key_queue[(key_f + i - 1) % KEY_QUEUE_LEN]]

(* What the program believes that got the last event of a key is true,     *)
(* unless an event of that key is on its way: no event is overtaken,       *)
(* doubled, or lost in the ring (keyboard.c:52-72, event.c:20-40).  A key  *)
(* may stick in a program that did not get its last event, which the two   *)
(* readers of the register make possible (proc.c:150), and nothing is said *)
(* of a key whose last event never reached the ring (dropped: thrown away  *)
(* at the debugger's prompt, sdb.c:243, or by send_key(), keyboard.c:68)   *)
(* until the key is moved again.                                           *)
KeyStateTrue ==
  nemu_state # "ABORT" =>
    \A k \in Key : \A p \in Program :
      /\ fate[k] = p /\ k \notin dropped
      /\ \A e \in Range(host) \cup Range(Waiting) \cup {msg[p]} :
           e \in Event => e.key # k
      => keystat[p][k] = (k \in held)

(* The queue that ring, register and readers are.                          *)
Readers == Program \cup {Scheduler}

Queue == INSTANCE KeyQueue WITH
  Reader   <- Readers,
  Nothing  <- NONE,
  Capacity <- KEY_QUEUE_LEN - 1,
  q        <- Waiting,
  got      <- [r \in Readers |-> IF r = Scheduler THEN ev_buf ELSE msg[r]],
  up       <- nemu_state # "ABORT"
=============================================================================
