-------------------------------- MODULE Nterm --------------------------------
(***************************************************************************)
(* nterm: from the user's keys to the line and the screen.                 *)
(*                                                                         *)
(* The terminals and the other programs on the keyboard of KeyEvents.  The *)
(* built-in shell of nterm (builtin-sh.cpp) loops: read an event, give its *)
(* character to the terminal, run the command if the line is complete,     *)
(* draw (main.cpp).  A command whose program exists replaces nterm in its  *)
(* process until that program exits; a program that is not nterm reads     *)
(* events when it likes.                                                   *)
(***************************************************************************)
EXTENDS KeyEvents, Terminal

CONSTANTS
  Term,           \* the processes that start with nterm
  Return, Erase,  \* the keys RETURN and BACKSPACE
  Printing,       \* the other keys of the table SHIFT[]
  Blank,          \* those that separate words, the key SPACE
  Cursor,         \* what a cell shows that has the cursor
  Banner, Prompt, \* what the shell writes first, and before every line
  MaxCommand      \* sh_handle_cmd() asserts that a command is no longer

(* A prompt and its line fit above the last line of the screen, so that    *)
(* what is erased is still there (4 and 255 characters in 15 lines of 48). *)
(* The keys of the table SHIFT[] and the shift keys are known to NEMU, and *)
(* none of them is a function key.                                         *)
ASSUME NtermAssumption ==
  /\ Term \subseteq Program
  /\ Return \notin Printing /\ Erase \notin Printing /\ Return # Erase
  /\ Nul # NewLine /\ Nul # Backspace /\ NewLine # Backspace
  /\ {Nul, NewLine, Backspace} \cap (Printing \X {0, 1}) = {}
  /\ Printing \cup {Return, Erase} \cup Modifier \subseteq Mapped \ DOMAIN Foreground
  /\ Modifier \cap (Printing \cup {Return, Erase}) = {}
  /\ Blank \subseteq Printing
  /\ MaxCommand \in Nat
  /\ Banner \in Seq(Range(Banner)) /\ Prompt \in Seq(Range(Prompt) \ {NewLine})
  /\ Len(Prompt) + InputSize - 1 <= W * (H - 1)

VARIABLES
  app,            \* what a process runs: "nterm" or "other"
  pc,             \* the place in the loop of the shell
  term, shift,    \* of nterm
  shown,          \* what nterm has drawn
  chosen,         \* history: the program the user has chosen last
  meant,          \* history: the line the user has typed into each
  both            \* history: where some of it was typed with two shift keys

ntermVars == <<app, pc, term, shift, shown>>
userVars  == <<chosen, meant, both>>
allVars   == <<keyVars, ntermVars, userVars>>

Started == write(write(Terminal, Banner), Prompt)

NtermInit ==
  /\ KeyInit
  /\ app = [p \in Program |-> IF p \in Term THEN "nterm" ELSE "other"]
  /\ pc = [p \in Term |-> "poll"]
  /\ term = [p \in Term |-> Started] /\ shift = [p \in Term |-> 0]
  /\ shown = [p \in Term |-> [c \in Cell |-> EMPTY]]
  /\ chosen = 1 /\ meant = [p \in Term |-> <<>>] /\ both = {}

----------------------------------------------------------------------------
(* The character of a key, and the line a key makes of a line, as the user *)
(* means it.                                                               *)
Char(k, s) ==
  CASE k = Return -> NewLine
    [] k = Erase -> Backspace
    [] k \in Printing -> <<k, s>>
    [] OTHER -> Nul

Edited(line, ch) ==
  CASE ch = Nul -> line
    [] ch = NewLine -> <<>>
    [] ch = Backspace -> IF line = <<>> THEN line ELSE Front(line)
    [] OTHER -> IF Len(line) < InputSize - 1 THEN Append(line, ch) ELSE line

ShiftHeld  == IF held \cap Modifier = {} THEN 0 ELSE 1
TwoShifted == \E j, k \in held \cap Modifier : j # k

Type(k) ==
  /\ Press(k)
  /\ chosen' = IF k \in DOMAIN Foreground THEN Foreground[k] ELSE chosen
  /\ meant' = IF chosen \in Term
                THEN [meant EXCEPT ![chosen] = Edited(@, Char(k, ShiftHeld))]
                ELSE meant
  /\ both' = IF chosen \notin Term THEN both
             ELSE IF k = Return THEN both \ {chosen}
             ELSE IF k \in Printing /\ TwoShifted THEN both \cup {chosen}
             ELSE both
  /\ UNCHANGED ntermVars

(* Everything else outside the programs.                                   *)
Outside ==
  /\ \/ \E k \in Key : Release(k)
     \/ CloseWindow
     \/ device_update \/ sdb_mainloop
     \/ \E first \in BOOLEAN : schedule(FALSE, first)
  /\ UNCHANGED <<ntermVars, userVars>>

PollingCall ==
  /\ \E first \in BOOLEAN : schedule(TRUE, first)
  /\ UNCHANGED <<ntermVars, userVars>>

----------------------------------------------------------------------------
(* nterm.  A character for the terminal.                                   *)
Mut_Shifted(p) ==               \* mutant: only a key that goes down counts
  shift' = [shift EXCEPT ![p] = IF msg[p].key \in Modifier /\ msg[p].down
                                  THEN 1 - @ ELSE @]
Shifted(p) ==
  shift' = [shift EXCEPT ![p] = IF msg[p].key \in Modifier THEN 1 - @ ELSE @]

handle_key(p) == IF msg[p].down /\ msg[p].key \notin Modifier
                   THEN Char(msg[p].key, shift[p]) ELSE Nul

Poll(p) ==
  /\ app[p] = "nterm" /\ pc[p] = "poll"
  /\ \/ NDL_PollEvent(p) /\ pc' = [pc EXCEPT ![p] = "event"]
     \/ /\ Runs(p) /\ key_dequeue = NONE
        /\ pc' = [pc EXCEPT ![p] = "refresh"]
        /\ UNCHANGED keyVars
  /\ UNCHANGED <<app, term, shift, shown, userVars>>

Keypress(p) ==
  /\ app[p] = "nterm" /\ pc[p] = "event"
  /\ UseEvent(p)
  /\ handle_key(p) # NewLine
  /\ Shifted(p)
  /\ term' = [term EXCEPT ![p] = keypress(@, handle_key(p))]
  /\ pc' = [pc EXCEPT ![p] = "refresh"]
  /\ UNCHANGED <<nemu_state, missed, app, shown, userVars>>

(* The end of a line: sh_handle_cmd().                                     *)
EndsLine(p) ==
  /\ app[p] = "nterm" /\ pc[p] = "event"
  /\ Runs(p) /\ msg[p] # NONE /\ handle_key(p) = NewLine

(* No word in a command: all of it blanks, or nothing.                     *)
NoWordIn(line) == \A i \in DOMAIN line : line[i][1] \in Blank

(* execvp() finds no such program and returns, and the prompt is written.  *)
NoSuchProgram(p) ==
  /\ EndsLine(p) /\ UseEvent(p)
  /\ Len(term[p].input) < MaxCommand
  /\ term' = [term EXCEPT ![p] = write(keypress(@, NewLine), Prompt)]
  /\ pc' = [pc EXCEPT ![p] = "refresh"]
  /\ UNCHANGED <<nemu_state, missed, app, shift, shown, userVars>>

(* execvp() replaces nterm.                                                *)
Runnable(p) ==
  /\ EndsLine(p)
  /\ Len(term[p].input) < MaxCommand /\ ~NoWordIn(term[p].input)
  /\ msg' = [msg EXCEPT ![p] = NONE]
  /\ FreshProgram(p)
  /\ app' = [app EXCEPT ![p] = "other"]
  /\ missed' = missed \cup {p}
  /\ UNCHANGED <<hostVars, nemu_state, ring, kernel, pc, term, shift, shown, userVars>>

(* The process leaves: the machine is halted or nterm starts again, which  *)
(* of them curr_pathname says (see NanosKernel).  The user's line starts   *)
(* again if no key is on its way, shift is not held, and the foreground is *)
(* what the user thinks.                                                   *)
Quiet == /\ host = <<>> /\ key_f = key_r
         /\ held \cap Modifier = {} /\ chosen = fg_pcb

Exit(p) ==
  /\ msg' = [msg EXCEPT ![p] = NONE]
  /\ FreshProgram(p)
  /\ \/ nemu_state' = "END" /\ UNCHANGED <<ntermVars, missed, userVars>>
     \/ /\ UNCHANGED nemu_state
        /\ app' = [app EXCEPT ![p] = "nterm"]
        /\ pc' = [pc EXCEPT ![p] = "poll"]
        /\ term' = [term EXCEPT ![p] = Started]
        /\ shift' = [shift EXCEPT ![p] = 0]
        /\ shown' = [shown EXCEPT ![p] = [c \in Cell |-> EMPTY]]
        /\ missed' = IF Quiet THEN missed \ {p} ELSE missed \cup {p}
        /\ meant' = IF Quiet THEN [meant EXCEPT ![p] = <<>>] ELSE meant
        /\ both' = IF Quiet THEN both \ {p} ELSE both
        /\ UNCHANGED chosen
  /\ UNCHANGED <<hostVars, ring, kernel>>

(* The command is "sudo poweroff", which leaves, or the assertion on its   *)
(* length fails.                                                           *)
Poweroff(p) ==
  /\ EndsLine(p)
  /\ Len(term[p].input) >= MaxCommand \/ ~NoWordIn(term[p].input)
  /\ Exit(p)

(* A line without a word: execvp(NULL, ...) reads address 0, which is not  *)
(* mapped (mmu.c panics), unless it is more careful than that              *)
(* (NoSuchProgram).                                                        *)
EmptyCommand(p) ==
  /\ EndsLine(p) /\ UseEvent(p)
  /\ Len(term[p].input) < MaxCommand /\ NoWordIn(term[p].input)
  /\ nemu_state' = "PANIC"
  /\ UNCHANGED <<missed, ntermVars, userVars>>

Refreshed(t, s) ==
  [c \in Cell |-> IF c = At(t) THEN Cursor
                  ELSE IF c \in t.dirty THEN t.buf[c] ELSE s[c]]

refresh_terminal(p) ==
  /\ app[p] = "nterm" /\ pc[p] = "refresh" /\ Runs(p)
  /\ shown' = [shown EXCEPT ![p] = Refreshed(term[p], @)]
  /\ term' = [term EXCEPT ![p] = clear(@)]
  /\ pc' = [pc EXCEPT ![p] = "poll"]
  /\ UNCHANGED <<keyVars, app, shift, userVars>>

----------------------------------------------------------------------------
(* Any other program reads events and, where it replaced nterm, exits.     *)
OtherReads(p) ==
  /\ app[p] = "other"
  /\ \/ msg[p] = NONE /\ NDL_PollEvent(p)
     \/ UseEvent(p) /\ UNCHANGED <<nemu_state, missed>>
  /\ UNCHANGED <<ntermVars, userVars>>

OtherExits(p) == Runs(p) /\ app[p] = "other" /\ Exit(p)

(* The machine stays stopped; QUIT also where nobody goes on.              *)
Stopped == nemu_state # "RUNNING" /\ UNCHANGED allVars

Shell(p) == Poll(p) \/ Keypress(p) \/ NoSuchProgram(p) \/ Runnable(p)
              \/ Poweroff(p) \/ EmptyCommand(p) \/ refresh_terminal(p)

NtermNext ==
  \/ \E k \in Key : Type(k)
  \/ Outside \/ PollingCall
  \/ \E p \in Term : Shell(p) \/ OtherExits(p)
  \/ \E p \in Program : OtherReads(p)
  \/ Stopped

(* schedule(), which the timer forces, polls in every tenth call; nothing  *)
(* else has to happen.                                                     *)
NtermSpec ==
  /\ NtermInit /\ [][NtermNext]_allVars
  /\ WF_allVars(PollingCall)

----------------------------------------------------------------------------
(* Types, with the cursor on the screen (term.cpp:166-200) and the line in *)
(* its buffer (term.cpp:291).                                              *)
TypeOK ==
  /\ KeyTypeOK
  /\ app \in [Program -> {"nterm", "other"}]
  /\ pc \in [Term -> {"poll", "event", "refresh"}]
  /\ shift \in [Term -> {0, 1}] /\ chosen \in Program
  /\ \A p \in Term :
       /\ term[p].x \in 0 .. W - 1 /\ term[p].y \in 0 .. H - 1
       /\ DOMAIN term[p].buf = Cell /\ term[p].dirty \subseteq Cell
       /\ Len(term[p].input) < InputSize
       /\ DOMAIN shown[p] = Cell

(* The line in nterm is the one the user typed, with the case that shift   *)
(* had when a key went down, once the events have arrived: the toggle of   *)
(* handle_key() agrees with the keys (main.cpp:150, term.cpp:267-301).     *)
(* Not so if an event went to schedule(), to another program or to the     *)
(* debugger's prompt (missed), nor for a line some of which was typed with *)
(* both shift keys held, which toggle each other off (both).               *)
WhatYouType ==
  \A p \in Term :
    /\ nemu_state = "RUNNING"
    /\ host = <<>> /\ Waiting = <<>> /\ msg[p] = NONE
    /\ app[p] = "nterm" /\ p \notin missed \cup both
    => term[p].input = meant[p]

(* The prompt and the line stand on the screen in front of the cursor,     *)
(* over the end of a screen line, after scrolling and after erasing back   *)
(* over it (term.cpp:166-201).                                             *)
EchoOnScreen ==
  \A p \in Term :
    LET t == term[p]
        line == Prompt \o t.input
        first == At(t) - Len(line)
    IN  first >= 0 /\ \A i \in DOMAIN line : t.buf[first + i - 1] = line[i]

(* After nterm has drawn, the screen shows the characters of the terminal  *)
(* and one cursor, although only the cells marked dirty are drawn, and the *)
(* cursor is painted over a cell (main.cpp:37-63, term.cpp:325-328).       *)
RefreshShows ==
  [][\A p \in Term : pc[p] = "refresh" /\ pc'[p] = "poll" /\ app'[p] = app[p] =>
       shown'[p] = [term[p].buf EXCEPT ![At(term[p])] = Cursor]]_allVars

(* Ring, register and readers are a queue: first in, first out, each event *)
(* to one reader, and the machine stops only when there is no room.        *)
Implements == Queue!Spec

(* No event waits in the ring for ever, whatever the program in front      *)
(* does: schedule() empties the ring when the program does not             *)
(* (proc.c:150), unless the machine stops.                                 *)
KeysDrain ==
  \A i \in 0 .. KEY_QUEUE_LEN - 1 :
    key_f = i /\ key_r # i ~> key_f # i \/ nemu_state # "RUNNING"
=============================================================================
