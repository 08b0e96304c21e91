------------------------------ MODULE Terminal ------------------------------
(***************************************************************************)
(* The terminal of nterm (term.cpp): a screen of characters, a cursor, and *)
(* the line that is being typed, in the mode in which it is edited.  What  *)
(* the built-in shell writes has no escape sequences, so that the colours  *)
(* and the modes never change.                                             *)
(*                                                                         *)
(* A terminal is a record; every operator returns the terminal after a     *)
(* call.                                                                   *)
(***************************************************************************)
EXTENDS Integers, Sequences, SequencesExt

CONSTANTS
  W, H,           \* columns and lines
  InputSize,      \* sizeof(input)
  EMPTY, NewLine, Backspace,
  Nul             \* '\0': no character

ASSUME TerminalAssumption ==
  W \in Nat \ {0} /\ H \in Nat \ {0} /\ InputSize \in Nat \ {0}

Cell == 0 .. W * H - 1

At(t) == t.y * W + t.x

Terminal ==
  [x |-> 0, y |-> 0, buf |-> [c \in Cell |-> EMPTY], dirty |-> Cell, input |-> <<>>]

putch(t, c, ch) == [t EXCEPT !.buf[c] = ch, !.dirty = @ \cup {c}]

scroll_up(t) ==
  [t EXCEPT !.buf = [c \in Cell |-> IF c + W \in Cell THEN @[c + W] ELSE EMPTY],
            !.dirty = Cell]

NextLine(t) ==
  IF t.y + 1 < H THEN [t EXCEPT !.x = 0, !.y = @ + 1]
                 ELSE [scroll_up(t) EXCEPT !.x = 0]

Mut_move_one(t) == IF t.x < W THEN [t EXCEPT !.x = @ + 1] ELSE NextLine(t)
                        \* mutant: the line wraps one column late
move_one(t) == IF t.x + 1 < W THEN [t EXCEPT !.x = @ + 1] ELSE NextLine(t)

put(t, ch) == IF ch = NewLine THEN NextLine(t) ELSE move_one(putch(t, At(t), ch))

write(t, str) ==
  LET written[i \in 0 .. Len(str)] ==
        IF i = 0 THEN t ELSE put(written[i - 1], str[i])
  IN  written[Len(str)]

Mut_Back(t) == IF t.x > 0 THEN [t EXCEPT !.x = @ - 1] ELSE t
                        \* mutant: stays in its line
Back(t) ==
  IF t.x > 0 THEN [t EXCEPT !.x = @ - 1]
  ELSE IF t.y > 0 THEN [t EXCEPT !.x = W - 1, !.y = @ - 1]
  ELSE t

backspace(t) == LET s == Back(t) IN
  [s EXCEPT !.buf[At(s)] = EMPTY, !.dirty = @ \cup {At(s)}]

(* keypress() of a character, and the command it returns, if any.          *)
keypress(t, ch) ==
  CASE ch = Nul -> t
    [] ch = NewLine -> [write(t, <<NewLine>>) EXCEPT !.input = <<>>]
    [] ch = Backspace -> IF t.input = <<>> THEN t
                         ELSE [backspace(t) EXCEPT !.input = Front(@)]
    [] OTHER -> IF Len(t.input) + 1 >= InputSize THEN t
                ELSE [write(t, <<ch>>) EXCEPT !.input = Append(@, ch)]

Mut_clear(t) == [t EXCEPT !.dirty = {}]         \* mutant: the cursor stays
clear(t)     == [t EXCEPT !.dirty = {At(t)}]
=============================================================================
