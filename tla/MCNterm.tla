------------------------------ MODULE MCNterm ------------------------------
(* nterm in process 1 and the menu in process 3, a keyboard with two shift *)
(* keys, a letter that repeats, SPACE, BACKSPACE, RETURN, F1 and F3, and a *)
(* screen of two lines of three characters.                                *)
EXTENDS Nterm

CONSTANTS LSHIFT, RSHIFT, A, SPACE, F1, F3

MCKey        == {LSHIFT, RSHIFT, A, SPACE, Return, Erase, F1, F3}
MCForeground == [k \in {F1, F3} |-> IF k = F1 THEN 1 ELSE 3]
MCPrompt     == <<"$">>
MCNone       == <<>>
=============================================================================
