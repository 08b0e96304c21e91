------------------------------ MODULE WatchSet ------------------------------
(***************************************************************************)
(* What the watchpoints promise, with nothing about lists: up to NR_WP of  *)
(* them, a new one gets the least free number, a scan refreshes all and    *)
(* reports a change if and only if there was one.                          *)
(***************************************************************************)
EXTENDS Integers

CONSTANTS Node, Expr, Val

VARIABLES watch,        \* number -> expression and its value when last seen
          value,        \* the value of each expression
          scanning, reported

vars == <<watch, value, scanning, reported>>

Used     == DOMAIN watch
Stale(i) == watch[i].val # value[watch[i].expr]
Seen(e)  == [expr |-> e, val |-> value[e]]

Init == /\ Used = {} /\ value \in [Expr -> Val]
        /\ scanning = FALSE /\ reported = FALSE

Execute == scanning = FALSE /\ value' \in [Expr -> Val] /\ UNCHANGED <<watch, scanning, reported>>

Add(e) ==
  /\ scanning = FALSE
  /\ \E i \in Node \ Used :
       /\ \A j \in Node \ Used : i <= j
       /\ watch' = [j \in Used \cup {i} |-> IF j = i THEN Seen(e) ELSE watch[j]]
  /\ UNCHANGED <<value, scanning, reported>>

Remove(i) ==
  /\ scanning = FALSE
  /\ watch' = [j \in Used \ {i} |-> watch[j]]
  /\ UNCHANGED <<value, scanning, reported>>

Begin == /\ scanning = FALSE /\ scanning' = TRUE /\ reported' = FALSE
         /\ UNCHANGED <<watch, value>>

Report(i) ==
  /\ scanning = TRUE /\ Stale(i) /\ reported' = TRUE
  /\ watch' = [watch EXCEPT ![i] = Seen(watch[i].expr)]
  /\ UNCHANGED <<value, scanning>>

End == /\ scanning = TRUE /\ scanning' = FALSE
       /\ \A i \in Used : ~Stale(i)
       /\ UNCHANGED <<watch, value, reported>>

Next == \/ Execute \/ Begin \/ End
        \/ \E e \in Expr : Add(e)
        \/ \E i \in Used : Remove(i) \/ Report(i)

Spec == Init /\ [][Next]_vars
=============================================================================
