------------------------------ MODULE KeyQueue ------------------------------
(***************************************************************************)
(* What the keyboard promises to its readers: a queue of key events, first *)
(* in, first out.  Every event is taken by one reader, and only an event   *)
(* that finds the queue full brings the machine down.                      *)
(***************************************************************************)
EXTENDS Naturals, Sequences

CONSTANTS Event, Reader, Nothing, Capacity

VARIABLES
  q,      \* the events that wait
  got,    \* what each reader took last and has not used up
  up      \* the machine runs

Init == q = <<>> /\ got = [r \in Reader |-> Nothing] /\ up = TRUE

Accept(e) ==
  /\ up /\ Len(q) < Capacity
  /\ q' = Append(q, e)
  /\ UNCHANGED <<got, up>>

Overflow ==
  /\ up /\ Len(q) = Capacity
  /\ up' = FALSE /\ q' = <<>>
  /\ UNCHANGED got

Take(r) ==
  /\ up /\ q # <<>>
  /\ got' = [got EXCEPT ![r] = Head(q)]
  /\ q' = Tail(q)
  /\ UNCHANGED up

UseUp(r) ==
  /\ up
  /\ got' = [got EXCEPT ![r] = Nothing]
  /\ UNCHANGED <<q, up>>

Next ==
  \/ \E e \in Event : Accept(e)
  \/ Overflow
  \/ \E r \in Reader : Take(r) \/ UseUp(r)

Spec == Init /\ [][Next]_<<q, got, up>>
=============================================================================
