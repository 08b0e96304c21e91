------------------------------- MODULE Files -------------------------------
(***************************************************************************)
(* What a file system of fixed files promises: each file is a sequence of  *)
(* bytes whose length never changes, with a cursor inside it.  A read      *)
(* returns the bytes behind the cursor, a write replaces them, both as far *)
(* as the file goes, and both move the cursor over what they did.          *)
(***************************************************************************)
EXTENDS Integers, Sequences

CONSTANTS File, Byte

VARIABLES content, cursor,
          read, result, \* the bytes and the number the last call returned
          running       \* FALSE after a call that stopped the machine

vars == <<content, cursor, read, result, running>>

Init == /\ \A f \in File : cursor[f] = 0
        /\ read = <<>> /\ result = 0 /\ running = TRUE

Left(f) == Len(content[f]) - cursor[f]
Move(f, n) == cursor' = [cursor EXCEPT ![f] = @ + n] /\ result' = n

Read(f) ==
  \E n \in 0 .. Left(f) :
    /\ read' = SubSeq(content[f], cursor[f] + 1, cursor[f] + n)
    /\ Move(f, n) /\ UNCHANGED <<content, running>>

Write(f) ==
  \E n \in 0 .. Left(f), b \in Byte :
    /\ content' = [content EXCEPT ![f] =
         [i \in DOMAIN @ |-> IF i \in cursor[f] + 1 .. cursor[f] + n THEN b ELSE @[i]]]
    /\ Move(f, n) /\ read' = <<>> /\ UNCHANGED running

Seek(f) ==
  /\ \E n \in 0 .. Len(content[f]) :
       cursor' = [cursor EXCEPT ![f] = n] /\ result' = n
  /\ read' = <<>> /\ UNCHANGED <<content, running>>

(* open() and close() put the cursor back and return something else.       *)
Reset(f) ==
  /\ cursor' = [cursor EXCEPT ![f] = 0] /\ result' \in Nat
  /\ read' = <<>> /\ UNCHANGED <<content, running>>

(* A call on no file, and one that stops the machine, wherever it leaves   *)
(* the cursor.                                                             *)
Other == read' = <<>> /\ result' \in Nat /\ UNCHANGED <<content, cursor, running>>
Stop  == running' = FALSE /\ UNCHANGED <<content, read, result>>

Next == \/ Other \/ Stop
        \/ \E f \in File : Reset(f) \/ Seek(f) \/ Read(f) \/ Write(f)

Spec == Init /\ [][running = TRUE /\ Next]_vars
=============================================================================
