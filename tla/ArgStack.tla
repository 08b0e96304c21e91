------------------------------ MODULE ArgStack ------------------------------
(***************************************************************************)
(* The arguments of a program: what context_uload() (proc.c) puts on the   *)
(* fresh user stack, and where call_main() (crt0.c) finds it.              *)
(*                                                                         *)
(* From high to low addresses: a null word, the strings of the             *)
(* environment, those of the arguments, the file name, which is argv[0], a *)
(* null word, the pointers of the environment, a null word, the pointers   *)
(* of the arguments, and argc.  The stack is written by its physical       *)
(* addresses (usp) while the pointers are virtual (usp_va); both move      *)
(* together, so that one of them stands for both.  A word is Pointer bytes *)
(* long, at any address, and a byte is a character or a part of a word.    *)
(***************************************************************************)
EXTENDS Integers, Sequences, SequencesExt

CONSTANTS
  Pointer,        \* sizeof(uintptr_t)
  StackEnd,       \* the last byte of the stack
  NUL             \* the end of a string

ASSUME ArgAssumption == Pointer \in Nat \ {0} /\ StackEnd \in Nat

Word_(v)   == [k \in 1 .. Pointer |-> <<v, k>>]
String_(s) == Append(s, NUL)

(* A stack: the address usp, and the bytes from there to the end.          *)
Empty == [usp |-> StackEnd, bytes |-> <<>>]

Push(st, b) == [usp |-> st.usp - Len(b), bytes |-> b \o st.bytes]

(* Strings are pushed from the last to the first; ptr collects where.      *)
Mut_PushString(acc, s) ==       \* mutant: strlen() without the end
  LET st == Push(acc.st, s) IN [st |-> st, ptr |-> <<st.usp>> \o acc.ptr]
PushString(acc, s) ==
  LET st == Push(acc.st, String_(s)) IN [st |-> st, ptr |-> <<st.usp>> \o acc.ptr]

PushStrings(st, strs) ==
  FoldRight(LAMBDA s, acc : PushString(acc, s), strs, [st |-> st, ptr |-> <<>>])

PushWords(st, ws) == FoldRight(LAMBDA v, acc : Push(acc, Word_(v)), ws, st)

context_uload(filename, argv, envp) ==
  LET env  == PushStrings(Push(Empty, Word_(0)), envp)
      arg  == PushStrings(env.st, argv)
      name == PushStrings(arg.st, <<filename>>)
      tbl1 == PushWords(Push(name.st, Word_(0)), env.ptr)
      tbl2 == PushWords(Push(tbl1, Word_(0)), name.ptr \o arg.ptr)
  IN  Push(tbl2, Word_(Len(argv) + 1))

(* call_main(args), with what main() then reads.                           *)
Byte(st, a) == st.bytes[a - st.usp + 1]

Load(st, a) ==
  IF \E v \in 0 .. StackEnd : \A k \in 1 .. Pointer : Byte(st, a + k - 1) = <<v, k>>
    THEN CHOOSE v \in 0 .. StackEnd : Byte(st, a) = <<v, 1>>
    ELSE -1

IsString(st, a, s) ==
  /\ a \in st.usp .. StackEnd - Len(s) - 1
  /\ \A k \in 1 .. Len(s) + 1 : Byte(st, a + k - 1) = String_(s)[k]

argc(st)    == Load(st, st.usp)
argv_(st, i) == Load(st, st.usp + Pointer * (i + 1))
envp_(st, i) == Load(st, st.usp + Pointer * (argc(st) + 2 + i))
=============================================================================
