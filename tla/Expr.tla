-------------------------------- MODULE Expr --------------------------------
(***************************************************************************)
(* The expressions of NEMU's debugger (expr.c), from the symbols the user  *)
(* types to a value, and what they mean.                                   *)
(*                                                                         *)
(* make_token() decides by the token before it whether a minus or a star   *)
(* is a unary operator; eval_expr() looks for the operator that binds      *)
(* least.  Against them stands the grammar: what a string of symbols means *)
(* by the precedence of its operators.  Numbers and registers are symbols  *)
(* with a value; words count modulo Word, an address is a word.            *)
(***************************************************************************)
EXTENDS Integers, Sequences, SequencesExt, FiniteSetsExt

CONSTANTS
  Value,          \* the words that the operands stand for, by symbol
  Unknown,        \* the value of the name of no register
  Word,
  MBASE, MSIZE,   \* the physical memory
  Memory          \* its contents, by address

ASSUME ExprAssumption ==
  /\ Word \in Nat \ {0} /\ MBASE \in Nat /\ MSIZE \in Nat \ {0}
  /\ MBASE + MSIZE < Word /\ DOMAIN Memory = MBASE .. MBASE + MSIZE - 1

Operand  == DOMAIN Value
Operator == {"||", "&&", "==", "!=", "+", "-", "*", "/"}
Symbol   == Operand \cup Operator \cup {"(", ")"}

Bool(b) == IF b THEN 1 ELSE 0

Apply(op, l, r) ==
  CASE op = "+"  -> (l + r) % Word
    [] op = "-"  -> (l + Word - r) % Word
    [] op = "*"  -> (l * r) % Word
    [] op = "/"  -> l \div r
    [] op = "&&" -> Bool(l # 0 /\ r # 0)
    [] op = "||" -> Bool(l # 0 \/ r # 0)
    [] op = "==" -> Bool(l = r)
    [] op = "!=" -> Bool(l # r)

----------------------------------------------------------------------------
(* Tokens: NEG and DRF are the unary minus and star.                       *)
Mut_EndsOperand(tk) == tk \in Operand           \* mutant: without TK_RB
EndsOperand(tk)     == tk \in Operand \cup {")"}

Token(before, s) ==
  IF s \in {"-", "*"} /\ (before = <<>> \/ ~EndsOperand(Last(before)))
    THEN IF s = "-" THEN "NEG" ELSE "DRF"
    ELSE s

make_token(e) == FoldLeft(LAMBDA ts, s : Append(ts, Token(ts, s)), <<>>, e)

Unary(tk) == tk \in {"NEG", "DRF"}

(* A result: the word, whether *success still holds, and whether NEMU is   *)
(* still up.                                                               *)
Got(v) == [val |-> v, ok |-> TRUE, up |-> TRUE]
Fail   == [val |-> 0, ok |-> FALSE, up |-> TRUE]

(* The check of the address lets the first one behind the memory through,  *)
(* and paddr_read() panics there.                                          *)
Deref(v) ==
  LET offset == (v + Word - MBASE) % Word IN
  IF offset > MSIZE THEN Fail
  ELSE IF offset = MSIZE THEN [Fail EXCEPT !.up = FALSE]
  ELSE Got(Memory[v])

UnaryResult(tk, r) ==
  LET s == IF tk = "DRF" THEN Deref(r.val) ELSE Got((Word - r.val) % Word)
  IN  [s EXCEPT !.ok = @ /\ r.ok, !.up = @ /\ r.up]

BinaryResult(op, l, r) ==
  LET s == IF op = "/" /\ r.val = 0 THEN Fail ELSE Got(Apply(op, l.val, r.val))
  IN  [s EXCEPT !.ok = @ /\ l.ok /\ r.ok, !.up = @ /\ l.up /\ r.up]

(* The brackets open after the tokens t[p] .. t[i].                        *)
Depth(t, p, i) ==
  Cardinality({j \in p .. i : t[j] = "("}) - Cardinality({j \in p .. i : t[j] = ")"})

check_parentheses(t, p, q) ==
  /\ p < q /\ t[p] = "(" /\ t[q] = ")"
  /\ Depth(t, p, q) = 0 /\ \A i \in p .. q - 1 : Depth(t, p, i) > 0

op_prio(tk) ==
  CASE tk = "||" -> 1
    [] tk = "&&" -> 2
    [] tk \in {"==", "!="} -> 3
    [] tk \in {"+", "-"} -> 4
    [] tk \in {"*", "/"} -> 5
    [] OTHER -> 0

(* The main operators: the last of those that bind least.                  *)
MainOp(t, p, q) ==
  LET op == {i \in p .. q : Depth(t, p, i) = 0 /\ op_prio(t[i]) > 0}
  IN  {i \in op : \A j \in op : \/ op_prio(t[i]) < op_prio(t[j])
                                \/ op_prio(t[i]) = op_prio(t[j]) /\ j <= i}

RECURSIVE eval_expr(_, _, _)
eval_expr(t, p, q) ==
  LET idx   == Min({i \in p .. q : ~Unary(t[i])} \cup {q + 1})
      valid == (idx = q /\ t[idx] \in Operand) \/ check_parentheses(t, idx, q)
      main  == MainOp(t, p, q)
  IN  IF Unary(t[p]) /\ valid THEN UnaryResult(t[p], eval_expr(t, p + 1, q))
      ELSE IF p = q /\ t[p] \in Operand
        THEN IF Value[t[p]] = Unknown THEN Fail ELSE Got(Value[t[p]])
      ELSE IF check_parentheses(t, p, q) THEN eval_expr(t, p + 1, q - 1)
      ELSE IF p >= q \/ main \cap (p + 1 .. q - 1) = {} THEN Fail
      ELSE LET op == Max(main)
           IN  BinaryResult(t[op], eval_expr(t, p, op - 1), eval_expr(t, op + 1, q))

expr(e) == LET t == make_token(e) IN eval_expr(t, 1, Len(t))

----------------------------------------------------------------------------
(* What a string of symbols means: at most one word.  Operators of a level *)
(* associate to the left and bind less than those of the next; a unary one *)
(* binds more than all of them.  A string that the grammar does not derive *)
(* has no meaning, and neither has one that divides by zero or reads       *)
(* outside the memory.                                                     *)
Level == << {"||"}, {"&&"}, {"==", "!="}, {"+", "-"}, {"*", "/"} >>

RECURSIVE Meaning(_, _)
Primary(e) ==
  IF Len(e) = 1 THEN {Value[x] : x \in {e[1]} \cap Operand} \ {Unknown}
  ELSE IF e = <<>> THEN {}
  ELSE CASE e[1] = "-" -> {(Word - v) % Word : v \in Meaning(Tail(e), 6)}
         [] e[1] = "*" -> {Memory[a] : a \in Meaning(Tail(e), 6) \cap DOMAIN Memory}
         [] e[1] = "(" /\ Last(e) = ")" -> Meaning(SubSeq(e, 2, Len(e) - 1), 1)
         [] OTHER -> {}

Meaning(e, level) ==
  IF level = 6 THEN Primary(e)
  ELSE Meaning(e, level + 1) \cup
       UNION { {Apply(e[i], l, r) : l \in Meaning(SubSeq(e, 1, i - 1), level),
                                    r \in Meaning(SubSeq(e, i + 1, Len(e)), level + 1)
                                          \ (IF e[i] = "/" THEN {0} ELSE {})} :
               i \in {j \in 2 .. Len(e) - 1 : e[j] \in Level[level]} }
=============================================================================
