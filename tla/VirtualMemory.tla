--------------------------- MODULE VirtualMemory ---------------------------
(***************************************************************************)
(* What the address spaces promise to programs, with nothing about pages   *)
(* or tables: every process has a memory of its own.  Loading a program    *)
(* fills it, brk() adds zeroed words at its end, and a store changes one   *)
(* word of one memory.                                                     *)
(***************************************************************************)
CONSTANTS Proc, File,
          Addr,      \* word addresses of user space
          NoWord,    \* what is read where a process has no memory
          Zero,
          Image,     \* Image[f]: the words f promises, by address
          Start      \* Start[f]: addresses a process running f has at first

VARIABLES space,     \* space[p][a]: what p reads at a
          lost       \* processes whose last execve failed

vars == <<space, lost>>

Has(s)    == {a \in Addr : s[a] # NoWord}
Others(p) == \A q \in Proc \ {p} : space'[q] = space[q]

Loaded(s, f) == /\ Has(s) = Start[f]
                /\ \A a \in DOMAIN Image[f] : s[a] = Image[f][a]

Init == /\ \A p \in Proc : \E f \in File : Loaded(space[p], f)
        /\ lost = {}

Load(p, f) ==
  /\ Loaded(space'[p], f) /\ Others(p)
  /\ lost' = lost \ {p}

Fail(p) == lost' = lost \cup {p} /\ UNCHANGED space

(* A process keeps what it has; what it gains is zero and follows on.  One *)
(* whose execve failed may find nothing, or anything, in what it gains.    *)
Grow(p) ==
  /\ \A a \in Has(space[p]) : space'[p][a] = space[p][a]
  /\ p \notin lost =>
       \A a \in Has(space'[p]) \ Has(space[p]) : space'[p][a] = Zero
  /\ Others(p) /\ UNCHANGED lost

Store(p, a) ==
  /\ a \in Has(space[p]) /\ a \in Has(space'[p])
  /\ \A b \in Addr \ {a} : space'[p][b] = space[p][b]
  /\ Others(p) /\ UNCHANGED lost

Next == \E p \in Proc : \/ \E f \in File : Load(p, f)
                        \/ Fail(p) \/ Grow(p)
                        \/ \E a \in Addr : Store(p, a)

Spec == Init /\ [][Next]_vars
=============================================================================
