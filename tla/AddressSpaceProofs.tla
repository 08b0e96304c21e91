------------------------ MODULE AddressSpaceProofs ------------------------
(***************************************************************************)
(* Proofs about AddressSpace.  The argument gives every page a role: free, *)
(* a directory, the table at entry i of directory d, or the page of data   *)
(* that entry j of that table names.  A memory is Good for an assignment   *)
(* of roles when what its directories and tables hold agrees with it; a    *)
(* role says where the page is mapped, so a page cannot be mapped twice.   *)
(*                                                                         *)
(* The roles are no variable of the program, so PagesInv says that they    *)
(* exist, and that the directories of two processes differ.  For every     *)
(* operation there are up to three lemmas: ...Is says what it makes of a   *)
(* memory word by word, ...Rises that it never takes a page back, and      *)
(* ...Good that a Good memory stays Good, for roles that are Later: those  *)
(* of the pages in use kept, more pages given one.                         *)
(*                                                                         *)
(* For the refinement they also say what a process reads afterwards: View  *)
(* is its memory as VirtualMemory sees it, Begun what a loaded program     *)
(* finds, and Kept what an operation on one directory leaves to the pages  *)
(* that are not reached from it, hence to the other processes (Spared).    *)
(* Of the directory itself the invariant has to know one thing, BrkTables. *)
(***************************************************************************)
EXTENDS AddressSpace, SequenceTheorems, WellFoundedInduction, TLAPS

(* A place in memory by its page and its word in the page.                 *)
Index     == 0 .. W - 1
Loc(x, o) == x * W + o

LEMMA Numbers ==
  /\ W \in Nat /\ W >= 1 /\ UserPages \in Nat /\ StackPages \in Nat /\ StackPages >= 2
  /\ HeapStart \in Nat /\ HeapEnd \in Nat /\ HeapStart >= 1 /\ NProc \in Nat /\ NProc >= 1
  /\ StackFirst \in Nat /\ StackFirst >= 1 /\ StackFirst < UserPages
  /\ UserPages % W = 0 /\ UserPages < W * W /\ HeapStart < HeapEnd
BY AddressSpaceAssumption DEF StackFirst

LEMMA Division ==
  ASSUME NEW a \in Nat
  PROVE  a \div W \in Nat /\ a % W \in Index /\ a = (a \div W) * W + (a % W)
BY Numbers DEF Index

LEMMA Smaller ==
  ASSUME NEW x \in Nat, NEW y \in Nat
  PROVE  /\ x * W \in Nat /\ (x + 1) * W = x * W + W
         /\ x <= y => x * W <= y * W
         /\ x < y => x * W + W <= y * W
<1>1. W \in Nat
  BY Numbers
<1>2. ASSUME NEW a \in Nat, NEW b \in Nat, a <= b PROVE a * W <= b * W
  BY <1>1, <1>2
<1>3. (x + 1) * W = x * W + W /\ x * W \in Nat
  BY <1>1
<1> QED BY <1>2, <1>3

LEMMA Rises ==
  ASSUME NEW a \in Nat, NEW b \in Nat, a <= b
  PROVE  a \div W <= b \div W
<1> DEFINE p == a \div W
           q == b \div W
<1>1. /\ p \in Nat /\ q \in Nat /\ a % W \in Nat /\ b % W \in Nat /\ b % W < W
      /\ a = p * W + (a % W) /\ b = q * W + (b % W)
  BY Division, Numbers DEF Index
<1>2. p * W \in Nat /\ q * W \in Nat /\ (q < p => q * W + W <= p * W)
  BY <1>1, Smaller
<1> HIDE DEF p, q
<1>3. ~(q < p)
  BY <1>1, <1>2, Numbers
<1>4. p <= q
  BY <1>1, <1>3
<1> QED BY <1>4 DEF p, q

LEMMA LocIs ==
  ASSUME NEW x \in Nat, NEW o \in Index
  PROVE  Loc(x, o) \in Nat /\ Loc(x, o) \div W = x /\ Loc(x, o) % W = o
<1>1. x * W \in Nat /\ o \in Nat /\ o < W /\ W \in Nat /\ W >= 1
  BY Numbers, Smaller DEF Index
<1> DEFINE a == Loc(x, o)
           q == a \div W
<1>2. a \in Nat /\ q \in Nat /\ a % W \in Index /\ a = q * W + (a % W)
  BY <1>1, Division DEF Loc
<1>3. ~(q < x) /\ ~(x < q)
  BY <1>1, <1>2, Smaller DEF Loc, Index
<1> QED BY <1>1, <1>2, <1>3 DEF Loc, Index

LEMMA Apart ==
  ASSUME NEW x \in Nat, NEW o \in Index, NEW y \in Nat, NEW k \in Index, Loc(x, o) = Loc(y, k)
  PROVE  x = y /\ o = k
BY LocIs

LEMMA Split ==
  ASSUME NEW a \in Nat
  PROVE  a \div W \in Nat /\ a % W \in Index /\ a = Loc(a \div W, a % W)
BY Division DEF Loc

Page == HeapStart .. HeapEnd - 1

LEMMA Places ==
  /\ \A x \in Page, o \in Index : Loc(x, o) \in PhysAddr
  /\ \A a \in PhysAddr : a \in Nat /\ a \div W \in Page
<1>1. ASSUME NEW x \in Page, NEW o \in Index PROVE Loc(x, o) \in PhysAddr
  <2>1. x \in Nat /\ HeapStart * W <= x * W /\ x * W + W <= HeapEnd * W
    BY Numbers, Smaller DEF Page
  <2>2. x * W \in Nat /\ HeapStart * W \in Nat /\ HeapEnd * W \in Nat
    BY <2>1, Numbers, Smaller
  <2> QED BY <2>1, <2>2, Numbers DEF Index, Loc, PhysAddr
<1>2. ASSUME NEW a \in PhysAddr PROVE a \in Nat /\ a \div W \in Page
  <2>1. HeapStart * W \in Nat /\ HeapEnd * W \in Nat /\ a \in Nat /\ HeapStart * W <= a /\ a < HeapEnd * W
    BY Numbers, Smaller DEF PhysAddr
  <2> DEFINE q == a \div W
  <2>2. q \in Nat /\ a % W \in Index /\ a = q * W + (a % W) /\ q * W \in Nat
    BY <2>1, Division, Smaller
  <2>3. a % W < W /\ a % W >= 0
    BY <2>2, Numbers DEF Index
  <2> HIDE DEF q
  <2>4. ~(q < HeapStart)
    BY <2>1, <2>2, <2>3, Numbers, Smaller DEF Index
  <2>5. ~(HeapEnd <= q)
    BY <2>1, <2>2, <2>3, Numbers, Smaller DEF Index
  <2> QED BY <2>1, <2>2, <2>4, <2>5, Numbers DEF Page, q
<1> QED BY <1>1, <1>2

----------------------------------------------------------------------------
(* What the operations make of a memory, word by word.                     *)
Kinds   == {"zero", "none", "junk", "args", "user", "pte", "disk"}
AnyWord == Kinds \X Nat
Words   == [PhysAddr -> AnyWord]
Mem     == [mem : Words, pf : Nat]

LEMMA WordKinds ==
  /\ Zero \in AnyWord /\ Junk \in AnyWord /\ Args \in AnyWord /\ NoWord \in AnyWord
  /\ \A n \in Nat : /\ Pte(n) \in AnyWord /\ Disk(n) \in AnyWord
                    /\ Valid(Pte(n)) /\ Pte(n)[2] = n /\ Pte(n) # Zero
                    /\ ~Valid(Disk(n))
  /\ ~Valid(Zero) /\ ~Valid(Junk) /\ ~Valid(Args) /\ ~Valid(NoWord)
  /\ \A w \in AnyWord : w[2] \in Nat
  /\ \A w \in AnyWord : Valid(w) => w = Pte(w[2])
BY DEF Zero, Junk, Args, NoWord, Pte, Disk, Valid, AnyWord, Kinds

LEMMA WriteIs ==
  ASSUME NEW f \in Words, NEW at \in Nat, NEW words \in Seq(AnyWord)
  PROVE  /\ Write(f, at, words) \in Words
         /\ \A a \in PhysAddr :
              Write(f, at, words)[a] =
                IF a \in at .. at + Len(words) - 1 THEN words[a - at + 1] ELSE f[a]
<1>1. DOMAIN f = PhysAddr /\ \A a \in PhysAddr : f[a] \in AnyWord
  BY DEF Words
<1>2. ASSUME NEW a \in PhysAddr, a \in at .. at + Len(words) - 1
      PROVE  words[a - at + 1] \in AnyWord
  <2>1. a \in Nat /\ Len(words) \in Nat
    BY Places
  <2>2. a - at + 1 \in 1 .. Len(words)
    BY <1>2, <2>1
  <2> QED BY <2>2
<1> QED BY <1>1, <1>2 DEF Write, Words

LEMMA PageWriteIs ==
  ASSUME NEW f \in Words, NEW x \in Nat, NEW words \in Seq(AnyWord), Len(words) = W
  PROVE  /\ Write(f, x * W, words) \in Words
         /\ \A y \in Page, o \in Index :
              Write(f, x * W, words)[Loc(y, o)] =
                IF y = x THEN words[o + 1] ELSE f[Loc(y, o)]
<1>1. x * W \in Nat /\ W \in Nat
  BY Numbers, Smaller
<1>2. ASSUME NEW y \in Page, NEW o \in Index
      PROVE  /\ Loc(y, o) \in x * W .. x * W + Len(words) - 1 <=> y = x
             /\ Loc(x, o) - x * W + 1 = o + 1
  <2>1. y \in Nat /\ o \in Nat /\ o < W
    BY Numbers DEF Page, Index
  <2>2. y < x => y * W + W <= x * W
    BY <2>1, Smaller
  <2>3. x < y => x * W + W <= y * W
    BY <2>1, Smaller
  <2>4. y * W \in Nat
    BY <2>1, Smaller
  <2> QED BY <1>1, <2>1, <2>2, <2>3, <2>4 DEF Loc
<1>3. ASSUME NEW y \in Page, NEW o \in Index
      PROVE  Write(f, x * W, words)[Loc(y, o)] = IF y = x THEN words[o + 1] ELSE f[Loc(y, o)]
  <2>1. Loc(y, o) \in PhysAddr
    BY Places
  <2>2. Write(f, x * W, words)[Loc(y, o)] =
          IF Loc(y, o) \in x * W .. x * W + Len(words) - 1
            THEN words[Loc(y, o) - x * W + 1] ELSE f[Loc(y, o)]
    <3> DEFINE at == x * W
    <3>1. at \in Nat
      BY <1>1
    <3> HIDE DEF at
    <3>2. \A a \in PhysAddr :
             Write(f, at, words)[a] =
               IF a \in at .. at + Len(words) - 1 THEN words[a - at + 1] ELSE f[a]
      BY <3>1, WriteIs
    <3> QED BY <2>1, <3>2 DEF at
  <2>3. CASE y = x
    BY <1>2, <2>2, <2>3
  <2>4. CASE y # x
    BY <1>2, <2>2, <2>4
  <2> QED BY <2>3, <2>4
<1> QED BY <1>1, <1>3, WriteIs

LEMMA PgAllocIs ==
  ASSUME NEW m \in Mem
  PROVE  /\ pg_alloc(m) \in Mem /\ pg_alloc(m).pf = m.pf + 1
         /\ \A y \in Page, o \in Index :
              pg_alloc(m).mem[Loc(y, o)] = IF y = m.pf THEN Zero ELSE m.mem[Loc(y, o)]
<1>1. m.mem \in Words /\ m.pf \in Nat /\ W \in Nat
  BY Numbers DEF Mem
<1>2. Zeros(W) \in Seq(AnyWord) /\ Len(Zeros(W)) = W /\ \A i \in 1 .. W : Zeros(W)[i] = Zero
  BY <1>1, WordKinds DEF Zeros
<1>3. pg_alloc(m) = [mem |-> Write(m.mem, m.pf * W, Zeros(W)), pf |-> m.pf + 1]
  <2>1. new_page(m, 1) = [mem |-> m.mem, pf |-> m.pf + 1]
    BY DEF new_page, Mem
  <2> DEFINE w == Write(m.mem, m.pf * W, Zeros(W))
  <2>2. pg_alloc(m) = [new_page(m, 1) EXCEPT !.mem = w]
    BY <2>1 DEF pg_alloc
  <2> HIDE DEF w
  <2>3. pg_alloc(m) = [mem |-> w, pf |-> m.pf + 1]
    BY <2>1, <2>2
  <2> QED BY <2>3 DEF w
<1>4. \A o \in Index : o + 1 \in 1 .. W
  BY <1>1 DEF Index
<1>5. /\ Write(m.mem, m.pf * W, Zeros(W)) \in Words
      /\ \A y \in Page, o \in Index :
           Write(m.mem, m.pf * W, Zeros(W))[Loc(y, o)] =
             IF y = m.pf THEN Zeros(W)[o + 1] ELSE m.mem[Loc(y, o)]
  BY <1>1, <1>2, PageWriteIs
<1> QED BY <1>1, <1>2, <1>3, <1>4, <1>5 DEF Mem

(* n is m after map(), for entry j of the table at entry i of d.           *)
IsMap(m, n, d, i, j, pa) ==
  /\ n \in Mem
  /\ m.mem[Loc(d, i)] = Zero =>
       /\ n.pf = m.pf + 1
       /\ \A y \in Page, o \in Index :
            n.mem[Loc(y, o)] = IF y = m.pf /\ o = 0 THEN Pte(pa)
                               ELSE IF y = d /\ o = i THEN Pte(m.pf)
                               ELSE IF y = m.pf THEN Zero ELSE m.mem[Loc(y, o)]
  /\ m.mem[Loc(d, i)] # Zero =>
       /\ n.pf = m.pf
       /\ \A y \in Page, o \in Index :
            n.mem[Loc(y, o)] = IF y = m.mem[Loc(d, i)][2] /\ o = j
                                 THEN Pte(pa) ELSE m.mem[Loc(y, o)]

LEMMA MapIs ==
  ASSUME NEW m \in Mem, NEW d \in Page, NEW va \in Nat, va \div W \in Index, NEW pa \in Nat
  PROVE  IsMap(m, map(m, d, va, pa), d, va \div W, va % W, pa)
<1> DEFINE i == va \div W
           e == m.mem[Loc(d, i)]
           n == map(m, d, va, pa)
           a == pg_alloc(m)
<1>1. m.mem \in Words /\ m.pf \in Nat /\ d \in Nat /\ Loc(d, i) \in PhysAddr /\ e \in AnyWord
  BY Numbers, Places DEF Mem, Page, Words
<1>2. Pte(pa) \in AnyWord /\ Pte(m.pf) \in AnyWord /\ e[2] \in Nat /\ 0 \in Index
      /\ va % W \in Index
  BY <1>1, WordKinds, Division, Numbers DEF Index
<1>3. a \in Mem /\ a.mem \in Words /\ a.pf = m.pf + 1
  BY PgAllocIs DEF Mem
<1>4. CASE e = Zero
  <2>1. n = [mem |-> [[a.mem EXCEPT ![Loc(d, i)] = Pte(m.pf)] EXCEPT ![Loc(m.pf, 0)] = Pte(pa)],
             pf  |-> a.pf]
    <3>1. Loc(m.pf, 0) = m.pf * W
      BY <1>1, Smaller DEF Loc
    <3>2. n = [a EXCEPT !.mem[Loc(d, i)] = Pte(m.pf), !.mem[Loc(m.pf, 0)] = Pte(pa)]
      BY <1>4, <3>1 DEF map, Loc
    <3> QED BY <1>3, <3>2 DEF Mem
  <2>2. n \in Mem
    <3>1. [[a.mem EXCEPT ![Loc(d, i)] = Pte(m.pf)] EXCEPT ![Loc(m.pf, 0)] = Pte(pa)] \in Words
      BY <1>1, <1>2, <1>3 DEF Words
    <3>2. a.pf \in Nat
      BY <1>3 DEF Mem
    <3> HIDE DEF n
    <3> QED BY <2>1, <3>1, <3>2 DEF Mem
  <2>3. ASSUME NEW y \in Page, NEW o \in Index
        PROVE  n.mem[Loc(y, o)] = IF y = m.pf /\ o = 0 THEN Pte(pa)
                                  ELSE IF y = d /\ o = i THEN Pte(m.pf)
                                  ELSE IF y = m.pf THEN Zero ELSE m.mem[Loc(y, o)]
    <3>1. y \in Nat /\ Loc(y, o) \in PhysAddr
      BY Places, Numbers DEF Page
    <3>2. Loc(y, o) = Loc(m.pf, 0) => y = m.pf /\ o = 0
      BY <1>1, <1>2, <3>1, Apart
    <3>3. Loc(y, o) = Loc(d, i) => y = d /\ o = i
      BY <1>1, <3>1, Apart
    <3>4. a.mem[Loc(y, o)] = IF y = m.pf THEN Zero ELSE m.mem[Loc(y, o)]
      BY PgAllocIs
    <3> QED BY <1>3, <2>1, <3>1, <3>2, <3>3, <3>4 DEF Words
  <2> QED BY <1>3, <1>4, <2>1, <2>2, <2>3 DEF IsMap
<1>5. CASE e # Zero
  <2>1. n = [mem |-> [m.mem EXCEPT ![Loc(e[2], va % W)] = Pte(pa)], pf |-> m.pf]
    BY <1>5 DEF map, Loc, Mem
  <2>2. n \in Mem
    <3>1. [m.mem EXCEPT ![Loc(e[2], va % W)] = Pte(pa)] \in Words
      BY <1>1, <1>2 DEF Words
    <3> HIDE DEF n
    <3> QED BY <1>1, <2>1, <3>1 DEF Mem
  <2>3. ASSUME NEW y \in Page, NEW o \in Index
        PROVE  n.mem[Loc(y, o)] =
                 IF y = e[2] /\ o = va % W THEN Pte(pa) ELSE m.mem[Loc(y, o)]
    <3>1. y \in Nat /\ Loc(y, o) \in PhysAddr
      BY Places, Numbers DEF Page
    <3>2. Loc(y, o) = Loc(e[2], va % W) => y = e[2] /\ o = va % W
      BY <1>2, <3>1, Apart
    <3> QED BY <1>1, <2>1, <3>1, <3>2 DEF Words
  <2> QED BY <1>5, <2>1, <2>2, <2>3 DEF IsMap
<1> QED BY <1>4, <1>5

----------------------------------------------------------------------------
(* What every page is for.  The role of a page is given once: a page of a  *)
(* directory that no process has any more keeps it.                        *)
Free          == <<"free", 0, 0, 0>>
Directory     == <<"directory", 0, 0, 0>>
Table(d, i)   == <<"table", d, i, 0>>     \* of directory d, at its entry i
Data(d, i, j) == <<"data", d, i, j>>      \* entry j of that table
Role == {"free", "directory", "table", "data"} \X Nat \X Nat \X Nat

UserIndex   == 0 .. (UserPages \div W) - 1
KernelIndex == UserPages \div W .. W - 1

Known(n) == ({"zero", "junk", "args"} \X {0}) \cup ({"user"} \X Proc)
              \cup ({"pte"} \X (Range(Segments) \cup HeapStart .. n - 1))
              \cup ({"disk"} \X Nat)

Roles(m, g) ==
  /\ g \in [Nat -> Role] /\ g[kas] = Directory
  /\ \A x \in Nat : x < HeapStart \/ x >= m.pf => g[x] = Free

KernelEntries(m, g) ==
  /\ \A i \in UserIndex : m.mem[Loc(kas, i)] = Zero
  /\ \A i \in KernelIndex :
       LET e == m.mem[Loc(kas, i)]
       IN  e # Zero => e = Pte(e[2]) /\ e[2] \in Page /\ g[e[2]] = Table(kas, i)
  /\ \A d \in Page, i \in KernelIndex :
       g[d] = Directory => m.mem[Loc(d, i)] = m.mem[Loc(kas, i)]

UserEntries(m, g) ==
  \A d \in Page, i \in UserIndex :
    LET e == m.mem[Loc(d, i)]
    IN  g[d] = Directory /\ e # Zero =>
          /\ e = Pte(e[2]) /\ e[2] \in Page /\ g[e[2]] = Table(d, i)
          /\ \A j \in Index :
               LET w == m.mem[Loc(e[2], j)]
               IN  w # Zero => w = Pte(w[2]) /\ w[2] \in Page /\ g[w[2]] = Data(d, i, j)

Tidy(m, g) ==
  /\ m \in Mem /\ m.pf > HeapStart /\ m.pf <= HeapEnd
  /\ \A y \in Page, o \in Index : m.mem[Loc(y, o)] \in Known(m.pf)
  /\ Roles(m, g) /\ KernelEntries(m, g) /\ UserEntries(m, g)

KernelAt(m, k) ==
  LET e == m.mem[Loc(kas, k \div W)]
  IN  e # Zero /\ m.mem[Loc(e[2], k % W)] = Pte(k)

Good(m, g) == Tidy(m, g) /\ \A k \in Range(Segments) : KernelAt(m, k)

LEMMA RoleKinds ==
  /\ Free \in Role /\ Directory \in Role /\ Free # Directory
  /\ \A d, i \in Nat : Table(d, i) \in Role
  /\ \A d, i, j \in Nat : Data(d, i, j) \in Role
  /\ \A d, i : Table(d, i) # Free /\ Table(d, i) # Directory
  /\ \A d, i, j : Data(d, i, j) # Free /\ Data(d, i, j) # Directory
BY DEF Free, Directory, Table, Data, Role

(* A table belongs to one entry of one directory, a page of data to one    *)
(* entry of one table.                                                     *)
LEMMA TableOnce ==
  ASSUME NEW d, NEW i, NEW e, NEW k, Table(d, i) = Table(e, k)
  PROVE  d = e /\ i = k
BY DEF Table

LEMMA DataOnce ==
  ASSUME NEW d, NEW i, NEW j, NEW e, NEW k, NEW l, Data(d, i, j) = Data(e, k, l)
  PROVE  d = e /\ i = k /\ j = l
BY DEF Data

LEMMA NotBoth ==
  ASSUME NEW d, NEW i, NEW e, NEW k, NEW l
  PROVE  Table(d, i) # Data(e, k, l)
BY DEF Table, Data

LEMMA Indexes ==
  /\ UserIndex \subseteq Index /\ KernelIndex \subseteq Index /\ Index \subseteq Nat
  /\ UserIndex \cap KernelIndex = {} /\ Index = UserIndex \cup KernelIndex
  /\ \A v \in 0 .. UserPages - 1 : v \div W \in UserIndex
  /\ \A k \in UserPages .. W * W - 1 : k \div W \in KernelIndex /\ k \in Nat
  /\ \A i \in DOMAIN Segments : Segments[i] \in UserPages .. W * W - 1
  /\ kas \in Page /\ kas \in Nat
<1> DEFINE u == UserPages \div W
<1>1. u \in Nat /\ UserPages = u * W
  <2>1. u \in Nat /\ UserPages = u * W + (UserPages % W) /\ u * W \in Nat
    BY Division, Numbers, Smaller
  <2> HIDE DEF u
  <2> QED BY <2>1, Numbers
<1>2. u < W
  <2>1. ~(W <= u)
    <3>1. W <= u => W * W <= u * W
      BY <1>1, Numbers, Smaller
    <3>2. W * W \in Nat
      BY Numbers
    <3> HIDE DEF u
    <3> QED BY <1>1, <3>1, <3>2, Numbers
  <2> QED BY <1>1, <2>1, Numbers
<1>3. ASSUME NEW v \in 0 .. UserPages - 1 PROVE v \div W \in 0 .. u - 1
  <2> DEFINE q == v \div W
  <2>1. v \in Nat /\ v < u * W /\ q \in Nat /\ v % W \in Index /\ v = q * W + (v % W)
    BY <1>1, Numbers, Division
  <2>2. ~(u <= q)
    <3>1. u <= q => u * W <= q * W
      BY <1>1, <2>1, Smaller
    <3>2. q * W \in Nat /\ u * W \in Nat
      BY <1>1, <2>1, Smaller
    <3> HIDE DEF q, u
    <3> QED BY <2>1, <3>1, <3>2, Numbers DEF Index
  <2> QED BY <1>1, <2>1, <2>2
<1>4. ASSUME NEW k \in UserPages .. W * W - 1 PROVE k \div W \in u .. W - 1 /\ k \in Nat
  <2> DEFINE q == k \div W
  <2>0. W * W \in Nat
    BY Numbers
  <2>1. k \in Nat /\ u * W <= k /\ k < W * W /\ q \in Nat /\ k % W \in Index
        /\ k = q * W + (k % W)
    BY <1>1, <2>0, Numbers, Division
  <2>2. ~(q < u)
    <3>1. q < u => q * W + W <= u * W
      BY <1>1, <2>1, Smaller
    <3>2. q * W \in Nat /\ u * W \in Nat
      BY <1>1, <2>1, Smaller
    <3> HIDE DEF q, u
    <3> QED BY <2>1, <3>1, <3>2, Numbers DEF Index
  <2>3. ~(W <= q)
    <3>1. W <= q => W * W <= q * W
      BY <2>1, Numbers, Smaller
    <3>2. q * W \in Nat
      BY <1>1, <2>1, Smaller
    <3> HIDE DEF q, u
    <3> QED BY <2>0, <2>1, <3>1, <3>2, Numbers DEF Index
  <2> QED BY <1>1, <2>1, <2>2, <2>3, Numbers
<1>5. \A i \in DOMAIN Segments : Segments[i] \in UserPages .. W * W - 1
  BY AddressSpaceAssumption
<1>6. kas \in Page
  BY Numbers DEF kas, Page
<1>7. UserIndex = 0 .. u - 1 /\ KernelIndex = u .. W - 1
  BY DEF UserIndex, KernelIndex
<1> HIDE DEF u
<1>8. /\ UserIndex \subseteq Index /\ KernelIndex \subseteq Index /\ Index \subseteq Nat
      /\ UserIndex \cap KernelIndex = {} /\ Index = UserIndex \cup KernelIndex
  BY <1>1, <1>2, <1>7, Numbers DEF Index
<1> QED BY <1>3, <1>4, <1>5, <1>6, <1>7, <1>8, Numbers DEF kas

Structure(r) == r[1] \in {"directory", "table"}

LEMMA Structures ==
  /\ Structure(Directory) /\ ~Structure(Free)
  /\ \A d, i : Structure(Table(d, i))
  /\ \A d, i, j : ~Structure(Data(d, i, j))
BY DEF Structure, Directory, Free, Table, Data

LEMMA Sets ==
  /\ UserIndex \subseteq Index /\ KernelIndex \subseteq Index /\ Index \subseteq Nat
  /\ UserIndex \cap KernelIndex = {} /\ 0 \in Index
  /\ Page \subseteq Nat /\ kas \in Page /\ \A x \in Page : x >= HeapStart /\ x < HeapEnd
BY Indexes, Numbers DEF Page, Index

(* Words are written where there is no directory and no table.             *)
LEMMA DataGood ==
  ASSUME NEW m, NEW g, Good(m, g), NEW n \in Mem, n.pf >= m.pf, n.pf <= HeapEnd,
         \A y \in Page, o \in Index : n.mem[Loc(y, o)] \in Known(n.pf),
         \A y \in Page, o \in Index :
           Structure(g[y]) => n.mem[Loc(y, o)] = m.mem[Loc(y, o)]
  PROVE  Good(n, g)
<1>1. /\ m \in Mem /\ m.pf > HeapStart /\ m.pf \in Nat /\ n.pf \in Nat
      /\ Roles(m, g) /\ KernelEntries(m, g) /\ UserEntries(m, g)
      /\ \A k \in Range(Segments) : KernelAt(m, k)
  BY DEF Good, Tidy, Mem
<1>2. g[kas] = Directory /\ kas \in Page /\ UserIndex \subseteq Index
      /\ KernelIndex \subseteq Index /\ Index \subseteq Nat /\ Page \subseteq Nat
  BY <1>1, Sets DEF Roles
<1>3. \A y \in Page, o \in Index :
        g[y] = Directory => n.mem[Loc(y, o)] = m.mem[Loc(y, o)]
  BY Structures
<1>4. \A y \in Page, o \in Index, d, i \in Nat :
        g[y] = Table(d, i) => n.mem[Loc(y, o)] = m.mem[Loc(y, o)]
  BY Structures
<1>5. Roles(n, g)
  <2>1. ASSUME NEW x \in Nat, x < HeapStart \/ x >= n.pf PROVE g[x] = Free
    BY <1>1, <2>1, Numbers DEF Roles
  <2> QED BY <1>1, <2>1 DEF Roles
<1>6. KernelEntries(n, g)
  BY <1>1, <1>2, <1>3 DEF KernelEntries
<1>7. UserEntries(n, g)
  <2> SUFFICES ASSUME NEW y \in Page, NEW k \in UserIndex, g[y] = Directory,
                      n.mem[Loc(y, k)] # Zero
               PROVE  LET f == n.mem[Loc(y, k)]
                      IN  /\ f = Pte(f[2]) /\ f[2] \in Page /\ g[f[2]] = Table(y, k)
                          /\ \A l \in Index :
                               LET w == n.mem[Loc(f[2], l)]
                               IN  w # Zero => /\ w = Pte(w[2]) /\ w[2] \in Page
                                               /\ g[w[2]] = Data(y, k, l)
    BY DEF UserEntries
  <2> DEFINE f == m.mem[Loc(y, k)]
  <2>1. n.mem[Loc(y, k)] = f
    BY <1>2, <1>3
  <2>2. /\ f = Pte(f[2]) /\ f[2] \in Page /\ g[f[2]] = Table(y, k)
        /\ \A l \in Index :
             LET w == m.mem[Loc(f[2], l)]
             IN  w # Zero => w = Pte(w[2]) /\ w[2] \in Page /\ g[w[2]] = Data(y, k, l)
    BY <1>1, <2>1 DEF UserEntries
  <2> HIDE DEF f
  <2>3. \A l \in Index : n.mem[Loc(f[2], l)] = m.mem[Loc(f[2], l)]
    <3> DEFINE x == f[2]
    <3>1. x \in Page /\ g[x] = Table(y, k) /\ y \in Nat /\ k \in Nat
      BY <1>2, <2>2
    <3> HIDE DEF x
    <3>2. \A l \in Index : n.mem[Loc(x, l)] = m.mem[Loc(x, l)]
      BY <1>4, <3>1
    <3> QED BY <3>2 DEF x
  <2> QED BY <2>1, <2>2, <2>3
<1>8. ASSUME NEW k \in Range(Segments) PROVE KernelAt(n, k)
  <2>1. k \div W \in KernelIndex /\ k % W \in Index
    BY Indexes, Division DEF Range
  <2> DEFINE f == m.mem[Loc(kas, k \div W)]
  <2>2. n.mem[Loc(kas, k \div W)] = f
    BY <1>2, <1>3, <2>1
  <2>3. f # Zero /\ f[2] \in Page /\ g[f[2]] = Table(kas, k \div W)
    BY <1>1, <2>1 DEF KernelAt, KernelEntries
  <2>4. n.mem[Loc(f[2], k % W)] = m.mem[Loc(f[2], k % W)]
    BY <1>2, <1>4, <2>1, <2>3
  <2> HIDE DEF f
  <2> QED BY <1>1, <2>2, <2>3, <2>4 DEF KernelAt, f
<1> QED BY <1>1, <1>5, <1>6, <1>7, <1>8, Numbers DEF Good, Tidy

(* Roles are given once, and what directory d does not lead to stays.      *)
Later(g, h)      == \A x \in Nat : g[x] # Free => h[x] = g[x]
Reached(g, d, y) == y = d \/ \E i \in UserIndex : g[y] = Table(d, i)
Kept(m, n, g, d) == \A y \in Page, o \in Index :
                      g[y] # Free /\ ~Reached(g, d, y) => n.mem[Loc(y, o)] = m.mem[Loc(y, o)]

MapRole(m, g, d, va, pa) ==
  IF m.mem[Loc(d, va \div W)] = Zero
    THEN [g EXCEPT ![m.pf] = Table(d, va \div W), ![pa] = Data(d, va \div W, 0)]
    ELSE [g EXCEPT ![pa] = Data(d, va \div W, va % W)]

LEMMA MapGood ==
  ASSUME NEW m, NEW g, Good(m, g), NEW d \in Page, g[d] = Directory, d # kas,
         NEW va \in 0 .. UserPages - 1, NEW pa \in Page, pa < m.pf, g[pa] = Free,
         map(m, d, va, pa).pf <= HeapEnd
  PROVE  LET n == map(m, d, va, pa)
             h == MapRole(m, g, d, va, pa)
         IN  /\ Good(n, h) /\ Later(g, h) /\ Kept(m, n, g, d)
             /\ \A x \in Nat : x # pa /\ x < m.pf => h[x] = g[x]
<1> DEFINE n == map(m, d, va, pa)
           h == MapRole(m, g, d, va, pa)
           i == va \div W
           j == va % W
           e == m.mem[Loc(d, i)]
           t == m.pf
<1>1. /\ m \in Mem /\ m.pf > HeapStart /\ m.pf \in Nat /\ m.pf <= HeapEnd
      /\ Roles(m, g) /\ KernelEntries(m, g) /\ UserEntries(m, g)
      /\ \A k \in Range(Segments) : KernelAt(m, k)
      /\ \A y \in Page, o \in Index : m.mem[Loc(y, o)] \in Known(m.pf)
  BY DEF Good, Tidy, Mem
<1>2. /\ g[kas] = Directory /\ kas \in Page /\ UserIndex \subseteq Index
      /\ KernelIndex \subseteq Index /\ Index \subseteq Nat /\ Page \subseteq Nat
      /\ UserIndex \cap KernelIndex = {}
      /\ i \in UserIndex /\ j \in Index /\ 0 \in Index /\ va \in Nat
      /\ \A x \in Page : x >= HeapStart /\ x \in Nat
      /\ \A x \in Nat : g[x] \in Role
      /\ \A x \in Nat : x < HeapStart \/ x >= m.pf => g[x] = Free
  <2>1. va \in Nat
    BY Numbers
  <2>2. i \in UserIndex /\ j \in Index
    BY <2>1, Indexes, Division
  <2>3. /\ g[kas] = Directory
        /\ \A x \in Nat : g[x] \in Role
        /\ \A x \in Nat : x < HeapStart \/ x >= m.pf => g[x] = Free
    BY <1>1 DEF Roles
  <2> QED BY <2>1, <2>2, <2>3, Sets
<1>m. IsMap(m, n, d, i, j, pa)
  BY <1>1, <1>2, MapIs
<1>3. g[t] = Free /\ t # pa /\ t # d /\ t # kas /\ pa # d /\ pa # kas
  BY <1>1, <1>2, RoleKinds
<1>4. Pte(pa)[2] = pa /\ Pte(t)[2] = t /\ Pte(pa) # Zero /\ Pte(t) # Zero
  BY <1>1, <1>2, WordKinds
<1> HIDE DEF i, j, t
<1>5. CASE e = Zero
  <2>1. /\ n \in Mem /\ n.pf = t + 1
        /\ \A y \in Page, o \in Index :
             n.mem[Loc(y, o)] = IF y = t /\ o = 0 THEN Pte(pa)
                                ELSE IF y = d /\ o = i THEN Pte(t)
                                ELSE IF y = t THEN Zero ELSE m.mem[Loc(y, o)]
    BY <1>5, <1>m DEF IsMap, t
  <2>2. t \in Page
    BY <1>1, <2>1, Numbers DEF Page, t
  <2>3. h \in [Nat -> Role] /\ \A x \in Nat :
          h[x] = IF x = pa THEN Data(d, i, 0) ELSE IF x = t THEN Table(d, i) ELSE g[x]
    BY <1>1, <1>2, <1>5, <2>2, RoleKinds DEF MapRole, Roles, i, t
  <2> HIDE DEF n, h
  <2>4. Later(g, h) /\ \A x \in Nat : x # pa /\ x < m.pf => h[x] = g[x]
    BY <1>1, <1>3, <2>3 DEF Later, t
  <2>5. \A y \in Page : h[y] = Directory => g[y] = Directory /\ y # t
    BY <1>2, <2>3, RoleKinds
  <2>6. Kept(m, n, g, d)
    BY <1>3, <2>1 DEF Kept, Reached
  <2>7. Roles(n, h)
    BY <1>1, <1>2, <1>3, <2>1, <2>3, <2>4, RoleKinds, Numbers DEF Roles, t
  <2>8. KernelEntries(n, h)
    <3>1. \A y \in Page, k \in KernelIndex :
            g[y] = Directory => n.mem[Loc(y, k)] = m.mem[Loc(y, k)]
      BY <1>2, <1>3, <2>1, RoleKinds
    <3>2. \A k \in UserIndex : n.mem[Loc(kas, k)] = m.mem[Loc(kas, k)]
      BY <1>2, <1>3, <2>1
    <3>3. \A y \in Nat, k \in Nat : g[y] = Table(kas, k) => h[y] = Table(kas, k)
      BY <1>2, <2>4, RoleKinds DEF Later
    <3>4. \A k \in UserIndex : n.mem[Loc(kas, k)] = Zero
      BY <1>1, <3>2 DEF KernelEntries
    <3>5. ASSUME NEW k \in KernelIndex, n.mem[Loc(kas, k)] # Zero
          PROVE  LET f == n.mem[Loc(kas, k)]
                 IN  f = Pte(f[2]) /\ f[2] \in Page /\ h[f[2]] = Table(kas, k)
      <4>1. n.mem[Loc(kas, k)] = m.mem[Loc(kas, k)]
        BY <1>2, <3>1
      <4> DEFINE f == m.mem[Loc(kas, k)]
      <4>2. f = Pte(f[2]) /\ f[2] \in Page /\ g[f[2]] = Table(kas, k)
        BY <1>1, <3>5, <4>1 DEF KernelEntries
      <4> HIDE DEF f
      <4>3. f[2] \in Nat /\ k \in Nat
        BY <4>2, Sets
      <4>4. h[f[2]] = Table(kas, k)
        BY <3>3, <4>2, <4>3
      <4> QED BY <4>1, <4>2, <4>4 DEF f
    <3>6. ASSUME NEW y \in Page, NEW k \in KernelIndex, h[y] = Directory
          PROVE  n.mem[Loc(y, k)] = n.mem[Loc(kas, k)]
      <4>1. g[y] = Directory /\ m.mem[Loc(y, k)] = m.mem[Loc(kas, k)]
        BY <1>1, <2>5, <3>6 DEF KernelEntries
      <4> QED BY <1>2, <3>1, <4>1
    <3> QED BY <3>4, <3>5, <3>6 DEF KernelEntries
  <2>9. UserEntries(n, h)
    <3> SUFFICES ASSUME NEW y \in Page, NEW k \in UserIndex, h[y] = Directory,
                        n.mem[Loc(y, k)] # Zero
                 PROVE  LET f == n.mem[Loc(y, k)]
                        IN  /\ f = Pte(f[2]) /\ f[2] \in Page /\ h[f[2]] = Table(y, k)
                            /\ \A l \in Index :
                                 LET w == n.mem[Loc(f[2], l)]
                                 IN  w # Zero => /\ w = Pte(w[2]) /\ w[2] \in Page
                                                 /\ h[w[2]] = Data(y, k, l)
      BY DEF UserEntries
    <3>1. g[y] = Directory /\ y # t /\ k \in Index /\ k \in Nat /\ y \in Nat
      BY <1>2, <2>5
    <3>2. CASE y = d /\ k = i
      <4>1. n.mem[Loc(y, k)] = Pte(t)
        BY <2>1, <3>1, <3>2
      <4>2. h[t] = Table(y, k) /\ h[pa] = Data(y, k, 0)
        BY <1>1, <1>2, <1>3, <2>3, <3>2 DEF t
      <4>3. \A l \in Index : n.mem[Loc(t, l)] = IF l = 0 THEN Pte(pa) ELSE Zero
        BY <1>3, <2>1, <2>2
      <4> QED BY <1>4, <2>2, <4>1, <4>2, <4>3
    <3>3. CASE ~(y = d /\ k = i)
      <4>1. n.mem[Loc(y, k)] = m.mem[Loc(y, k)]
        BY <2>1, <3>1, <3>3
      <4> DEFINE f == m.mem[Loc(y, k)]
      <4>2. /\ f = Pte(f[2]) /\ f[2] \in Page /\ g[f[2]] = Table(y, k)
            /\ \A l \in Index :
                 LET w == m.mem[Loc(f[2], l)]
                 IN  w # Zero => w = Pte(w[2]) /\ w[2] \in Page /\ g[w[2]] = Data(y, k, l)
        BY <1>1, <3>1, <4>1 DEF UserEntries
      <4> HIDE DEF f
      <4>3. f[2] # t /\ f[2] # d
        BY <1>3, <4>2, RoleKinds
      <4>6. h[f[2]] = Table(y, k)
        BY <1>2, <2>4, <4>2, RoleKinds DEF Later
      <4>4. \A l \in Index : n.mem[Loc(f[2], l)] = m.mem[Loc(f[2], l)]
        BY <2>1, <4>2, <4>3
      <4>5. \A x \in Page, l \in Index : g[x] = Data(y, k, l) => h[x] = Data(y, k, l)
        BY <1>2, <2>4, <3>1, RoleKinds DEF Later
      <4>7. \A l \in Index :
              LET w == n.mem[Loc(f[2], l)]
              IN  w # Zero => w = Pte(w[2]) /\ w[2] \in Page /\ h[w[2]] = Data(y, k, l)
        BY <4>2, <4>4, <4>5
      <4> QED BY <4>1, <4>2, <4>6, <4>7 DEF f
    <3> QED BY <3>2, <3>3
  <2>10. \A y \in Page, o \in Index : n.mem[Loc(y, o)] \in Known(n.pf)
    <3>1. Pte(pa) \in Known(n.pf) /\ Pte(t) \in Known(n.pf) /\ Zero \in Known(n.pf)
      BY <1>1, <1>2, <2>1, Numbers DEF Known, Pte, Zero, t
    <3>2. Known(m.pf) \subseteq Known(n.pf)
      BY <1>1, <2>1, Numbers DEF Known, t
    <3> QED BY <1>1, <2>1, <3>1, <3>2
  <2>11. ASSUME NEW k \in Range(Segments) PROVE KernelAt(n, k)
    <3>1. k \div W \in KernelIndex /\ k % W \in Index /\ KernelAt(m, k)
      BY <1>1, Indexes, Division DEF Range
    <3> DEFINE f == m.mem[Loc(kas, k \div W)]
    <3>2. n.mem[Loc(kas, k \div W)] = f
      BY <1>2, <1>3, <2>1, <3>1
    <3>3. f # Zero /\ f[2] \in Page /\ g[f[2]] = Table(kas, k \div W)
      BY <1>1, <3>1 DEF KernelAt, KernelEntries
    <3>4. f[2] # t /\ f[2] # d
      BY <1>2, <1>3, <3>1, <3>3, RoleKinds
    <3> HIDE DEF f
    <3>5. n.mem[Loc(f[2], k % W)] = m.mem[Loc(f[2], k % W)]
      BY <2>1, <3>1, <3>3, <3>4
    <3> QED BY <3>1, <3>2, <3>3, <3>5 DEF KernelAt, f
  <2>12. Good(n, h)
    <3>1. n.pf > HeapStart /\ n.pf <= HeapEnd
      BY <1>1, <2>1, Numbers DEF n, t
    <3> QED BY <2>1, <2>7, <2>8, <2>9, <2>10, <2>11, <3>1 DEF Good, Tidy
  <2> QED BY <2>4, <2>6, <2>12 DEF n, h
<1>6. CASE e # Zero
  <2> DEFINE x0 == e[2]
  <2>1. /\ n \in Mem /\ n.pf = t
        /\ \A y \in Page, o \in Index :
             n.mem[Loc(y, o)] = IF y = x0 /\ o = j THEN Pte(pa) ELSE m.mem[Loc(y, o)]
    BY <1>6, <1>m DEF IsMap, t
  <2>2. x0 \in Page /\ g[x0] = Table(d, i)
    BY <1>1, <1>2, <1>6 DEF UserEntries
  <2>3. h \in [Nat -> Role] /\ \A x \in Nat :
          h[x] = IF x = pa THEN Data(d, i, j) ELSE g[x]
    BY <1>1, <1>2, <1>6, <2>2, RoleKinds DEF MapRole, Roles, i, j
  <2> HIDE DEF n, h, x0
  <2>4. Later(g, h) /\ \A x \in Nat : x # pa /\ x < m.pf => h[x] = g[x]
    BY <1>1, <1>3, <2>3 DEF Later, t
  <2>5. \A y \in Page : h[y] = Directory => g[y] = Directory /\ y # x0
    BY <1>2, <2>2, <2>3, RoleKinds
  <2>6. Kept(m, n, g, d)
    BY <1>2, <1>3, <2>1, <2>2 DEF Kept, Reached
  <2>7. Roles(n, h)
    BY <1>1, <1>2, <1>3, <2>1, <2>3, <2>4, RoleKinds, Numbers DEF Roles, t
  <2>8. KernelEntries(n, h)
    <3>1. \A y \in Page, k \in Index :
            g[y] = Directory => n.mem[Loc(y, k)] = m.mem[Loc(y, k)]
      BY <1>2, <2>1, <2>2, RoleKinds
    <3>3. \A y \in Nat, k \in Nat : g[y] = Table(kas, k) => h[y] = Table(kas, k)
      BY <1>2, <2>4, RoleKinds DEF Later
    <3>4. \A k \in UserIndex : n.mem[Loc(kas, k)] = Zero
      BY <1>1, <1>2, <3>1 DEF KernelEntries
    <3>5. ASSUME NEW k \in KernelIndex, n.mem[Loc(kas, k)] # Zero
          PROVE  LET f == n.mem[Loc(kas, k)]
                 IN  f = Pte(f[2]) /\ f[2] \in Page /\ h[f[2]] = Table(kas, k)
      <4>1. n.mem[Loc(kas, k)] = m.mem[Loc(kas, k)]
        BY <1>2, <3>1
      <4> DEFINE f == m.mem[Loc(kas, k)]
      <4>2. f = Pte(f[2]) /\ f[2] \in Page /\ g[f[2]] = Table(kas, k)
        BY <1>1, <3>5, <4>1 DEF KernelEntries
      <4> HIDE DEF f
      <4>3. f[2] \in Nat /\ k \in Nat
        BY <4>2, Sets
      <4>4. h[f[2]] = Table(kas, k)
        BY <3>3, <4>2, <4>3
      <4> QED BY <4>1, <4>2, <4>4 DEF f
    <3>6. ASSUME NEW y \in Page, NEW k \in KernelIndex, h[y] = Directory
          PROVE  n.mem[Loc(y, k)] = n.mem[Loc(kas, k)]
      <4>1. g[y] = Directory /\ m.mem[Loc(y, k)] = m.mem[Loc(kas, k)]
        BY <1>1, <2>5, <3>6 DEF KernelEntries
      <4> QED BY <1>2, <3>1, <4>1
    <3> QED BY <3>4, <3>5, <3>6 DEF KernelEntries
  <2>9. UserEntries(n, h)
    <3> SUFFICES ASSUME NEW y \in Page, NEW k \in UserIndex, h[y] = Directory,
                        n.mem[Loc(y, k)] # Zero
                 PROVE  LET f == n.mem[Loc(y, k)]
                        IN  /\ f = Pte(f[2]) /\ f[2] \in Page /\ h[f[2]] = Table(y, k)
                            /\ \A l \in Index :
                                 LET w == n.mem[Loc(f[2], l)]
                                 IN  w # Zero => /\ w = Pte(w[2]) /\ w[2] \in Page
                                                 /\ h[w[2]] = Data(y, k, l)
      BY DEF UserEntries
    <3>1. g[y] = Directory /\ y # x0 /\ k \in Index /\ k \in Nat /\ y \in Nat
      BY <1>2, <2>5
    <3>2. n.mem[Loc(y, k)] = m.mem[Loc(y, k)]
      BY <2>1, <3>1
    <3> DEFINE f == m.mem[Loc(y, k)]
    <3>3. /\ f = Pte(f[2]) /\ f[2] \in Page /\ g[f[2]] = Table(y, k)
          /\ \A l \in Index :
               LET w == m.mem[Loc(f[2], l)]
               IN  w # Zero => w = Pte(w[2]) /\ w[2] \in Page /\ g[w[2]] = Data(y, k, l)
      BY <1>1, <3>1, <3>2 DEF UserEntries
    <3> HIDE DEF f
    <3>4. h[f[2]] = Table(y, k)
      BY <1>2, <2>4, <3>1, <3>3, RoleKinds DEF Later
    <3>5. \A x \in Page, l \in Index : g[x] = Data(y, k, l) => h[x] = Data(y, k, l)
      BY <1>2, <2>4, <3>1, RoleKinds DEF Later
    <3>6. ASSUME NEW l \in Index, n.mem[Loc(f[2], l)] # Zero
          PROVE  LET w == n.mem[Loc(f[2], l)]
                 IN  w = Pte(w[2]) /\ w[2] \in Page /\ h[w[2]] = Data(y, k, l)
      <4>1. CASE f[2] = x0 /\ l = j
        <5>1. n.mem[Loc(f[2], l)] = Pte(pa)
          BY <2>1, <3>3, <4>1
        <5>2. y = d /\ k = i
          BY <2>2, <3>3, <4>1, TableOnce
        <5>3. h[pa] = Data(y, k, l)
          BY <1>2, <2>3, <4>1, <5>2
        <5> QED BY <1>4, <5>1, <5>3
      <4>2. CASE ~(f[2] = x0 /\ l = j)
        <5>1. n.mem[Loc(f[2], l)] = m.mem[Loc(f[2], l)]
          BY <2>1, <3>3, <4>2
        <5> QED BY <3>3, <3>5, <3>6, <5>1
      <4> QED BY <4>1, <4>2
    <3> QED BY <3>2, <3>3, <3>4, <3>6 DEF f
  <2>10. \A y \in Page, o \in Index : n.mem[Loc(y, o)] \in Known(n.pf)
    <3>1. Pte(pa) \in Known(n.pf)
      BY <1>1, <1>2, <2>1, Numbers DEF Known, Pte, t
    <3> QED BY <1>1, <2>1, <3>1 DEF t
  <2>11. ASSUME NEW k \in Range(Segments) PROVE KernelAt(n, k)
    <3>1. k \div W \in KernelIndex /\ k % W \in Index /\ KernelAt(m, k)
      BY <1>1, Indexes, Division DEF Range
    <3> DEFINE f == m.mem[Loc(kas, k \div W)]
    <3>2. n.mem[Loc(kas, k \div W)] = f
      BY <1>2, <2>1, <2>2, <3>1, RoleKinds
    <3>3. f # Zero /\ f[2] \in Page /\ g[f[2]] = Table(kas, k \div W)
      BY <1>1, <3>1 DEF KernelAt, KernelEntries
    <3>4. f[2] # x0
      BY <1>2, <2>2, <3>1, <3>3, TableOnce
    <3> HIDE DEF f
    <3>5. n.mem[Loc(f[2], k % W)] = m.mem[Loc(f[2], k % W)]
      BY <2>1, <3>1, <3>3, <3>4
    <3> QED BY <3>1, <3>2, <3>3, <3>5 DEF KernelAt, f
  <2>12. Good(n, h)
    <3>1. n.pf > HeapStart /\ n.pf <= HeapEnd
      BY <1>1, <2>1, Numbers DEF n, t
    <3> QED BY <2>1, <2>7, <2>8, <2>9, <2>10, <2>11, <3>1 DEF Good, Tidy
  <2> QED BY <2>4, <2>6, <2>12 DEF n, h
<1> QED BY <1>5, <1>6

----------------------------------------------------------------------------
(* Induction over the rounds of a loop, from the least number principle.   *)
LEMMA LeastNumber ==
  ASSUME NEW S \in SUBSET Nat, S # {}
  PROVE  \E m \in S : \A k \in S : m <= k
<1> DEFINE R == {ss \in Nat \X Nat : ss[1] < ss[2]}
<1>1. IsWellFoundedOn(R, Nat)
  BY NatLessThanWellFounded DEF OpToRel
<1>2. \E x \in S : \A y \in S : ~ (<<y, x>> \in R)
  BY <1>1, WFMin
<1>3. PICK m \in S : \A y \in S : ~ (<<y, m>> \in R)
  BY <1>2
<1>4. ASSUME NEW k \in S PROVE m <= k
  <2>1. <<k, m>> \in Nat \X Nat /\ <<k, m>>[1] = k /\ <<k, m>>[2] = m
    OBVIOUS
  <2>2. ~(k < m)
    BY <1>3, <2>1
  <2> QED BY <2>2
<1> QED BY <1>4

LEMMA UpTo ==
  ASSUME NEW n \in Nat, NEW G, 0 \in G, \A i \in 1 .. n : i - 1 \in G => i \in G
  PROVE  \A i \in 0 .. n : i \in G
<1>1. SUFFICES ASSUME (0 .. n) \ G # {} PROVE FALSE
  OBVIOUS
<1>2. PICK m \in (0 .. n) \ G : \A k \in (0 .. n) \ G : m <= k
  <2>1. (0 .. n) \ G \in SUBSET Nat
    OBVIOUS
  <2> QED BY <1>1, <2>1, LeastNumber
<1>3. m \in 1 .. n /\ m - 1 \in 0 .. n /\ ~(m <= m - 1)
  BY <1>2
<1> QED BY <1>2, <1>3

LEMMA Same ==
  ASSUME NEW n \in Nat, NEW r, NEW s, r[0] = s[0],
         \A i \in 1 .. n : r[i - 1] = s[i - 1] => r[i] = s[i]
  PROVE  \A i \in 0 .. n : r[i] = s[i]
<1> DEFINE G == {i \in 0 .. n : r[i] = s[i]}
<1>1. 0 \in G /\ \A i \in 1 .. n : i - 1 \in G => i \in G
  OBVIOUS
<1> HIDE DEF G
<1>2. \A i \in 0 .. n : i \in G
  BY <1>1, UpTo
<1> QED BY <1>2 DEF G

LEMMA Rising ==
  ASSUME NEW n \in Nat, NEW p \in [0 .. n -> Nat], \A i \in 1 .. n : p[i - 1] <= p[i]
  PROVE  \A i \in 0 .. n : p[0] <= p[i] /\ p[i] <= p[n]
<1> DEFINE G == {i \in 0 .. n : p[0] <= p[i]}
           H == {i \in 0 .. n : p[n - i] <= p[n]}
<1>0. \A i \in 0 .. n : p[i] \in Nat
  OBVIOUS
<1>1. 0 \in G /\ \A i \in 1 .. n : i - 1 \in G => i \in G
  <2>1. 0 \in 0 .. n
    OBVIOUS
  <2>2. ASSUME NEW i \in 1 .. n, i - 1 \in G PROVE i \in G
    <3>1. i \in 0 .. n /\ i - 1 \in 0 .. n /\ p[0] <= p[i - 1] /\ p[i - 1] <= p[i]
      BY <2>2
    <3>2. p[0] \in Nat /\ p[i - 1] \in Nat /\ p[i] \in Nat
      BY <1>0, <2>1, <3>1
    <3> QED BY <3>1, <3>2
  <2> QED BY <1>0, <2>1, <2>2
<1>2. 0 \in H /\ \A i \in 1 .. n : i - 1 \in H => i \in H
  <2>1. 0 \in 0 .. n /\ n \in 0 .. n /\ n - 0 = n
    OBVIOUS
  <2>2. ASSUME NEW i \in 1 .. n, i - 1 \in H PROVE i \in H
    <3>1. /\ i \in 0 .. n /\ n - i \in 0 .. n /\ n - (i - 1) \in 1 .. n
          /\ n - (i - 1) \in 0 .. n /\ (n - (i - 1)) - 1 = n - i
      OBVIOUS
    <3>2. p[n - (i - 1)] <= p[n]
      BY <2>2
    <3>3. p[n - i] <= p[n - (i - 1)]
      BY <3>1
    <3>4. p[n] \in Nat /\ p[n - i] \in Nat /\ p[n - (i - 1)] \in Nat
      BY <1>0, <2>1, <3>1
    <3>5. p[n - i] <= p[n]
      BY <3>2, <3>3, <3>4
    <3> QED BY <3>1, <3>5
  <2> QED BY <1>0, <2>1, <2>2
<1>3. (\A i \in 0 .. n : i \in G) /\ (\A i \in 0 .. n : i \in H)
  <2> HIDE DEF G, H
  <2> QED BY <1>1, <1>2, UpTo
<1>4. ASSUME NEW i \in 0 .. n PROVE p[i] <= p[n]
  <2>1. n - i \in 0 .. n /\ n - (n - i) = i
    OBVIOUS
  <2>2. n - i \in H
    BY <1>3, <2>1
  <2> QED BY <2>1, <2>2
<1> QED BY <1>3, <1>4

(* The recursive function that a loop is: it exists if a round, f, stays   *)
(* in a set X of states.                                                   *)
Rounds(X, x, f, k, r) ==
  r \in [0 .. k -> X] /\ r[0] = x /\ \A i \in 1 .. k : r[i] = f[<<r[i - 1], i>>]

LEMMA Loop ==
  ASSUME NEW X, NEW n \in Nat, NEW x \in X, NEW f \in [X \X (1 .. n) -> X]
  PROVE  \E r : Rounds(X, x, f, n, r)
<1> DEFINE G == {k \in 0 .. n : \E r : Rounds(X, x, f, k, r)}
<1>1. 0 \in G
  <2>1. Rounds(X, x, f, 0, [i \in 0 .. 0 |-> x])
    BY DEF Rounds
  <2> QED BY <2>1
<1>2. ASSUME NEW k \in 1 .. n, k - 1 \in G PROVE k \in G
  <2>1. PICK r : Rounds(X, x, f, k - 1, r)
    BY <1>2
  <2> DEFINE s == [i \in 0 .. k |-> IF i = k THEN f[<<r[k - 1], k>>] ELSE r[i]]
  <2>2. r[k - 1] \in X /\ f[<<r[k - 1], k>>] \in X
    BY <2>1 DEF Rounds
  <2>3. s \in [0 .. k -> X] /\ s[0] = x
    BY <2>1, <2>2 DEF Rounds
  <2>4. ASSUME NEW i \in 1 .. k PROVE s[i] = f[<<s[i - 1], i>>]
    <3>1. i \in 0 .. k /\ i - 1 \in 0 .. k /\ i - 1 # k /\ s[i - 1] = r[i - 1]
      OBVIOUS
    <3>2. CASE i = k
      BY <3>1, <3>2
    <3>3. CASE i # k
      BY <2>1, <3>1, <3>3 DEF Rounds
    <3> QED BY <3>2, <3>3
  <2>5. Rounds(X, x, f, k, s)
    BY <2>3, <2>4 DEF Rounds
  <2> QED BY <2>5
<1>3. \A k \in 0 .. n : k \in G
  <2> HIDE DEF G
  <2> QED BY <1>1, <1>2, UpTo
<1> QED BY <1>3

----------------------------------------------------------------------------
(* protect(): a new directory.                                             *)
LEMMA ProtectIs ==
  ASSUME NEW m \in Mem
  PROVE  /\ protect(m) \in Mem /\ protect(m).pf = m.pf + 1
         /\ \A y \in Page, o \in Index :
              protect(m).mem[Loc(y, o)] =
                IF y = m.pf THEN m.mem[Loc(kas, o)] ELSE m.mem[Loc(y, o)]
<1> DEFINE words == [i \in 1 .. W |-> m.mem[kas * W + i - 1]]
           a     == pg_alloc(m)
           w     == Write(a.mem, m.pf * W, words)
<1>1. m.mem \in Words /\ m.pf \in Nat /\ W \in Nat /\ kas \in Page /\ kas * W \in Nat
  BY Numbers, Sets, Smaller DEF Mem
<1>2. a \in Mem /\ a.pf = m.pf + 1 /\ a.mem \in Words
      /\ \A y \in Page, o \in Index :
           a.mem[Loc(y, o)] = IF y = m.pf THEN Zero ELSE m.mem[Loc(y, o)]
  BY PgAllocIs DEF Mem
<1>3. \A o \in Index : words[o + 1] = m.mem[Loc(kas, o)] /\ o + 1 \in 1 .. W
  BY <1>1 DEF Index, Loc
<1>4. words \in Seq(AnyWord) /\ Len(words) = W
  <2>1. ASSUME NEW i \in 1 .. W PROVE m.mem[kas * W + i - 1] \in AnyWord
    <3>1. i - 1 \in Index /\ Loc(kas, i - 1) = kas * W + i - 1
      BY <1>1 DEF Index, Loc
    <3>2. Loc(kas, i - 1) \in PhysAddr
      BY <1>1, <3>1, Places
    <3> QED BY <1>1, <3>1, <3>2 DEF Words
  <2> QED BY <1>1, <2>1
<1> HIDE DEF words
<1>5. w \in Words /\ \A y \in Page, o \in Index :
        w[Loc(y, o)] = IF y = m.pf THEN words[o + 1] ELSE a.mem[Loc(y, o)]
  <2> DEFINE b == a.mem
             x == m.pf
  <2>1. b \in Words /\ x \in Nat
    BY <1>1, <1>2
  <2> HIDE DEF a, b, x
  <2>2. /\ Write(b, x * W, words) \in Words
        /\ \A y \in Page, o \in Index :
             Write(b, x * W, words)[Loc(y, o)] = IF y = x THEN words[o + 1] ELSE b[Loc(y, o)]
    BY <1>4, <2>1, PageWriteIs
  <2> QED BY <2>2 DEF b, x
<1>6. protect(m) = [mem |-> w, pf |-> m.pf + 1]
  <2>1. protect(m) = [a EXCEPT !.mem = w]
    BY DEF protect, words
  <2> HIDE DEF a, w
  <2> QED BY <1>2, <2>1 DEF Mem
<1> HIDE DEF w, a
<1> QED BY <1>1, <1>2, <1>3, <1>5, <1>6 DEF Mem

LEMMA ProtectGood ==
  ASSUME NEW m, NEW g, Good(m, g), m.pf < HeapEnd
  PROVE  LET n == protect(m)
             h == [g EXCEPT ![m.pf] = Directory]
         IN  /\ Good(n, h) /\ Later(g, h) /\ Kept(m, n, g, m.pf)
             /\ m.pf \in Page /\ m.pf # kas /\ h[m.pf] = Directory
             /\ \A x \in Nat : x # m.pf => h[x] = g[x]
             /\ \A i \in UserIndex : n.mem[Loc(m.pf, i)] = Zero
<1> DEFINE n == protect(m)
           h == [g EXCEPT ![m.pf] = Directory]
           t == m.pf
<1>1. /\ m \in Mem /\ m.pf > HeapStart /\ m.pf \in Nat
      /\ Roles(m, g) /\ KernelEntries(m, g) /\ UserEntries(m, g)
      /\ \A k \in Range(Segments) : KernelAt(m, k)
      /\ \A y \in Page, o \in Index : m.mem[Loc(y, o)] \in Known(m.pf)
  BY DEF Good, Tidy, Mem
<1>2. /\ g \in [Nat -> Role] /\ g[kas] = Directory /\ g[t] = Free
      /\ \A x \in Nat : x < HeapStart \/ x >= t => g[x] = Free
  BY <1>1 DEF Roles
<1>3. t \in Page /\ t # kas /\ t \in Nat /\ kas \in Nat
  BY <1>1, <1>2, RoleKinds, Sets, Numbers DEF Page
<1>4. /\ n \in Mem /\ n.pf = t + 1
      /\ \A y \in Page, o \in Index :
           n.mem[Loc(y, o)] = IF y = t THEN m.mem[Loc(kas, o)] ELSE m.mem[Loc(y, o)]
  BY <1>1, ProtectIs
<1>5. h \in [Nat -> Role] /\ \A x \in Nat : h[x] = IF x = t THEN Directory ELSE g[x]
  BY <1>2, <1>3, RoleKinds
<1> HIDE DEF n, h, t
<1>6. Later(g, h) /\ Kept(m, n, g, t)
  BY <1>2, <1>4, <1>5 DEF Later, Kept, Reached
<1>7. Roles(n, h)
  BY <1>1, <1>2, <1>3, <1>4, <1>5, Numbers DEF Roles
<1>8. \A i \in UserIndex : n.mem[Loc(t, i)] = Zero /\ n.mem[Loc(kas, i)] = Zero
  BY <1>1, <1>3, <1>4, Sets DEF KernelEntries
<1>9. KernelEntries(n, h)
  <2>1. \A k \in KernelIndex : n.mem[Loc(kas, k)] = m.mem[Loc(kas, k)]
    BY <1>3, <1>4, Sets
  <2>2. ASSUME NEW k \in KernelIndex, n.mem[Loc(kas, k)] # Zero
        PROVE  LET f == n.mem[Loc(kas, k)]
               IN  f = Pte(f[2]) /\ f[2] \in Page /\ h[f[2]] = Table(kas, k)
    <3>1. LET f == m.mem[Loc(kas, k)]
          IN  f = Pte(f[2]) /\ f[2] \in Page /\ g[f[2]] = Table(kas, k)
      BY <1>1, <2>1, <2>2 DEF KernelEntries
    <3> QED BY <1>2, <1>5, <2>1, <3>1, RoleKinds, Sets
  <2>3. ASSUME NEW y \in Page, NEW k \in KernelIndex, h[y] = Directory
        PROVE  n.mem[Loc(y, k)] = n.mem[Loc(kas, k)]
    <3>1. y = t \/ (y # t /\ g[y] = Directory)
      BY <1>5, <2>3, Sets
    <3>2. g[y] = Directory => m.mem[Loc(y, k)] = m.mem[Loc(kas, k)]
      BY <1>1 DEF KernelEntries
    <3> QED BY <1>4, <2>1, <3>1, <3>2, Sets
  <2> QED BY <1>8, <2>2, <2>3 DEF KernelEntries
<1>10. UserEntries(n, h)
  <2> SUFFICES ASSUME NEW y \in Page, NEW k \in UserIndex, h[y] = Directory,
                      n.mem[Loc(y, k)] # Zero
               PROVE  LET f == n.mem[Loc(y, k)]
                      IN  /\ f = Pte(f[2]) /\ f[2] \in Page /\ h[f[2]] = Table(y, k)
                          /\ \A l \in Index :
                               LET w == n.mem[Loc(f[2], l)]
                               IN  w # Zero => /\ w = Pte(w[2]) /\ w[2] \in Page
                                               /\ h[w[2]] = Data(y, k, l)
    BY DEF UserEntries
  <2>1. y # t /\ g[y] = Directory
    BY <1>5, <1>8, Sets
  <2> DEFINE f == m.mem[Loc(y, k)]
  <2>2. n.mem[Loc(y, k)] = f
    BY <1>4, <2>1, Sets
  <2>3. /\ f = Pte(f[2]) /\ f[2] \in Page /\ g[f[2]] = Table(y, k)
        /\ \A l \in Index :
             LET w == m.mem[Loc(f[2], l)]
             IN  w # Zero => w = Pte(w[2]) /\ w[2] \in Page /\ g[w[2]] = Data(y, k, l)
    BY <1>1, <2>1, <2>2 DEF UserEntries
  <2> HIDE DEF f
  <2>4. f[2] # t /\ h[f[2]] = Table(y, k)
    BY <1>2, <1>5, <2>3, RoleKinds, Sets
  <2>5. \A l \in Index : n.mem[Loc(f[2], l)] = m.mem[Loc(f[2], l)]
    BY <1>4, <2>3, <2>4
  <2>6. \A x \in Page, l \in Index : g[x] = Data(y, k, l) => h[x] = Data(y, k, l)
    BY <1>2, <1>5, RoleKinds, Sets
  <2> QED BY <2>2, <2>3, <2>4, <2>5, <2>6
<1>11. ASSUME NEW k \in Range(Segments) PROVE KernelAt(n, k)
  <2>1. k \div W \in KernelIndex /\ k % W \in Index /\ KernelAt(m, k)
    BY <1>1, Indexes, Division DEF Range
  <2> DEFINE f == m.mem[Loc(kas, k \div W)]
  <2>2. n.mem[Loc(kas, k \div W)] = f
    BY <1>3, <1>4, <2>1, Sets
  <2>3. f # Zero /\ f[2] \in Page /\ g[f[2]] = Table(kas, k \div W)
    BY <1>1, <2>1 DEF KernelAt, KernelEntries
  <2>4. f[2] # t
    BY <1>2, <2>3, RoleKinds
  <2> HIDE DEF f
  <2>5. n.mem[Loc(f[2], k % W)] = m.mem[Loc(f[2], k % W)]
    BY <1>4, <2>1, <2>3, <2>4
  <2> QED BY <2>1, <2>2, <2>3, <2>5 DEF KernelAt, f
<1>12. \A y \in Page, o \in Index : n.mem[Loc(y, o)] \in Known(n.pf)
  <2>1. Known(m.pf) \subseteq Known(n.pf)
    BY <1>1, <1>4, Numbers DEF Known, t
  <2> QED BY <1>1, <1>4, <2>1, Sets
<1>13. Good(n, h)
  <2>1. n.pf > HeapStart /\ n.pf <= HeapEnd
    BY <1>1, <1>4, Numbers DEF t
  <2> QED BY <1>4, <1>7, <1>9, <1>10, <1>11, <1>12, <2>1 DEF Good, Tidy
<1> QED BY <1>3, <1>5, <1>6, <1>8, <1>13 DEF n, h, t

----------------------------------------------------------------------------
(* What a directory translates to.                                         *)
WalkOf(m, d, v) ==
  LET e == m.mem[Loc(d, v \div W)]
  IN  IF Valid(e) THEN m.mem[Loc(e[2], v % W)] ELSE NoWord

UserPage == 0 .. UserPages - 1

LEMMA UserPageIs ==
  ASSUME NEW v \in UserPage
  PROVE  v \in Nat /\ v \div W \in UserIndex /\ v \div W \in Index /\ v % W \in Index
<1>1. v \in Nat /\ v \in 0 .. UserPages - 1
  BY Numbers DEF UserPage
<1> QED BY <1>1, Indexes, Division, Sets

LEMMA SamePage ==
  ASSUME NEW v \in Nat, NEW u \in Nat, v \div W = u \div W, v % W = u % W
  PROVE  v = u
BY Split

(* map() changes one entry, and the others of its table if that is new.    *)
LEMMA MapWalks ==
  ASSUME NEW m, NEW g, Good(m, g), NEW d \in Page, g[d] = Directory, d # kas,
         NEW va \in UserPage, NEW pa \in Page, pa < m.pf, g[pa] = Free,
         map(m, d, va, pa).pf <= HeapEnd
  PROVE  LET n == map(m, d, va, pa)
         IN  /\ m.pf <= n.pf
             /\ \A y \in Page, o \in Index :
                  y < m.pf /\ ~Structure(g[y]) => n.mem[Loc(y, o)] = m.mem[Loc(y, o)]
             /\ \A v \in UserPage :
                  WalkOf(n, d, v) =
                    IF v \div W # va \div W THEN WalkOf(m, d, v)
                    ELSE IF m.mem[Loc(d, va \div W)] = Zero
                      THEN IF v % W = 0 THEN Pte(pa) ELSE Zero
                      ELSE IF v = va THEN Pte(pa) ELSE WalkOf(m, d, v)
<1> DEFINE n == map(m, d, va, pa)
           i == va \div W
           j == va % W
           e == m.mem[Loc(d, i)]
           t == m.pf
<1>1. /\ m \in Mem /\ m.pf > HeapStart /\ m.pf \in Nat
      /\ Roles(m, g) /\ UserEntries(m, g)
  BY DEF Good, Tidy, Mem
<1>2. /\ va \in Nat /\ i \in UserIndex /\ i \in Index /\ j \in Index
      /\ d \in Nat /\ pa \in Nat /\ 0 \in Index
      /\ \A x \in Nat : x < HeapStart \/ x >= m.pf => g[x] = Free
  BY <1>1, UserPageIs, Sets DEF Roles
<1>3. IsMap(m, n, d, i, j, pa)
  BY <1>1, <1>2, MapIs
<1>4. g[t] = Free /\ t # d /\ Pte(t)[2] = t /\ Valid(Pte(t)) /\ ~Valid(Zero)
  BY <1>1, <1>2, RoleKinds, WordKinds
<1>5. ASSUME NEW v \in UserPage
      PROVE  /\ v \div W \in UserIndex /\ v \div W \in Index /\ v % W \in Index
             /\ LET f == m.mem[Loc(d, v \div W)]
                IN  f # Zero => f = Pte(f[2]) /\ f[2] \in Page /\ g[f[2]] = Table(d, v \div W)
  BY <1>1, UserPageIs DEF UserEntries
<1>6. CASE e = Zero
  <2>1. /\ n.pf = t + 1 /\ t \in Page
        /\ \A y \in Page, o \in Index :
             n.mem[Loc(y, o)] = IF y = t /\ o = 0 THEN Pte(pa)
                                ELSE IF y = d /\ o = i THEN Pte(t)
                                ELSE IF y = t THEN Zero ELSE m.mem[Loc(y, o)]
    BY <1>1, <1>3, <1>6, Numbers DEF IsMap, Page
  <2> HIDE DEF n, i, j, t
  <2>2. ASSUME NEW y \in Page, NEW o \in Index, y < t, ~Structure(g[y])
        PROVE  n.mem[Loc(y, o)] = m.mem[Loc(y, o)]
    <3>1. y # t /\ y # d
      BY <2>2, Structures, Sets
    <3> QED BY <2>1, <3>1
  <2>3. ASSUME NEW v \in UserPage, v \div W # i
        PROVE  WalkOf(n, d, v) = WalkOf(m, d, v)
    <3> DEFINE f == m.mem[Loc(d, v \div W)]
    <3>1. n.mem[Loc(d, v \div W)] = f
      BY <1>4, <1>5, <2>1, <2>3
    <3>2. Valid(f) => f[2] \in Page /\ f[2] # t /\ f[2] # d
      BY <1>4, <1>5, RoleKinds
    <3>3. Valid(f) => n.mem[Loc(f[2], v % W)] = m.mem[Loc(f[2], v % W)]
      BY <1>5, <2>1, <3>2
    <3> HIDE DEF f
    <3> QED BY <3>1, <3>3 DEF WalkOf, f
  <2>4. ASSUME NEW v \in UserPage, v \div W = i
        PROVE  WalkOf(n, d, v) = IF v % W = 0 THEN Pte(pa) ELSE Zero
    <3>1. n.mem[Loc(d, v \div W)] = Pte(t)
      BY <1>2, <1>4, <2>1, <2>4
    <3>2. n.mem[Loc(t, v % W)] = IF v % W = 0 THEN Pte(pa) ELSE Zero
      BY <1>4, <1>5, <2>1
    <3> QED BY <1>4, <3>1, <3>2 DEF WalkOf
  <2>5. t <= n.pf
    BY <1>1, <2>1 DEF t
  <2> QED BY <1>6, <2>2, <2>3, <2>4, <2>5 DEF n, i, t
<1>7. CASE e # Zero
  <2> DEFINE x0 == e[2]
  <2>1. /\ n.pf = t
        /\ \A y \in Page, o \in Index :
             n.mem[Loc(y, o)] = IF y = x0 /\ o = j THEN Pte(pa) ELSE m.mem[Loc(y, o)]
    BY <1>3, <1>7 DEF IsMap
  <2>2. e = Pte(x0) /\ x0 \in Page /\ g[x0] = Table(d, i) /\ x0 # d /\ Valid(e)
    <3>1. e = Pte(x0) /\ x0 \in Page /\ g[x0] = Table(d, i)
      BY <1>2, <1>7, <1>5
    <3> QED BY <3>1, RoleKinds, WordKinds, Sets
  <2> HIDE DEF n, i, j, t, x0
  <2>3. ASSUME NEW y \in Page, NEW o \in Index, y < t, ~Structure(g[y])
        PROVE  n.mem[Loc(y, o)] = m.mem[Loc(y, o)]
    <3>1. y # x0
      BY <2>2, <2>3, Structures
    <3> QED BY <2>1, <3>1
  <2>4. ASSUME NEW v \in UserPage
        PROVE  WalkOf(n, d, v) = IF v = va THEN Pte(pa) ELSE WalkOf(m, d, v)
    <3> DEFINE f == m.mem[Loc(d, v \div W)]
    <3>1. n.mem[Loc(d, v \div W)] = f
      BY <1>5, <2>1, <2>2
    <3>2. CASE v = va
      <4>1. f = e /\ v % W = j
        BY <3>2 DEF i, j
      <4>2. n.mem[Loc(x0, j)] = Pte(pa)
        BY <1>2, <2>1, <2>2
      <4> HIDE DEF f
      <4> QED BY <2>2, <3>1, <3>2, <4>1, <4>2 DEF WalkOf, x0
    <3>3. CASE v # va
      <4>1. Valid(f) => f[2] \in Page /\ g[f[2]] = Table(d, v \div W)
        BY <1>4, <1>5
      <4>2. Valid(f) /\ f[2] = x0 => v \div W = i
        BY <2>2, <4>1, TableOnce
      <4>3. Valid(f) => ~(f[2] = x0 /\ v % W = j)
        BY <1>2, <3>3, <4>2, UserPageIs, SamePage DEF i, j
      <4>4. Valid(f) => n.mem[Loc(f[2], v % W)] = m.mem[Loc(f[2], v % W)]
        BY <1>5, <2>1, <4>1, <4>3
      <4> HIDE DEF f
      <4> QED BY <3>1, <3>3, <4>4 DEF WalkOf, f
    <3> QED BY <3>2, <3>3
  <2>5. t <= n.pf
    BY <1>1, <2>1 DEF t
  <2> QED BY <1>7, <2>3, <2>4, <2>5 DEF n, i, t
<1> QED BY <1>6, <1>7

----------------------------------------------------------------------------
(* What a program reads: the word at offset o of page v, where a directory *)
(* has a page.                                                             *)
At(m, d, v, o) == LET w == WalkOf(m, d, v)
                  IN  IF Valid(w) THEN m.mem[Loc(w[2], o)] ELSE NoWord

(* On the pages in P nothing has changed for the owner of directory d.     *)
Alike(m, n, d, P) ==
  \A v \in P : /\ Valid(WalkOf(n, d, v)) <=> Valid(WalkOf(m, d, v))
               /\ \A o \in Index : At(n, d, v, o) = At(m, d, v, o)

LEMMA AlikeOn ==
  ASSUME NEW m, NEW l, NEW n, NEW d, NEW P, NEW Q, NEW R \in SUBSET (P \cap Q),
         Alike(m, l, d, P), Alike(l, n, d, Q)
  PROVE  Alike(m, n, d, R)
BY DEF Alike

(* Where a process can write there is data.                                *)
LEMMA SeenIs ==
  ASSUME NEW m, NEW g, Good(m, g), NEW d \in Page, g[d] = Directory, NEW v \in UserPage,
         Valid(WalkOf(m, d, v))
  PROVE  LET w == WalkOf(m, d, v)
         IN  /\ d # kas /\ w = Pte(w[2]) /\ w[2] \in Page
             /\ g[w[2]] = Data(d, v \div W, v % W)
<1> DEFINE e == m.mem[Loc(d, v \div W)]
<1>1. v \div W \in UserIndex /\ v % W \in Index
  BY UserPageIs
<1>2. Valid(e) /\ WalkOf(m, d, v) = m.mem[Loc(e[2], v % W)]
  BY WordKinds DEF WalkOf
<1>3. e # Zero
  BY <1>2, WordKinds
<1>4. d # kas
  BY <1>1, <1>3 DEF Good, Tidy, KernelEntries
<1>5. LET w == m.mem[Loc(e[2], v % W)]
      IN  w # Zero => w = Pte(w[2]) /\ w[2] \in Page /\ g[w[2]] = Data(d, v \div W, v % W)
  BY <1>1, <1>3 DEF Good, Tidy, UserEntries
<1>6. WalkOf(m, d, v) # Zero
  BY WordKinds
<1> HIDE DEF e
<1> QED BY <1>2, <1>4, <1>5, <1>6

(* What is kept of the structures and of the data of d is read as before.  *)
LEMMA StillAlike ==
  ASSUME NEW m, NEW g, Good(m, g), NEW n, NEW d \in Page, g[d] = Directory,
         NEW P \in SUBSET UserPage,
         \A v \in P : WalkOf(n, d, v) = WalkOf(m, d, v),
         \A y \in Page, o \in Index :
           (\E v \in P : g[y] = Data(d, v \div W, v % W)) => n.mem[Loc(y, o)] = m.mem[Loc(y, o)]
  PROVE  Alike(m, n, d, P)
<1> SUFFICES ASSUME NEW v \in P, Valid(WalkOf(m, d, v)), NEW o \in Index
             PROVE  At(n, d, v, o) = At(m, d, v, o)
  BY DEF Alike, At
<1> DEFINE w == WalkOf(m, d, v)
<1>1. w[2] \in Page /\ g[w[2]] = Data(d, v \div W, v % W)
  BY SeenIs
<1> QED BY <1>1 DEF At

(* What one directory is led to is the same after an operation on another. *)
LEMMA OthersAlike ==
  ASSUME NEW m, NEW g, Good(m, g), NEW n, NEW d \in Page, g[d] \in {Free, Directory},
         Kept(m, n, g, d), NEW e \in Page, g[e] = Directory, e # d
  PROVE  Alike(m, n, e, UserPage)
<1>1. \A y \in Page, o \in Index :
        g[y] = Directory /\ y # d => n.mem[Loc(y, o)] = m.mem[Loc(y, o)]
  BY RoleKinds DEF Kept, Reached
<1>2. ASSUME NEW y \in Page, NEW o \in Index, NEW i, g[y] = Table(e, i)
      PROVE  n.mem[Loc(y, o)] = m.mem[Loc(y, o)]
  <2>1. g[y] # Free /\ y # d
    BY <1>2, RoleKinds
  <2>2. \A j : g[y] # Table(d, j)
    BY <1>2, TableOnce
  <2> QED BY <2>1, <2>2 DEF Kept, Reached
<1>3. ASSUME NEW y \in Page, NEW o \in Index, NEW i, NEW j, g[y] = Data(e, i, j)
      PROVE  n.mem[Loc(y, o)] = m.mem[Loc(y, o)]
  <2>1. g[y] # Free /\ y # d
    BY <1>3, RoleKinds
  <2>2. \A k : g[y] # Table(d, k)
    BY <1>3, NotBoth
  <2> QED BY <2>1, <2>2 DEF Kept, Reached
<1>4. ASSUME NEW v \in UserPage PROVE WalkOf(n, e, v) = WalkOf(m, e, v)
  <2> DEFINE f == m.mem[Loc(e, v \div W)]
  <2>1. v \div W \in UserIndex /\ v \div W \in Index /\ v % W \in Index
    BY UserPageIs
  <2>2. n.mem[Loc(e, v \div W)] = f
    BY <1>1, <2>1
  <2>3. Valid(f) => f[2] \in Page /\ g[f[2]] = Table(e, v \div W)
    BY <2>1, WordKinds DEF Good, Tidy, UserEntries
  <2>4. Valid(f) => n.mem[Loc(f[2], v % W)] = m.mem[Loc(f[2], v % W)]
    BY <1>2, <2>1, <2>3
  <2> HIDE DEF f
  <2> QED BY <2>2, <2>4 DEF WalkOf, f
<1>5. \A y \in Page, o \in Index :
        (\E v \in UserPage : g[y] = Data(e, v \div W, v % W))
          => n.mem[Loc(y, o)] = m.mem[Loc(y, o)]
  BY <1>3
<1>6. UserPage \in SUBSET UserPage
  OBVIOUS
<1> QED BY <1>4, <1>5, <1>6, StillAlike

(* map() of a page whose table is there or that is the first of its table  *)
(* changes this page only.                                                 *)
MapsOnly(m, n, d, va, pa) ==
  /\ WalkOf(n, d, va) = Pte(pa)
  /\ Alike(m, n, d, UserPage \ {va})
  /\ \A v \in UserPage \ {va} : Valid(WalkOf(m, d, v)) => WalkOf(n, d, v) = WalkOf(m, d, v)

LEMMA MapAlike ==
  ASSUME NEW m, NEW g, Good(m, g), NEW d \in Page, g[d] = Directory, d # kas,
         NEW va \in UserPage, NEW pa \in Page, pa < m.pf, g[pa] = Free,
         va % W = 0 \/ m.mem[Loc(d, va \div W)] # Zero,
         map(m, d, va, pa).pf <= HeapEnd
  PROVE  MapsOnly(m, map(m, d, va, pa), d, va, pa)
<1> DEFINE n == map(m, d, va, pa)
           e == m.mem[Loc(d, va \div W)]
<1>1. /\ \A y \in Page, o \in Index :
           y < m.pf /\ ~Structure(g[y]) => n.mem[Loc(y, o)] = m.mem[Loc(y, o)]
      /\ \A v \in UserPage :
           WalkOf(n, d, v) =
             IF v \div W # va \div W THEN WalkOf(m, d, v)
             ELSE IF e = Zero THEN IF v % W = 0 THEN Pte(pa) ELSE Zero
                              ELSE IF v = va THEN Pte(pa) ELSE WalkOf(m, d, v)
  BY MapWalks
<1> HIDE DEF n, e
<1>2. WalkOf(n, d, va) = Pte(pa)
  BY <1>1 DEF e
<1>3. ASSUME NEW v \in UserPage, v # va
      PROVE  \/ WalkOf(n, d, v) = WalkOf(m, d, v)
             \/ ~Valid(WalkOf(n, d, v)) /\ ~Valid(WalkOf(m, d, v))
  <2>1. CASE v \div W = va \div W /\ e = Zero
    <3>1. ~Valid(WalkOf(m, d, v))
      BY <2>1, WordKinds DEF WalkOf, e
    <3>2. v % W # 0
      <4>1. v % W # va % W
        BY <1>3, <2>1, UserPageIs, SamePage
      <4> QED BY <2>1, <4>1 DEF e
    <3> QED BY <1>1, <2>1, <3>1, <3>2, WordKinds
  <2>2. CASE ~(v \div W = va \div W /\ e = Zero)
    BY <1>1, <1>3, <2>2
  <2> QED BY <2>1, <2>2
<1>4. ASSUME NEW y \in Page, NEW o \in Index, NEW i, NEW j, g[y] = Data(d, i, j)
      PROVE  n.mem[Loc(y, o)] = m.mem[Loc(y, o)]
  <2>1. ~Structure(g[y]) /\ g[y] # Free /\ y \in Nat /\ m.pf \in Nat
    BY <1>4, Structures, RoleKinds, Sets DEF Good, Tidy, Mem
  <2>2. y < m.pf
    BY <2>1 DEF Good, Tidy, Roles
  <2> QED BY <1>1, <2>1, <2>2
<1>5. ASSUME NEW v \in UserPage \ {va}
      PROVE  /\ Valid(WalkOf(n, d, v)) <=> Valid(WalkOf(m, d, v))
             /\ Valid(WalkOf(m, d, v)) => WalkOf(n, d, v) = WalkOf(m, d, v)
             /\ \A o \in Index : At(n, d, v, o) = At(m, d, v, o)
  <2>1. CASE ~Valid(WalkOf(m, d, v))
    BY <1>3, <2>1 DEF At
  <2>2. CASE Valid(WalkOf(m, d, v))
    <3> DEFINE w == WalkOf(m, d, v)
    <3>1. w[2] \in Page /\ g[w[2]] = Data(d, v \div W, v % W)
      BY <2>2, SeenIs
    <3>2. WalkOf(n, d, v) = w
      BY <1>3, <2>2
    <3> QED BY <1>4, <2>2, <3>1, <3>2 DEF At
  <2> QED BY <2>1, <2>2
<1> QED BY <1>2, <1>5 DEF MapsOnly, Alike, n

----------------------------------------------------------------------------
(* The user stack.                                                         *)
LEMMA NewPageIs ==
  ASSUME NEW m \in Mem, NEW k \in Nat
  PROVE  new_page(m, k) \in Mem /\ new_page(m, k).pf = m.pf + k
         /\ new_page(m, k).mem = m.mem
<1>1. new_page(m, k) = [mem |-> m.mem, pf |-> m.pf + k]
  BY DEF new_page, Mem
<1> QED BY <1>1 DEF Mem

StackRounds(m, d, s) ==
  /\ s \in [0 .. StackPages -> Mem] /\ s[0] = new_page(m, StackPages)
  /\ \A i \in 1 .. StackPages : s[i] = map(s[i - 1], d, StackFirst + i - 1, m.pf + i - 1)

LEMMA MapStackIs ==
  ASSUME NEW m \in Mem, NEW d \in Page
  PROVE  \E s : /\ StackRounds(m, d, s)
               /\ MapStack(m, d) =
                    [s[StackPages] EXCEPT !.mem[(m.pf + StackPages) * W - 1] = Args]
<1> DEFINE n == StackPages
           x == new_page(m, n)
           F == [z \in Mem \X (1 .. n) |-> map(z[1], d, StackFirst + z[2] - 1, m.pf + z[2] - 1)]
<1>1. n \in Nat /\ m.pf \in Nat /\ x \in Mem
  BY Numbers, NewPageIs DEF Mem
<1>2. ASSUME NEW l \in Mem, NEW i \in 1 .. n
      PROVE  map(l, d, StackFirst + i - 1, m.pf + i - 1) \in Mem
  <2>1. StackFirst + i - 1 \in UserPage /\ m.pf + i - 1 \in Nat
    BY <1>1, Numbers DEF UserPage, StackFirst
  <2> QED BY <2>1, UserPageIs, MapIs DEF IsMap
<1>3. F \in [Mem \X (1 .. n) -> Mem]
  BY <1>2
<1>4. PICK r : Rounds(Mem, x, F, n, r)
  <2> HIDE DEF x, F, n
  <2> QED BY <1>1, <1>3, Loop
<1>5. StackRounds(m, d, r)
  <2>1. ASSUME NEW i \in 1 .. n PROVE r[i] = map(r[i - 1], d, StackFirst + i - 1, m.pf + i - 1)
    <3>1. i - 1 \in 0 .. n /\ r[i - 1] \in Mem
      BY <1>1, <1>4 DEF Rounds
    <3> QED BY <1>4, <3>1 DEF Rounds
  <2> QED BY <1>4, <2>1 DEF Rounds, StackRounds
<1> DEFINE Is(f) == f = [i \in 0 .. StackPages |->
                           IF i = 0 THEN new_page(m, StackPages)
                           ELSE map(f[i - 1], d, StackFirst + i - 1, m.pf + i - 1)]
           f0 == CHOOSE f : Is(f)
<1>6. Is(r)
  BY <1>1, <1>5 DEF StackRounds
<1>7. Is(f0) /\ MapStack(m, d) =
                  [f0[StackPages] EXCEPT !.mem[(m.pf + StackPages) * W - 1] = Args]
  BY <1>6 DEF MapStack
<1> HIDE DEF f0
<1>8. f0[0] = x /\ \A i \in 1 .. n : f0[i] = map(f0[i - 1], d, StackFirst + i - 1, m.pf + i - 1)
  BY <1>1, <1>7
<1>9. f0[n] = r[n]
  <2>1. f0[0] = r[0] /\ \A i \in 1 .. n : f0[i - 1] = r[i - 1] => f0[i] = r[i]
    BY <1>5, <1>8 DEF StackRounds
  <2> HIDE DEF n
  <2> QED BY <1>1, <2>1, Same
<1> QED BY <1>5, <1>7, <1>9

LEMMA KeptOn ==
  ASSUME NEW m, NEW l, NEW n, NEW g, NEW h, NEW k, NEW d,
         Later(g, h), Later(h, k), Kept(m, l, g, d), Kept(l, n, h, d)
  PROVE  Later(g, k) /\ Kept(m, n, g, d)
<1>1. Later(g, k)
  BY DEF Later
<1>2. ASSUME NEW y \in Page, NEW o \in Index, g[y] # Free, ~Reached(g, d, y)
      PROVE  n.mem[Loc(y, o)] = m.mem[Loc(y, o)]
  <2>1. h[y] = g[y]
    BY <1>2, Sets DEF Later
  <2>2. ~Reached(h, d, y)
    BY <1>2, <2>1 DEF Reached
  <2> QED BY <1>2, <2>1, <2>2 DEF Kept
<1> QED BY <1>1, <1>2 DEF Kept

LEMMA KnownGrows ==
  ASSUME NEW a \in Nat, NEW b \in Nat, a <= b
  PROVE  Known(a) \subseteq Known(b)
BY Numbers DEF Known

(* The words of tables and directories say what is translated to what.     *)
LEMMA SameWalks ==
  ASSUME NEW m, NEW g, Good(m, g), NEW n,
         \A y \in Page, o \in Index :
           Structure(g[y]) => n.mem[Loc(y, o)] = m.mem[Loc(y, o)],
         NEW d \in Page, g[d] = Directory, NEW v \in UserPage
  PROVE  WalkOf(n, d, v) = WalkOf(m, d, v)
<1> DEFINE f == m.mem[Loc(d, v \div W)]
<1>1. n.mem[Loc(d, v \div W)] = f
  BY UserPageIs, Structures
<1>2. Valid(f) => f[2] \in Page /\ g[f[2]] = Table(d, v \div W)
  BY UserPageIs, WordKinds DEF Good, Tidy, UserEntries
<1>3. Valid(f) => n.mem[Loc(f[2], v % W)] = m.mem[Loc(f[2], v % W)]
  BY <1>2, UserPageIs, Structures
<1> HIDE DEF f
<1> QED BY <1>1, <1>3 DEF WalkOf, f

(* The pages map() gives entries for the stack: those of the stack and, as *)
(* a new table gets its entry at the start, the first of its table.        *)
OnStack(v) == v >= StackFirst \/ (v % W = 0 /\ v \div W = StackFirst \div W)

StackState(m, g, d, i, l, h) ==
  /\ Good(l, h) /\ Later(g, h) /\ Kept(m, l, g, d)
  /\ \A k \in i .. StackPages - 1 : h[m.pf + k] = Free
  /\ \A k \in 0 .. i - 1 : /\ ~Structure(h[m.pf + k])
                         /\ l.mem[Loc(d, (StackFirst + k) \div W)] # Zero
  /\ \A k \in 1 .. i - 1 : WalkOf(l, d, StackFirst + k) = Pte(m.pf + k)
  /\ \A v \in UserPage : Valid(WalkOf(l, d, v)) => Valid(WalkOf(m, d, v)) \/ OnStack(v)

LEMMA StackRound ==
  ASSUME NEW m, NEW g, Good(m, g), NEW d \in Page, g[d] = Directory, d # kas,
         NEW i \in 1 .. StackPages, NEW l, NEW h, StackState(m, g, d, i - 1, l, h),
         m.pf + StackPages <= l.pf,
         map(l, d, StackFirst + i - 1, m.pf + i - 1).pf <= HeapEnd
  PROVE  LET n == map(l, d, StackFirst + i - 1, m.pf + i - 1)
         IN  \E k : StackState(m, g, d, i, n, k)
<1> DEFINE va == StackFirst + i - 1
           pa == m.pf + i - 1
           n  == map(l, d, va, pa)
           r  == MapRole(l, h, d, va, pa)
<1>1. /\ m.pf \in Nat /\ m.pf > HeapStart /\ l.pf \in Nat /\ l.pf <= HeapEnd
      /\ Good(l, h) /\ Later(g, h) /\ Kept(m, l, g, d)
      /\ d \in Nat /\ StackPages \in Nat /\ i \in Nat /\ i - 1 \in 0 .. StackPages - 1
  BY Numbers, Sets DEF StackState, Good, Tidy, Mem
<1>2. pa \in Page /\ pa < l.pf /\ va \in UserPage /\ pa \in Nat /\ va \in Nat
  BY <1>1, Numbers DEF Page, UserPage, StackFirst
<1>3. h[d] = Directory /\ h[pa] = Free
  <2>1. h[d] = Directory
    BY <1>1, RoleKinds DEF Later
  <2>2. i - 1 \in (i - 1) .. StackPages - 1 /\ pa = m.pf + (i - 1)
    BY <1>1
  <2> QED BY <2>1, <2>2 DEF StackState
<1> HIDE DEF n, r
<1>4. /\ Good(n, r) /\ Later(h, r) /\ Kept(l, n, h, d)
      /\ \A x \in Nat : x # pa /\ x < l.pf => r[x] = h[x]
  BY <1>1, <1>2, <1>3, MapGood DEF n, r, UserPage
<1>5. Later(g, r) /\ Kept(m, n, g, d)
  BY <1>1, <1>4, KeptOn
<1>6. \A v \in UserPage :
        WalkOf(n, d, v) =
          IF v \div W # va \div W THEN WalkOf(l, d, v)
          ELSE IF l.mem[Loc(d, va \div W)] = Zero
            THEN IF v % W = 0 THEN Pte(pa) ELSE Zero
            ELSE IF v = va THEN Pte(pa) ELSE WalkOf(l, d, v)
  BY <1>1, <1>2, <1>3, MapWalks DEF n
<1>7. IsMap(l, n, d, va \div W, va % W, pa)
  BY <1>1, <1>2, UserPageIs, MapIs DEF n, Good, Tidy
<1>8. ASSUME NEW k \in i .. StackPages - 1 PROVE r[m.pf + k] = Free
  <2>1. m.pf + k \in Nat /\ m.pf + k # pa /\ m.pf + k < l.pf /\ k \in (i - 1) .. StackPages - 1
    BY <1>1
  <2> QED BY <1>4, <2>1 DEF StackState
<1>9. ASSUME NEW k \in 0 .. i - 1 PROVE ~Structure(r[m.pf + k])
  <2>1. m.pf + k \in Nat /\ m.pf + k < l.pf
    BY <1>1
  <2>2. CASE k = i - 1
    <3>1. r[pa] = Data(d, va \div W, 0) \/ r[pa] = Data(d, va \div W, va % W)
      <4>1. h \in [Nat -> Role] /\ l.pf # pa
        BY <1>1, <1>2 DEF Good, Tidy, Roles
      <4> QED BY <1>1, <1>2, <4>1 DEF r, MapRole
    <3> QED BY <2>2, <3>1, Structures
  <2>3. CASE k # i - 1
    <3>1. k \in 0 .. (i - 1) - 1 /\ m.pf + k # pa
      BY <1>1, <2>3
    <3> QED BY <1>4, <2>1, <3>1 DEF StackState
  <2> QED BY <2>2, <2>3
<1>10. ASSUME NEW k \in 0 .. i - 1 PROVE n.mem[Loc(d, (StackFirst + k) \div W)] # Zero
  <2> DEFINE v == StackFirst + k
  <2>1. v \in UserPage
    BY <1>1, Numbers DEF UserPage, StackFirst
  <2>2. v \div W \in Index /\ va \div W \in Index /\ l.pf # d
    <3>1. l.pf # d
      BY <1>1, <1>3, RoleKinds DEF Good, Tidy, Roles
    <3> QED BY <1>2, <2>1, <3>1, UserPageIs
  <2>3. Pte(pa) # Zero /\ Pte(l.pf) # Zero
    BY <1>1, <1>2, WordKinds
  <2>4. n.mem[Loc(d, va \div W)] # Zero
    BY <1>7, <2>2, <2>3 DEF IsMap
  <2>5. CASE k = i - 1
    BY <2>4, <2>5, <1>1, Numbers
  <2>6. CASE k # i - 1
    <3>1. k \in 0 .. (i - 1) - 1
      BY <1>1, <2>6
    <3>2. l.mem[Loc(d, v \div W)] # Zero
      BY <3>1 DEF StackState
    <3> HIDE DEF v
    <3>3. n.mem[Loc(d, v \div W)] # Zero
      BY <1>7, <2>2, <2>3, <3>2 DEF IsMap
    <3> QED BY <3>3 DEF v
  <2> QED BY <2>5, <2>6
<1>11. ASSUME NEW k \in 1 .. i - 1 PROVE WalkOf(n, d, StackFirst + k) = Pte(m.pf + k)
  <2> DEFINE v == StackFirst + k
  <2>1. v \in UserPage /\ v \in Nat
    BY <1>1, Numbers DEF UserPage, StackFirst
  <2>2. CASE k = i - 1
    <3>1. v = va /\ m.pf + k = pa
      BY <1>1, <2>2, Numbers
    <3>2. CASE l.mem[Loc(d, va \div W)] = Zero
      <4>1. va % W = 0
        <5>1. SUFFICES ASSUME va % W # 0 PROVE FALSE
          OBVIOUS
        <5>2. va \div W \in Nat /\ va % W \in Index /\ va = (va \div W) * W + (va % W)
          BY <1>2, Division
        <5>3. (va % W) - 1 \in Index /\ va - 1 = Loc(va \div W, (va % W) - 1)
          <6> DEFINE q == (va \div W) * W
          <6>1. q \in Nat
            BY <5>2, Smaller
          <6> HIDE DEF q
          <6>2. va = q + (va % W)
            BY <5>2 DEF q
          <6> QED BY <1>2, <5>1, <5>2, <6>1, <6>2, Numbers DEF Index, Loc, q
        <5>4. (va - 1) \div W = va \div W
          BY <5>2, <5>3, LocIs
        <5>5. i - 2 \in 0 .. (i - 1) - 1 /\ StackFirst + (i - 2) = va - 1
          BY <1>1, <2>2, Numbers
        <5> QED BY <3>2, <5>4, <5>5 DEF StackState
      <4> QED BY <1>6, <2>1, <3>1, <3>2, <4>1
    <3>3. CASE l.mem[Loc(d, va \div W)] # Zero
      BY <1>6, <2>1, <3>1, <3>3
    <3> QED BY <3>2, <3>3
  <2>3. CASE k # i - 1
    <3>1. k \in 1 .. (i - 1) - 1 /\ k \in 0 .. (i - 1) - 1 /\ v # va
      BY <1>1, <2>3, Numbers
    <3>2. WalkOf(l, d, v) = Pte(m.pf + k) /\ l.mem[Loc(d, v \div W)] # Zero
      BY <3>1 DEF StackState
    <3> QED BY <1>6, <2>1, <3>1, <3>2
  <2> QED BY <2>2, <2>3
<1>13. ASSUME NEW v \in UserPage, Valid(WalkOf(n, d, v))
       PROVE  Valid(WalkOf(m, d, v)) \/ OnStack(v)
  <2>1. CASE Valid(WalkOf(l, d, v))
    BY <2>1 DEF StackState
  <2>2. CASE v = va
    <3>1. va >= StackFirst
      BY <1>1, Numbers
    <3> QED BY <2>2, <3>1 DEF OnStack
  <2>3. CASE v \div W = va \div W /\ v % W = 0 /\ v # va
    <3>1. CASE va \div W = StackFirst \div W
      BY <2>3, <3>1 DEF OnStack
    <3>2. CASE va \div W # StackFirst \div W
      <4>1. v \in Nat /\ StackFirst \in Nat /\ StackFirst <= va
        BY <1>1, <1>2, Numbers DEF UserPage
      <4>2. ~(v <= StackFirst)
        <5>1. v <= StackFirst => v \div W <= StackFirst \div W
          BY <4>1, Rises
        <5>2. StackFirst \div W <= va \div W
          BY <1>2, <4>1, Rises
        <5>3. v \div W \in Nat /\ StackFirst \div W \in Nat
          BY <4>1, Division
        <5> QED BY <2>3, <3>2, <5>1, <5>2, <5>3
      <4> QED BY <4>1, <4>2 DEF OnStack
    <3> QED BY <3>1, <3>2
  <2>4. ~Valid(Zero)
    BY WordKinds
  <2> QED BY <1>6, <1>13, <2>1, <2>2, <2>3, <2>4
<1>12. StackState(m, g, d, i, n, r)
  BY <1>4, <1>5, <1>8, <1>9, <1>10, <1>11, <1>13 DEF StackState
<1> QED BY <1>12 DEF n

LEMMA StackRises ==
  ASSUME NEW m \in Mem, NEW d \in Page, NEW s, StackRounds(m, d, s)
  PROVE  /\ \A i \in 0 .. StackPages : /\ s[i] \in Mem /\ m.pf + StackPages <= s[i].pf
                                        /\ s[i].pf <= s[StackPages].pf
         /\ s[0].pf = m.pf + StackPages /\ s[0].mem = m.mem
<1> DEFINE S == StackPages
           p == [i \in 0 .. S |-> s[i].pf]
<1>1. S \in Nat /\ 0 \in 0 .. S /\ S \in 0 .. S /\ m.pf \in Nat
  BY Numbers DEF Mem
<1>2. /\ s \in [0 .. S -> Mem] /\ s[0].pf = m.pf + S /\ s[0].mem = m.mem
      /\ \A i \in 1 .. S : s[i] = map(s[i - 1], d, StackFirst + i - 1, m.pf + i - 1)
  <2>1. new_page(m, S).pf = m.pf + S /\ new_page(m, S).mem = m.mem
    BY <1>1, NewPageIs
  <2> QED BY <2>1 DEF StackRounds
<1>3. p \in [0 .. S -> Nat] /\ \A i \in 0 .. S : p[i] = s[i].pf
  BY <1>2 DEF Mem
<1> HIDE DEF p
<1>4. ASSUME NEW i \in 1 .. S PROVE p[i - 1] <= p[i]
  <2>1. /\ StackFirst + i - 1 \in UserPage /\ m.pf + i - 1 \in Nat /\ StackFirst + i - 1 \in Nat
        /\ i \in 0 .. S /\ i - 1 \in 0 .. S
    BY <1>1, Numbers DEF UserPage, StackFirst
  <2>2. s[i - 1] \in Mem /\ s[i - 1].pf \in Nat
    BY <1>2, <2>1 DEF Mem
  <2>3. IsMap(s[i - 1], s[i], d, (StackFirst + i - 1) \div W, (StackFirst + i - 1) % W, m.pf + i - 1)
    BY <1>2, <2>1, <2>2, UserPageIs, MapIs
  <2>4. s[i].pf = s[i - 1].pf \/ s[i].pf = s[i - 1].pf + 1
    BY <2>3 DEF IsMap
  <2> QED BY <1>3, <2>1, <2>2, <2>4
<1> HIDE DEF S
<1>5. \A i \in 0 .. S : p[0] <= p[i] /\ p[i] <= p[S]
  BY <1>1, <1>3, <1>4, Rising
<1> QED BY <1>1, <1>2, <1>3, <1>5 DEF S

LEMMA MapStackMem ==
  ASSUME NEW m \in Mem, NEW d \in Page
  PROVE  MapStack(m, d) \in Mem /\ m.pf + StackPages <= MapStack(m, d).pf
<1> DEFINE S == StackPages
           at == (m.pf + S) * W - 1
           n == MapStack(m, d)
<1>1. PICK s : StackRounds(m, d, s) /\ n = [s[S] EXCEPT !.mem[at] = Args]
  BY MapStackIs
<1>2. s[S] \in Mem /\ m.pf + S <= s[S].pf
  <2>1. S \in 0 .. S
    BY Numbers
  <2> QED BY <1>1, <2>1, StackRises
<1>3. s[S].mem \in Words /\ s[S].pf \in Nat /\ s[S] = [mem |-> s[S].mem, pf |-> s[S].pf]
  BY <1>2 DEF Mem
<1> HIDE DEF at, n, S
<1>4. n = [mem |-> [s[S].mem EXCEPT ![at] = Args], pf |-> s[S].pf]
  BY <1>1, <1>3
<1>5. [s[S].mem EXCEPT ![at] = Args] \in Words
  BY <1>3, WordKinds DEF Words
<1> QED BY <1>2, <1>3, <1>4, <1>5 DEF Mem, n, S

LEMMA StackGood ==
  ASSUME NEW m, NEW g, Good(m, g), NEW d \in Page, g[d] = Directory, d # kas,
         MapStack(m, d).pf <= HeapEnd
  PROVE  LET n == MapStack(m, d)
         IN  /\ n \in Mem /\ m.pf + StackPages <= n.pf
             /\ \E h : /\ Good(n, h) /\ Later(g, h) /\ Kept(m, n, g, d)
                       /\ \A k \in 1 .. StackPages - 1 :
                            WalkOf(n, d, StackFirst + k) = Pte(m.pf + k)
                       /\ \A v \in UserPage :
                            Valid(WalkOf(n, d, v)) => Valid(WalkOf(m, d, v)) \/ OnStack(v)
             /\ n.mem[Loc(m.pf + StackPages - 1, W - 1)] = Args
<1> DEFINE S == StackPages
           n == MapStack(m, d)
           q == m.pf + S - 1
<1>1. /\ m \in Mem /\ m.pf \in Nat /\ m.pf > HeapStart /\ S \in Nat /\ S >= 1 /\ W - 1 \in Index
      /\ \A x \in Nat : x < HeapStart \/ x >= m.pf => g[x] = Free
  BY Numbers DEF Good, Tidy, Mem, Roles, Index
<1>2. PICK s : StackRounds(m, d, s) /\ n = [s[S] EXCEPT !.mem[(m.pf + S) * W - 1] = Args]
  BY <1>1, MapStackIs
<1>3. Loc(q, W - 1) = (m.pf + S) * W - 1 /\ q \in Nat
  <2>1. q \in Nat /\ q + 1 = m.pf + S
    BY <1>1
  <2>2. (q + 1) * W = q * W + W /\ q * W \in Nat
    BY <2>1, Smaller
  <2> QED BY <2>1, <2>2, Numbers DEF Loc
<1>4. /\ \A i \in 0 .. S : s[i] \in Mem /\ s[i].pf \in Nat
      /\ s[S] \in Mem /\ s[0].pf = m.pf + S /\ s[0].mem = m.mem
  <2>1. S \in 0 .. S
    BY <1>1
  <2> QED BY <1>1, <1>2, <2>1, StackRises DEF Mem
<1>5. n = [mem |-> [s[S].mem EXCEPT ![Loc(q, W - 1)] = Args], pf |-> s[S].pf]
  <2>1. s[S] = [mem |-> s[S].mem, pf |-> s[S].pf]
    BY <1>4 DEF Mem
  <2> HIDE DEF n
  <2> QED BY <1>2, <1>3, <2>1
<1>6. n.pf = s[S].pf /\ s[S].pf <= HeapEnd
  BY <1>5
<1> HIDE DEF n, S
<1>7. \A i \in 1 .. S : s[i] = map(s[i - 1], d, StackFirst + i - 1, m.pf + i - 1)
  BY <1>2 DEF StackRounds, S
<1>8. ASSUME NEW i \in 0 .. S PROVE m.pf + S <= s[i].pf /\ s[i].pf <= HeapEnd
  <2>1. m.pf + S <= s[i].pf /\ s[i].pf <= s[S].pf
    BY <1>1, <1>2, StackRises DEF S
  <2> QED BY <1>1, <1>4, <1>6, <2>1, Numbers
<1> DEFINE G == {i \in 0 .. S : \E h : StackState(m, g, d, i, s[i], h)}
<1>9. 0 \in G
  <2>1. 0 \in 0 .. S /\ s[0] \in Mem /\ s[0].pf <= HeapEnd /\ s[0].pf >= m.pf
    BY <1>1, <1>4, <1>8
  <2>2. \A y \in Page, o \in Index : s[0].mem[Loc(y, o)] \in Known(s[0].pf)
    <3>1. Known(m.pf) \subseteq Known(s[0].pf)
      BY <1>1, <1>4, <2>1, KnownGrows
    <3> QED BY <1>4, <3>1 DEF Good, Tidy
  <2>3. Good(s[0], g)
    BY <1>4, <2>1, <2>2, DataGood
  <2>4. StackState(m, g, d, 0, s[0], g)
    <3>1. \A k \in 0 .. StackPages - 1 : g[m.pf + k] = Free
      BY <1>1
    <3>2. 0 .. 0 - 1 = {} /\ 1 .. 0 - 1 = {}
      OBVIOUS
    <3>3. \A v \in UserPage : WalkOf(s[0], d, v) = WalkOf(m, d, v)
      BY <1>4 DEF WalkOf
    <3> QED BY <1>4, <2>3, <3>1, <3>2, <3>3 DEF StackState, Later, Kept
  <2> QED BY <2>1, <2>4
<1>10. ASSUME NEW i \in 1 .. S, i - 1 \in G PROVE i \in G
  <2>1. PICK h : StackState(m, g, d, i - 1, s[i - 1], h)
    BY <1>10
  <2>2. i \in 0 .. S /\ i - 1 \in 0 .. S /\ i \in 1 .. StackPages
    BY <1>1 DEF S
  <2>3. m.pf + StackPages <= s[i - 1].pf /\ s[i].pf <= HeapEnd
    BY <1>8, <2>2 DEF S
  <2>4. \E k : StackState(m, g, d, i, s[i], k)
    BY <1>7, <2>1, <2>2, <2>3, StackRound
  <2> QED BY <2>2, <2>4
<1>11. PICK h : StackState(m, g, d, S, s[S], h)
  <2> HIDE DEF G
  <2>1. \A i \in 0 .. S : i \in G
    BY <1>1, <1>9, <1>10, UpTo
  <2>2. S \in G
    BY <1>1, <2>1
  <2> QED BY <2>2 DEF G
<1>12. Loc(q, W - 1) \in PhysAddr /\ q \in Page /\ ~Structure(h[q])
  <2>1. q \in Page
    BY <1>1, <1>4, <1>6, <1>8, Numbers DEF Page, S
  <2>2. S - 1 \in 0 .. S - 1 /\ q = m.pf + (S - 1)
    BY <1>1
  <2>3. ~Structure(h[q])
    BY <1>11, <2>2 DEF StackState, S
  <2> QED BY <1>1, <2>1, <2>3, Places
<1>13. n \in Mem /\ \A y \in Page, o \in Index :
          n.mem[Loc(y, o)] = IF y = q /\ o = W - 1 THEN Args ELSE s[S].mem[Loc(y, o)]
  <2>1. s[S].mem \in Words /\ s[S].pf \in Nat /\ Args \in AnyWord
    BY <1>4, WordKinds DEF Mem
  <2>2. [s[S].mem EXCEPT ![Loc(q, W - 1)] = Args] \in Words
    BY <2>1 DEF Words
  <2>3. n \in Mem /\ n.mem = [s[S].mem EXCEPT ![Loc(q, W - 1)] = Args]
    BY <1>5, <2>1, <2>2 DEF Mem
  <2>4. ASSUME NEW y \in Page, NEW o \in Index
        PROVE  n.mem[Loc(y, o)] = IF y = q /\ o = W - 1 THEN Args ELSE s[S].mem[Loc(y, o)]
    <3>1. Loc(y, o) \in PhysAddr /\ y \in Nat
      BY Places, Sets
    <3>2. Loc(y, o) = Loc(q, W - 1) => y = q /\ o = W - 1
      BY <1>1, <1>3, <3>1, Apart
    <3> HIDE DEF q
    <3> QED BY <2>1, <2>3, <3>1, <3>2 DEF Words
  <2> QED BY <2>3, <2>4
<1> HIDE DEF q
<1>14. Good(n, h)
  <2>1. Good(s[S], h) /\ n.pf >= s[S].pf /\ n.pf <= HeapEnd
    BY <1>1, <1>4, <1>6, <1>11 DEF StackState
  <2>2. Args \in Known(n.pf)
    BY DEF Known, Args
  <2>3. \A y \in Page, o \in Index : s[S].mem[Loc(y, o)] \in Known(n.pf)
    BY <1>6, <2>1 DEF Good, Tidy
  <2> QED BY <1>12, <1>13, <2>1, <2>2, <2>3, DataGood
<1>15. Later(g, h)
  BY <1>11 DEF StackState
<1>16. g[q] = Free
  BY <1>1, <1>3 DEF q
<1>17. Kept(m, n, g, d)
  <2>1. Kept(m, s[S], g, d)
    BY <1>11 DEF StackState
  <2> QED BY <1>13, <1>16, <2>1 DEF Kept
<1>18. h[d] = Directory
  BY <1>15, RoleKinds, Sets DEF Later
<1>19. ASSUME NEW k \in 1 .. StackPages - 1 PROVE WalkOf(n, d, StackFirst + k) = Pte(m.pf + k)
  <2>1. StackFirst + k \in UserPage /\ k \in 1 .. S - 1
    BY <1>1, Numbers DEF UserPage, StackFirst, S
  <2>2. WalkOf(s[S], d, StackFirst + k) = Pte(m.pf + k)
    BY <1>11, <2>1 DEF StackState
  <2>3. Good(s[S], h)
    BY <1>11 DEF StackState
  <2>4. WalkOf(n, d, StackFirst + k) = WalkOf(s[S], d, StackFirst + k)
    BY <1>12, <1>13, <1>18, <2>1, <2>3, SameWalks
  <2> QED BY <2>2, <2>4
<1>20. ASSUME NEW v \in UserPage, Valid(WalkOf(n, d, v))
       PROVE  Valid(WalkOf(m, d, v)) \/ OnStack(v)
  <2>1. Good(s[S], h)
    BY <1>11 DEF StackState
  <2>2. WalkOf(n, d, v) = WalkOf(s[S], d, v)
    BY <1>12, <1>13, <1>18, <2>1, SameWalks
  <2> QED BY <1>11, <1>20, <2>2 DEF StackState
<1>21. m.pf + StackPages <= n.pf
  <2>1. S \in 0 .. S
    BY <1>1
  <2> QED BY <1>6, <1>8, <2>1 DEF S
<1>22. n.mem[Loc(q, W - 1)] = Args
  BY <1>1, <1>12, <1>13
<1> QED BY <1>13, <1>14, <1>15, <1>17, <1>19, <1>20, <1>21, <1>22 DEF n, q, S

----------------------------------------------------------------------------
(* Words from a file, or zeros, written across pages.                      *)
LEMMA ZerosAre ==
  ASSUME NEW q \in Nat
  PROVE  /\ Zeros(q) \in Seq(AnyWord) /\ Len(Zeros(q)) = q
         /\ \A i \in 1 .. Len(Zeros(q)) : Zeros(q)[i] = Zero
BY WordKinds DEF Zeros

LEMMA Distributes ==
  ASSUME NEW x \in Nat, NEW k \in Nat
  PROVE  (x + k) * W = x * W + k * W
BY Numbers

LEMMA SpanIs ==
  ASSUME NEW f \in Words, NEW x \in Nat, NEW o \in Nat, NEW words \in Seq(AnyWord),
         NEW k \in Nat, o + Len(words) <= k * W
  PROVE  LET n == Write(f, Loc(x, o), words)
         IN  /\ n \in Words
             /\ \A y \in Page, l \in Index :
                  \/ n[Loc(y, l)] = f[Loc(y, l)]
                  \/ y \in x .. x + k - 1 /\ \E i \in 1 .. Len(words) : n[Loc(y, l)] = words[i]
<1> DEFINE at == Loc(x, o)
           n  == Write(f, at, words)
<1>1. at \in Nat /\ Len(words) \in Nat /\ o \in Nat /\ k * W \in Nat
  <2>1. at \in Nat
    <3>1. x * W \in Nat
      BY Smaller
    <3> QED BY <3>1 DEF Loc
  <2>2. o \in Nat /\ Len(words) \in Nat
    OBVIOUS
  <2>3. k * W \in Nat
    BY Smaller
  <2> QED BY <2>1, <2>2, <2>3
<1>2. /\ n \in Words
      /\ \A a \in PhysAddr :
           n[a] = IF a \in at .. at + Len(words) - 1 THEN words[a - at + 1] ELSE f[a]
  <2> HIDE DEF at
  <2> QED BY <1>1, WriteIs
<1>3. ASSUME NEW y \in Page, NEW l \in Index, Loc(y, l) \in at .. at + Len(words) - 1
      PROVE  y \in x .. x + k - 1 /\ Loc(y, l) - at + 1 \in 1 .. Len(words)
  <2>1. y \in Nat /\ l \in Nat /\ l < W /\ Loc(y, l) \in Nat
    BY LocIs, Sets, Numbers DEF Index
  <2>2. /\ y * W \in Nat /\ x * W \in Nat /\ (x + k) * W = x * W + k * W
        /\ y < x => y * W + W <= x * W
        /\ x + k <= y => (x + k) * W <= y * W
    <3>1. x + k \in Nat
      OBVIOUS
    <3>2. (x + k) * W = x * W + k * W
      BY Distributes
    <3>3. y * W \in Nat /\ x * W \in Nat /\ (y < x => y * W + W <= x * W)
      BY <2>1, Smaller
    <3>4. x + k <= y => (x + k) * W <= y * W
      BY <2>1, <3>1, Smaller
    <3> QED BY <3>2, <3>3, <3>4
  <2>3. at = x * W + o /\ Loc(y, l) = y * W + l
    BY DEF Loc
  <2> DEFINE X == x * W
             Y == y * W
             K == k * W
             L == Len(words)
             Z == (x + k) * W
  <2>4. /\ X \in Nat /\ Y \in Nat /\ K \in Nat /\ L \in Nat /\ Z = X + K /\ o + L <= K
        /\ y < x => Y + W <= X
        /\ x + k <= y => Z <= Y
        /\ at = X + o /\ Loc(y, l) = Y + l
        /\ Loc(y, l) >= at /\ Loc(y, l) <= at + L - 1
        /\ W \in Nat /\ o \in Nat
    <3> HIDE DEF at
    <3>1. at \in Nat /\ Loc(y, l) >= at /\ Loc(y, l) <= at + L - 1
      BY <1>1, <1>3, <2>1
    <3> QED BY <1>1, <2>2, <2>3, <3>1, Numbers
  <2> HIDE DEF X, Y, K, L, Z, at
  <2>5. ~(y < x) /\ ~(x + k <= y)
    BY <2>1, <2>4
  <2>6. Loc(y, l) - at + 1 \in 1 .. L
    BY <2>1, <2>4
  <2> QED BY <2>1, <2>5, <2>6 DEF L
<1> HIDE DEF n, at
<1>4. ASSUME NEW y \in Page, NEW l \in Index
      PROVE  \/ n[Loc(y, l)] = f[Loc(y, l)]
             \/ y \in x .. x + k - 1 /\ \E i \in 1 .. Len(words) : n[Loc(y, l)] = words[i]
  <2>1. Loc(y, l) \in PhysAddr
    BY Places
  <2>2. CASE Loc(y, l) \in at .. at + Len(words) - 1
    BY <1>2, <1>3, <2>1, <2>2
  <2>3. CASE ~(Loc(y, l) \in at .. at + Len(words) - 1)
    BY <1>2, <2>1, <2>3
  <2> QED BY <2>2, <2>3
<1> QED BY <1>2, <1>4 DEF n, at

LEMMA SpanAt ==
  ASSUME NEW f \in Words, NEW x \in Nat, NEW o \in Nat, NEW words \in Seq(AnyWord),
         NEW c \in Nat, NEW k \in Index, NEW y \in Page, y = x + c,
         NEW t, t = c * W + k - o
  PROVE  Write(f, Loc(x, o), words)[Loc(y, k)] =
           IF t >= 0 /\ t < Len(words) THEN words[t + 1] ELSE f[Loc(y, k)]
<1> DEFINE X == x * W
           C == c * W
           L == Len(words)
           at == Loc(x, o)
           b == Loc(y, k)
<1>1. /\ X \in Nat /\ C \in Nat /\ L \in Nat /\ k \in Nat
      /\ at = X + o /\ b = X + C + k /\ b \in PhysAddr
  <2>1. (x + c) * W = X + C /\ X \in Nat /\ C \in Nat
    BY Distributes, Smaller
  <2>2. b \in PhysAddr
    BY Places
  <2> QED BY <2>1, <2>2, Sets DEF Loc
<1>2. at \in Nat /\ b \in Nat /\ b - at = C + k - o
  <2> HIDE DEF X, C, L, at, b
  <2> QED BY <1>1
<1>3. \A a \in PhysAddr :
        Write(f, at, words)[a] = IF a \in at .. at + L - 1 THEN words[a - at + 1] ELSE f[a]
  <2> HIDE DEF at
  <2> QED BY <1>2, WriteIs
<1> HIDE DEF X, C, L, at, b
<1>4. b \in at .. at + L - 1 <=> C + k - o >= 0 /\ C + k - o < L
  BY <1>1, <1>2
<1>5. b - at + 1 = C + k - o + 1
  BY <1>1, <1>2
<1>6. Write(f, at, words)[b] =
        IF C + k - o >= 0 /\ C + k - o < L THEN words[C + k - o + 1] ELSE f[b]
  BY <1>1, <1>3, <1>4, <1>5
<1> QED BY <1>6 DEF at, b, C, L

LEMMA FileIs ==
  ASSUME NEW f \in File
  PROVE  /\ Image[f].disk \in Nat /\ Image[f].size \in Nat
         /\ Image[f].segs \in Seq(Segment) /\ Image[f].segs # <<>>
         /\ Image[f].segs[1].vaddr % W = 0 /\ FirstPage(Image[f].segs[1]) % W = 0
         /\ Image[f].segs[1].filesz = Image[f].segs[1].memsz
         /\ \A i, j \in DOMAIN Image[f].segs :
              i < j => Image[f].segs[i].vaddr + Image[f].segs[i].memsz
                         <= FirstPage(Image[f].segs[j]) * W
         /\ \A i \in DOMAIN Image[f].segs :
              LET s == Image[f].segs[i]
              IN  /\ s \in Segment /\ s.filesz <= s.memsz
                  /\ s.offset + s.filesz <= Image[f].size
                  /\ LastPage(s) < StackFirst
                  /\ FirstPage(s) \div W = FirstPage(Image[f].segs[1]) \div W
                  /\ LastPage(s) \div W = FirstPage(Image[f].segs[1]) \div W
<1> DEFINE segs == Image[f].segs
<1>1. /\ Image[f] \in [disk : Nat, size : Nat, segs : Seq(Segment) \ {<<>>}]
      /\ \A i \in DOMAIN segs :
           /\ segs[i].filesz <= segs[i].memsz
           /\ segs[i].offset + segs[i].filesz <= Image[f].size
           /\ LastPage(segs[i]) < StackFirst
           /\ {FirstPage(segs[i]) \div W, LastPage(segs[i]) \div W}
                = {FirstPage(segs[1]) \div W}
      /\ segs[1].vaddr % W = 0 /\ FirstPage(segs[1]) % W = 0
      /\ segs[1].filesz = segs[1].memsz
      /\ \A i, j \in DOMAIN segs :
           i < j => segs[i].vaddr + segs[i].memsz <= FirstPage(segs[j]) * W
  BY ImageAssumption
<1>2. segs \in Seq(Segment) /\ segs # <<>>
  BY <1>1
<1>3. \A i \in DOMAIN segs : segs[i] \in Segment
  BY <1>2
<1> HIDE DEF segs
<1> QED BY <1>1, <1>2, <1>3 DEF segs

LEMMA CountIs ==
  ASSUME NEW f \in File, NEW from \in 0 .. Image[f].size
  PROVE  Count(f, from) \in 0 .. W /\ from + Count(f, from) \in 0 .. Image[f].size
<1> DEFINE S == Image[f].size
<1>1. S \in Nat /\ W \in Nat /\ from \in 0 .. S
  BY FileIs, Numbers
<1> HIDE DEF S
<1>2. /\ (IF from + W > S THEN S - from ELSE W) \in 0 .. W
      /\ from + (IF from + W > S THEN S - from ELSE W) \in 0 .. S
  BY <1>1
<1> QED BY <1>2 DEF Count, S

LEMMA ReadIs ==
  ASSUME NEW m \in Mem, NEW f \in File, NEW from \in 0 .. Image[f].size,
         NEW x \in Nat, NEW o \in Index
  PROVE  LET n == Read(m, f, from, x * W + o)
         IN  /\ n \in Mem /\ n.pf = m.pf
             /\ \A y \in Page, l \in Index :
                  \/ n.mem[Loc(y, l)] = m.mem[Loc(y, l)]
                  \/ /\ y = x \/ (o # 0 /\ y = x + 1)
                     /\ \E k \in Nat : n.mem[Loc(y, l)] = Disk(k)
<1> DEFINE c == Count(f, from)
           words == [i \in 1 .. c |-> Disk(Image[f].disk + from + i - 1)]
           w == Write(m.mem, Loc(x, o), words)
           n == Read(m, f, from, x * W + o)
           k == IF o = 0 THEN 1 ELSE 2
<1>1. c \in Nat /\ c <= W /\ m.mem \in Words /\ m.pf \in Nat /\ W \in Nat /\ o \in Nat /\ o < W
  BY CountIs, Numbers DEF Mem, Index
<1>2. /\ words \in Seq(AnyWord) /\ Len(words) = c
      /\ \A i \in 1 .. c : \E b \in Nat : words[i] = Disk(b)
  <2>1. \A i \in 1 .. c : Image[f].disk + from + i - 1 \in Nat
    BY <1>1, FileIs
  <2> HIDE DEF c
  <2>2. \A i \in 1 .. c : Disk(Image[f].disk + from + i - 1) \in AnyWord
    BY <2>1, WordKinds
  <2> QED BY <1>1, <2>1, <2>2
<1>3. n = [mem |-> w, pf |-> m.pf]
  <2> HIDE DEF words, c
  <2> QED BY DEF Read, Mem, Loc, words, c
<1> HIDE DEF words, c, n
<1>4. k \in Nat /\ o + Len(words) <= k * W
  BY <1>1, <1>2
<1>5. /\ w \in Words
      /\ \A y \in Page, l \in Index :
           \/ w[Loc(y, l)] = m.mem[Loc(y, l)]
           \/ y \in x .. x + k - 1 /\ \E i \in 1 .. Len(words) : w[Loc(y, l)] = words[i]
  <2>1. /\ words \in Seq(AnyWord) /\ k \in Nat /\ o + Len(words) <= k * W
        /\ m.mem \in Words /\ o \in Nat
    BY <1>1, <1>2, <1>4
  <2> DEFINE z == m.mem
  <2>2. z \in Words
    BY <2>1
  <2> HIDE DEF k, z
  <2>3. LET v == Write(z, Loc(x, o), words)
        IN  /\ v \in Words
            /\ \A y \in Page, l \in Index :
                 \/ v[Loc(y, l)] = z[Loc(y, l)]
                 \/ y \in x .. x + k - 1 /\ \E i \in 1 .. Len(words) : v[Loc(y, l)] = words[i]
    BY <2>1, <2>2, SpanIs
  <2> QED BY <2>3 DEF z
<1> HIDE DEF w
<1>6. ASSUME NEW y \in Page, NEW l \in Index, w[Loc(y, l)] # m.mem[Loc(y, l)]
      PROVE  (y = x \/ (o # 0 /\ y = x + 1)) /\ \E b \in Nat : w[Loc(y, l)] = Disk(b)
  <2>1. y \in x .. x + k - 1 /\ \E i \in 1 .. Len(words) : w[Loc(y, l)] = words[i]
    BY <1>5, <1>6
  <2>2. y = x \/ (o # 0 /\ y = x + 1)
    BY <2>1
  <2> QED BY <1>2, <2>1, <2>2
<1> QED BY <1>1, <1>3, <1>5, <1>6 DEF n, Mem

LEMMA ReadAt ==
  ASSUME NEW m \in Mem, NEW f \in File, NEW from \in 0 .. Image[f].size,
         NEW x \in Nat, NEW o \in Index, NEW y \in Page, NEW k \in Index
  PROVE  LET n == Read(m, f, from, x * W + o)
             c == Count(f, from)
         IN  n.mem[Loc(y, k)] =
               IF y = x /\ k >= o /\ k - o < c THEN Disk(Image[f].disk + from + (k - o))
               ELSE IF y = x + 1 /\ k < o /\ W + k - o < c
                 THEN Disk(Image[f].disk + from + (W + k - o))
                 ELSE m.mem[Loc(y, k)]
<1> DEFINE c == Count(f, from)
           words == [i \in 1 .. c |-> Disk(Image[f].disk + from + i - 1)]
           n == Read(m, f, from, x * W + o)
<1>1. c \in Nat /\ c <= W /\ m.mem \in Words /\ W \in Nat /\ o \in Nat /\ o < W
      /\ k \in Nat /\ k < W /\ from \in Nat /\ Image[f].disk \in Nat
  <2>1. Image[f].disk \in Nat /\ Image[f].size \in Nat
    BY FileIs
  <2>2. c \in 0 .. W
    BY CountIs
  <2> HIDE DEF c
  <2> QED BY <2>1, <2>2, Numbers DEF Mem, Index
<1>2. words \in Seq(AnyWord) /\ Len(words) = c
  <2>1. \A i \in 1 .. c : Image[f].disk + from + i - 1 \in Nat
    BY <1>1
  <2> HIDE DEF c
  <2>2. \A i \in 1 .. c : Disk(Image[f].disk + from + i - 1) \in AnyWord
    BY <2>1, WordKinds
  <2> QED BY <1>1, <2>2
<1>3. \A t \in Nat : t < c => words[t + 1] = Disk(Image[f].disk + from + t)
  <2> SUFFICES ASSUME NEW t \in Nat, t < c PROVE words[t + 1] = Disk(Image[f].disk + from + t)
    OBVIOUS
  <2> HIDE DEF c
  <2>1. t + 1 \in 1 .. c /\ Image[f].disk + from + (t + 1) - 1 = Image[f].disk + from + t
    BY <1>1
  <2> QED BY <2>1
<1> DEFINE z == m.mem
<1>4. n.mem = Write(z, Loc(x, o), words) /\ z \in Words
  <2> HIDE DEF words, c
  <2> QED BY <1>1 DEF Read, Mem, Loc, words, c
<1> HIDE DEF words, c, n, z
<1>5. CASE y = x
  <2> DEFINE t == k - o
  <2>1. 0 \in Nat /\ y = x + 0 /\ t = 0 * W + k - o /\ o \in Nat
    BY <1>1, <1>5
  <2> HIDE DEF t
  <2>7. Write(z, Loc(x, o), words)[Loc(y, k)] =
          IF t >= 0 /\ t < Len(words) THEN words[t + 1] ELSE z[Loc(y, k)]
    BY <1>2, <1>4, <2>1, SpanAt
  <2>6. Write(z, Loc(x, o), words)[Loc(y, k)] =
          IF k - o >= 0 /\ k - o < Len(words) THEN words[k - o + 1] ELSE z[Loc(y, k)]
    BY <2>7 DEF t
  <2>2. n.mem[Loc(y, k)] = IF k - o >= 0 /\ k - o < c THEN words[(k - o) + 1] ELSE m.mem[Loc(y, k)]
    BY <1>2, <1>4, <2>6 DEF z
  <2>3. k - o >= 0 <=> k >= o
    BY <1>1
  <2>4. k >= o => k - o \in Nat
    BY <1>1
  <2>5. y # x + 1
    BY <1>5
  <2> QED BY <1>3, <1>5, <2>2, <2>3, <2>4, <2>5 DEF n, c
<1>6. CASE y = x + 1
  <2> DEFINE t == W + k - o
  <2>1. 1 \in Nat /\ y = x + 1 /\ t = 1 * W + k - o /\ o \in Nat
    BY <1>1, <1>6
  <2> HIDE DEF t
  <2>6. Write(z, Loc(x, o), words)[Loc(y, k)] =
          IF t >= 0 /\ t < Len(words) THEN words[t + 1] ELSE z[Loc(y, k)]
    BY <1>2, <1>4, <2>1, SpanAt
  <2>5. Write(z, Loc(x, o), words)[Loc(y, k)] =
          IF W + k - o >= 0 /\ W + k - o < Len(words) THEN words[W + k - o + 1]
          ELSE z[Loc(y, k)]
    BY <2>6 DEF t
  <2>2. n.mem[Loc(y, k)] = IF W + k - o >= 0 /\ W + k - o < c THEN words[(W + k - o) + 1]
                           ELSE m.mem[Loc(y, k)]
    BY <1>2, <1>4, <2>5 DEF z
  <2>3. W + k - o \in Nat /\ (W + k - o < c => k < o)
    BY <1>1
  <2>4. y # x
    BY <1>6
  <2> QED BY <1>3, <1>6, <2>2, <2>3, <2>4 DEF n, c
<1>7. CASE y # x /\ y # x + 1
  BY <1>7, ReadIs DEF n
<1> QED BY <1>5, <1>6, <1>7 DEF n, c

----------------------------------------------------------------------------
(* The loader: one page, one segment, all segments.                        *)
Loading(f) == [m : Mem, at : 0 .. Image[f].size]

LEMMA LoadPageIs ==
  ASSUME NEW f \in File, NEW l \in Loading(f), NEW d \in Page, NEW s \in Segment,
         NEW va \in UserPage
  PROVE  LET a == map(new_page(l.m, 1), d, va, l.m.pf)
             n == LoadPage(l, d, f, s, va)
         IN  /\ n \in Loading(f) /\ n.at = l.at + Count(f, l.at)
             /\ n.m = Read(a, f, l.at, l.m.pf * W + (s.vaddr % W))
             /\ IsMap(new_page(l.m, 1), a, d, va \div W, va % W, l.m.pf)
             /\ n.m.pf = a.pf /\ l.m.pf + 1 <= a.pf /\ s.vaddr % W \in Index
<1> DEFINE x == new_page(l.m, 1)
           a == map(x, d, va, l.m.pf)
           n == LoadPage(l, d, f, s, va)
<1>1. l.m \in Mem /\ l.m.pf \in Nat /\ l.at \in 0 .. Image[f].size
  BY DEF Loading, Mem
<1>2. x \in Mem /\ x.pf = l.m.pf + 1
  BY <1>1, NewPageIs
<1>3. IsMap(x, a, d, va \div W, va % W, l.m.pf)
  <2> HIDE DEF x
  <2> QED BY <1>1, <1>2, UserPageIs, MapIs
<1>4. a \in Mem /\ l.m.pf + 1 <= a.pf
  <2> HIDE DEF a, x
  <2> QED BY <1>1, <1>2, <1>3 DEF IsMap
<1>5. s.vaddr \in Nat /\ s.vaddr % W \in Index
  <2>1. s.vaddr \in Nat
    BY DEF Segment
  <2> QED BY <2>1, Division
<1>6. n = [m |-> Read(a, f, l.at, l.m.pf * W + (s.vaddr % W)), at |-> l.at + Count(f, l.at)]
  BY DEF LoadPage, fs_read
<1> HIDE DEF n, a, x
<1>7. /\ Read(a, f, l.at, l.m.pf * W + (s.vaddr % W)) \in Mem
      /\ Read(a, f, l.at, l.m.pf * W + (s.vaddr % W)).pf = a.pf
  BY <1>1, <1>4, <1>5, ReadIs
<1>8. l.at + Count(f, l.at) \in 0 .. Image[f].size
  BY <1>1, CountIs
<1>9. n \in Loading(f)
  BY <1>6, <1>7, <1>8 DEF Loading
<1> QED BY <1>3, <1>4, <1>5, <1>6, <1>7, <1>9 DEF n, a, x

(* The page va of d holds what was read into it and what the read before   *)
(* left behind, and the page that comes next the rest of what was read.    *)
PageRead(l, d, f, s, va, n) ==
  LET pa      == l.m.pf
      off     == s.vaddr % W
      word(t) == Disk(Image[f].disk + l.at + t)
  IN  /\ WalkOf(n.m, d, va) = Pte(pa) /\ pa \in Page
      /\ Alike(l.m, n.m, d, UserPage \ {va})
      /\ \A v \in UserPage \ {va} :
           Valid(WalkOf(l.m, d, v)) => WalkOf(n.m, d, v) = WalkOf(l.m, d, v)
      /\ \A o \in Index :
           /\ o >= off /\ o - off < Count(f, l.at) => n.m.mem[Loc(pa, o)] = word(o - off)
           /\ o < off => n.m.mem[Loc(pa, o)] = l.m.mem[Loc(pa, o)]
           /\ pa + 1 \in Page /\ o < off /\ W + o - off < Count(f, l.at) =>
                n.m.mem[Loc(pa + 1, o)] = word(W + o - off)

LEMMA LoadPageGood ==
  ASSUME NEW f \in File, NEW l \in Loading(f), NEW h, Good(l.m, h), NEW d \in Page,
         h[d] = Directory, d # kas, NEW s \in Segment, NEW va \in UserPage,
         s.vaddr % W = 0 \/ l.m.mem[Loc(d, va \div W)] # Zero,
         va % W = 0 \/ l.m.mem[Loc(d, va \div W)] # Zero,
         LoadPage(l, d, f, s, va).m.pf <= HeapEnd
  PROVE  LET n == LoadPage(l, d, f, s, va)
         IN  /\ PageRead(l, d, f, s, va, n)
             /\ n.m.mem[Loc(d, va \div W)] # Zero
             /\ l.m.mem[Loc(d, va \div W)] # Zero => n.m.pf = l.m.pf + 1
             /\ \E k : /\ Good(n.m, k) /\ Later(h, k) /\ Kept(l.m, n.m, h, d)
                       /\ ~Structure(k[l.m.pf])
                       /\ \A y \in Nat : y < l.m.pf => k[y] = h[y]
<1> DEFINE pa == l.m.pf
           x == new_page(l.m, 1)
           a == map(x, d, va, pa)
           n == LoadPage(l, d, f, s, va)
           k == MapRole(x, h, d, va, pa)
           o == s.vaddr % W
           i == va \div W
<1>1. /\ l.m \in Mem /\ pa \in Nat /\ pa > HeapStart /\ l.at \in 0 .. Image[f].size
      /\ h \in [Nat -> Role]
      /\ \A y \in Nat : y < HeapStart \/ y >= pa => h[y] = Free
  BY DEF Loading, Mem, Good, Tidy, Roles
<1>2. /\ n \in Loading(f) /\ n.m = Read(a, f, l.at, pa * W + o)
      /\ IsMap(x, a, d, i, va % W, pa)
      /\ n.m.pf = a.pf /\ pa + 1 <= a.pf /\ o \in Index
  BY LoadPageIs
<1>3. x \in Mem /\ x.pf = pa + 1 /\ x.mem = l.m.mem
  BY <1>1, NewPageIs
<1>4. i \in UserIndex /\ i \in Index /\ va % W \in Index /\ d \in Nat
  BY UserPageIs, Sets
<1>5. a.pf <= HeapEnd /\ pa \in Page /\ h[pa] = Free
  <2>1. a.pf <= HeapEnd /\ a \in Mem
    BY <1>2 DEF IsMap
  <2>2. a.pf \in Nat
    BY <2>1 DEF Mem
  <2>3. pa < HeapEnd
    BY <1>1, <1>2, <2>1, <2>2, Numbers
  <2> QED BY <1>1, <2>1, <2>3, Numbers DEF Page
<1>6. Good(x, h)
  <2>1. Known(l.m.pf) \subseteq Known(x.pf)
    BY <1>1, <1>3, KnownGrows
  <2>2. \A y \in Page, c \in Index : x.mem[Loc(y, c)] \in Known(x.pf)
    BY <1>3, <2>1 DEF Good, Tidy
  <2>3. x.pf >= l.m.pf /\ x.pf <= HeapEnd
    BY <1>1, <1>3, <1>5, Numbers DEF Page
  <2> HIDE DEF x
  <2> QED BY <1>3, <2>2, <2>3, DataGood
<1> HIDE DEF n, x, k
<1>7. /\ Good(a, k) /\ Later(h, k) /\ Kept(x, a, h, d)
      /\ \A y \in Nat : y # pa /\ y < x.pf => k[y] = h[y]
  <2>1. pa < x.pf
    BY <1>1, <1>3
  <2> QED BY <1>5, <1>6, <2>1, MapGood DEF k, UserPage
<1>8. ~Structure(k[pa])
  <2>1. k[pa] = Data(d, i, 0) \/ k[pa] = Data(d, i, va % W)
    <3>1. x.pf # pa
      BY <1>1, <1>3
    <3> QED BY <1>1, <3>1 DEF k, MapRole
  <2> QED BY <2>1, Structures
<1> HIDE DEF a, o, i
<1>9. /\ a \in Mem /\ a.pf \in Nat
      /\ l.m.mem[Loc(d, i)] # Zero => a.pf = pa + 1
  BY <1>2, <1>3 DEF IsMap, Mem
<1>10. a.mem[Loc(d, i)] # Zero
  <2>1. x.pf # d
    <3>1. h[x.pf] = Free
      BY <1>1, <1>3
    <3> QED BY <3>1, RoleKinds
  <2>2. Pte(pa) # Zero /\ Pte(x.pf) # Zero
    BY <1>1, <1>3, WordKinds
  <2> QED BY <1>2, <1>3, <1>4, <2>1, <2>2 DEF IsMap
<1>11. \A y \in Page, c \in Index :
         \/ n.m.mem[Loc(y, c)] = a.mem[Loc(y, c)]
         \/ (y = pa \/ (o # 0 /\ y = pa + 1)) /\ \E b \in Nat : n.m.mem[Loc(y, c)] = Disk(b)
  <2> DEFINE r == Read(a, f, l.at, pa * W + o)
  <2>1. l.at \in 0 .. Image[f].size /\ pa \in Nat /\ o \in Index /\ n.m = r
    BY <1>1, <1>2 DEF Loading
  <2>2. \A y \in Page, c \in Index :
          \/ r.mem[Loc(y, c)] = a.mem[Loc(y, c)]
          \/ (y = pa \/ (o # 0 /\ y = pa + 1)) /\ \E b \in Nat : r.mem[Loc(y, c)] = Disk(b)
    <3>1. a \in Mem
      BY <1>9
    <3> HIDE DEF pa
    <3> QED BY <2>1, <3>1, ReadIs
  <2> HIDE DEF r
  <2> QED BY <2>1, <2>2
<1>12. o # 0 => h[pa + 1] = Free /\ k[pa + 1] = Free
  <2>1. h[pa + 1] = Free
    BY <1>1
  <2>2. o # 0 => a.pf = pa + 1
    BY <1>9 DEF o, i
  <2>3. Roles(a, k)
    BY <1>7 DEF Good, Tidy
  <2> QED BY <1>1, <2>1, <2>2, <2>3 DEF Roles
<1>13. \A y \in Page, c \in Index : Structure(k[y]) => n.m.mem[Loc(y, c)] = a.mem[Loc(y, c)]
  BY <1>8, <1>11, <1>12, Structures
<1>14. Good(n.m, k)
  <2>1. \A b \in Nat : Disk(b) \in Known(n.m.pf)
    BY DEF Known, Disk
  <2>2. \A y \in Page, c \in Index : a.mem[Loc(y, c)] \in Known(n.m.pf)
    BY <1>2, <1>7 DEF Good, Tidy
  <2>3. \A y \in Page, c \in Index : n.m.mem[Loc(y, c)] \in Known(n.m.pf)
    BY <1>11, <2>1, <2>2
  <2>4. n.m \in Mem /\ n.m.pf >= a.pf /\ n.m.pf <= HeapEnd
    BY <1>2, <1>5, <1>9 DEF Loading
  <2> QED BY <1>7, <1>13, <2>3, <2>4, DataGood
<1>15. Kept(l.m, n.m, h, d)
  <2>1. \A y \in Page, c \in Index : h[y] # Free => n.m.mem[Loc(y, c)] = a.mem[Loc(y, c)]
    BY <1>5, <1>11, <1>12
  <2> QED BY <1>3, <1>7, <2>1 DEF Kept
<1>16. n.m.mem[Loc(d, i)] # Zero
  <2>1. h[d] # Free /\ d # pa
    BY <1>5, RoleKinds
  <2>2. ~(o # 0 /\ d = pa + 1)
    BY <1>12, <2>1
  <2> QED BY <1>4, <1>10, <1>11, <2>1, <2>2
<1>17. \A y \in Nat : y < pa => k[y] = h[y]
  BY <1>1, <1>3, <1>7
<1>18. l.m.mem[Loc(d, i)] # Zero => n.m.pf = pa + 1
  BY <1>2, <1>9
<1>19. /\ WalkOf(a, d, va) = Pte(pa)
       /\ Alike(x, a, d, UserPage \ {va})
       /\ \A v \in UserPage \ {va} : Valid(WalkOf(x, d, v)) => WalkOf(a, d, v) = WalkOf(x, d, v)
       /\ \A c \in Index : a.mem[Loc(pa, c)] = l.m.mem[Loc(pa, c)]
  <2>1. /\ pa < x.pf /\ h[pa] = Free /\ ~Structure(h[pa])
        /\ va % W = 0 \/ x.mem[Loc(d, va \div W)] # Zero
    BY <1>1, <1>3, <1>5, Structures DEF x
  <2> DEFINE b == map(x, d, va, pa)
  <2>2. b = a
    BY DEF a
  <2>3. pa \in Page /\ b.pf <= HeapEnd
    BY <1>5, <2>2
  <2> HIDE DEF x, pa
  <2>6. MapsOnly(x, b, d, va, pa)
    BY <1>6, <2>1, <2>3, MapAlike
  <2>4. /\ WalkOf(b, d, va) = Pte(pa)
        /\ Alike(x, b, d, UserPage \ {va})
        /\ \A v \in UserPage \ {va} : Valid(WalkOf(x, d, v)) => WalkOf(b, d, v) = WalkOf(x, d, v)
    BY <2>6 DEF MapsOnly
  <2>5. \A y \in Page, c \in Index :
          y < x.pf /\ ~Structure(h[y]) => b.mem[Loc(y, c)] = x.mem[Loc(y, c)]
    BY <1>6, <2>1, <2>3, MapWalks
  <2> HIDE DEF b
  <2> QED BY <1>3, <2>1, <2>2, <2>3, <2>4, <2>5
<1>20. k[d] = Directory
  BY <1>7, RoleKinds, Sets DEF Later
<1>21. \A v \in UserPage : WalkOf(n.m, d, v) = WalkOf(a, d, v)
  BY <1>7, <1>13, <1>20, SameWalks
<1>22. Alike(a, n.m, d, UserPage \ {va})
  <2>1. k[pa] = Data(d, i, va % W)
    <3>1. x.pf # pa
      BY <1>1, <1>3 DEF x
    <3>2. (k[pa] = Data(d, i, 0) /\ x.mem[Loc(d, i)] = Zero) \/ k[pa] = Data(d, i, va % W)
      BY <1>1, <3>1 DEF k, MapRole, i
    <3>3. x.mem[Loc(d, i)] = Zero => va % W = 0
      BY <1>3 DEF i
    <3> QED BY <3>2, <3>3
  <2>2. ASSUME NEW y \in Page, NEW c \in Index, NEW v \in UserPage \ {va},
               k[y] = Data(d, v \div W, v % W)
        PROVE  n.m.mem[Loc(y, c)] = a.mem[Loc(y, c)]
    <3>1. y # pa
      <4>1. SUFFICES ASSUME y = pa PROVE FALSE
        OBVIOUS
      <4>2. v \div W = va \div W /\ v % W = va % W
        BY <2>1, <2>2, <4>1, DataOnce DEF i
      <4> QED BY <4>2, UserPageIs, SamePage
    <3>2. k[y] # Free
      BY <2>2, RoleKinds
    <3> QED BY <1>11, <1>12, <3>1, <3>2
  <2> DEFINE P == UserPage \ {va}
  <2>3. P \in SUBSET UserPage /\ \A v \in P : WalkOf(n.m, d, v) = WalkOf(a, d, v)
    BY <1>21
  <2>4. \A y \in Page, c \in Index :
          (\E v \in P : k[y] = Data(d, v \div W, v % W)) => n.m.mem[Loc(y, c)] = a.mem[Loc(y, c)]
    BY <2>2
  <2> HIDE DEF P
  <2>5. Alike(a, n.m, d, P)
    BY <1>7, <1>20, <2>3, <2>4, StillAlike
  <2> QED BY <2>5 DEF P
<1>23. PageRead(l, d, f, s, va, n)
  <2>1. /\ WalkOf(n.m, d, va) = Pte(pa)
        /\ \A v \in UserPage : WalkOf(x, d, v) = WalkOf(l.m, d, v)
        /\ Alike(l.m, x, d, UserPage)
    BY <1>3, <1>19, <1>21 DEF WalkOf, Alike, At
  <2>2. Alike(l.m, a, d, UserPage \ {va})
    BY <1>19, <2>1, AlikeOn
  <2>3. Alike(l.m, n.m, d, UserPage \ {va})
    BY <1>22, <2>2, AlikeOn
  <2>4. \A v \in UserPage \ {va} :
           Valid(WalkOf(l.m, d, v)) => WalkOf(n.m, d, v) = WalkOf(l.m, d, v)
    BY <1>19, <1>21, <2>1
  <2>5. /\ n.m = Read(a, f, l.at, pa * W + o) /\ l.at \in 0 .. Image[f].size
        /\ pa \in Nat /\ o \in Index /\ pa \in Page /\ a \in Mem
    BY <1>1, <1>2, <1>5, <1>9
  <2> DEFINE c == Count(f, l.at)
             word(t) == Disk(Image[f].disk + l.at + t)
  <2>6. ASSUME NEW y \in Page, NEW b \in Index
        PROVE  n.m.mem[Loc(y, b)] = IF y = pa /\ b >= o /\ b - o < c THEN word(b - o)
                                    ELSE IF y = pa + 1 /\ b < o /\ W + b - o < c
                                      THEN word(W + b - o) ELSE a.mem[Loc(y, b)]
    <3> HIDE DEF pa
    <3> QED BY <2>5, ReadAt
  <2> HIDE DEF c, word
  <2>7. ASSUME NEW b \in Index
        PROVE  /\ b >= o /\ b - o < c => n.m.mem[Loc(pa, b)] = word(b - o)
               /\ b < o => n.m.mem[Loc(pa, b)] = l.m.mem[Loc(pa, b)]
               /\ pa + 1 \in Page /\ b < o /\ W + b - o < c =>
                    n.m.mem[Loc(pa + 1, b)] = word(W + b - o)
    <3>1. pa # pa + 1 /\ (b < o => ~(b >= o))
      BY <1>1, <2>5, Sets DEF Index
    <3>2. pa \in Page
      BY <2>5
    <3> HIDE DEF pa
    <3>3. b < o => n.m.mem[Loc(pa, b)] = a.mem[Loc(pa, b)]
      BY <2>6, <3>1, <3>2
    <3>4. b >= o /\ b - o < c => n.m.mem[Loc(pa, b)] = word(b - o)
      BY <2>6, <3>2
    <3>5. pa + 1 \in Page /\ b < o /\ W + b - o < c =>
                    n.m.mem[Loc(pa + 1, b)] = word(W + b - o)
      BY <2>6, <3>1
    <3> QED BY <1>19, <3>3, <3>4, <3>5
  <2> QED BY <2>1, <2>3, <2>4, <2>5, <2>7 DEF PageRead, c, word, o
<1> QED BY <1>7, <1>8, <1>14, <1>15, <1>16, <1>17, <1>18, <1>23 DEF n, i

(* The table all segments of an image are in.                              *)
TableOf(f)  == FirstPage(Image[f].segs[1]) \div W
PagesOf(s) == LastPage(s) - FirstPage(s) + 1

LEMMA SegmentIs ==
  ASSUME NEW f \in File, NEW i \in DOMAIN Image[f].segs
  PROVE  LET s == Image[f].segs[i]
         IN  /\ s \in Segment /\ s.vaddr \in Nat /\ s.memsz \in Nat /\ s.filesz \in Nat
             /\ s.filesz <= s.memsz /\ s.offset \in 0 .. Image[f].size
             /\ FirstPage(s) \in Nat /\ LastPage(s) \in Nat
             /\ FirstPage(s) <= LastPage(s) /\ LastPage(s) < StackFirst
             /\ PagesOf(s) \in Nat /\ PagesOf(s) >= 1
             /\ \A v \in FirstPage(s) .. LastPage(s) : v \in UserPage /\ v \div W = TableOf(f)
             /\ (s.vaddr % W) + s.memsz < PagesOf(s) * W
<1> DEFINE s == Image[f].segs[i]
           a == FirstPage(s)
           b == LastPage(s)
           o == s.vaddr % W
<1>1. /\ s \in Segment /\ s.filesz <= s.memsz /\ s.offset + s.filesz <= Image[f].size
      /\ LastPage(s) < StackFirst
      /\ FirstPage(s) \div W = TableOf(f) /\ LastPage(s) \div W = TableOf(f)
      /\ Image[f].size \in Nat
  BY FileIs DEF TableOf
<1> HIDE DEF s
<1>2. s.vaddr \in Nat /\ s.memsz \in Nat /\ s.filesz \in Nat /\ s.offset \in Nat
  BY <1>1 DEF Segment
<1>3. s.offset \in 0 .. Image[f].size
  BY <1>1, <1>2
<1>4. /\ a \in Nat /\ b \in Nat /\ a <= b /\ o \in Index
      /\ s.vaddr = a * W + o
      /\ s.vaddr + s.memsz < b * W + W
  <2>1. s.vaddr + s.memsz \in Nat /\ s.vaddr <= s.vaddr + s.memsz
    BY <1>2
  <2>2. a \in Nat /\ o \in Index /\ s.vaddr = a * W + o
    BY <1>2, Division DEF FirstPage
  <2>3. b \in Nat /\ (s.vaddr + s.memsz) % W \in Index
        /\ s.vaddr + s.memsz = b * W + ((s.vaddr + s.memsz) % W)
    BY <2>1, Division DEF LastPage
  <2>4. a <= b
    BY <1>2, <2>1, Rises DEF FirstPage, LastPage
  <2>5. s.vaddr + s.memsz < b * W + W
    <3>1. b * W \in Nat
      BY <2>3, Smaller
    <3> HIDE DEF b
    <3> QED BY <2>3, <3>1, Numbers DEF Index
  <2> QED BY <2>2, <2>3, <2>4, <2>5
<1>5. o + s.memsz < PagesOf(s) * W
  <2>1. PagesOf(s) = b - a + 1 /\ b - a \in Nat
    BY <1>4 DEF PagesOf
  <2>2. (b - a + 1) * W = (b - a) * W + W /\ (b - a) * W \in Nat
    BY <2>1, Smaller
  <2>3. (a + (b - a)) * W = a * W + (b - a) * W
    BY <1>4, <2>1, Distributes
  <2>4. a + (b - a) = b
    BY <1>4
  <2>5. a * W \in Nat /\ b * W \in Nat
    BY <1>4, Smaller
  <2> DEFINE A == a * W
             B == b * W
             C == (b - a) * W
  <2>6. B = A + C /\ A \in Nat /\ B \in Nat /\ C \in Nat
        /\ s.vaddr = A + o /\ s.vaddr + s.memsz < B + W /\ o \in Nat /\ W \in Nat
        /\ PagesOf(s) * W = C + W
    BY <1>4, <2>1, <2>2, <2>3, <2>4, <2>5, Sets, Numbers
  <2> HIDE DEF A, B, C, a, b, o
  <2> QED BY <1>2, <2>6
<1>6. ASSUME NEW v \in a .. b PROVE v \in UserPage /\ v \div W = TableOf(f)
  <2>1. v \in Nat /\ a <= v /\ v <= b
    BY <1>4
  <2>2. a \div W <= v \div W /\ v \div W <= b \div W
    BY <1>4, <2>1, Rises
  <2>3. a \div W = TableOf(f) /\ b \div W = TableOf(f) /\ a \div W \in Nat /\ v \div W \in Nat
    BY <1>1, <1>4, <2>1, Division
  <2>4. v \in UserPage
    BY <1>1, <1>4, <2>1, Numbers DEF UserPage
  <2> HIDE DEF a, b
  <2> QED BY <2>2, <2>3, <2>4
<1>7. PagesOf(s) \in Nat /\ PagesOf(s) >= 1
  BY <1>4 DEF PagesOf
<1> QED BY <1>1, <1>2, <1>3, <1>4, <1>5, <1>6, <1>7 DEF s

SegmentRounds(m, d, f, s, r) ==
  /\ r \in [0 .. PagesOf(s) -> Loading(f)] /\ r[0] = [m |-> m, at |-> s.offset]
  /\ \A i \in 1 .. PagesOf(s) : r[i] = LoadPage(r[i - 1], d, f, s, FirstPage(s) + i - 1)

LEMMA LoadSegmentIs ==
  ASSUME NEW m \in Mem, NEW d \in Page, NEW f \in File, NEW j \in DOMAIN Image[f].segs
  PROVE  LET s == Image[f].segs[j]
         IN  \E r : /\ SegmentRounds(m, d, f, s, r)
                    /\ LoadSegment(m, d, f, s) =
                         [mem |-> Write(r[PagesOf(s)].m.mem, m.pf * W + (s.vaddr % W) + s.filesz,
                                        Zeros(s.memsz - s.filesz)),
                          pf  |-> r[PagesOf(s)].m.pf]
<1> DEFINE s == Image[f].segs[j]
           n == PagesOf(s)
           x == [m |-> m, at |-> s.offset]
           F == [z \in Loading(f) \X (1 .. n) |-> LoadPage(z[1], d, f, s, FirstPage(s) + z[2] - 1)]
<1>1. /\ n \in Nat /\ x \in Loading(f) /\ s \in Segment
      /\ FirstPage(s) \in Nat /\ LastPage(s) \in Nat /\ n = LastPage(s) - FirstPage(s) + 1
      /\ \A v \in FirstPage(s) .. LastPage(s) : v \in UserPage
  BY SegmentIs DEF Loading, PagesOf
<1> HIDE DEF s
<1>2. ASSUME NEW l \in Loading(f), NEW i \in 1 .. n
      PROVE  LoadPage(l, d, f, s, FirstPage(s) + i - 1) \in Loading(f)
  <2>1. FirstPage(s) + i - 1 \in UserPage
    BY <1>1
  <2> QED BY <1>1, <2>1, LoadPageIs
<1>3. F \in [Loading(f) \X (1 .. n) -> Loading(f)]
  <2> HIDE DEF n
  <2> QED BY <1>2
<1>4. PICK r : Rounds(Loading(f), x, F, n, r)
  <2> HIDE DEF x, F, n
  <2> QED BY <1>1, <1>3, Loop
<1>5. SegmentRounds(m, d, f, s, r)
  <2>1. ASSUME NEW i \in 1 .. n PROVE r[i] = LoadPage(r[i - 1], d, f, s, FirstPage(s) + i - 1)
    <3>1. i - 1 \in 0 .. n /\ r[i - 1] \in Loading(f)
      BY <1>1, <1>4 DEF Rounds
    <3> HIDE DEF n
    <3> QED BY <1>4, <3>1 DEF Rounds
  <2> QED BY <1>4, <2>1 DEF Rounds, SegmentRounds
<1> DEFINE Is(g) == g = [i \in 0 .. LastPage(s) - FirstPage(s) + 1 |->
                           IF i = 0 THEN [m |-> m, at |-> s.offset]
                           ELSE LoadPage(g[i - 1], d, f, s, FirstPage(s) + i - 1)]
           f0 == CHOOSE g : Is(g)
<1>6. Is(r)
  BY <1>1, <1>5 DEF SegmentRounds
<1>7. Is(f0) /\ LoadSegment(m, d, f, s) =
                  [f0[LastPage(s) - FirstPage(s) + 1].m EXCEPT
                     !.mem = Write(@, m.pf * W + (s.vaddr % W) + s.filesz,
                                   Zeros(s.memsz - s.filesz))]
  BY <1>6 DEF LoadSegment
<1> HIDE DEF f0
<1>8. f0[0] = x /\ \A i \in 1 .. n : f0[i] = LoadPage(f0[i - 1], d, f, s, FirstPage(s) + i - 1)
  <2>1. f0 = [i \in 0 .. n |-> IF i = 0 THEN x
                            ELSE LoadPage(f0[i - 1], d, f, s, FirstPage(s) + i - 1)]
    BY <1>7 DEF PagesOf
  <2>2. 0 \in 0 .. n /\ \A i \in 1 .. n : i \in 0 .. n /\ i # 0
    BY <1>1
  <2> HIDE DEF n, x
  <2> QED BY <2>1, <2>2
<1>9. f0[n] = r[n]
  <2>1. f0[0] = r[0] /\ \A i \in 1 .. n : f0[i - 1] = r[i - 1] => f0[i] = r[i]
    BY <1>5, <1>8 DEF SegmentRounds
  <2> HIDE DEF n
  <2>2. n \in Nat /\ n \in 0 .. n
    BY <1>1
  <2>3. \A i \in 0 .. n : f0[i] = r[i]
    BY <2>1, <2>2, Same
  <2> QED BY <2>2, <2>3
<1>10. r[n].m \in Mem
  <2>1. n \in 0 .. n
    BY <1>1
  <2> QED BY <1>5, <2>1 DEF SegmentRounds, Loading
<1> DEFINE words == Zeros(s.memsz - s.filesz)
           at == m.pf * W + (s.vaddr % W) + s.filesz
<1>11. LoadSegment(m, d, f, s) = [r[n].m EXCEPT !.mem = Write(@, at, words)]
  BY <1>7, <1>9 DEF PagesOf
<1>12. LoadSegment(m, d, f, s) = [mem |-> Write(r[n].m.mem, at, words), pf |-> r[n].m.pf]
  <2> HIDE DEF n, words, at
  <2> QED BY <1>10, <1>11 DEF Mem
<1> QED BY <1>5, <1>12 DEF s

(* After i pages of segment s, the words of its file are in them, and the  *)
(* end of what was read in the page that comes next.                       *)
SegmentView(m, d, f, s, i, l) ==
  LET a       == FirstPage(s)
      off     == s.vaddr % W
      word(t) == Disk(Image[f].disk + s.offset + t)
  IN  /\ Alike(m, l.m, d, UserPage \ (a .. a + i - 1))
      /\ l.at = IF s.offset + i * W <= Image[f].size THEN s.offset + i * W ELSE Image[f].size
      /\ \A c \in 0 .. i - 1 : Valid(WalkOf(l.m, d, a + c))
      /\ \A c \in 0 .. i - 1, o \in Index :
           c * W + o >= off /\ c * W + o - off < s.filesz =>
             At(l.m, d, a + c, o) = word(c * W + o - off)
      /\ \A o \in Index :
           i > 0 /\ o < off /\ i * W + o - off < s.filesz /\ l.m.pf \in Page =>
             l.m.mem[Loc(l.m.pf, o)] = word(i * W + o - off)

LEMMA ViewRound ==
  ASSUME NEW f \in File, NEW d \in Page, NEW s \in Segment,
         s.offset + s.filesz <= Image[f].size, NEW m, NEW l \in Loading(f), NEW n \in Loading(f),
         NEW c \in Nat, NEW va \in UserPage, va = FirstPage(s) + c,
         SegmentView(m, d, f, s, c, l), PageRead(l, d, f, s, va, n),
         n.at = l.at + Count(f, l.at), s.vaddr % W # 0 => n.m.pf = l.m.pf + 1
  PROVE  SegmentView(m, d, f, s, c + 1, n)
<1> DEFINE a       == FirstPage(s)
           off     == s.vaddr % W
           word(t) == Disk(Image[f].disk + s.offset + t)
           pa      == l.m.pf
           D       == Image[f].disk
           S       == Image[f].size
           C       == c * W
           x       == l.at
           k       == Count(f, x)
<1>1. /\ a \in Nat /\ off \in Nat /\ off < W /\ W \in Nat /\ C \in Nat /\ (c + 1) * W = C + W
      /\ D \in Nat /\ S \in Nat /\ s.offset \in Nat /\ s.filesz \in Nat /\ pa \in Nat
      /\ x \in Nat /\ k = (IF x + W > S THEN S - x ELSE W) /\ W >= 1
  <2>1. s.vaddr \in Nat /\ s.offset \in Nat /\ s.filesz \in Nat
    BY DEF Segment
  <2>2. a \in Nat /\ off \in Index
    BY <2>1, Division DEF FirstPage
  <2>3. x \in Nat /\ pa \in Nat
    BY FileIs DEF Loading, Mem
  <2>4. k = (IF x + W > S THEN S - x ELSE W)
    BY DEF Count
  <2>5. D \in Nat /\ S \in Nat
    BY FileIs
  <2>6. C \in Nat /\ (c + 1) * W = C + W
    BY Smaller
  <2> QED BY <2>1, <2>2, <2>3, <2>4, <2>5, <2>6, Numbers DEF Index
<1>2. /\ Alike(m, l.m, d, UserPage \ (a .. a + c - 1))
      /\ x = IF s.offset + C <= S THEN s.offset + C ELSE S
      /\ \A b \in 0 .. c - 1 : Valid(WalkOf(l.m, d, a + b))
      /\ \A b \in 0 .. c - 1, o \in Index :
           b * W + o >= off /\ b * W + o - off < s.filesz =>
             At(l.m, d, a + b, o) = word(b * W + o - off)
      /\ \A o \in Index :
           c > 0 /\ o < off /\ C + o - off < s.filesz /\ pa \in Page =>
             l.m.mem[Loc(pa, o)] = word(C + o - off)
  BY DEF SegmentView
<1>3. /\ WalkOf(n.m, d, va) = Pte(pa) /\ pa \in Page
      /\ Alike(l.m, n.m, d, UserPage \ {va})
      /\ \A o \in Index :
           /\ o >= off /\ o - off < k => n.m.mem[Loc(pa, o)] = Disk(D + x + (o - off))
           /\ o < off => n.m.mem[Loc(pa, o)] = l.m.mem[Loc(pa, o)]
           /\ pa + 1 \in Page /\ o < off /\ W + o - off < k =>
                n.m.mem[Loc(pa + 1, o)] = Disk(D + x + (W + o - off))
  BY DEF PageRead
<1>4. n.at = x + k
  OBVIOUS
<1>5. va = a + c
  OBVIOUS
<1> HIDE DEF a, off, pa, D, S, C, x, k
<1>6. n.at = IF s.offset + (C + W) <= S THEN s.offset + (C + W) ELSE S
  BY <1>1, <1>2, <1>4
<1>7. ASSUME NEW t \in Nat, t < W, C + t < s.filesz
      PROVE  x = s.offset + C /\ t < k /\ D + x + t = D + s.offset + (C + t)
  <2>1. s.offset + s.filesz <= S
    BY DEF S
  <2> QED BY <1>1, <1>2, <1>7, <2>1
<1>8. Alike(m, n.m, d, UserPage \ (a .. a + (c + 1) - 1))
  <2> DEFINE P == UserPage \ (a .. a + c - 1)
             Q == UserPage \ {va}
             R == UserPage \ (a .. a + (c + 1) - 1)
  <2>1. R \in SUBSET (P \cap Q)
    <3>1. a + c - 1 <= a + (c + 1) - 1 /\ va \in a .. a + (c + 1) - 1
      BY <1>1, <1>5
    <3>2. \A v \in a .. a + c - 1 : v \in a .. a + (c + 1) - 1
      BY <1>1, <3>1
    <3> QED BY <3>1, <3>2
  <2>2. Alike(m, l.m, d, P) /\ Alike(l.m, n.m, d, Q)
    BY <1>2, <1>3
  <2> HIDE DEF P, Q, R
  <2>3. Alike(m, n.m, d, R)
    BY <2>1, <2>2, AlikeOn
  <2> QED BY <2>3 DEF R
<1>9. \A b \in 0 .. (c + 1) - 1 : b = c \/ (b \in 0 .. c - 1 /\ a + b # va)
  BY <1>1, <1>5
<1>10. ASSUME NEW b \in 0 .. c - 1, a + b # va
       PROVE  a + b \in UserPage \ {va}
  <2>1. a + b \in Nat /\ a + b < va
    BY <1>1, <1>5
  <2> QED BY <1>10, <2>1, Numbers DEF UserPage
<1>11. ASSUME NEW b \in 0 .. (c + 1) - 1 PROVE Valid(WalkOf(n.m, d, a + b))
  <2>1. CASE b = c
    BY <1>1, <1>3, <1>5, <2>1, WordKinds
  <2>2. CASE b \in 0 .. c - 1 /\ a + b # va
    BY <1>2, <1>3, <1>10, <2>2 DEF Alike
  <2> QED BY <1>9, <2>1, <2>2
<1>12. ASSUME NEW b \in 0 .. (c + 1) - 1, NEW o \in Index,
              b * W + o >= off, b * W + o - off < s.filesz
       PROVE  At(n.m, d, a + b, o) = Disk(D + s.offset + (b * W + o - off))
  <2>1. CASE b = c
    <3>1. At(n.m, d, a + b, o) = n.m.mem[Loc(pa, o)]
      <4>1. a + b = va
        BY <1>5, <2>1
      <4>2. Valid(Pte(pa)) /\ Pte(pa)[2] = pa
        BY <1>1, WordKinds
      <4> QED BY <1>3, <4>1, <4>2 DEF At
    <3>2. b * W = C /\ o \in Nat /\ o < W
      BY <2>1, Numbers DEF C, Index
    <3>3. CASE o >= off
      <4>1. o - off \in Nat /\ o - off < W /\ C + (o - off) < s.filesz
            /\ C + (o - off) = C + o - off
        BY <1>1, <1>12, <3>2, <3>3
      <4>2. o - off < k /\ D + x + (o - off) = D + s.offset + (C + (o - off))
        BY <1>7, <4>1
      <4> QED BY <1>3, <3>1, <3>2, <3>3, <4>1, <4>2
    <3>4. CASE o < off
      <4>1. c > 0
        <5>1. c = 0 => C = 0
          BY <1>1 DEF C
        <5> QED BY <1>1, <1>12, <3>2, <3>4, <5>1
      <4>2. l.m.mem[Loc(pa, o)] = word(C + o - off)
        BY <1>2, <1>3, <1>12, <3>2, <3>4, <4>1
      <4> QED BY <1>3, <3>1, <3>2, <3>4, <4>2 DEF D
    <3> QED BY <1>1, <3>2, <3>3, <3>4
  <2>2. CASE b \in 0 .. c - 1 /\ a + b # va
    <3>1. At(n.m, d, a + b, o) = At(l.m, d, a + b, o)
      BY <1>3, <1>10, <2>2 DEF Alike
    <3> QED BY <1>2, <1>12, <2>2, <3>1 DEF D
  <2> QED BY <1>9, <2>1, <2>2
<1>13. ASSUME NEW o \in Index, o < off, C + W + o - off < s.filesz, n.m.pf \in Page
       PROVE  n.m.mem[Loc(n.m.pf, o)] = Disk(D + s.offset + (C + W + o - off))
  <2>1. off # 0 /\ o \in Nat
    BY <1>1, <1>13, Sets
  <2>2. n.m.pf = pa + 1
    BY <2>1 DEF off, pa
  <2>3. W + o - off \in Nat /\ W + o - off < W /\ C + (W + o - off) < s.filesz
        /\ C + (W + o - off) = C + W + o - off
    BY <1>1, <1>13, <2>1
  <2>4. W + o - off < k /\ D + x + (W + o - off) = D + s.offset + (C + (W + o - off))
    BY <1>7, <2>3
  <2> QED BY <1>3, <1>13, <2>2, <2>3, <2>4
<1> QED BY <1>1, <1>6, <1>8, <1>11, <1>12, <1>13 DEF SegmentView, a, off, D, S

SegmentState(m, h, d, f, s, i, l, k) ==
  /\ l \in Loading(f) /\ Good(l.m, k) /\ Later(h, k) /\ Kept(m, l.m, h, d)
  /\ i > 0 \/ m.mem[Loc(d, TableOf(f))] # Zero => l.m.mem[Loc(d, TableOf(f))] # Zero
  /\ m.mem[Loc(d, TableOf(f))] # Zero =>
       /\ l.m.pf = m.pf + i
       /\ \A j \in 0 .. i - 1 : ~Structure(k[m.pf + j])
       /\ \A j \in 0 .. i - 1 : WalkOf(l.m, d, FirstPage(s) + j) = Pte(m.pf + j)
  /\ SegmentView(m, d, f, s, i, l)

LEMMA SegmentRound ==
  ASSUME NEW m \in Mem, NEW h, NEW d \in Page, h[d] = Directory, d # kas,
         NEW f \in File, NEW j \in DOMAIN Image[f].segs,
         NEW i \in 1 .. PagesOf(Image[f].segs[j]),
         j = 1 \/ m.mem[Loc(d, TableOf(f))] # Zero,
         NEW l, NEW k, SegmentState(m, h, d, f, Image[f].segs[j], i - 1, l, k),
         LoadPage(l, d, f, Image[f].segs[j], FirstPage(Image[f].segs[j]) + i - 1).m.pf <= HeapEnd
  PROVE  LET n == LoadPage(l, d, f, Image[f].segs[j], FirstPage(Image[f].segs[j]) + i - 1)
         IN  \E r : SegmentState(m, h, d, f, Image[f].segs[j], i, n, r)
<1> DEFINE s == Image[f].segs[j]
           va == FirstPage(s) + i - 1
           n  == LoadPage(l, d, f, s, va)
           T  == TableOf(f)
           a  == FirstPage(s)
<1>1. /\ s \in Segment /\ va \in UserPage /\ va \div W = T /\ i \in Nat /\ i >= 1
      /\ a \in Nat /\ s.offset + s.filesz <= Image[f].size
      /\ j = 1 => s.vaddr % W = 0 /\ a % W = 0
      /\ \A c \in 0 .. i - 1 : a + c \in UserPage
  <2>1. va \in FirstPage(s) .. LastPage(s)
    BY SegmentIs DEF PagesOf
  <2>2. i \in Nat /\ i >= 1
    BY SegmentIs
  <2>3. \A c \in 0 .. i - 1 : a + c \in a .. LastPage(s)
    BY <2>1, <2>2, SegmentIs
  <2>4. s.offset + s.filesz <= Image[f].size /\ (j = 1 => s.vaddr % W = 0 /\ a % W = 0)
    BY FileIs
  <2> QED BY <2>1, <2>2, <2>3, <2>4, SegmentIs
<1>2. /\ l \in Loading(f) /\ Good(l.m, k) /\ Later(h, k) /\ Kept(m, l.m, h, d)
      /\ m.pf \in Nat /\ l.m.pf \in Nat
  BY DEF SegmentState, Loading, Mem
<1>3. /\ s.vaddr % W = 0 \/ l.m.mem[Loc(d, T)] # Zero
      /\ va % W = 0 \/ l.m.mem[Loc(d, T)] # Zero
      /\ SegmentView(m, d, f, s, i - 1, l)
  <2>1. i = 1 \/ i - 1 > 0
    BY <1>1
  <2>2. i = 1 => va = a
    BY <1>1
  <2> QED BY <1>1, <2>1, <2>2 DEF SegmentState
<1>4. k[d] = Directory
  BY <1>2, RoleKinds, Sets DEF Later
<1>5. n \in Loading(f) /\ n.at = l.at + Count(f, l.at)
  BY <1>1, <1>2, LoadPageIs
<1> HIDE DEF s, va, T
<1>6. /\ PageRead(l, d, f, s, va, n)
      /\ n.m.mem[Loc(d, T)] # Zero
      /\ l.m.mem[Loc(d, T)] # Zero => n.m.pf = l.m.pf + 1
      /\ \E r : /\ Good(n.m, r) /\ Later(k, r) /\ Kept(l.m, n.m, k, d)
                /\ ~Structure(r[l.m.pf])
                /\ \A y \in Nat : y < l.m.pf => r[y] = k[y]
  <2>1. n.m.pf <= HeapEnd
    BY DEF n, s, va
  <2> QED BY <1>1, <1>2, <1>3, <1>4, <2>1, LoadPageGood
<1> HIDE DEF n
<1>7. PICK r : /\ Good(n.m, r) /\ Later(k, r) /\ Kept(l.m, n.m, k, d)
               /\ ~Structure(r[l.m.pf])
               /\ \A y \in Nat : y < l.m.pf => r[y] = k[y]
  BY <1>6
<1>8. Later(h, r) /\ Kept(m, n.m, h, d)
  BY <1>2, <1>7, KeptOn
<1>9. ASSUME m.mem[Loc(d, T)] # Zero
      PROVE  /\ n.m.pf = m.pf + i
             /\ \A c \in 0 .. i - 1 : ~Structure(r[m.pf + c])
             /\ \A c \in 0 .. i - 1 : WalkOf(n.m, d, a + c) = Pte(m.pf + c)
  <2>1. /\ l.m.mem[Loc(d, T)] # Zero /\ l.m.pf = m.pf + (i - 1)
        /\ \A c \in 0 .. (i - 1) - 1 : ~Structure(k[m.pf + c])
        /\ \A c \in 0 .. (i - 1) - 1 : WalkOf(l.m, d, a + c) = Pte(m.pf + c)
    BY <1>9 DEF SegmentState, T, s
  <2>2. n.m.pf = m.pf + i
    BY <1>1, <1>2, <1>6, <2>1
  <2>3. ASSUME NEW c \in 0 .. i - 1 PROVE ~Structure(r[m.pf + c])
    <3>1. CASE c = i - 1
      BY <1>7, <2>1, <3>1
    <3>2. CASE c # i - 1
      <4>1. c \in 0 .. (i - 1) - 1 /\ m.pf + c \in Nat /\ m.pf + c < l.m.pf
        BY <1>1, <1>2, <2>1, <3>2
      <4> QED BY <1>7, <2>1, <4>1
    <3> QED BY <3>1, <3>2
  <2>4. ASSUME NEW c \in 0 .. i - 1 PROVE WalkOf(n.m, d, a + c) = Pte(m.pf + c)
    <3>1. CASE c = i - 1
      <4>1. a + c = va /\ m.pf + c = l.m.pf
        BY <1>1, <2>1, <3>1 DEF va
      <4> QED BY <1>6, <4>1 DEF PageRead
    <3>2. CASE c # i - 1
      <4>1. c \in 0 .. (i - 1) - 1 /\ m.pf + c \in Nat /\ a + c # va
        BY <1>1, <1>2, <3>2 DEF va
      <4>2. Valid(WalkOf(l.m, d, a + c)) /\ WalkOf(l.m, d, a + c) = Pte(m.pf + c)
        BY <2>1, <4>1, WordKinds
      <4>3. a + c \in UserPage \ {va}
        BY <1>1, <4>1
      <4> QED BY <1>6, <4>2, <4>3 DEF PageRead
    <3> QED BY <3>1, <3>2
  <2> QED BY <2>2, <2>3, <2>4
<1>10. SegmentView(m, d, f, s, i, n)
  <2> DEFINE c == i - 1
  <2>1. c \in Nat /\ c + 1 = i /\ va = FirstPage(s) + c
    BY <1>1 DEF va
  <2>2. s.vaddr % W # 0 => n.m.pf = l.m.pf + 1
    BY <1>3, <1>6
  <2>3. SegmentView(m, d, f, s, c, l)
    BY <1>3
  <2> HIDE DEF c, a
  <2>4. SegmentView(m, d, f, s, c + 1, n)
    BY <1>1, <1>2, <1>5, <1>6, <2>1, <2>2, <2>3, ViewRound
  <2> QED BY <2>1, <2>4
<1>11. SegmentState(m, h, d, f, s, i, n, r)
  BY <1>5, <1>6, <1>7, <1>8, <1>9, <1>10 DEF SegmentState, T
<1> QED BY <1>11 DEF n, s, va

LEMMA SegmentRises ==
  ASSUME NEW m \in Mem, NEW d \in Page, NEW f \in File, NEW j \in DOMAIN Image[f].segs,
         NEW r, SegmentRounds(m, d, f, Image[f].segs[j], r)
  PROVE  LET N == PagesOf(Image[f].segs[j])
         IN  \A i \in 0 .. N : m.pf <= r[i].m.pf /\ r[i].m.pf <= r[N].m.pf
<1> DEFINE s == Image[f].segs[j]
           N == PagesOf(s)
           p == [i \in 0 .. N |-> r[i].m.pf]
<1>1. /\ s \in Segment /\ N \in Nat /\ N = LastPage(s) - FirstPage(s) + 1
      /\ FirstPage(s) \in Nat /\ LastPage(s) \in Nat
      /\ \A v \in FirstPage(s) .. LastPage(s) : v \in UserPage
  BY SegmentIs DEF PagesOf
<1>2. /\ r \in [0 .. N -> Loading(f)] /\ r[0] = [m |-> m, at |-> s.offset]
      /\ \A i \in 1 .. N : r[i] = LoadPage(r[i - 1], d, f, s, FirstPage(s) + i - 1)
  BY DEF SegmentRounds
<1> HIDE DEF s, N
<1>3. \A i \in 0 .. N : r[i] \in Loading(f) /\ r[i].m.pf \in Nat
  BY <1>2 DEF Loading, Mem
<1>4. p \in [0 .. N -> Nat] /\ \A i \in 0 .. N : p[i] = r[i].m.pf
  BY <1>3
<1> HIDE DEF p
<1>5. ASSUME NEW i \in 1 .. N PROVE p[i - 1] <= p[i]
  <2>1. FirstPage(s) + i - 1 \in UserPage /\ i \in 0 .. N /\ i - 1 \in 0 .. N
    BY <1>1
  <2>2. r[i - 1] \in Loading(f) /\ r[i].m.pf \in Nat /\ r[i - 1].m.pf \in Nat
    BY <1>3, <2>1
  <2>3. r[i - 1].m.pf + 1 <= r[i].m.pf
    BY <1>1, <1>2, <2>1, <2>2, LoadPageIs
  <2> QED BY <1>4, <2>1, <2>2, <2>3
<1>6. \A i \in 0 .. N : p[0] <= p[i] /\ p[i] <= p[N]
  <2>1. N \in Nat
    BY <1>1
  <2> QED BY <1>4, <1>5, <2>1, Rising
<1>7. 0 \in 0 .. N /\ N \in 0 .. N /\ r[0].m.pf = m.pf
  BY <1>1, <1>2
<1> QED BY <1>4, <1>6, <1>7 DEF N, s

(* Segment s of f is where d finds it: the words of the file and the bss.  *)
SegmentHas(n, d, f, s) ==
  \A v \in FirstPage(s) .. LastPage(s) :
    /\ Valid(WalkOf(n, d, v))
    /\ \A o \in Index :
         LET t == Loc(v, o) - s.vaddr
         IN  /\ t \in 0 .. s.filesz - 1 => At(n, d, v, o) = Disk(Image[f].disk + s.offset + t)
             /\ t \in s.filesz .. s.memsz - 1 => At(n, d, v, o) = Zero

Spread(s) ==
  LET a == FirstPage(s)
      off == s.vaddr % W
      N == PagesOf(s)
  IN  /\ off \in Index /\ off \in Nat /\ N \in Nat /\ N >= 1
      /\ s.filesz \in Nat /\ s.memsz \in Nat
      /\ s.filesz <= s.memsz /\ s.memsz - s.filesz \in Nat
      /\ a .. LastPage(s) = a .. a + N - 1
      /\ \A v \in a .. LastPage(s) : v - a \in 0 .. N - 1 /\ a + (v - a) = v
      /\ \A c \in 0 .. N - 1 :
           /\ a + c \in a .. LastPage(s) /\ a + c \in UserPage /\ c \in Nat /\ c * W \in Nat
           /\ \A o \in Index : Loc(a + c, o) - s.vaddr = c * W + o - off

LEMMA SegmentPages ==
  ASSUME NEW f \in File, NEW j \in DOMAIN Image[f].segs
  PROVE  Spread(Image[f].segs[j])
<1> DEFINE s == Image[f].segs[j]
           a == FirstPage(s)
           off == s.vaddr % W
           N == PagesOf(s)
<1>1. /\ a \in Nat /\ LastPage(s) \in Nat /\ N = LastPage(s) - a + 1 /\ N >= 1 /\ s.vaddr \in Nat
      /\ N \in Nat /\ s.filesz \in Nat /\ s.memsz \in Nat /\ s.filesz <= s.memsz
      /\ \A v \in a .. LastPage(s) : v \in UserPage
  BY SegmentIs DEF PagesOf
<1>6. s.memsz - s.filesz \in Nat
  <2> HIDE DEF s
  <2> QED BY <1>1
<1>2. off \in Index /\ s.vaddr = Loc(a, off)
  BY <1>1, Split DEF FirstPage
<1> HIDE DEF s, a, off, N
<1>3. ASSUME NEW c \in 0 .. N - 1
      PROVE  /\ a + c \in a .. LastPage(s) /\ a + c \in UserPage /\ c \in Nat /\ c * W \in Nat
             /\ \A o \in Index : Loc(a + c, o) - s.vaddr = c * W + o - off
  <2>1. c \in Nat /\ a + c \in a .. LastPage(s)
    BY <1>1
  <2>2. (a + c) * W = a * W + c * W /\ a * W \in Nat /\ c * W \in Nat
    BY <1>1, <2>1, Distributes, Smaller
  <2> DEFINE A == a * W
             C == c * W
  <2>3. ASSUME NEW o \in Index PROVE Loc(a + c, o) - s.vaddr = C + o - off
    <3>1. Loc(a + c, o) = A + C + o /\ s.vaddr = A + off /\ A \in Nat /\ C \in Nat
          /\ o \in Nat /\ off \in Nat
      BY <1>2, <2>2, Sets DEF Loc
    <3> HIDE DEF A, C
    <3> QED BY <3>1
  <2> QED BY <1>1, <2>1, <2>2, <2>3
<1>4. a .. LastPage(s) = a .. a + N - 1
  BY <1>1
<1>5. \A v \in a .. LastPage(s) : v - a \in 0 .. N - 1 /\ a + (v - a) = v
  BY <1>1
<1>7. off \in Nat
  BY <1>2, Sets
<1> QED BY <1>1, <1>2, <1>3, <1>4, <1>5, <1>6, <1>7 DEF Spread, s, a, off, N

(* n is l.m with the bss of s cleared; m is the memory the segment met.     *)
BssCleared(m, n, d, s, l) ==
  /\ s.filesz # s.memsz =>
       \A c \in 0 .. PagesOf(s) - 1 : WalkOf(l.m, d, FirstPage(s) + c) = Pte(m.pf + c)
  /\ n.mem = Write(l.m.mem, Loc(m.pf, (s.vaddr % W) + s.filesz), Zeros(s.memsz - s.filesz))
  /\ \A y \in Page, o \in Index :
       \/ n.mem[Loc(y, o)] = l.m.mem[Loc(y, o)]
       \/ y \in m.pf .. m.pf + PagesOf(s) - 1 /\ s.filesz # s.memsz

LEMMA BssView ==
  ASSUME NEW f \in File, NEW j \in DOMAIN Image[f].segs, NEW s, s = Image[f].segs[j],
         NEW d \in Page, NEW m \in Mem, NEW l \in Loading(f), NEW k, Good(l.m, k),
         k[d] = Directory, SegmentView(m, d, f, s, PagesOf(s), l),
         NEW n \in Mem, BssCleared(m, n, d, s, l)
  PROVE  Alike(m, n, d, UserPage \ (FirstPage(s) .. LastPage(s))) /\ SegmentHas(n, d, f, s)
<1> DEFINE a == FirstPage(s)
           b == LastPage(s)
           N == PagesOf(s)
           x == m.pf
           off == s.vaddr % W
           P == UserPage \ (a .. b)
<1>w. s.filesz # s.memsz => \A c \in 0 .. N - 1 : WalkOf(l.m, d, a + c) = Pte(x + c)
  BY DEF BssCleared
<1>m. n.mem = Write(l.m.mem, Loc(x, off + s.filesz), Zeros(s.memsz - s.filesz))
  BY DEF BssCleared
<1>z. \A y \in Page, o \in Index :
        \/ n.mem[Loc(y, o)] = l.m.mem[Loc(y, o)]
        \/ y \in x .. x + N - 1 /\ s.filesz # s.memsz
  BY DEF BssCleared
<1>0. m.pf \in Nat /\ l.m \in Mem
  BY DEF Loading, Mem
<1>h. Spread(s)
  BY SegmentPages
<1>1. /\ off \in Index /\ off \in Nat /\ N \in Nat /\ N >= 1
      /\ s.filesz \in Nat /\ s.memsz \in Nat
      /\ s.filesz <= s.memsz /\ s.memsz - s.filesz \in Nat
  BY <1>h DEF Spread
<1>y. a .. b = a .. a + N - 1
  BY <1>h DEF Spread
<1>t. \A v \in a .. b : v - a \in 0 .. N - 1 /\ a + (v - a) = v
  BY <1>h DEF Spread
<1>u. \A c \in 0 .. N - 1 : a + c \in a .. b /\ a + c \in UserPage /\ c \in Nat
  BY <1>h DEF Spread
<1>v. \A c \in 0 .. N - 1 :
        c * W \in Nat /\ \A o \in Index : Loc(a + c, o) - s.vaddr = c * W + o - off
  BY <1>h DEF Spread
<1>2. /\ Alike(m, l.m, d, P)
      /\ \A c \in 0 .. N - 1 : Valid(WalkOf(l.m, d, a + c))
      /\ \A c \in 0 .. N - 1, o \in Index :
           c * W + o >= off /\ c * W + o - off < s.filesz =>
             At(l.m, d, a + c, o) = Disk(Image[f].disk + s.offset + (c * W + o - off))
  BY <1>y DEF SegmentView
<1>3. ASSUME NEW c \in 0 .. N - 1, s.filesz # s.memsz
      PROVE  /\ WalkOf(l.m, d, a + c) = Pte(x + c) /\ Pte(x + c)[2] = x + c /\ x + c \in Page
             /\ k[x + c] = Data(d, (a + c) \div W, (a + c) % W)
  <2>1. WalkOf(l.m, d, a + c) = Pte(x + c) /\ x + c \in Nat
    <3>1. x \in Nat
      BY <1>0
    <3> HIDE DEF a, x, N
    <3>2. c \in Nat
      OBVIOUS
    <3> QED BY <1>3, <1>w, <3>1, <3>2
  <2>2. Pte(x + c)[2] = x + c
    BY <2>1, WordKinds
  <2>3. a + c \in UserPage /\ Valid(WalkOf(l.m, d, a + c))
    BY <1>u, <1>2
  <2> HIDE DEF a, x
  <2> DEFINE v == a + c
  <2>4. v \in UserPage /\ Valid(WalkOf(l.m, d, v))
    BY <2>3
  <2> HIDE DEF v
  <2>5. LET w == WalkOf(l.m, d, v)
        IN  w[2] \in Page /\ k[w[2]] = Data(d, v \div W, v % W)
    BY <2>4, SeenIs
  <2> QED BY <2>1, <2>2, <2>5 DEF v
<1>4. \A y \in Page, o \in Index :
        \/ n.mem[Loc(y, o)] = l.m.mem[Loc(y, o)]
        \/ s.filesz # s.memsz /\ \E c \in 0 .. N - 1 : y = x + c
  <2>1. \A y \in x .. x + N - 1 : y - x \in 0 .. N - 1 /\ y = x + (y - x)
    <3>1. x \in Nat /\ N \in Nat
      BY <1>0, <1>1
    <3> HIDE DEF x, N
    <3> QED BY <3>1
  <2> QED BY <1>z, <2>1
<1> HIDE DEF a, b, N, x, off, P
<1>5. \A y \in Page, o \in Index : Structure(k[y]) => n.mem[Loc(y, o)] = l.m.mem[Loc(y, o)]
  BY <1>3, <1>4, Structures
<1>6. \A v \in UserPage : WalkOf(n, d, v) = WalkOf(l.m, d, v)
  BY <1>5, SameWalks
<1>7. Alike(l.m, n, d, P)
  <2>1. ASSUME NEW y \in Page, NEW o \in Index, NEW v \in P, k[y] = Data(d, v \div W, v % W)
        PROVE  n.mem[Loc(y, o)] = l.m.mem[Loc(y, o)]
    <3>1. SUFFICES ASSUME s.filesz # s.memsz, NEW c \in 0 .. N - 1, y = x + c PROVE FALSE
      BY <1>4
    <3>2. (a + c) \div W = v \div W /\ (a + c) % W = v % W
      BY <1>3, <2>1, <3>1, DataOnce
    <3>3. a + c \in UserPage /\ v \in UserPage
      BY <1>u DEF P
    <3>4. a + c = v
      BY <3>2, <3>3, UserPageIs, SamePage
    <3> QED BY <1>u, <3>4 DEF P
  <2>2. P \in SUBSET UserPage /\ \A v \in P : WalkOf(n, d, v) = WalkOf(l.m, d, v)
    BY <1>6 DEF P
  <2>3. \A y \in Page, o \in Index :
          (\E v \in P : k[y] = Data(d, v \div W, v % W)) => n.mem[Loc(y, o)] = l.m.mem[Loc(y, o)]
    BY <2>1
  <2> QED BY <2>2, <2>3, StillAlike
<1>8. Alike(m, n, d, P)
  <2>1. P \in SUBSET (P \cap P)
    OBVIOUS
  <2> QED BY <1>2, <1>7, <2>1, AlikeOn
<1>9. ASSUME NEW c \in 0 .. N - 1 PROVE Valid(WalkOf(n, d, a + c))
  BY <1>u, <1>2, <1>6
<1>10. ASSUME NEW c \in 0 .. N - 1, NEW o \in Index, NEW t, t = c * W + o - off
       PROVE  /\ t \in 0 .. s.filesz - 1 =>
                   At(n, d, a + c, o) = Disk(Image[f].disk + s.offset + t)
              /\ t \in s.filesz .. s.memsz - 1 => At(n, d, a + c, o) = Zero
  <2> DEFINE C == c * W
             w == WalkOf(l.m, d, a + c)
  <2>1. C \in Nat /\ o \in Nat /\ t = C + o - off
    <3> HIDE DEF w
    <3>1. C \in Nat
      BY <1>v
    <3> QED BY <1>10, <3>1, Sets
  <2>2. WalkOf(n, d, a + c) = w /\ Valid(w) /\ w[2] \in Page
    <3> DEFINE v == a + c
    <3>1. v \in UserPage /\ Valid(WalkOf(l.m, d, v)) /\ WalkOf(n, d, v) = WalkOf(l.m, d, v)
      BY <1>u, <1>2, <1>6
    <3> HIDE DEF v
    <3>2. WalkOf(l.m, d, v)[2] \in Page
      BY <3>1, SeenIs
    <3> QED BY <3>1, <3>2 DEF v
  <2>3. /\ At(n, d, a + c, o) = n.mem[Loc(w[2], o)]
        /\ At(l.m, d, a + c, o) = l.m.mem[Loc(w[2], o)]
    BY <2>2 DEF At
  <2>4. t \in 0 .. s.filesz - 1 =>
          At(l.m, d, a + c, o) = Disk(Image[f].disk + s.offset + t)
    <3>1. t \in 0 .. s.filesz - 1 => C + o >= off /\ C + o - off < s.filesz
      <4> HIDE DEF C, w
      <4> QED BY <1>1, <2>1
    <3> QED BY <1>2, <1>10, <3>1
  <2>5. CASE s.filesz = s.memsz
    <3>1. n.mem[Loc(w[2], o)] = l.m.mem[Loc(w[2], o)]
      BY <1>4, <2>2, <2>5
    <3>2. s.filesz .. s.memsz - 1 = {}
      <4> HIDE DEF C, w
      <4> QED BY <1>1, <2>5
    <3> QED BY <2>3, <2>4, <3>1, <3>2
  <2>6. CASE s.filesz # s.memsz
    <3> DEFINE p == off + s.filesz
               words == Zeros(s.memsz - s.filesz)
               z == l.m.mem
               y == x + c
               u == C + o - p
    <3>1. w[2] = y /\ y \in Page /\ x \in Nat /\ c \in Nat
      BY <1>0, <1>u, <1>3, <2>6 DEF x
    <3>2. p \in Nat /\ z \in Words
      <4>1. z \in Words
        BY <1>0 DEF Mem
      <4> HIDE DEF z
      <4> QED BY <1>1, <4>1
    <3>3. /\ words \in Seq(AnyWord) /\ Len(words) = s.memsz - s.filesz
          /\ \A i \in 1 .. Len(words) : words[i] = Zero
      <4>1. s.memsz - s.filesz \in Nat
        BY <1>1
      <4> QED BY <4>1, ZerosAre
    <3>4. n.mem = Write(z, Loc(x, p), words)
      BY <1>m
    <3>5. u = c * W + o - p /\ y = x + c
      OBVIOUS
    <3>8. /\ t \in 0 .. s.filesz - 1 => ~(u >= 0)
          /\ t \in s.filesz .. s.memsz - 1 =>
               u >= 0 /\ u < s.memsz - s.filesz /\ u + 1 \in 1 .. s.memsz - s.filesz
      <4> HIDE DEF C, w
      <4> QED BY <1>1, <2>1
    <3> HIDE DEF p, words, z, y, u, C, w
    <3>6. Write(z, Loc(x, p), words)[Loc(y, o)] =
            IF u >= 0 /\ u < Len(words) THEN words[u + 1] ELSE z[Loc(y, o)]
      BY <3>1, <3>2, <3>3, <3>5, SpanAt
    <3>7. n.mem[Loc(w[2], o)] = IF u >= 0 /\ u < Len(words) THEN words[u + 1]
                                ELSE l.m.mem[Loc(w[2], o)]
      BY <3>1, <3>4, <3>6 DEF z
    <3> QED BY <2>3, <2>4, <3>3, <3>7, <3>8
  <2> QED BY <2>5, <2>6
<1>11. SegmentHas(n, d, f, s)
  <2> SUFFICES ASSUME NEW v \in a .. b
               PROVE  /\ Valid(WalkOf(n, d, v))
                      /\ \A o \in Index :
                           LET t == Loc(v, o) - s.vaddr
                           IN  /\ t \in 0 .. s.filesz - 1 =>
                                    At(n, d, v, o) = Disk(Image[f].disk + s.offset + t)
                               /\ t \in s.filesz .. s.memsz - 1 => At(n, d, v, o) = Zero
    BY DEF SegmentHas, a, b
  <2> DEFINE c == v - a
  <2>1. c \in 0 .. N - 1 /\ a + c = v
    BY <1>t
  <2>2. \A o \in Index : Loc(v, o) - s.vaddr = c * W + o - off
    BY <1>v, <2>1
  <2> HIDE DEF c
  <2> QED BY <1>9, <1>10, <2>1, <2>2
<1> QED BY <1>8, <1>11 DEF P, a, b

LEMMA SegmentGood ==
  ASSUME NEW m, NEW h, Good(m, h), NEW d \in Page, h[d] = Directory, d # kas,
         NEW f \in File, NEW j \in DOMAIN Image[f].segs,
         j = 1 \/ m.mem[Loc(d, TableOf(f))] # Zero,
         LoadSegment(m, d, f, Image[f].segs[j]).pf <= HeapEnd
  PROVE  LET n == LoadSegment(m, d, f, Image[f].segs[j])
             s == Image[f].segs[j]
         IN  /\ n \in Mem /\ m.pf <= n.pf /\ n.mem[Loc(d, TableOf(f))] # Zero
             /\ \E k : Good(n, k) /\ Later(h, k) /\ Kept(m, n, h, d)
             /\ Alike(m, n, d, UserPage \ (FirstPage(s) .. LastPage(s)))
             /\ SegmentHas(n, d, f, s)
<1> DEFINE s == Image[f].segs[j]
           n == LoadSegment(m, d, f, s)
           N == PagesOf(s)
           T == TableOf(f)
           o == (s.vaddr % W) + s.filesz
           words == Zeros(s.memsz - s.filesz)
<1>1. /\ s \in Segment /\ N \in Nat /\ N >= 1 /\ s.filesz <= s.memsz
      /\ s.memsz \in Nat /\ s.filesz \in Nat /\ s.offset \in 0 .. Image[f].size
      /\ (s.vaddr % W) \in Nat /\ o \in Nat /\ (s.vaddr % W) + s.memsz < N * W
      /\ T \in Index /\ N * W \in Nat
      /\ \A v \in FirstPage(s) .. LastPage(s) : v \in UserPage
      /\ FirstPage(s) \in Nat /\ N = LastPage(s) - FirstPage(s) + 1 /\ LastPage(s) \in Nat
  <2>1. /\ s \in Segment /\ N \in Nat /\ N >= 1 /\ s.filesz <= s.memsz
        /\ s.memsz \in Nat /\ s.filesz \in Nat /\ s.offset \in 0 .. Image[f].size
        /\ s.vaddr \in Nat /\ (s.vaddr % W) + s.memsz < N * W
        /\ FirstPage(s) \in FirstPage(s) .. LastPage(s)
        /\ \A v \in FirstPage(s) .. LastPage(s) : v \in UserPage /\ v \div W = T
        /\ FirstPage(s) \in Nat /\ N = LastPage(s) - FirstPage(s) + 1 /\ LastPage(s) \in Nat
    BY SegmentIs DEF PagesOf
  <2>2. T \in Index
    BY <2>1, UserPageIs
  <2>3. (s.vaddr % W) \in Nat /\ N * W \in Nat
    BY <2>1, Division, Smaller, Sets
  <2> HIDE DEF s, N, T
  <2> QED BY <2>1, <2>2, <2>3
<1>2. m \in Mem /\ m.pf \in Nat /\ m.pf > HeapStart /\ Roles(m, h)
  BY DEF Good, Tidy, Mem
<1>3. PICK r : /\ SegmentRounds(m, d, f, s, r)
               /\ n = [mem |-> Write(r[N].m.mem, m.pf * W + (s.vaddr % W) + s.filesz, words),
                       pf  |-> r[N].m.pf]
  BY <1>2, LoadSegmentIs
<1> HIDE DEF n, s, N
<1>4. /\ \A i \in 0 .. N : r[i] \in Loading(f) /\ r[i].m \in Mem /\ r[i].m.pf \in Nat
      /\ r[0] = [m |-> m, at |-> s.offset]
      /\ N \in 0 .. N /\ r[N].m \in Mem
  <2>1. N \in 0 .. N
    BY <1>1
  <2> QED BY <1>3, <2>1 DEF SegmentRounds, Loading, Mem, N
<1>5. n = [mem |-> Write(r[N].m.mem, Loc(m.pf, o), words), pf |-> r[N].m.pf]
  <2>1. Loc(m.pf, o) = m.pf * W + (s.vaddr % W) + s.filesz
    <3>1. m.pf * W \in Nat
      BY <1>2, Smaller
    <3> QED BY <1>1, <3>1 DEF Loc
  <2> HIDE DEF words, o
  <2> QED BY <1>3, <2>1
<1>6. \A i \in 1 .. N : r[i] = LoadPage(r[i - 1], d, f, s, FirstPage(s) + i - 1)
  BY <1>3 DEF SegmentRounds, N
<1>7. ASSUME NEW i \in 0 .. N PROVE m.pf <= r[i].m.pf /\ r[i].m.pf <= HeapEnd
  <2>1. m.pf <= r[i].m.pf /\ r[i].m.pf <= r[N].m.pf
    BY <1>2, <1>3, SegmentRises DEF s, N
  <2>2. r[N].m.pf <= HeapEnd
    <3>1. n.pf <= HeapEnd
      BY DEF n, s
    <3> QED BY <1>5, <3>1
  <2> QED BY <1>2, <1>4, <2>1, <2>2, Numbers
<1> HIDE DEF T, o, words
<1>8. j = 1 \/ m.mem[Loc(d, T)] # Zero
  BY DEF T
<1> DEFINE G == {i \in 0 .. N : \E k : SegmentState(m, h, d, f, s, i, r[i], k)}
<1>9. 0 \in G
  <2>1. 0 \in 0 .. N /\ r[0] \in Loading(f) /\ r[0].m = m
    BY <1>1, <1>4
  <2>2. SegmentView(m, d, f, s, 0, r[0])
    <3>1. r[0].at = s.offset /\ s.offset + 0 * W = s.offset /\ s.offset <= Image[f].size
      BY <1>1, <1>4, Numbers
    <3> QED BY <2>1, <3>1 DEF SegmentView, Alike
  <2>3. SegmentState(m, h, d, f, s, 0, r[0], h)
    BY <1>2, <2>1, <2>2 DEF SegmentState, Later, Kept
  <2> QED BY <2>1, <2>3
<1>10. ASSUME NEW i \in 1 .. N, i - 1 \in G PROVE i \in G
  <2>1. PICK k : SegmentState(m, h, d, f, s, i - 1, r[i - 1], k)
    BY <1>10
  <2>2. i \in 0 .. N /\ i \in 1 .. PagesOf(Image[f].segs[j])
    BY <1>1 DEF N, s
  <2>3. r[i] = LoadPage(r[i - 1], d, f, s, FirstPage(s) + i - 1) /\ r[i].m.pf <= HeapEnd
    BY <1>6, <1>7, <2>2
  <2> DEFINE l == r[i - 1]
             l2 == LoadPage(l, d, f, s, FirstPage(s) + i - 1)
  <2>5. l2 = r[i] /\ l2.m.pf <= HeapEnd
    BY <2>3
  <2> HIDE DEF l
  <2>4. \E q : SegmentState(m, h, d, f, s, i, l2, q)
    BY <1>2, <1>8, <2>1, <2>2, <2>5, SegmentRound DEF s, T, l
  <2> HIDE DEF l2
  <2> QED BY <2>2, <2>4, <2>5
<1>11. PICK k : SegmentState(m, h, d, f, s, N, r[N], k)
  <2> HIDE DEF G
  <2>1. N \in Nat
    BY <1>1
  <2>2. \A i \in 0 .. N : i \in G
    BY <1>9, <1>10, <2>1, UpTo
  <2>3. N \in G
    BY <1>4, <2>2
  <2> QED BY <2>3 DEF G
<1>12. /\ words \in Seq(AnyWord) /\ Len(words) = s.memsz - s.filesz
       /\ \A i \in 1 .. Len(words) : words[i] = Zero
  <2>1. s.memsz - s.filesz \in Nat
    BY <1>1
  <2> QED BY <2>1, ZerosAre DEF words
<1>13. /\ n \in Mem /\ n.pf = r[N].m.pf
       /\ \A y \in Page, c \in Index :
            \/ n.mem[Loc(y, c)] = r[N].m.mem[Loc(y, c)]
            \/ /\ y \in m.pf .. m.pf + N - 1 /\ n.mem[Loc(y, c)] = Zero
               /\ s.filesz # s.memsz
  <2>1. o + Len(words) <= N * W
    <3> DEFINE M == N * W
               v == s.vaddr % W
    <3>1. /\ v \in Nat /\ M \in Nat /\ v + s.memsz < M /\ o = v + s.filesz
          /\ Len(words) = s.memsz - s.filesz /\ s.memsz \in Nat /\ s.filesz \in Nat
      BY <1>1, <1>12 DEF o
    <3> HIDE DEF M, v, o, words
    <3>2. o + Len(words) <= M
      BY <3>1
    <3> QED BY <3>2 DEF M
  <2>2. r[N].m.mem \in Words /\ r[N].m.pf \in Nat
    BY <1>4 DEF Mem
  <2> DEFINE w == Write(r[N].m.mem, Loc(m.pf, o), words)
  <2>3. /\ w \in Words
        /\ \A y \in Page, c \in Index :
             \/ w[Loc(y, c)] = r[N].m.mem[Loc(y, c)]
             \/ y \in m.pf .. m.pf + N - 1 /\ \E i \in 1 .. Len(words) : w[Loc(y, c)] = words[i]
    <3> DEFINE z == r[N].m.mem
               x == m.pf
    <3>1. N \in Nat /\ o \in Nat /\ x \in Nat /\ words \in Seq(AnyWord) /\ z \in Words
      BY <1>1, <1>2, <1>12, <2>2
    <3> HIDE DEF z, x, w
    <3>2. w = Write(z, Loc(x, o), words)
      BY DEF w, z, x
    <3>3. /\ Write(z, Loc(x, o), words) \in Words
          /\ \A y \in Page, c \in Index :
               \/ Write(z, Loc(x, o), words)[Loc(y, c)] = z[Loc(y, c)]
               \/ /\ y \in x .. x + N - 1
                  /\ \E i \in 1 .. Len(words) :
                       Write(z, Loc(x, o), words)[Loc(y, c)] = words[i]
      BY <2>1, <3>1, SpanIs
    <3> QED BY <3>2, <3>3 DEF z, x
  <2> HIDE DEF w
  <2>4. n = [mem |-> w, pf |-> r[N].m.pf]
    BY <1>5 DEF w
  <2>5. \A y \in Page, c \in Index :
             \/ w[Loc(y, c)] = r[N].m.mem[Loc(y, c)]
             \/ /\ y \in m.pf .. m.pf + N - 1 /\ w[Loc(y, c)] = Zero
                /\ s.filesz # s.memsz
    <3>1. s.filesz = s.memsz => 1 .. Len(words) = {}
      BY <1>1, <1>12
    <3> QED BY <1>12, <2>3, <3>1
  <2> QED BY <2>2, <2>3, <2>4, <2>5 DEF Mem
<1>14. ASSUME NEW y \in Page, y \in m.pf .. m.pf + N - 1, s.filesz # s.memsz
       PROVE  ~Structure(k[y]) /\ h[y] = Free
  <2>1. j # 1
    BY <1>14, FileIs DEF s
  <2>2. y - m.pf \in 0 .. N - 1 /\ m.pf + (y - m.pf) = y /\ y \in Nat /\ y >= m.pf
    BY <1>1, <1>2, <1>14, Sets
  <2>3. ~Structure(k[m.pf + (y - m.pf)])
    BY <1>11, <2>1, <2>2 DEF SegmentState
  <2> QED BY <1>2, <2>2, <2>3 DEF Roles
<1>15. Good(r[N].m, k) /\ Later(h, k) /\ Kept(m, r[N].m, h, d) /\ r[N].m.mem[Loc(d, T)] # Zero
  <2>1. N > 0
    BY <1>1
  <2> QED BY <1>11, <2>1 DEF SegmentState, T
<1>16. Good(n, k)
  <2>1. Zero \in Known(n.pf)
    BY DEF Zero, Known
  <2>2. \A y \in Page, c \in Index : r[N].m.mem[Loc(y, c)] \in Known(n.pf)
    BY <1>13, <1>15 DEF Good, Tidy
  <2>3. n.pf >= r[N].m.pf /\ n.pf <= HeapEnd
    BY <1>4, <1>7, <1>13
  <2> QED BY <1>13, <1>14, <1>15, <2>1, <2>2, <2>3, DataGood
<1>17. Kept(m, n, h, d)
  BY <1>13, <1>14, <1>15 DEF Kept
<1>18. n.mem[Loc(d, T)] # Zero
  <2>1. h[d] # Free
    BY RoleKinds
  <2> QED BY <1>1, <1>13, <1>14, <1>15, <2>1 DEF T
<1>19. m.pf <= n.pf
  BY <1>4, <1>7, <1>13
<1>20. Alike(m, n, d, UserPage \ (FirstPage(s) .. LastPage(s))) /\ SegmentHas(n, d, f, s)
  <2> DEFINE l == r[N]
  <2>1. l.m \in Mem /\ Good(l.m, k) /\ SegmentView(m, d, f, s, PagesOf(s), l)
    BY <1>4, <1>11, <1>15 DEF SegmentState, N
  <2>2. k[d] = Directory
    BY <1>15, RoleKinds, Sets DEF Later
  <2>3. s.filesz # s.memsz =>
          \A c \in 0 .. PagesOf(s) - 1 : WalkOf(l.m, d, FirstPage(s) + c) = Pte(m.pf + c)
    <3>1. s.filesz # s.memsz => j # 1
      BY FileIs DEF s
    <3> QED BY <1>8, <1>11, <3>1 DEF SegmentState, N, T
  <2>4. /\ n.mem = Write(l.m.mem, Loc(m.pf, (s.vaddr % W) + s.filesz), Zeros(s.memsz - s.filesz))
        /\ \A y \in Page, c \in Index :
             \/ n.mem[Loc(y, c)] = l.m.mem[Loc(y, c)]
             \/ y \in m.pf .. m.pf + PagesOf(s) - 1 /\ s.filesz # s.memsz
    BY <1>5, <1>13 DEF o, words, N
  <2>5. s = Image[f].segs[j]
    BY DEF s
  <2>6. BssCleared(m, n, d, s, l)
    BY <2>3, <2>4 DEF BssCleared
  <2>7. l \in Loading(f) /\ n \in Mem
    BY <1>4, <1>13
  <2> HIDE DEF l
  <2> QED BY <1>2, <2>1, <2>2, <2>5, <2>6, <2>7, BssView
<1> QED BY <1>13, <1>15, <1>16, <1>17, <1>18, <1>19, <1>20 DEF n, s, T

LEMMA LoadSegmentMem ==
  ASSUME NEW m \in Mem, NEW d \in Page, NEW f \in File, NEW j \in DOMAIN Image[f].segs
  PROVE  LET n == LoadSegment(m, d, f, Image[f].segs[j])
         IN  n \in Mem /\ m.pf <= n.pf
<1> DEFINE s == Image[f].segs[j]
           n == LoadSegment(m, d, f, s)
           N == PagesOf(s)
           o == (s.vaddr % W) + s.filesz
           words == Zeros(s.memsz - s.filesz)
<1>1. /\ s \in Segment /\ N \in Nat /\ s.filesz <= s.memsz
      /\ s.memsz \in Nat /\ s.filesz \in Nat /\ s.vaddr \in Nat
  BY SegmentIs
<1>2. PICK r : /\ SegmentRounds(m, d, f, s, r)
               /\ n = [mem |-> Write(r[N].m.mem, m.pf * W + (s.vaddr % W) + s.filesz, words),
                       pf  |-> r[N].m.pf]
  BY LoadSegmentIs
<1>3. m.pf <= r[N].m.pf
  <2>1. N \in 0 .. N
    BY <1>1
  <2> QED BY <1>2, <2>1, SegmentRises
<1> HIDE DEF n, s, N
<1>4. r[N].m \in Mem
  <2>1. N \in 0 .. N
    BY <1>1
  <2> QED BY <1>2, <2>1 DEF SegmentRounds, Loading, N
<1>5. words \in Seq(AnyWord)
  <2>1. s.memsz - s.filesz \in Nat
    BY <1>1
  <2> QED BY <2>1, ZerosAre
<1>6. m.pf * W + (s.vaddr % W) + s.filesz \in Nat
  <2>1. m.pf * W \in Nat /\ s.vaddr % W \in Nat
    BY <1>1, Smaller, Division, Sets DEF Mem
  <2> QED BY <1>1, <2>1
<1>7. r[N].m.mem \in Words /\ r[N].m.pf \in Nat
  BY <1>4 DEF Mem
<1> HIDE DEF words
<1>8. Write(r[N].m.mem, m.pf * W + (s.vaddr % W) + s.filesz, words) \in Words
  BY <1>5, <1>6, <1>7, WriteIs
<1>9. n \in Mem /\ n.pf = r[N].m.pf
  BY <1>2, <1>7, <1>8 DEF Mem
<1> QED BY <1>3, <1>9 DEF n, s

LoaderRounds(m, d, f, r) ==
  /\ r \in [0 .. Len(Image[f].segs) -> Mem] /\ r[0] = m
  /\ \A i \in 1 .. Len(Image[f].segs) : r[i] = LoadSegment(r[i - 1], d, f, Image[f].segs[i])

LEMMA loaderIs ==
  ASSUME NEW m \in Mem, NEW d \in Page, NEW f \in File
  PROVE  \E r : /\ LoaderRounds(m, d, f, r)
               /\ loader(m, d, f) = r[Len(Image[f].segs)]
<1> DEFINE segs == Image[f].segs
           n == Len(segs)
           F == [z \in Mem \X (1 .. n) |-> LoadSegment(z[1], d, f, segs[z[2]])]
<1>1. n \in Nat /\ DOMAIN segs = 1 .. n
  <2>1. segs \in Seq(Segment)
    BY FileIs
  <2> QED BY <2>1
<1>2. ASSUME NEW l \in Mem, NEW i \in 1 .. n
      PROVE  LoadSegment(l, d, f, segs[i]) \in Mem
  BY <1>1, LoadSegmentMem
<1> HIDE DEF segs, n
<1>3. F \in [Mem \X (1 .. n) -> Mem]
  BY <1>2
<1>4. PICK r : Rounds(Mem, m, F, n, r)
  <2> HIDE DEF F
  <2> QED BY <1>1, <1>3, Loop
<1>5. /\ r \in [0 .. n -> Mem] /\ r[0] = m
      /\ \A i \in 1 .. n : r[i] = LoadSegment(r[i - 1], d, f, segs[i])
  <2>1. ASSUME NEW i \in 1 .. n PROVE r[i] = LoadSegment(r[i - 1], d, f, segs[i])
    <3>1. i - 1 \in 0 .. n /\ r[i - 1] \in Mem
      BY <1>1, <1>4 DEF Rounds
    <3> QED BY <1>4, <3>1 DEF Rounds
  <2> QED BY <1>4, <2>1 DEF Rounds
<1> DEFINE Is(g) == g = [i \in 0 .. n |->
                           IF i = 0 THEN m ELSE LoadSegment(g[i - 1], d, f, segs[i])]
           f0 == CHOOSE g : Is(g)
<1>6. Is(r)
  BY <1>1, <1>5
<1>7. Is(f0) /\ loader(m, d, f) = f0[n]
  BY <1>6 DEF loader, segs, n
<1> HIDE DEF f0
<1>8. f0[0] = m /\ \A i \in 1 .. n : f0[i] = LoadSegment(f0[i - 1], d, f, segs[i])
  <2>1. 0 \in 0 .. n /\ \A i \in 1 .. n : i \in 0 .. n /\ i # 0
    BY <1>1
  <2> QED BY <1>7, <2>1
<1>9. f0[n] = r[n]
  <2>1. f0[0] = r[0] /\ \A i \in 1 .. n : f0[i - 1] = r[i - 1] => f0[i] = r[i]
    BY <1>5, <1>8
  <2>2. n \in Nat /\ n \in 0 .. n
    BY <1>1
  <2>3. \A i \in 0 .. n : f0[i] = r[i]
    BY <2>1, <2>2, Same
  <2> QED BY <2>2, <2>3
<1> QED BY <1>5, <1>7, <1>9 DEF LoaderRounds, n, segs

(* The pages of the first i segments.                                      *)
PagesUpTo(f, i) ==
  {v \in UserPage : \E j \in 1 .. i :
                       v \in FirstPage(Image[f].segs[j]) .. LastPage(Image[f].segs[j])}

(* What a later segment leaves of an earlier one: they may share a page,   *)
(* but none of the words.                                                  *)
LEMMA StillHas ==
  ASSUME NEW f \in File, NEW i \in DOMAIN Image[f].segs, NEW j \in DOMAIN Image[f].segs, i < j,
         NEW d, NEW m, NEW n, SegmentHas(m, d, f, Image[f].segs[i]),
         SegmentHas(n, d, f, Image[f].segs[j]),
         LET s == Image[f].segs[j] IN Alike(m, n, d, UserPage \ (FirstPage(s) .. LastPage(s)))
  PROVE  SegmentHas(n, d, f, Image[f].segs[i])
<1> DEFINE p == Image[f].segs[i]
           s == Image[f].segs[j]
<1>1. /\ \A v \in FirstPage(p) .. LastPage(p) : v \in UserPage
      /\ p.vaddr \in Nat /\ p.memsz \in Nat /\ p.filesz \in Nat /\ p.filesz <= p.memsz
      /\ FirstPage(s) \in Nat /\ LastPage(s) \in Nat
  BY SegmentIs
<1>2. p.vaddr + p.memsz <= FirstPage(s) * W
  BY FileIs
<1>3. Alike(m, n, d, UserPage \ (FirstPage(s) .. LastPage(s)))
  OBVIOUS
<1> HIDE DEF p, s
<1>4. SUFFICES ASSUME NEW v \in FirstPage(p) .. LastPage(p)
               PROVE  /\ Valid(WalkOf(n, d, v))
                      /\ \A o \in Index :
                           LET t == Loc(v, o) - p.vaddr
                           IN  /\ t \in 0 .. p.filesz - 1 =>
                                    At(n, d, v, o) = Disk(Image[f].disk + p.offset + t)
                               /\ t \in p.filesz .. p.memsz - 1 => At(n, d, v, o) = Zero
  BY DEF SegmentHas, p
<1>5. /\ Valid(WalkOf(m, d, v))
      /\ \A o \in Index :
           LET t == Loc(v, o) - p.vaddr
           IN  /\ t \in 0 .. p.filesz - 1 => At(m, d, v, o) = Disk(Image[f].disk + p.offset + t)
               /\ t \in p.filesz .. p.memsz - 1 => At(m, d, v, o) = Zero
  BY DEF SegmentHas, p
<1>6. Valid(WalkOf(n, d, v))
  <2>1. v \in FirstPage(s) .. LastPage(s) => Valid(WalkOf(n, d, v))
    BY DEF SegmentHas, s
  <2> QED BY <1>1, <1>3, <1>5, <2>1 DEF Alike
<1>7. ASSUME NEW o \in Index, NEW t, t = Loc(v, o) - p.vaddr, t \in 0 .. p.memsz - 1
      PROVE  At(n, d, v, o) = At(m, d, v, o)
  <2>1. v \in UserPage /\ v \in Nat
    BY <1>1 DEF UserPage
  <2> DEFINE V == v * W
             B == FirstPage(s) * W
  <2>2. V \in Nat /\ B \in Nat /\ Loc(v, o) = V + o /\ o \in Nat
        /\ (FirstPage(s) <= v => B <= V)
    BY <1>1, <2>1, Smaller, Sets DEF Loc
  <2>3. p.vaddr + p.memsz <= B
    BY <1>2
  <2> HIDE DEF V, B
  <2>4. ~(FirstPage(s) <= v)
    BY <1>1, <1>7, <2>2, <2>3
  <2>5. v \notin FirstPage(s) .. LastPage(s)
    BY <1>1, <2>1, <2>4
  <2> QED BY <1>3, <2>1, <2>5 DEF Alike
<1>8. ASSUME NEW o \in Index, NEW t, t = Loc(v, o) - p.vaddr
      PROVE  t \in 0 .. p.filesz - 1 \/ t \in p.filesz .. p.memsz - 1 => t \in 0 .. p.memsz - 1
  BY <1>1
<1> QED BY <1>5, <1>6, <1>7, <1>8

LoaderState(m, h, d, f, i, l, k) ==
  /\ Good(l, k) /\ Later(h, k) /\ Kept(m, l, h, d)
  /\ i > 0 => l.mem[Loc(d, TableOf(f))] # Zero
  /\ Alike(m, l, d, UserPage \ PagesUpTo(f, i))
  /\ \A j \in 1 .. i : SegmentHas(l, d, f, Image[f].segs[j])

LEMMA LoaderRises ==
  ASSUME NEW m \in Mem, NEW d \in Page, NEW f \in File, NEW r, LoaderRounds(m, d, f, r)
  PROVE  LET N == Len(Image[f].segs)
         IN  /\ N \in Nat /\ N >= 1 /\ DOMAIN Image[f].segs = 1 .. N
             /\ \A i \in 0 .. N : m.pf <= r[i].pf /\ r[i].pf <= r[N].pf
<1> DEFINE segs == Image[f].segs
           N == Len(segs)
           p == [i \in 0 .. N |-> r[i].pf]
<1>1. N \in Nat /\ N >= 1 /\ DOMAIN segs = 1 .. N
  <2>1. segs \in Seq(Segment) /\ segs # <<>>
    BY FileIs
  <2> HIDE DEF segs
  <2> QED BY <2>1
<1>2. /\ r \in [0 .. N -> Mem] /\ r[0] = m
      /\ \A i \in 1 .. N : r[i] = LoadSegment(r[i - 1], d, f, segs[i])
  BY DEF LoaderRounds
<1> HIDE DEF segs, N
<1>3. p \in [0 .. N -> Nat] /\ \A i \in 0 .. N : p[i] = r[i].pf
  BY <1>2 DEF Mem
<1> HIDE DEF p
<1>4. ASSUME NEW i \in 1 .. N PROVE p[i - 1] <= p[i]
  <2>1. i \in 0 .. N /\ i - 1 \in 0 .. N /\ r[i - 1] \in Mem /\ i \in DOMAIN segs
    BY <1>1, <1>2
  <2>2. r[i - 1].pf <= r[i].pf
    BY <1>2, <2>1, LoadSegmentMem DEF segs
  <2> QED BY <1>3, <2>1, <2>2
<1>5. \A i \in 0 .. N : p[0] <= p[i] /\ p[i] <= p[N]
  <2>1. N \in Nat
    BY <1>1
  <2> QED BY <1>3, <1>4, <2>1, Rising
<1>6. 0 \in 0 .. N /\ N \in 0 .. N
  BY <1>1
<1> QED BY <1>1, <1>2, <1>3, <1>5, <1>6 DEF N, segs

HasFile(n, d, f) ==
  /\ n.mem[Loc(d, TableOf(f))] # Zero
  /\ \A j \in DOMAIN Image[f].segs : SegmentHas(n, d, f, Image[f].segs[j])

LEMMA loaderGood ==
  ASSUME NEW m, NEW h, Good(m, h), NEW d \in Page, h[d] = Directory, d # kas,
         NEW f \in File, loader(m, d, f).pf <= HeapEnd
  PROVE  LET n == loader(m, d, f)
         IN  /\ n \in Mem /\ m.pf <= n.pf
             /\ \E k : Good(n, k) /\ Later(h, k) /\ Kept(m, n, h, d)
             /\ HasFile(n, d, f) /\ Alike(m, n, d, UserPage \ PagesUpTo(f, Len(Image[f].segs)))
<1> DEFINE segs == Image[f].segs
           N == Len(segs)
           n == loader(m, d, f)
<1>1. m \in Mem /\ m.pf \in Nat
  BY DEF Good, Tidy, Mem
<1>2. PICK r : LoaderRounds(m, d, f, r) /\ n = r[N]
  BY <1>1, loaderIs
<1>3. /\ N \in Nat /\ N >= 1 /\ DOMAIN segs = 1 .. N
      /\ \A i \in 0 .. N : m.pf <= r[i].pf /\ r[i].pf <= r[N].pf
  BY <1>1, <1>2, LoaderRises
<1>4. /\ r \in [0 .. N -> Mem] /\ r[0] = m
      /\ \A i \in 1 .. N : r[i] = LoadSegment(r[i - 1], d, f, segs[i])
  BY <1>2 DEF LoaderRounds
<1> HIDE DEF segs, N, n
<1>5. ASSUME NEW i \in 0 .. N PROVE r[i] \in Mem /\ r[i].pf <= HeapEnd
  <2>1. r[i].pf <= r[N].pf /\ r[N].pf <= HeapEnd /\ N \in 0 .. N
    BY <1>2, <1>3 DEF n
  <2>2. r[i].pf \in Nat /\ r[N].pf \in Nat /\ r[i] \in Mem
    BY <1>4, <2>1 DEF Mem
  <2> QED BY <2>1, <2>2, Numbers
<1> DEFINE G == {i \in 0 .. N : \E k : LoaderState(m, h, d, f, i, r[i], k)}
<1>6. 0 \in G
  <2>1. LoaderState(m, h, d, f, 0, r[0], h)
    BY <1>4 DEF LoaderState, Later, Kept, Alike
  <2>2. 0 \in 0 .. N
    BY <1>3
  <2> QED BY <2>1, <2>2
<1>7. ASSUME NEW i \in 1 .. N, i - 1 \in G PROVE i \in G
  <2>1. PICK k : LoaderState(m, h, d, f, i - 1, r[i - 1], k)
    BY <1>7
  <2>2. /\ Good(r[i - 1], k) /\ Later(h, k) /\ Kept(m, r[i - 1], h, d)
        /\ i - 1 > 0 => r[i - 1].mem[Loc(d, TableOf(f))] # Zero
        /\ Alike(m, r[i - 1], d, UserPage \ PagesUpTo(f, i - 1))
        /\ \A j \in 1 .. i - 1 : SegmentHas(r[i - 1], d, f, Image[f].segs[j])
    BY <2>1 DEF LoaderState
  <2>3. /\ i \in DOMAIN segs /\ i \in 0 .. N /\ r[i].pf <= HeapEnd
        /\ r[i] = LoadSegment(r[i - 1], d, f, segs[i])
        /\ i = 1 \/ i - 1 > 0
    BY <1>3, <1>4, <1>5
  <2>4. k[d] = Directory
    BY <2>2, RoleKinds, Sets DEF Later
  <2> DEFINE s == segs[i]
             l == r[i - 1]
             S == UserPage \ (FirstPage(s) .. LastPage(s))
  <2>5. /\ r[i].mem[Loc(d, TableOf(f))] # Zero
        /\ \E q : Good(r[i], q) /\ Later(k, q) /\ Kept(l, r[i], k, d)
        /\ Alike(l, r[i], d, S) /\ SegmentHas(r[i], d, f, s)
    <3>1. /\ i = 1 \/ l.mem[Loc(d, TableOf(f))] # Zero
          /\ r[i] = LoadSegment(l, d, f, Image[f].segs[i]) /\ r[i].pf <= HeapEnd
          /\ Good(l, k) /\ i \in DOMAIN Image[f].segs
      BY <2>2, <2>3 DEF segs
    <3> HIDE DEF l, S
    <3> DEFINE z == LoadSegment(l, d, f, Image[f].segs[i])
               t == Image[f].segs[i]
    <3>2. /\ z.mem[Loc(d, TableOf(f))] # Zero
          /\ \E q : Good(z, q) /\ Later(k, q) /\ Kept(l, z, k, d)
          /\ Alike(l, z, d, UserPage \ (FirstPage(t) .. LastPage(t))) /\ SegmentHas(z, d, f, t)
      BY <2>4, <3>1, SegmentGood
    <3> HIDE DEF z
    <3> QED BY <3>1, <3>2 DEF z, S, segs
  <2>6. PICK q : Good(r[i], q) /\ Later(k, q) /\ Kept(r[i - 1], r[i], k, d)
    BY <2>5
  <2>7. Later(h, q) /\ Kept(m, r[i], h, d)
    BY <2>2, <2>6, KeptOn
  <2>8. Alike(m, r[i], d, UserPage \ PagesUpTo(f, i))
    <3>1. i \in 1 .. i /\ \A j \in 1 .. i - 1 : j \in 1 .. i
      BY <1>3
    <3>2. UserPage \ PagesUpTo(f, i) \in SUBSET ((UserPage \ PagesUpTo(f, i - 1)) \cap S)
      BY <3>1 DEF PagesUpTo, segs
    <3> HIDE DEF S, l
    <3> QED BY <2>2, <2>5, <3>2, AlikeOn DEF l
  <2>9. ASSUME NEW j \in 1 .. i PROVE SegmentHas(r[i], d, f, Image[f].segs[j])
    <3>1. j = i \/ (j \in 1 .. i - 1 /\ j < i)
      BY <1>3
    <3>2. CASE j = i
      BY <2>5, <3>2 DEF segs
    <3>3. CASE j \in 1 .. i - 1 /\ j < i
      <4>1. j \in DOMAIN Image[f].segs /\ i \in DOMAIN Image[f].segs
        BY <1>3, <2>3, <3>3 DEF segs
      <4>2. SegmentHas(l, d, f, Image[f].segs[j])
        BY <2>2, <3>3
      <4>3. Alike(l, r[i], d, S) /\ SegmentHas(r[i], d, f, Image[f].segs[i])
        BY <2>5 DEF segs
      <4> HIDE DEF l
      <4> QED BY <3>3, <4>1, <4>2, <4>3, StillHas DEF segs
    <3> QED BY <3>1, <3>2, <3>3
  <2>10. LoaderState(m, h, d, f, i, r[i], q)
    BY <2>5, <2>6, <2>7, <2>8, <2>9 DEF LoaderState
  <2> QED BY <2>3, <2>10
<1>8. PICK k : LoaderState(m, h, d, f, N, r[N], k)
  <2> HIDE DEF G
  <2>1. N \in Nat /\ N \in 0 .. N
    BY <1>3
  <2>2. \A i \in 0 .. N : i \in G
    BY <1>6, <1>7, <2>1, UpTo
  <2>3. N \in G
    BY <2>1, <2>2
  <2> QED BY <2>3 DEF G
<1>9. n \in Mem /\ m.pf <= n.pf
  <2>1. N \in 0 .. N
    BY <1>3
  <2> QED BY <1>2, <1>3, <1>5, <2>1
<1>10. HasFile(n, d, f) /\ Alike(m, n, d, UserPage \ PagesUpTo(f, N))
  <2>1. N > 0
    BY <1>3
  <2> QED BY <1>2, <1>3, <1>8, <2>1 DEF LoaderState, HasFile, segs
<1> QED BY <1>2, <1>8, <1>9, <1>10 DEF LoaderState, n, N, segs

LEMMA loaderMem ==
  ASSUME NEW m \in Mem, NEW d \in Page, NEW f \in File
  PROVE  loader(m, d, f) \in Mem /\ m.pf <= loader(m, d, f).pf
<1> DEFINE N == Len(Image[f].segs)
<1>1. PICK r : LoaderRounds(m, d, f, r) /\ loader(m, d, f) = r[N]
  BY loaderIs
<1>2. N \in 0 .. N /\ m.pf <= r[N].pf
  <2>1. N \in Nat /\ \A i \in 0 .. N : m.pf <= r[i].pf /\ r[i].pf <= r[N].pf
    BY <1>1, LoaderRises
  <2> HIDE DEF N
  <2> QED BY <2>1
<1> QED BY <1>1, <1>2 DEF LoaderRounds

----------------------------------------------------------------------------
(* context_uload(): before the loader the stack is mapped and nothing else.*)
Bare(n, d) ==
  /\ \A v \in UserPage : Valid(WalkOf(n, d, v)) => OnStack(v)
  /\ \A v \in StackFirst + 1 .. UserPages - 1 : Valid(WalkOf(n, d, v))
  /\ At(n, d, UserPages - 1, W - 1) = Args

LEMMA PrepareGood ==
  ASSUME NEW m, NEW g, Good(m, g), m.pf < HeapEnd, Prepare(m).pf <= HeapEnd
  PROVE  LET n == Prepare(m)
         IN  /\ n \in Mem /\ m.pf < n.pf
             /\ \E h : /\ Good(n, h) /\ Later(g, h) /\ Kept(m, n, g, m.pf)
                       /\ h[m.pf] = Directory
             /\ Bare(n, m.pf)
<1> DEFINE d == m.pf
           l == protect(m)
           k == [g EXCEPT ![d] = Directory]
           n == Prepare(m)
<1>1. /\ Good(l, k) /\ Later(g, k) /\ Kept(m, l, g, d)
      /\ d \in Page /\ d # kas /\ k[d] = Directory
      /\ \A i \in UserIndex : l.mem[Loc(d, i)] = Zero
  BY ProtectGood
<1>2. m \in Mem /\ l \in Mem /\ l.pf = m.pf + 1 /\ m.pf \in Nat
  BY ProtectIs DEF Good, Tidy, Mem
<1>3. n = MapStack(l, d)
  BY DEF Prepare
<1> HIDE DEF l, k, n
<1>4. /\ n \in Mem /\ l.pf + StackPages <= n.pf
      /\ \E h : /\ Good(n, h) /\ Later(k, h) /\ Kept(l, n, k, d)
                /\ \A i \in 1 .. StackPages - 1 : WalkOf(n, d, StackFirst + i) = Pte(l.pf + i)
                /\ \A v \in UserPage :
                     Valid(WalkOf(n, d, v)) => Valid(WalkOf(l, d, v)) \/ OnStack(v)
      /\ n.mem[Loc(l.pf + StackPages - 1, W - 1)] = Args
  <2>1. MapStack(l, d).pf <= HeapEnd
    BY <1>3 DEF n
  <2> QED BY <1>1, <1>3, <2>1, StackGood
<1>5. PICK h : /\ Good(n, h) /\ Later(k, h) /\ Kept(l, n, k, d)
               /\ \A i \in 1 .. StackPages - 1 : WalkOf(n, d, StackFirst + i) = Pte(l.pf + i)
               /\ \A v \in UserPage :
                    Valid(WalkOf(n, d, v)) => Valid(WalkOf(l, d, v)) \/ OnStack(v)
  BY <1>4
<1>6. Later(g, h) /\ Kept(m, n, g, d)
  BY <1>1, <1>5, KeptOn
<1>7. h[d] = Directory
  BY <1>1, <1>5, RoleKinds, Sets DEF Later
<1>8. m.pf < n.pf
  <2>1. n.pf \in Nat
    BY <1>4 DEF Mem
  <2> QED BY <1>2, <1>4, <2>1, Numbers
<1>9. ASSUME NEW v \in UserPage, Valid(WalkOf(n, d, v)) PROVE OnStack(v)
  <2>1. l.mem[Loc(d, v \div W)] = Zero
    BY <1>1, UserPageIs
  <2>2. ~Valid(WalkOf(l, d, v))
    BY <2>1, WordKinds DEF WalkOf
  <2> QED BY <1>5, <1>9, <2>2
<1>10. ASSUME NEW v \in StackFirst + 1 .. UserPages - 1
       PROVE  /\ v - StackFirst \in 1 .. StackPages - 1
              /\ WalkOf(n, d, v) = Pte(l.pf + (v - StackFirst)) /\ l.pf + (v - StackFirst) \in Nat
  <2>1. v - StackFirst \in 1 .. StackPages - 1 /\ v = StackFirst + (v - StackFirst)
    BY Numbers DEF StackFirst
  <2>2. l.pf + (v - StackFirst) \in Nat
    BY <1>2, <2>1
  <2> QED BY <1>5, <2>1, <2>2
<1>11. At(n, d, UserPages - 1, W - 1) = Args
  <2>1. UserPages - 1 \in StackFirst + 1 .. UserPages - 1
        /\ l.pf + (UserPages - 1 - StackFirst) = l.pf + StackPages - 1
    BY <1>2, Numbers DEF StackFirst
  <2> DEFINE x == l.pf + StackPages - 1
  <2>2. WalkOf(n, d, UserPages - 1) = Pte(x) /\ x \in Nat
    BY <1>10, <2>1
  <2>3. n.mem[Loc(x, W - 1)] = Args
    BY <1>4
  <2> HIDE DEF x
  <2> QED BY <2>2, <2>3, WordKinds DEF At
<1>12. Bare(n, d)
  BY <1>9, <1>10, <1>11, WordKinds DEF Bare
<1> QED BY <1>4, <1>5, <1>6, <1>7, <1>8, <1>12 DEF n

LEMMA EndOfIs ==
  ASSUME NEW f \in File
  PROVE  /\ EndOf(f) \in 1 .. StackFirst /\ EndOf(f) - 1 \in UserPage
         /\ EndOf(f) - 1 \in PagesUpTo(f, Len(Image[f].segs)) /\ (EndOf(f) - 1) \div W = TableOf(f)
         /\ \A v \in PagesUpTo(f, Len(Image[f].segs)) : v < EndOf(f)
<1> DEFINE segs == Image[f].segs
           N == Len(segs)
           z == segs[N]
<1>1. segs \in Seq(Segment) /\ segs # <<>>
  BY FileIs
<1>2. N \in DOMAIN segs /\ DOMAIN segs = 1 .. N /\ N \in Nat
  <2> HIDE DEF segs
  <2> QED BY <1>1
<1>3. /\ FirstPage(z) \in Nat /\ LastPage(z) \in Nat /\ LastPage(z) < StackFirst
      /\ FirstPage(z) <= LastPage(z)
      /\ \A v \in FirstPage(z) .. LastPage(z) : v \in UserPage /\ v \div W = TableOf(f)
  BY <1>2, SegmentIs
<1>4. EndOf(f) = LastPage(z) + 1
  BY DEF EndOf, Last
<1>5. ASSUME NEW j \in 1 .. N PROVE LastPage(segs[j]) \in Nat /\ LastPage(segs[j]) <= LastPage(z)
  <2>1. LastPage(segs[j]) \in Nat /\ segs[j].vaddr \in Nat /\ segs[j].memsz \in Nat
    BY <1>2, SegmentIs
  <2>2. CASE j = N
    BY <2>1, <2>2
  <2>3. CASE j # N
    <3> DEFINE a == segs[j].vaddr + segs[j].memsz
               b == FirstPage(z) * W
    <3>1. a <= b
      <4>1. j < N
        BY <1>2, <2>3
      <4>2. N \in DOMAIN segs /\ j \in DOMAIN segs
        BY <1>2
      <4>3. \A i, k \in DOMAIN segs :
              i < k => segs[i].vaddr + segs[i].memsz <= FirstPage(segs[k]) * W
        BY FileIs
      <4> HIDE DEF segs, N
      <4> QED BY <4>1, <4>2, <4>3
    <3>2. a \in Nat /\ b \in Nat
      <4>1. a \in Nat
        <5> HIDE DEF segs
        <5> QED BY <2>1
      <4>2. FirstPage(z) \in Nat
        BY <1>3
      <4> HIDE DEF z
      <4> QED BY <4>1, <4>2, Smaller
    <3>3. b \div W = FirstPage(z)
      <4> DEFINE x == FirstPage(z)
      <4>1. x \in Nat /\ 0 \in Index
        BY <1>3, Sets
      <4> HIDE DEF x
      <4> DEFINE X == x * W
      <4>4. X \in Nat
        BY <4>1, Smaller
      <4>5. Loc(x, 0) = X + 0
        BY DEF Loc
      <4> HIDE DEF X
      <4>2. Loc(x, 0) = X
        BY <4>4, <4>5
      <4>3. Loc(x, 0) \div W = x
        BY <4>1, LocIs
      <4> QED BY <4>2, <4>3 DEF x, X
    <3> HIDE DEF a, b
    <3>4. a \div W <= b \div W
      BY <3>1, <3>2, Rises
    <3>5. LastPage(segs[j]) = a \div W
      BY DEF LastPage, a
    <3> HIDE DEF z
    <3> QED BY <1>3, <2>1, <3>3, <3>4, <3>5
  <2> QED BY <2>2, <2>3
<1> HIDE DEF z, segs, N
<1>6. ASSUME NEW v \in PagesUpTo(f, N) PROVE v < LastPage(z) + 1
  <2>1. PICK j \in 1 .. N : v \in FirstPage(segs[j]) .. LastPage(segs[j])
    BY DEF PagesUpTo, segs
  <2>2. v \in Nat
    BY DEF PagesUpTo, UserPage
  <2> QED BY <1>3, <1>5, <2>1, <2>2
<1>7. LastPage(z) \in FirstPage(z) .. LastPage(z)
  BY <1>3
<1>8. LastPage(z) \in PagesUpTo(f, N)
  BY <1>2, <1>3, <1>7 DEF PagesUpTo, z, segs
<1>9. EndOf(f) - 1 = LastPage(z) /\ EndOf(f) \in 1 .. StackFirst
  BY <1>3, <1>4, Numbers
<1>10. LastPage(z) \in UserPage /\ LastPage(z) \div W = TableOf(f)
  BY <1>3, <1>7
<1>11. \A v \in PagesUpTo(f, N) : v < EndOf(f)
  BY <1>4, <1>6
<1> QED BY <1>8, <1>9, <1>10, <1>11 DEF N, segs

(* A program that has just been loaded: n.mem and directory d are as File  *)
(* f and context_uload() leave them.                                       *)
Begun(n, d, f) ==
  /\ HasFile(n, d, f) /\ At(n, d, UserPages - 1, W - 1) = Args
  /\ \A v \in UserPage :
       Valid(WalkOf(n, d, v)) /\ (v < EndOf(f) \/ v > StackFirst)
         <=> v \in PagesUpTo(f, Len(Image[f].segs)) \/ v > StackFirst

LEMMA BegunIs ==
  ASSUME NEW f \in File, NEW d, NEW m, NEW n, Bare(m, d), HasFile(n, d, f),
         Alike(m, n, d, UserPage \ PagesUpTo(f, Len(Image[f].segs)))
  PROVE  Begun(n, d, f)
<1> DEFINE N == Len(Image[f].segs)
           P == PagesUpTo(f, N)
<1>1. /\ EndOf(f) \in Nat /\ EndOf(f) <= StackFirst /\ StackFirst \in Nat
      /\ \A v \in P : v < EndOf(f) /\ v \in UserPage
      /\ EndOf(f) - 1 \in UserPage /\ (EndOf(f) - 1) \div W = TableOf(f)
  BY EndOfIs, Numbers DEF PagesUpTo
<1>2. Alike(m, n, d, UserPage \ P)
  OBVIOUS
<1>3. ASSUME NEW v \in P PROVE Valid(WalkOf(n, d, v))
  <2>1. PICK j \in 1 .. N : v \in FirstPage(Image[f].segs[j]) .. LastPage(Image[f].segs[j])
    BY DEF PagesUpTo
  <2>2. j \in DOMAIN Image[f].segs
    BY FileIs
  <2> QED BY <2>1, <2>2 DEF HasFile, SegmentHas
<1> HIDE DEF P, N
<1>4. ASSUME NEW v \in UserPage, v > StackFirst
      PROVE  Valid(WalkOf(n, d, v)) /\ \A o \in Index : At(n, d, v, o) = At(m, d, v, o)
  <2>1. v \in UserPage \ P /\ v \in StackFirst + 1 .. UserPages - 1
    BY <1>1, <1>4, Numbers DEF UserPage
  <2> QED BY <1>2, <2>1 DEF Bare, Alike
<1>5. ASSUME NEW v \in UserPage, v < EndOf(f), Valid(WalkOf(n, d, v)) PROVE v \in P
  <2>1. SUFFICES ASSUME v \notin P PROVE FALSE
    OBVIOUS
  <2>2. OnStack(v) /\ v \in Nat
    BY <1>2, <1>5, <2>1 DEF Bare, Alike, UserPage
  <2>3. v % W = 0 /\ v \div W = StackFirst \div W
    BY <1>1, <1>5, <2>2 DEF OnStack
  <2>4. v \div W <= TableOf(f)
    <3>1. EndOf(f) - 1 \in Nat /\ v <= EndOf(f) - 1
      BY <1>1, <1>5, <2>2 DEF UserPage
    <3> QED BY <1>1, <2>2, <3>1, Rises
  <2>5. TableOf(f) <= StackFirst \div W
    <3>1. EndOf(f) - 1 \in Nat /\ EndOf(f) - 1 <= StackFirst
      BY <1>1 DEF UserPage
    <3> QED BY <1>1, <3>1, Rises
  <2> DEFINE a == FirstPage(Image[f].segs[1])
  <2>6. a % W = 0 /\ a \div W = TableOf(f)
    BY FileIs DEF TableOf
  <2>7. 1 \in 1 .. N /\ 1 \in DOMAIN Image[f].segs
    <3> DEFINE segs == Image[f].segs
    <3>1. segs \in Seq(Segment) /\ segs # <<>>
      BY FileIs
    <3> HIDE DEF segs
    <3>2. 1 \in 1 .. Len(segs) /\ 1 \in DOMAIN segs
      BY <3>1
    <3> QED BY <3>2 DEF segs, N
  <2>8. /\ a \in FirstPage(Image[f].segs[1]) .. LastPage(Image[f].segs[1])
        /\ a \in Nat /\ a \in UserPage
    BY <2>7, SegmentIs
  <2>9. v \div W = a \div W
    <3>1. v \div W \in Nat /\ a \div W \in Nat
      BY <2>2, <2>8, Division
    <3> HIDE DEF a
    <3> QED BY <2>3, <2>4, <2>5, <2>6, <3>1
  <2> HIDE DEF a
  <2>10. v = a
    BY <2>2, <2>3, <2>6, <2>8, <2>9, SamePage
  <2> QED BY <2>1, <2>7, <2>8, <2>10 DEF P, PagesUpTo
<1>6. At(n, d, UserPages - 1, W - 1) = Args
  <2>1. UserPages - 1 \in UserPage /\ UserPages - 1 > StackFirst /\ W - 1 \in Index
    BY Numbers DEF UserPage, StackFirst, Index
  <2> QED BY <1>4, <2>1 DEF Bare
<1>7. ASSUME NEW v \in UserPage
      PROVE  Valid(WalkOf(n, d, v)) /\ (v < EndOf(f) \/ v > StackFirst)
               <=> v \in P \/ v > StackFirst
  BY <1>1, <1>3, <1>4, <1>5
<1> QED BY <1>6, <1>7 DEF Begun, P, N

LEMMA UloadGood ==
  ASSUME NEW m, NEW g, Good(m, g), m.pf < HeapEnd, NEW f \in File, Uload(m, f).pf <= HeapEnd
  PROVE  LET n == Uload(m, f)
         IN  /\ n \in Mem /\ m.pf < n.pf
             /\ \E h : /\ Good(n, h) /\ Later(g, h) /\ Kept(m, n, g, m.pf)
                       /\ h[m.pf] = Directory
             /\ Begun(n, m.pf, f)
<1> DEFINE d == m.pf
           l == Prepare(m)
           n == Uload(m, f)
<1>1. m \in Mem /\ m.pf \in Nat /\ m.pf > HeapStart
  BY DEF Good, Tidy, Mem
<1>2. d \in Page /\ d # kas
  BY <1>1, Numbers DEF Page, kas
<1>3. l \in Mem
  <2>1. protect(m) \in Mem
    BY <1>1, ProtectIs
  <2> QED BY <1>2, <2>1, MapStackMem DEF Prepare
<1>4. n = loader(l, d, f)
  BY DEF Uload
<1> HIDE DEF l, n
<1>5. n \in Mem /\ l.pf <= n.pf /\ n.pf <= HeapEnd /\ l.pf <= HeapEnd
  <2>1. n \in Mem /\ l.pf <= n.pf
    BY <1>2, <1>3, <1>4, loaderMem
  <2>2. n.pf <= HeapEnd
    BY DEF n
  <2> QED BY <1>3, <2>1, <2>2, Numbers DEF Mem
<1>6. /\ m.pf < l.pf /\ Bare(l, d)
      /\ \E k : /\ Good(l, k) /\ Later(g, k) /\ Kept(m, l, g, d) /\ k[d] = Directory
  BY <1>5, PrepareGood DEF l
<1>7. PICK k : /\ Good(l, k) /\ Later(g, k) /\ Kept(m, l, g, d) /\ k[d] = Directory
  BY <1>6
<1>8. /\ \E h : Good(n, h) /\ Later(k, h) /\ Kept(l, n, k, d)
      /\ HasFile(n, d, f) /\ Alike(l, n, d, UserPage \ PagesUpTo(f, Len(Image[f].segs)))
  BY <1>2, <1>4, <1>5, <1>7, loaderGood
<1>9. PICK h : Good(n, h) /\ Later(k, h) /\ Kept(l, n, k, d)
  BY <1>8
<1>10. Later(g, h) /\ Kept(m, n, g, d)
  BY <1>7, <1>9, KeptOn
<1>11. h[d] = Directory
  BY <1>2, <1>7, <1>9, RoleKinds, Sets DEF Later
<1>12. m.pf < n.pf
  BY <1>1, <1>3, <1>5, <1>6 DEF Mem
<1>13. Begun(n, d, f)
  BY <1>6, <1>8, BegunIs
<1> QED BY <1>5, <1>9, <1>10, <1>11, <1>12, <1>13 DEF n

----------------------------------------------------------------------------
(* mm_brk().                                                               *)
LEMMA ZeroPageGood ==
  ASSUME NEW m, NEW g, Good(m, g), m.pf < HeapEnd
  PROVE  /\ Good(pg_alloc(m), g) /\ m.pf \in Page /\ g[m.pf] = Free
         /\ \A y \in Page, o \in Index :
              g[y] # Free => pg_alloc(m).mem[Loc(y, o)] = m.mem[Loc(y, o)]
<1> DEFINE n == pg_alloc(m)
<1>1. m \in Mem /\ m.pf \in Nat /\ m.pf > HeapStart /\ g[m.pf] = Free
  BY DEF Good, Tidy, Mem, Roles
<1>2. /\ n \in Mem /\ n.pf = m.pf + 1
      /\ \A y \in Page, o \in Index :
           n.mem[Loc(y, o)] = IF y = m.pf THEN Zero ELSE m.mem[Loc(y, o)]
  BY <1>1, PgAllocIs
<1> HIDE DEF n
<1>3. \A y \in Page, o \in Index : n.mem[Loc(y, o)] \in Known(n.pf)
  <2>1. Known(m.pf) \subseteq Known(n.pf)
    BY <1>1, <1>2, KnownGrows
  <2>2. Zero \in Known(n.pf)
    BY DEF Known, Zero
  <2> QED BY <1>2, <2>1, <2>2 DEF Good, Tidy
<1>4. \A y \in Page, o \in Index : g[y] # Free => n.mem[Loc(y, o)] = m.mem[Loc(y, o)]
  BY <1>1, <1>2
<1>5. \A y \in Page, o \in Index : Structure(g[y]) => n.mem[Loc(y, o)] = m.mem[Loc(y, o)]
  BY <1>4, Structures
<1>6. n.pf >= m.pf /\ n.pf <= HeapEnd
  BY <1>1, <1>2, Numbers
<1>7. Good(n, g)
  BY <1>2, <1>3, <1>5, <1>6, DataGood
<1>8. m.pf \in Page
  BY <1>1, Numbers DEF Page
<1> QED BY <1>1, <1>4, <1>7, <1>8 DEF n

BrkRounds(m, d, first, k, r) ==
  /\ r \in [0 .. k -> Mem] /\ r[0] = m
  /\ \A i \in 1 .. k : r[i] = map(pg_alloc(r[i - 1]), d, first + i - 1, r[i - 1].pf)

LEMMA BrkIs ==
  ASSUME NEW m \in Mem, NEW d \in Page, NEW first \in Nat, NEW last \in 0 .. UserPages,
         first <= last
  PROVE  \E r : BrkRounds(m, d, first, last - first, r) /\ Brk(m, d, first, last) = r[last - first]
<1> DEFINE n == last - first
           F == [z \in Mem \X (1 .. n) |-> map(pg_alloc(z[1]), d, first + z[2] - 1, z[1].pf)]
<1>1. n \in Nat /\ \A i \in 1 .. n : first + i - 1 \in UserPage
  BY Numbers DEF UserPage
<1>2. ASSUME NEW l \in Mem, NEW i \in 1 .. n
      PROVE  map(pg_alloc(l), d, first + i - 1, l.pf) \in Mem
  <2>1. pg_alloc(l) \in Mem /\ l.pf \in Nat /\ first + i - 1 \in UserPage
    BY <1>1, PgAllocIs DEF Mem
  <2> QED BY <2>1, UserPageIs, MapIs DEF IsMap
<1> HIDE DEF n
<1>3. F \in [Mem \X (1 .. n) -> Mem]
  BY <1>2
<1>4. PICK r : Rounds(Mem, m, F, n, r)
  <2> HIDE DEF F
  <2> QED BY <1>1, <1>3, Loop
<1>5. BrkRounds(m, d, first, n, r)
  <2>1. ASSUME NEW i \in 1 .. n
        PROVE  r[i] = map(pg_alloc(r[i - 1]), d, first + i - 1, r[i - 1].pf)
    <3>1. i - 1 \in 0 .. n /\ r[i - 1] \in Mem
      BY <1>1, <1>4 DEF Rounds
    <3> QED BY <1>4, <3>1 DEF Rounds
  <2> QED BY <1>4, <2>1 DEF Rounds, BrkRounds
<1> DEFINE Is(g) == g = [i \in 0 .. n |->
                           IF i = 0 THEN m
                           ELSE map(pg_alloc(g[i - 1]), d, first + i - 1, g[i - 1].pf)]
           f0 == CHOOSE g : Is(g)
<1>6. Is(r)
  BY <1>1, <1>5 DEF BrkRounds
<1>7. Is(f0) /\ Brk(m, d, first, last) = f0[n]
  BY <1>6 DEF Brk, n
<1> HIDE DEF f0
<1>8. f0[0] = m /\ \A i \in 1 .. n : f0[i] = map(pg_alloc(f0[i - 1]), d, first + i - 1, f0[i - 1].pf)
  <2>1. 0 \in 0 .. n /\ \A i \in 1 .. n : i \in 0 .. n /\ i # 0
    BY <1>1
  <2> QED BY <1>7, <2>1
<1>9. f0[n] = r[n]
  <2>1. f0[0] = r[0] /\ \A i \in 1 .. n : f0[i - 1] = r[i - 1] => f0[i] = r[i]
    BY <1>5, <1>8 DEF BrkRounds
  <2>2. n \in Nat /\ n \in 0 .. n
    BY <1>1
  <2>3. \A i \in 0 .. n : f0[i] = r[i]
    BY <2>1, <2>2, Same
  <2> QED BY <2>2, <2>3
<1> QED BY <1>5, <1>7, <1>9 DEF n

(* After i rounds there are i zeroed pages from first on, nothing else of  *)
(* what is read has changed, and the table of the next page is there or to *)
(* begin: map() puts no entry of brk() into a wrong place.                 *)
BrkView(m, d, first, i, l) ==
  /\ l.mem[Loc(d, (first + i - 1) \div W)] # Zero
  /\ Alike(m, l, d, UserPage \ (first .. first + i - 1))
  /\ \A v \in first .. first + i - 1 :
       Valid(WalkOf(l, d, v)) /\ \A o \in Index : At(l, d, v, o) = Zero

LEMMA BrkViewRound ==
  ASSUME NEW m, NEW d \in Page, d # kas, NEW first \in Nat, first >= 1, NEW i \in Nat, i >= 1,
         first + i - 1 \in UserPage, NEW l, NEW h, Good(l, h), h[d] = Directory,
         l.pf < HeapEnd, BrkView(m, d, first, i - 1, l),
         map(pg_alloc(l), d, first + i - 1, l.pf).pf <= HeapEnd
  PROVE  BrkView(m, d, first, i, map(pg_alloc(l), d, first + i - 1, l.pf))
<1> DEFINE a == pg_alloc(l)
           va == first + i - 1
           n == map(a, d, va, l.pf)
           S == first .. first + i - 1
           R == first .. first + (i - 1) - 1
<1>1. /\ Good(a, h) /\ l.pf \in Page /\ h[l.pf] = Free
      /\ \A y \in Page, o \in Index : h[y] # Free => a.mem[Loc(y, o)] = l.mem[Loc(y, o)]
  BY ZeroPageGood
<1>2. l.pf < a.pf /\ \A o \in Index : a.mem[Loc(l.pf, o)] = Zero
  BY <1>1, PgAllocIs DEF Good, Tidy, Mem
<1>3. /\ l.mem[Loc(d, (va - 1) \div W)] # Zero /\ Alike(m, l, d, UserPage \ R)
      /\ \A v \in R : Valid(WalkOf(l, d, v)) /\ \A o \in Index : At(l, d, v, o) = Zero
  <2>1. first + (i - 1) - 1 = va - 1
    OBVIOUS
  <2> QED BY <2>1 DEF BrkView
<1>4. /\ va \in UserPage /\ va - 1 \in UserPage /\ va \in Nat /\ va - 1 \in Nat
      /\ S = R \cup {va} /\ n.pf <= HeapEnd /\ \A v \in R : v \in UserPage /\ v # va
  BY Numbers DEF UserPage
<1> HIDE DEF a, n, va, S, R
<1>5. Alike(l, a, d, UserPage)
  <2>1. \A y \in Page, o \in Index : Structure(h[y]) => a.mem[Loc(y, o)] = l.mem[Loc(y, o)]
    BY <1>1, Structures
  <2>2. \A v \in UserPage : WalkOf(a, d, v) = WalkOf(l, d, v)
    BY <2>1, SameWalks
  <2>3. \A y \in Page, o \in Index :
          (\E v \in UserPage : h[y] = Data(d, v \div W, v % W))
            => a.mem[Loc(y, o)] = l.mem[Loc(y, o)]
    BY <1>1, RoleKinds
  <2>4. UserPage \in SUBSET UserPage
    OBVIOUS
  <2> QED BY <2>2, <2>3, <2>4, StillAlike
<1>6. va % W = 0 \/ a.mem[Loc(d, va \div W)] # Zero
  <2>1. SUFFICES ASSUME va % W # 0 PROVE a.mem[Loc(d, va \div W)] # Zero
    OBVIOUS
  <2>2. va \div W = (va - 1) \div W
    <3> DEFINE q == va \div W
               o == va % W
    <3>1. q \in Nat /\ o \in Index /\ va = q * W + o /\ q * W \in Nat
      BY <1>4, Division, Smaller
    <3>2. o - 1 \in Index /\ va - 1 = Loc(q, o - 1)
      <4> HIDE DEF q, o
      <4>1. o \in Nat /\ o # 0 /\ o < W
        BY <2>1, <3>1, Numbers DEF Index, o
      <4>2. o - 1 \in Index
        BY <4>1, Numbers DEF Index
      <4> DEFINE A == q * W
      <4>3. va = A + o /\ A \in Nat
        BY <3>1
      <4>4. va - 1 = A + (o - 1)
        <5> HIDE DEF A
        <5> QED BY <4>1, <4>3
      <4> QED BY <4>2, <4>4 DEF Loc
    <3> HIDE DEF q, o
    <3> QED BY <3>1, <3>2, LocIs DEF q
  <2>3. (va - 1) \div W \in Index /\ h[d] # Free
    BY <1>4, UserPageIs, RoleKinds
  <2> QED BY <1>1, <1>3, <2>2, <2>3
<1>7. /\ WalkOf(n, d, va) = Pte(l.pf) /\ Alike(a, n, d, UserPage \ {va})
  <2> DEFINE x == l.pf
             z == map(a, d, va, x)
  <2>1. x \in Page /\ x < a.pf /\ h[x] = Free /\ z.pf <= HeapEnd
    BY <1>1, <1>2, <1>4 DEF n
  <2> HIDE DEF x
  <2>2. MapsOnly(a, z, d, va, x)
    BY <1>1, <1>4, <1>6, <2>1, MapAlike
  <2> QED BY <2>2 DEF MapsOnly, x, n
<1>8. Valid(WalkOf(n, d, va)) /\ \A o \in Index : At(n, d, va, o) = Zero
  <2>1. l.pf \in Nat
    BY <1>1, Sets
  <2>2. Valid(Pte(l.pf)) /\ Pte(l.pf)[2] = l.pf
    BY <2>1, WordKinds
  <2>3. \A o \in Index : n.mem[Loc(l.pf, o)] = a.mem[Loc(l.pf, o)]
    <3>1. ~Structure(h[l.pf])
      BY <1>1, RoleKinds, Structures
    <3> QED BY <1>1, <1>2, <1>4, <3>1, MapWalks DEF n
  <2> QED BY <1>2, <1>7, <2>2, <2>3 DEF At
<1>9. n.mem[Loc(d, va \div W)] # Zero
  BY <1>8, WordKinds DEF WalkOf
<1>10. Alike(m, n, d, UserPage \ S)
  <2>1. UserPage \in SUBSET UserPage /\ UserPage \ R \in SUBSET ((UserPage \ R) \cap UserPage)
        /\ UserPage \ S \in SUBSET ((UserPage \ R) \cap (UserPage \ {va}))
    BY <1>4
  <2>2. Alike(m, a, d, UserPage \ R)
    BY <1>3, <1>5, <2>1, AlikeOn
  <2> QED BY <1>7, <2>1, <2>2, AlikeOn
<1>11. ASSUME NEW v \in R PROVE Valid(WalkOf(n, d, v)) /\ \A o \in Index : At(n, d, v, o) = Zero
  <2>1. v \in UserPage /\ v # va
    BY <1>4
  <2> QED BY <1>3, <1>5, <1>7, <1>11, <2>1 DEF Alike
<1> QED BY <1>4, <1>8, <1>9, <1>10, <1>11 DEF BrkView, n, a, S, va

BrkState(m, g, d, first, i, l, h) ==
  /\ Good(l, h) /\ Later(g, h) /\ Kept(m, l, g, d)
  /\ m.mem[Loc(d, (first - 1) \div W)] # Zero => BrkView(m, d, first, i, l)

LEMMA BrkRound ==
  ASSUME NEW m, NEW g, NEW d \in Page, g[d] = Directory, d # kas,
         NEW first \in Nat, first >= 1, NEW i \in Nat, i >= 1, first + i - 1 \in UserPage,
         NEW l, NEW h, BrkState(m, g, d, first, i - 1, l, h), l.pf < HeapEnd,
         map(pg_alloc(l), d, first + i - 1, l.pf).pf <= HeapEnd
  PROVE  \E k : BrkState(m, g, d, first, i, map(pg_alloc(l), d, first + i - 1, l.pf), k)
<1> DEFINE a == pg_alloc(l)
           va == first + i - 1
           n == map(a, d, va, l.pf)
           k == MapRole(a, h, d, va, l.pf)
<1>1. Good(l, h) /\ Later(g, h) /\ Kept(m, l, g, d)
  BY DEF BrkState
<1>2. /\ Good(a, h) /\ l.pf \in Page /\ h[l.pf] = Free
      /\ \A y \in Page, o \in Index : h[y] # Free => a.mem[Loc(y, o)] = l.mem[Loc(y, o)]
  BY <1>1, ZeroPageGood
<1>3. l.pf < a.pf
  BY <1>1, PgAllocIs DEF Good, Tidy, Mem
<1>4. h[d] = Directory
  BY <1>1, RoleKinds, Sets DEF Later
<1>9. m.mem[Loc(d, (first - 1) \div W)] # Zero => BrkView(m, d, first, i, n)
  BY <1>1, <1>4, BrkViewRound DEF BrkState
<1>10. va \in UserPage
  OBVIOUS
<1> HIDE DEF a, va
<1>5. Good(n, k) /\ Later(h, k) /\ Kept(a, n, h, d)
  <2>1. n.pf <= HeapEnd
    BY DEF a, va
  <2> QED BY <1>2, <1>3, <1>4, <1>10, <2>1, MapGood DEF UserPage
<1> HIDE DEF n, k
<1>6. Kept(l, n, h, d)
  BY <1>2, <1>5 DEF Kept
<1>7. Later(g, k) /\ Kept(m, n, g, d)
  BY <1>1, <1>5, <1>6, KeptOn
<1>8. BrkState(m, g, d, first, i, n, k)
  BY <1>5, <1>7, <1>9 DEF BrkState
<1> QED BY <1>8 DEF n, a, va

LEMMA BrkRises ==
  ASSUME NEW m \in Mem, NEW d \in Page, NEW first \in Nat, NEW k \in Nat,
         first + k <= UserPages, NEW r, BrkRounds(m, d, first, k, r)
  PROVE  \A i \in 0 .. k : m.pf <= r[i].pf /\ r[i].pf <= r[k].pf /\ (i < k => r[i].pf < r[k].pf)
<1> DEFINE p == [i \in 0 .. k |-> r[i].pf]
<1>1. /\ r \in [0 .. k -> Mem] /\ r[0] = m
      /\ \A i \in 1 .. k : r[i] = map(pg_alloc(r[i - 1]), d, first + i - 1, r[i - 1].pf)
  BY DEF BrkRounds
<1>2. p \in [0 .. k -> Nat] /\ \A i \in 0 .. k : p[i] = r[i].pf
  BY <1>1 DEF Mem
<1> HIDE DEF p
<1>3. ASSUME NEW i \in 1 .. k PROVE p[i - 1] < p[i]
  <2>1. first + i - 1 \in UserPage /\ i \in 0 .. k /\ i - 1 \in 0 .. k
    BY Numbers DEF UserPage
  <2>2. r[i - 1] \in Mem /\ r[i - 1].pf \in Nat /\ r[i].pf \in Nat
    BY <1>1, <2>1 DEF Mem
  <2>3. pg_alloc(r[i - 1]) \in Mem /\ pg_alloc(r[i - 1]).pf = r[i - 1].pf + 1
    BY <2>2, PgAllocIs
  <2> DEFINE a == pg_alloc(r[i - 1])
             v == first + i - 1
  <2>4. IsMap(a, r[i], d, v \div W, v % W, r[i - 1].pf)
    <3>1. a \in Mem /\ v \in UserPage /\ r[i] = map(a, d, v, r[i - 1].pf)
      BY <1>1, <2>1, <2>3
    <3> HIDE DEF a, v
    <3> QED BY <2>2, <3>1, UserPageIs, MapIs
  <2>5. r[i].pf = a.pf \/ r[i].pf = a.pf + 1
    <3> HIDE DEF a, v
    <3> QED BY <2>4 DEF IsMap
  <2>6. p[i - 1] = r[i - 1].pf /\ p[i] = r[i].pf
    BY <1>2, <2>1
  <2> QED BY <2>2, <2>3, <2>5, <2>6
<1>4. \A i \in 1 .. k : p[i - 1] <= p[i]
  <2>1. \A i \in 1 .. k : i \in 0 .. k /\ i - 1 \in 0 .. k
    OBVIOUS
  <2>2. \A i \in 0 .. k : p[i] \in Nat
    BY <1>2
  <2> QED BY <1>3, <2>1, <2>2
<1>5. \A i \in 0 .. k : p[0] <= p[i] /\ p[i] <= p[k]
  BY <1>2, <1>4, Rising
<1>6. ASSUME NEW i \in 0 .. k, i < k PROVE p[i] < p[k]
  <2>1. i + 1 \in 1 .. k /\ i + 1 \in 0 .. k /\ k \in 0 .. k /\ (i + 1) - 1 = i
    BY <1>6
  <2>2. p[i] < p[i + 1] /\ p[i + 1] <= p[k]
    BY <1>3, <1>5, <2>1
  <2>3. p[i] \in Nat /\ p[i + 1] \in Nat /\ p[k] \in Nat
    BY <1>2, <2>1
  <2> QED BY <2>2, <2>3
<1>7. 0 \in 0 .. k /\ k \in 0 .. k
  OBVIOUS
<1> QED BY <1>1, <1>2, <1>5, <1>6, <1>7

LEMMA BrkGood ==
  ASSUME NEW m, NEW g, Good(m, g), NEW d \in Page, g[d] = Directory, d # kas,
         NEW first \in Nat, first >= 1, NEW last \in 0 .. UserPages, first <= last,
         Brk(m, d, first, last).pf <= HeapEnd
  PROVE  LET n == Brk(m, d, first, last)
         IN  /\ n \in Mem /\ m.pf <= n.pf
             /\ \E h : Good(n, h) /\ Later(g, h) /\ Kept(m, n, g, d)
             /\ m.mem[Loc(d, (first - 1) \div W)] # Zero => BrkView(m, d, first, last - first, n)
<1> DEFINE k == last - first
           n == Brk(m, d, first, last)
<1>1. m \in Mem /\ k \in Nat /\ first + k <= UserPages
  BY Numbers DEF Good, Tidy
<1>2. PICK r : BrkRounds(m, d, first, k, r) /\ n = r[k]
  BY <1>1, BrkIs
<1>3. n.pf <= HeapEnd
  OBVIOUS
<1>a. \A i \in 1 .. k : first + i - 1 \in UserPage
  BY Numbers DEF UserPage
<1> HIDE DEF k, n
<1>4. /\ r \in [0 .. k -> Mem] /\ r[0] = m
      /\ \A i \in 1 .. k : r[i] = map(pg_alloc(r[i - 1]), d, first + i - 1, r[i - 1].pf)
  BY <1>2 DEF BrkRounds
<1>5. /\ \A i \in 0 .. k : m.pf <= r[i].pf /\ r[i].pf <= r[k].pf
      /\ \A i \in 0 .. k : i < k => r[i].pf < r[k].pf
  BY <1>1, <1>2, BrkRises
<1>6. k \in 0 .. k /\ r[k].pf \in Nat /\ r[k].pf <= HeapEnd /\ \A i \in 0 .. k : r[i].pf \in Nat
  BY <1>1, <1>2, <1>3, <1>4 DEF Mem
<1> DEFINE G == {i \in 0 .. k : \E h : BrkState(m, g, d, first, i, r[i], h)}
<1>7. 0 \in G
  <2>1. first + 0 - 1 = first - 1 /\ first .. first + 0 - 1 = {}
    OBVIOUS
  <2>3. BrkState(m, g, d, first, 0, r[0], g)
    BY <1>4, <2>1 DEF BrkState, BrkView, Alike, Later, Kept
  <2>2. 0 \in 0 .. k
    BY <1>1
  <2> QED BY <2>2, <2>3
<1>8. ASSUME NEW i \in 1 .. k, i - 1 \in G PROVE i \in G
  <2>1. PICK h : BrkState(m, g, d, first, i - 1, r[i - 1], h)
    BY <1>8
  <2>2. i \in 0 .. k /\ i - 1 \in 0 .. k /\ i - 1 < k /\ first + i - 1 \in UserPage
    BY <1>1, <1>a
  <2>3. r[i - 1].pf < HeapEnd /\ r[i].pf <= HeapEnd
    <3>1. r[i - 1].pf < r[k].pf
      BY <1>5, <2>2
    <3>2. r[i].pf <= r[k].pf
      BY <1>5, <2>2
    <3>3. r[i - 1].pf \in Nat /\ r[i].pf \in Nat
      BY <1>6, <2>2
    <3> QED BY <1>6, <3>1, <3>2, <3>3, Numbers
  <2> DEFINE l == r[i - 1]
  <2>5. /\ r[i] = map(pg_alloc(l), d, first + i - 1, l.pf) /\ i \in Nat /\ i >= 1
        /\ BrkState(m, g, d, first, i - 1, l, h) /\ l.pf < HeapEnd /\ r[i].pf <= HeapEnd
    BY <1>1, <1>4, <2>1, <2>3
  <2> HIDE DEF l
  <2> DEFINE x == map(pg_alloc(l), d, first + i - 1, l.pf)
  <2>6. \E q : BrkState(m, g, d, first, i, x, q)
    BY <2>2, <2>5, BrkRound
  <2> HIDE DEF x
  <2>4. \E q : BrkState(m, g, d, first, i, r[i], q)
    BY <2>5, <2>6 DEF x
  <2> QED BY <2>2, <2>4
<1>9. \E h : BrkState(m, g, d, first, k, n, h)
  <2> HIDE DEF G
  <2>1. \A i \in 0 .. k : i \in G
    BY <1>1, <1>7, <1>8, UpTo
  <2>2. k \in G
    BY <1>6, <2>1
  <2> QED BY <1>2, <2>2 DEF G
<1>10. n \in Mem /\ m.pf <= n.pf
  <2>1. r[k] \in Mem
    BY <1>4, <1>6
  <2>2. m.pf <= r[k].pf
    BY <1>5, <1>6
  <2> QED BY <1>2, <2>1, <2>2
<1> QED BY <1>9, <1>10 DEF BrkState, n, k

----------------------------------------------------------------------------
(* What VirtualMemory sees: the memory of a process whose directory is d   *)
(* and whose heap ends at page b, in the words of Space.                   *)
View(m, d, b) ==
  [a \in UserAddr |-> IF a \div W < b \/ a \div W > StackFirst
                        THEN At(m, d, a \div W, a % W) ELSE NoWord]

LEMMA AddrIs ==
  ASSUME NEW a \in UserAddr
  PROVE  /\ a \in Nat /\ a \div W \in UserPage /\ a % W \in Index
         /\ a = Loc(a \div W, a % W)
         /\ \A b \in Nat : a < b * W <=> a \div W < b
<1>1. a \in Nat /\ a < UserPages * W
  <2>1. a \in 0 .. UserPages * W - 1 /\ UserPages * W \in Nat
    BY Numbers, Smaller DEF UserAddr
  <2> QED BY <2>1
<1> DEFINE q == a \div W
           o == a % W
<1>2. q \in Nat /\ o \in Index /\ a = Loc(q, o)
  BY <1>1, Split
<1> HIDE DEF q, o
<1>3. ASSUME NEW b \in Nat PROVE a < b * W <=> q < b
  <2> DEFINE Q == q * W
             B == b * W
  <2>1. Q \in Nat /\ B \in Nat /\ (q < b => Q + W <= B) /\ (b <= q => B <= Q)
    BY <1>2, Smaller
  <2>2. a = Q + o /\ o \in Nat /\ o < W /\ W \in Nat
    BY <1>2, Numbers DEF Loc, Index
  <2> HIDE DEF Q, B
  <2>3. a < B <=> q < b
    BY <1>2, <2>1, <2>2
  <2> QED BY <2>3 DEF B
<1>4. q \in UserPage
  <2>1. q < UserPages
    BY <1>1, <1>3, Numbers
  <2> QED BY <1>2, <2>1, Numbers DEF UserPage
<1> QED BY <1>1, <1>2, <1>3, <1>4 DEF q, o

LEMMA LocAddr ==
  ASSUME NEW v \in UserPage, NEW o \in Index
  PROVE  Loc(v, o) \in UserAddr
<1>1. v \in Nat /\ v < UserPages /\ UserPages \in Nat
  BY Numbers DEF UserPage
<1> DEFINE V == v * W
           U == UserPages * W
<1>2. V \in Nat /\ U \in Nat /\ V + W <= U /\ o \in Nat /\ o < W /\ W \in Nat
  BY <1>1, Smaller, Numbers DEF Index
<1> HIDE DEF V, U
<1>3. V + o \in 0 .. U - 1
  BY <1>2
<1> QED BY <1>3 DEF V, U, UserAddr, Loc

LEMMA SameView ==
  ASSUME NEW m, NEW n, NEW d, NEW b, Alike(m, n, d, UserPage)
  PROVE  View(n, d, b) = View(m, d, b)
BY AddrIs DEF View, Alike

(* A process has the words of the pages that are its own and mapped.       *)
LEMMA HasIs ==
  ASSUME NEW m, NEW g, Good(m, g), NEW d \in Page, g[d] = Directory, NEW b, NEW a \in UserAddr
  PROVE  LET v == a \div W
         IN  View(m, d, b)[a] # NoWord <=> Valid(WalkOf(m, d, v)) /\ (v < b \/ v > StackFirst)
<1> DEFINE v == a \div W
           o == a % W
           w == WalkOf(m, d, v)
<1>1. v \in UserPage /\ o \in Index
  BY AddrIs
<1> HIDE DEF v, o
<1>2. Valid(w) => At(m, d, v, o) # NoWord
  <2> SUFFICES ASSUME Valid(w) PROVE At(m, d, v, o) # NoWord
    OBVIOUS
  <2>1. w[2] \in Page
    BY <1>1, SeenIs
  <2>2. m.mem[Loc(w[2], o)] \in Known(m.pf)
    BY <1>1, <2>1 DEF Good, Tidy
  <2>3. \A z \in Known(m.pf) : z # NoWord
    BY DEF Known, NoWord
  <2> QED BY <2>2, <2>3 DEF At
<1>3. ~Valid(w) => At(m, d, v, o) = NoWord
  BY DEF At
<1>4. View(m, d, b)[a] = IF v < b \/ v > StackFirst THEN At(m, d, v, o) ELSE NoWord
  BY DEF View, v, o
<1> QED BY <1>2, <1>3, <1>4 DEF v

LEMMA LoadedIs ==
  ASSUME NEW f \in File, NEW m, NEW g, Good(m, g), NEW d \in Page, g[d] = Directory,
         Begun(m, d, f)
  PROVE  Abs!Loaded(View(m, d, EndOf(f)), f)
<1> DEFINE s == View(m, d, EndOf(f))
           segs == Image[f].segs
           N == Len(segs)
           top == UserPages * W - 1
           word(a) == LET z == CHOOSE z \in Range(segs) : InSegment(z, a)
                      IN  IF a < z.vaddr + z.filesz
                            THEN Disk(Image[f].disk + z.offset + a - z.vaddr) ELSE Zero
<1>1. DOMAIN segs = 1 .. N /\ Range(segs) = {segs[j] : j \in 1 .. N}
  <2>1. segs \in Seq(Segment)
    BY FileIs
  <2> HIDE DEF segs
  <2> QED BY <2>1 DEF Range
<1>2. /\ HasFile(m, d, f) /\ At(m, d, UserPages - 1, W - 1) = Args
      /\ \A v \in UserPage :
           Valid(WalkOf(m, d, v)) /\ (v < EndOf(f) \/ v > StackFirst)
             <=> v \in PagesUpTo(f, N) \/ v > StackFirst
      /\ \A v \in PagesUpTo(f, N) : v < EndOf(f)
  BY EndOfIs DEF Begun
<1>3. \A v \in UserPage :
        v \in PagesUpTo(f, N) <=> \E z \in Range(segs) : v \in FirstPage(z) .. LastPage(z)
  BY <1>1 DEF PagesUpTo
<1> HIDE DEF s, segs, N
<1>4. Abs!Has(s) = AtFirst[f]
  <2>1. ASSUME NEW a \in UserAddr
        PROVE  s[a] # NoWord <=>
                 \/ a >= (StackFirst + 1) * W
                 \/ \E z \in Range(segs) : a \div W \in FirstPage(z) .. LastPage(z)
    <3> DEFINE v == a \div W
               B == (StackFirst + 1) * W
    <3>1. /\ v \in UserPage /\ v \in Nat /\ a \in Nat /\ (a < B <=> v < StackFirst + 1)
          /\ B \in Nat /\ StackFirst \in Nat
      BY AddrIs, Numbers, Smaller DEF UserPage
    <3>2. s[a] # NoWord <=> Valid(WalkOf(m, d, v)) /\ (v < EndOf(f) \/ v > StackFirst)
      BY HasIs DEF s
    <3> HIDE DEF v, B
    <3>3. a >= B <=> v > StackFirst
      BY <3>1
    <3> QED BY <1>2, <1>3, <3>1, <3>2, <3>3 DEF v, B
  <2> QED BY <2>1 DEF Abs!Has, AtFirst, segs
<1>5. ASSUME NEW a \in {top} \cup {a \in UserAddr : \E z \in Range(segs) : InSegment(z, a)}
      PROVE  s[a] = IF a = top THEN Args ELSE word(a)
  <2>1. CASE a = top
    <3> DEFINE v == UserPages - 1
               o == W - 1
    <3>1. v \in UserPage /\ v \in Nat /\ o \in Index /\ v > StackFirst
      BY Numbers DEF UserPage, StackFirst, Index
    <3>2. Loc(v, o) = top
      <4>1. (v + 1) * W = v * W + W /\ v * W \in Nat /\ v + 1 = UserPages
        BY <3>1, Smaller, Numbers
      <4> DEFINE V == v * W
                 U == UserPages * W
      <4>2. U = V + W /\ V \in Nat /\ W \in Nat
        BY <4>1, Numbers
      <4> HIDE DEF V, U
      <4>3. V + (W - 1) = U - 1
        BY <4>2
      <4> QED BY <4>3 DEF Loc, V, U
    <3>3. top \in UserAddr /\ top \div W = v /\ top % W = o
      <4> HIDE DEF v, o, top
      <4> QED BY <3>1, <3>2, LocAddr, LocIs
    <3> HIDE DEF top
    <3>4. s[top] = At(m, d, v, o)
      BY <3>1, <3>3 DEF s, View
    <3> QED BY <1>2, <2>1, <3>4
  <2>2. CASE a # top
    <3>1. a \in UserAddr /\ \E z \in Range(segs) : InSegment(z, a)
      BY <2>2
    <3> DEFINE z == CHOOSE z \in Range(segs) : InSegment(z, a)
               v == a \div W
               o == a % W
               t == a - z.vaddr
    <3>2. z \in Range(segs) /\ InSegment(z, a)
      BY <3>1
    <3>3. word(a) = IF a < z.vaddr + z.filesz
                      THEN Disk(Image[f].disk + z.offset + a - z.vaddr) ELSE Zero
      OBVIOUS
    <3>4. v \in UserPage /\ o \in Index /\ a = Loc(v, o) /\ a \in Nat
      BY <3>1, AddrIs
    <3> HIDE DEF z, v, o, word
    <3>5. PICK j \in 1 .. N : z = segs[j]
      BY <1>1, <3>2
    <3>6. j \in DOMAIN Image[f].segs /\ z = Image[f].segs[j]
      BY <1>1, <3>5 DEF segs
    <3>7. /\ z.vaddr \in Nat /\ z.memsz \in Nat /\ z.filesz \in Nat /\ z.filesz <= z.memsz
          /\ z.offset \in Nat /\ Image[f].disk \in Nat
          /\ FirstPage(z) \in Nat /\ LastPage(z) \in Nat
      <4>1. z \in Segment
        BY <3>6, FileIs
      <4>2. z.offset \in Nat
        BY <4>1 DEF Segment
      <4> QED BY <3>6, <4>2, SegmentIs, FileIs
    <3>8. a >= z.vaddr /\ a < z.vaddr + z.memsz /\ z.vaddr + z.memsz \in Nat
      BY <3>2, <3>4, <3>7 DEF InSegment
    <3>9. v \in FirstPage(z) .. LastPage(z)
      <4>1. z.vaddr \div W <= v /\ v <= (z.vaddr + z.memsz) \div W
        BY <3>4, <3>7, <3>8, Rises DEF v
      <4>2. FirstPage(z) <= v /\ v <= LastPage(z) /\ v \in Nat
        BY <3>4, <4>1 DEF FirstPage, LastPage, UserPage
      <4> QED BY <3>7, <4>2
    <3>10. v < EndOf(f)
      BY <1>2, <1>3, <3>2, <3>4, <3>9
    <3>11. s[a] = At(m, d, v, o)
      BY <3>1, <3>10 DEF s, View, v, o
    <3>12. /\ t \in 0 .. z.filesz - 1 => At(m, d, v, o) = Disk(Image[f].disk + z.offset + t)
           /\ t \in z.filesz .. z.memsz - 1 => At(m, d, v, o) = Zero
      <4>1. SegmentHas(m, d, f, z)
        BY <1>2, <3>6 DEF HasFile
      <4>2. t = Loc(v, o) - z.vaddr
        BY <3>4
      <4> QED BY <3>4, <3>9, <4>1, <4>2 DEF SegmentHas
    <3>13. CASE a < z.vaddr + z.filesz
      <4>1. t \in 0 .. z.filesz - 1
        BY <3>4, <3>7, <3>8, <3>13
      <4>2. Image[f].disk + z.offset + t = Image[f].disk + z.offset + a - z.vaddr
        BY <3>4, <3>7
      <4> HIDE DEF t
      <4> QED BY <2>2, <3>3, <3>11, <3>12, <3>13, <4>1, <4>2
    <3>14. CASE ~(a < z.vaddr + z.filesz)
      <4>1. t \in z.filesz .. z.memsz - 1
        BY <3>4, <3>7, <3>8, <3>14
      <4> QED BY <2>2, <3>3, <3>11, <3>12, <3>14, <4>1
    <3> QED BY <3>13, <3>14
  <2> QED BY <2>1, <2>2
<1>6. /\ DOMAIN Promised[f] =
           {top} \cup {a \in UserAddr : \E z \in Range(segs) : InSegment(z, a)}
      /\ \A a \in DOMAIN Promised[f] : Promised[f][a] = IF a = top THEN Args ELSE word(a)
  BY DEF Promised, segs
<1> HIDE DEF word, top
<1> QED BY <1>4, <1>5, <1>6 DEF Abs!Loaded, s

(* What has been loaded stays while others load.                           *)
LEMMA StillBegun ==
  ASSUME NEW f \in File, NEW m, NEW g, Good(m, g), NEW n, NEW d \in Page,
         g[d] \in {Free, Directory}, Kept(m, n, g, d),
         NEW e \in Page, g[e] = Directory, e # d, Begun(m, e, f)
  PROVE  Begun(n, e, f)
<1>1. Alike(m, n, e, UserPage)
  BY OthersAlike
<1>2. n.mem[Loc(e, TableOf(f))] = m.mem[Loc(e, TableOf(f))]
  <2>1. TableOf(f) \in Index
    BY EndOfIs, UserPageIs
  <2>2. g[e] # Free /\ ~Reached(g, d, e)
    BY RoleKinds DEF Reached
  <2> QED BY <2>1, <2>2 DEF Kept
<1>3. UserPages - 1 \in UserPage /\ W - 1 \in Index
  BY Numbers DEF UserPage, Index
<1>4. ASSUME NEW j \in DOMAIN Image[f].segs PROVE SegmentHas(n, e, f, Image[f].segs[j])
  <2> DEFINE s == Image[f].segs[j]
  <2>1. \A v \in FirstPage(s) .. LastPage(s) : v \in UserPage
    BY SegmentIs
  <2>2. SegmentHas(m, e, f, s)
    BY DEF Begun, HasFile
  <2> HIDE DEF s
  <2>3. SegmentHas(n, e, f, s)
    BY <1>1, <2>1, <2>2 DEF SegmentHas, Alike
  <2> QED BY <2>3 DEF s
<1> QED BY <1>1, <1>2, <1>3, <1>4 DEF Begun, HasFile, Alike

----------------------------------------------------------------------------
(* vme_init(): kas is the only directory, and the tables of the kernel are *)
(* made one after the other.                                               *)
KernelState(i, m, g) ==
  /\ Tidy(m, g) /\ \A y \in Page : g[y] = Directory => y = kas
  /\ \A k \in 1 .. i : KernelAt(m, Segments[k])

LEMMA NewTable ==
  ASSUME NEW i \in DOMAIN Segments, NEW m, NEW g, KernelState(i - 1, m, g),
         m.mem[Loc(kas, Segments[i] \div W)] = Zero
  PROVE  Segments[i] % W = 0
<1> DEFINE v == Segments[i]
<1>1. /\ Segments \in Seq(UserPages .. W * W - 1) /\ DOMAIN Segments = 1 .. Len(Segments)
      /\ v \in UserPages .. W * W - 1 /\ v \in Nat
      /\ v % W = 0 \/ (i > 1 /\ v = Segments[i - 1] + 1)
  <2>1. Segments \in Seq(UserPages .. W * W - 1)
    BY AddressSpaceAssumption
  <2>2. v % W = 0 \/ (i > 1 /\ v = Segments[i - 1] + 1)
    BY AddressSpaceAssumption
  <2>3. DOMAIN Segments = 1 .. Len(Segments)
    BY <2>1
  <2> QED BY <2>1, <2>2, <2>3, Indexes
<1>2. SUFFICES ASSUME v % W # 0 PROVE FALSE
  OBVIOUS
<1>3. i - 1 \in 1 .. i - 1 /\ v = Segments[i - 1] + 1
  BY <1>1, <1>2
<1>4. KernelAt(m, v - 1)
  <2>1. i - 1 \in DOMAIN Segments
    BY <1>1, <1>3
  <2>2. Segments[i - 1] \in Nat
    BY <2>1, Indexes
  <2>3. Segments[i - 1] = v - 1
    BY <1>3, <2>2
  <2> QED BY <1>3, <2>3 DEF KernelState
<1> HIDE DEF v
<1>5. v \div W \in Nat /\ v % W \in Index /\ v = (v \div W) * W + (v % W) /\ (v \div W) * W \in Nat
  BY <1>1, Division, Smaller
<1>6. (v % W) - 1 \in Index /\ v - 1 = Loc(v \div W, (v % W) - 1)
  <2> DEFINE q == (v \div W) * W
             o == v % W
  <2>1. q \in Nat /\ v = q + o /\ o \in Index /\ o # 0
    BY <1>2, <1>5
  <2> HIDE DEF q, o
  <2>2. o - 1 \in Index /\ v - 1 = q + (o - 1)
    BY <2>1, Numbers DEF Index
  <2> QED BY <2>2 DEF q, o, Loc
<1>7. (v - 1) \div W = v \div W
  BY <1>5, <1>6, LocIs
<1> QED BY <1>4, <1>7 DEF KernelAt, v

KernelRole(m, g, va) ==
  IF m.mem[Loc(kas, va \div W)] = Zero
    THEN [g EXCEPT ![m.pf] = Table(kas, va \div W)] ELSE g

LEMMA KernelRound ==
  ASSUME NEW i \in DOMAIN Segments, NEW m, NEW g, KernelState(i - 1, m, g),
         map(m, kas, Segments[i], Segments[i]).pf <= HeapEnd
  PROVE  \E h : KernelState(i, map(m, kas, Segments[i], Segments[i]), h)
<1> DEFINE va == Segments[i]
           n == map(m, kas, va, va)
           h == KernelRole(m, g, va)
           c == va \div W
           j == va % W
           e == m.mem[Loc(kas, c)]
           t == m.pf
<1>1. /\ m \in Mem /\ t > HeapStart /\ t \in Nat /\ t <= HeapEnd
      /\ Roles(m, g) /\ KernelEntries(m, g)
      /\ \A y \in Page, o \in Index : m.mem[Loc(y, o)] \in Known(t)
      /\ \A y \in Page : g[y] = Directory => y = kas
      /\ \A k \in 1 .. i - 1 : KernelAt(m, Segments[k])
  BY DEF KernelState, Tidy, Mem
<1>2. /\ va \in Nat /\ c \in KernelIndex /\ c \in Index /\ c \in Nat /\ j \in Index /\ 0 \in Index
      /\ kas \in Page /\ kas \in Nat /\ va \in Range(Segments)
      /\ i \in Nat /\ DOMAIN Segments = 1 .. Len(Segments)
  <2>1. va \in UserPages .. W * W - 1
    BY Indexes
  <2>2. va \in Nat /\ c \in KernelIndex
    BY <2>1, Indexes
  <2>3. j \in Index
    BY <2>2, Division
  <2>4. DOMAIN Segments = 1 .. Len(Segments) /\ i \in Nat
    <3>1. Segments \in Seq(UserPages .. W * W - 1)
      BY AddressSpaceAssumption
    <3> QED BY <3>1
  <2>5. va \in Range(Segments)
    BY DEF Range
  <2> QED BY <2>2, <2>3, <2>4, <2>5, Sets
<1>3. /\ g \in [Nat -> Role] /\ g[kas] = Directory /\ g[t] = Free /\ t # kas
      /\ \A x \in Nat : x < HeapStart \/ x >= t => g[x] = Free
  BY <1>1, RoleKinds DEF Roles, kas
<1>4. IsMap(m, n, kas, c, j, va)
  BY <1>1, <1>2, MapIs
<1>5. Pte(va) # Zero /\ Pte(t) # Zero /\ Pte(t)[2] = t
  BY <1>1, <1>2, WordKinds
<1>6. ASSUME NEW k \in 1 .. i PROVE k = i \/ KernelAt(m, Segments[k])
  BY <1>1, <1>2, <1>6
<1>7. ASSUME NEW k \in 1 .. i
      PROVE  /\ Segments[k] \in Nat /\ Segments[k] \div W \in KernelIndex
             /\ Segments[k] \div W \in Index /\ Segments[k] % W \in Index
  <2>1. k \in DOMAIN Segments
    BY <1>2
  <2>2. Segments[k] \in UserPages .. W * W - 1
    BY <2>1, Indexes
  <2>3. Segments[k] \in Nat /\ Segments[k] \div W \in KernelIndex
    BY <2>2, Indexes
  <2> QED BY <2>3, Division, Sets
<1>8. CASE e = Zero
  <2>0. va % W = 0
    BY <1>8, NewTable
  <2>1. /\ n \in Mem /\ n.pf = t + 1
        /\ \A y \in Page, o \in Index :
             n.mem[Loc(y, o)] = IF y = t /\ o = 0 THEN Pte(va)
                                ELSE IF y = kas /\ o = c THEN Pte(t)
                                ELSE IF y = t THEN Zero ELSE m.mem[Loc(y, o)]
    BY <1>4, <1>8 DEF IsMap
  <2>2. t \in Page
    BY <1>1, <2>1, Numbers DEF Page
  <2>3. h \in [Nat -> Role] /\ \A x \in Nat : h[x] = IF x = t THEN Table(kas, c) ELSE g[x]
    BY <1>1, <1>2, <1>3, <1>8, RoleKinds DEF KernelRole
  <2> HIDE DEF n, h, t, c, j
  <2>4. \A y \in Page : h[y] = Directory => y = kas
    BY <1>1, <2>3, RoleKinds, Sets
  <2>5. Roles(n, h)
    BY <1>1, <1>2, <1>3, <2>1, <2>3, Numbers DEF Roles, t
  <2>6. KernelEntries(n, h)
    <3>1. \A k \in UserIndex : n.mem[Loc(kas, k)] = Zero
      BY <1>1, <1>2, <1>3, <2>1, Sets DEF KernelEntries
    <3>2. ASSUME NEW k \in KernelIndex, n.mem[Loc(kas, k)] # Zero
          PROVE  LET f == n.mem[Loc(kas, k)]
                 IN  f = Pte(f[2]) /\ f[2] \in Page /\ h[f[2]] = Table(kas, k)
      <4>1. CASE k = c
        <5>1. n.mem[Loc(kas, k)] = Pte(t)
          BY <1>2, <1>3, <2>1, <4>1
        <5> QED BY <1>1, <1>5, <2>2, <2>3, <4>1, <5>1
      <4>2. CASE k # c
        <5>1. n.mem[Loc(kas, k)] = m.mem[Loc(kas, k)]
          BY <1>2, <1>3, <2>1, <4>2, Sets
        <5>2. LET f == m.mem[Loc(kas, k)]
              IN  f = Pte(f[2]) /\ f[2] \in Page /\ g[f[2]] = Table(kas, k)
          BY <1>1, <3>2, <5>1 DEF KernelEntries
        <5> QED BY <1>3, <2>3, <5>1, <5>2, RoleKinds, Sets
      <4> QED BY <4>1, <4>2
    <3> QED BY <2>4, <3>1, <3>2 DEF KernelEntries
  <2>7. UserEntries(n, h)
    BY <2>4, <2>6 DEF UserEntries, KernelEntries
  <2>8. \A y \in Page, o \in Index : n.mem[Loc(y, o)] \in Known(n.pf)
    <3>1. Pte(va) \in Known(n.pf) /\ Pte(t) \in Known(n.pf) /\ Zero \in Known(n.pf)
      BY <1>1, <1>2, <2>1, Numbers DEF Known, Pte, Zero
    <3>2. Known(t) \subseteq Known(n.pf)
      BY <1>1, <2>1, Numbers DEF Known
    <3> QED BY <1>1, <2>1, <3>1, <3>2
  <2>9. ASSUME NEW k \in 1 .. i PROVE KernelAt(n, Segments[k])
    <3>1. CASE k = i
      <4>1. n.mem[Loc(kas, c)] = Pte(t) /\ n.mem[Loc(t, 0)] = Pte(va)
        BY <1>2, <1>3, <2>1, <2>2
      <4> QED BY <1>5, <2>0, <3>1, <4>1 DEF KernelAt, c
    <3>2. CASE k # i
      <4> DEFINE u == Segments[k]
                 f == m.mem[Loc(kas, u \div W)]
      <4>1. KernelAt(m, u) /\ u \div W \in KernelIndex /\ u \div W \in Index /\ u % W \in Index
        BY <1>6, <1>7, <3>2
      <4>2. f # Zero /\ m.mem[Loc(f[2], u % W)] = Pte(u) /\ u \div W # c
        BY <1>8, <4>1 DEF KernelAt, c
      <4>3. f[2] \in Page /\ g[f[2]] = Table(kas, u \div W)
        BY <1>1, <4>1, <4>2 DEF KernelEntries
      <4>4. n.mem[Loc(kas, u \div W)] = f
        BY <1>2, <1>3, <2>1, <4>1, <4>2
      <4>5. f[2] # t /\ f[2] # kas
        BY <1>3, <4>3, RoleKinds
      <4>6. n.mem[Loc(f[2], u % W)] = m.mem[Loc(f[2], u % W)]
        BY <2>1, <4>1, <4>3, <4>5
      <4> HIDE DEF f
      <4> QED BY <4>2, <4>4, <4>6 DEF KernelAt
    <3> QED BY <3>1, <3>2
  <2>10. n.pf > HeapStart /\ n.pf <= HeapEnd
    BY <1>1, <2>1, Numbers DEF n
  <2>11. KernelState(i, n, h)
    BY <2>1, <2>4, <2>5, <2>6, <2>7, <2>8, <2>9, <2>10 DEF KernelState, Tidy
  <2> QED BY <2>11 DEF n
<1>9. CASE e # Zero
  <2> DEFINE x0 == e[2]
  <2>1. /\ n \in Mem /\ n.pf = t
        /\ \A y \in Page, o \in Index :
             n.mem[Loc(y, o)] = IF y = x0 /\ o = j THEN Pte(va) ELSE m.mem[Loc(y, o)]
    BY <1>4, <1>9 DEF IsMap
  <2>2. x0 \in Page /\ g[x0] = Table(kas, c) /\ x0 # kas
    <3>1. x0 \in Page /\ g[x0] = Table(kas, c)
      BY <1>1, <1>2, <1>9 DEF KernelEntries
    <3> QED BY <1>3, <3>1, RoleKinds
  <2> HIDE DEF n, h, t, c, j, x0
  <2>3. \A o \in Index : n.mem[Loc(kas, o)] = m.mem[Loc(kas, o)]
    BY <1>2, <2>1, <2>2
  <2>5. Roles(n, g)
    BY <1>1, <2>1 DEF Roles, t
  <2>6. KernelEntries(n, g)
    <3>1. \A k \in UserIndex : n.mem[Loc(kas, k)] = Zero
      BY <1>1, <2>3, Sets DEF KernelEntries
    <3>2. \A k \in KernelIndex : n.mem[Loc(kas, k)] = m.mem[Loc(kas, k)]
      BY <2>3, Sets
    <3>3. \A k \in KernelIndex :
            LET f == m.mem[Loc(kas, k)]
            IN  f # Zero => f = Pte(f[2]) /\ f[2] \in Page /\ g[f[2]] = Table(kas, k)
      BY <1>1 DEF KernelEntries
    <3>4. \A k \in KernelIndex :
            LET f == n.mem[Loc(kas, k)]
            IN  f # Zero => f = Pte(f[2]) /\ f[2] \in Page /\ g[f[2]] = Table(kas, k)
      BY <3>2, <3>3
    <3> QED BY <1>1, <3>1, <3>4 DEF KernelEntries
  <2>7. UserEntries(n, g)
    BY <1>1, <2>6 DEF UserEntries, KernelEntries
  <2>8. \A y \in Page, o \in Index : n.mem[Loc(y, o)] \in Known(n.pf)
    <3>1. Pte(va) \in Known(n.pf)
      BY <1>2 DEF Known, Pte
    <3> QED BY <1>1, <2>1, <3>1
  <2>9. ASSUME NEW k \in 1 .. i PROVE KernelAt(n, Segments[k])
    <3>1. CASE k = i
      <4>1. n.mem[Loc(kas, c)] = e /\ n.mem[Loc(x0, j)] = Pte(va)
        BY <1>2, <2>1, <2>2, <2>3
      <4> QED BY <1>9, <3>1, <4>1 DEF KernelAt, c, j, x0
    <3>2. CASE k # i
      <4> DEFINE u == Segments[k]
                 f == m.mem[Loc(kas, u \div W)]
      <4>1. KernelAt(m, u) /\ u \in Nat /\ u \div W \in KernelIndex /\ u \div W \in Index
            /\ u % W \in Index
        BY <1>6, <1>7, <3>2
      <4>2. f # Zero /\ m.mem[Loc(f[2], u % W)] = Pte(u)
        BY <4>1 DEF KernelAt
      <4>3. f[2] \in Page /\ g[f[2]] = Table(kas, u \div W)
        BY <1>1, <4>1, <4>2 DEF KernelEntries
      <4>4. n.mem[Loc(kas, u \div W)] = f
        BY <2>3, <4>1
      <4> HIDE DEF f, u
      <4>5. n.mem[Loc(f[2], u % W)] = Pte(u)
        <5>1. CASE f[2] = x0 /\ u % W = j
          <6>1. u \div W = va \div W /\ u % W = va % W
            BY <2>2, <4>3, <5>1, TableOnce DEF c, j
          <6>2. u = va
            BY <1>2, <4>1, <6>1, SamePage
          <6> QED BY <2>1, <4>1, <4>3, <5>1, <6>2
        <5>2. CASE ~(f[2] = x0 /\ u % W = j)
          BY <2>1, <4>1, <4>2, <4>3, <5>2
        <5> QED BY <5>1, <5>2
      <4>6. KernelAt(n, u)
        BY <4>2, <4>4, <4>5 DEF KernelAt
      <4> QED BY <4>6 DEF u
    <3> QED BY <3>1, <3>2
  <2>10. n.pf > HeapStart /\ n.pf <= HeapEnd
    BY <1>1, <2>1 DEF t
  <2>11. KernelState(i, n, g)
    BY <1>1, <2>1, <2>5, <2>6, <2>7, <2>8, <2>9, <2>10 DEF KernelState, Tidy
  <2> QED BY <2>11 DEF n
<1> QED BY <1>8, <1>9

LEMMA SegmentsAre ==
  /\ Len(Segments) \in Nat /\ DOMAIN Segments = 1 .. Len(Segments)
  /\ \A i \in DOMAIN Segments : Segments[i] \in Nat /\ Segments[i] \div W \in Index
<1>1. Segments \in Seq(UserPages .. W * W - 1)
  BY AddressSpaceAssumption
<1>2. Len(Segments) \in Nat /\ DOMAIN Segments = 1 .. Len(Segments)
  BY <1>1
<1>3. ASSUME NEW i \in DOMAIN Segments PROVE Segments[i] \in Nat /\ Segments[i] \div W \in Index
  <2>1. Segments[i] \in UserPages .. W * W - 1
    BY Indexes
  <2> QED BY <2>1, Indexes
<1> QED BY <1>2, <1>3

Blank == [mem |-> [a \in PhysAddr |-> Junk], pf |-> HeapStart]

VmeRounds(r) ==
  /\ r \in [0 .. Len(Segments) -> Mem] /\ r[0] = pg_alloc(Blank)
  /\ \A i \in 1 .. Len(Segments) : r[i] = map(r[i - 1], kas, Segments[i], Segments[i])

LEMMA BlankIs ==
  Blank \in Mem /\ pg_alloc(Blank) \in Mem /\ Blank.pf = HeapStart /\ Blank.mem = [a \in PhysAddr |-> Junk]
<1>1. Blank \in Mem
  BY WordKinds, Numbers DEF Blank, Mem, Words
<1> QED BY <1>1, PgAllocIs DEF Blank

LEMMA vme_initIs == \E r : VmeRounds(r) /\ vme_init = r[Len(Segments)]
<1> DEFINE n == Len(Segments)
           x == pg_alloc(Blank)
           F == [z \in Mem \X (1 .. n) |-> map(z[1], kas, Segments[z[2]], Segments[z[2]])]
<1>1. n \in Nat /\ DOMAIN Segments = 1 .. n /\ x \in Mem /\ kas \in Page
  BY SegmentsAre, BlankIs, Sets
<1>2. ASSUME NEW l \in Mem, NEW i \in 1 .. n PROVE map(l, kas, Segments[i], Segments[i]) \in Mem
  <2>1. Segments[i] \in Nat /\ Segments[i] \div W \in Index
    BY <1>1, SegmentsAre
  <2> QED BY <1>1, <2>1, MapIs DEF IsMap
<1> HIDE DEF n, x
<1>3. F \in [Mem \X (1 .. n) -> Mem]
  BY <1>2
<1>4. PICK r : Rounds(Mem, x, F, n, r)
  <2> HIDE DEF F
  <2> QED BY <1>1, <1>3, Loop
<1>5. /\ r \in [0 .. n -> Mem] /\ r[0] = x
      /\ \A i \in 1 .. n : r[i] = map(r[i - 1], kas, Segments[i], Segments[i])
  <2>1. ASSUME NEW i \in 1 .. n PROVE r[i] = map(r[i - 1], kas, Segments[i], Segments[i])
    <3>1. i - 1 \in 0 .. n /\ r[i - 1] \in Mem
      BY <1>1, <1>4 DEF Rounds
    <3> QED BY <1>4, <3>1 DEF Rounds
  <2> QED BY <1>4, <2>1 DEF Rounds
<1> DEFINE Is(g) == g = [i \in 0 .. n |-> IF i = 0 THEN x
                                         ELSE map(g[i - 1], kas, Segments[i], Segments[i])]
           f0 == CHOOSE g : Is(g)
<1>6. Is(r)
  BY <1>1, <1>5
<1>7. Is(f0) /\ vme_init = f0[n]
  BY <1>6 DEF vme_init, n, x, Blank
<1> HIDE DEF f0
<1>8. f0[0] = x /\ \A i \in 1 .. n : f0[i] = map(f0[i - 1], kas, Segments[i], Segments[i])
  <2>1. 0 \in 0 .. n /\ \A i \in 1 .. n : i \in 0 .. n /\ i # 0
    BY <1>1
  <2> QED BY <1>7, <2>1
<1>9. f0[n] = r[n]
  <2>1. f0[0] = r[0] /\ \A i \in 1 .. n : f0[i - 1] = r[i - 1] => f0[i] = r[i]
    BY <1>5, <1>8
  <2>2. n \in Nat /\ n \in 0 .. n
    BY <1>1
  <2>3. \A i \in 0 .. n : f0[i] = r[i]
    BY <2>1, <2>2, Same
  <2> QED BY <2>2, <2>3
<1> QED BY <1>5, <1>7, <1>9 DEF VmeRounds, n, x

LEMMA VmeRises ==
  ASSUME NEW r, VmeRounds(r)
  PROVE  \A i \in 0 .. Len(Segments) : r[i].pf \in Nat /\ r[i].pf <= r[Len(Segments)].pf
<1> DEFINE n == Len(Segments)
           p == [i \in 0 .. n |-> r[i].pf]
<1>1. /\ n \in Nat /\ DOMAIN Segments = 1 .. n /\ kas \in Page
      /\ \A i \in DOMAIN Segments : Segments[i] \in Nat /\ Segments[i] \div W \in Index
  BY SegmentsAre, Sets
<1>2. /\ r \in [0 .. n -> Mem]
      /\ \A i \in 1 .. n : r[i] = map(r[i - 1], kas, Segments[i], Segments[i])
  BY DEF VmeRounds
<1> HIDE DEF n
<1>3. p \in [0 .. n -> Nat] /\ \A i \in 0 .. n : p[i] = r[i].pf /\ r[i].pf \in Nat
  BY <1>2 DEF Mem
<1> HIDE DEF p
<1>4. ASSUME NEW i \in 1 .. n PROVE p[i - 1] <= p[i]
  <2>1. i \in 0 .. n /\ i - 1 \in 0 .. n /\ i \in DOMAIN Segments
    BY <1>1
  <2>2. r[i - 1] \in Mem /\ r[i - 1].pf \in Nat
    BY <1>2, <2>1 DEF Mem
  <2> DEFINE v == Segments[i]
  <2>3. IsMap(r[i - 1], r[i], kas, v \div W, v % W, v)
    BY <1>1, <1>2, <2>1, <2>2, MapIs
  <2>4. r[i].pf = r[i - 1].pf \/ r[i].pf = r[i - 1].pf + 1
    <3> HIDE DEF v
    <3> QED BY <2>3 DEF IsMap
  <2> QED BY <1>3, <2>1, <2>2, <2>4
<1>5. \A i \in 0 .. n : p[0] <= p[i] /\ p[i] <= p[n]
  BY <1>1, <1>3, <1>4, Rising
<1>6. n \in 0 .. n
  BY <1>1
<1> QED BY <1>3, <1>5, <1>6 DEF n

LEMMA vme_initGood ==
  ASSUME vme_init.pf <= HeapEnd
  PROVE  \E g : Good(vme_init, g)
<1> DEFINE n == Len(Segments)
           x == pg_alloc(Blank)
           g0 == [y \in Nat |-> IF y = kas THEN Directory ELSE Free]
<1>1. PICK r : VmeRounds(r) /\ vme_init = r[n]
  BY vme_initIs
<1>2. n \in Nat /\ DOMAIN Segments = 1 .. n /\ 0 \in 0 .. n /\ n \in 0 .. n
  BY SegmentsAre
<1>3. \A i \in 0 .. n : r[i].pf \in Nat /\ r[i].pf <= HeapEnd
  <2>1. \A i \in 0 .. n : r[i].pf \in Nat /\ r[i].pf <= r[n].pf
    BY <1>1, VmeRises
  <2> HIDE DEF n
  <2> QED BY <1>1, <1>2, <2>1, Numbers
<1>4. r[0] = x /\ \A i \in 1 .. n : r[i] = map(r[i - 1], kas, Segments[i], Segments[i])
  BY <1>1 DEF VmeRounds
<1> HIDE DEF n
<1> DEFINE G == {i \in 0 .. n : \E g : KernelState(i, r[i], g)}
<1>5. 0 \in G
  <2>1. /\ x \in Mem /\ x.pf = HeapStart + 1
        /\ \A y \in Page, o \in Index :
             x.mem[Loc(y, o)] = IF y = HeapStart THEN Zero ELSE Junk
    <3>1. \A y \in Page, o \in Index : Blank.mem[Loc(y, o)] = Junk
      BY BlankIs, Places
    <3> QED BY <3>1, BlankIs, PgAllocIs
  <2>2. g0 \in [Nat -> Role] /\ \A y \in Nat : g0[y] = IF y = kas THEN Directory ELSE Free
    BY RoleKinds
  <2> HIDE DEF x, g0
  <2>3. Roles(x, g0)
    BY <2>1, <2>2, Numbers DEF Roles, kas
  <2>4. \A y \in Page : g0[y] = Directory => y = kas
    BY <2>2, RoleKinds, Sets
  <2>5. \A o \in Index : x.mem[Loc(kas, o)] = Zero
    BY <2>1, Sets DEF kas
  <2>6. KernelEntries(x, g0) /\ UserEntries(x, g0)
    BY <2>4, <2>5, Sets DEF KernelEntries, UserEntries
  <2>7. \A y \in Page, o \in Index : x.mem[Loc(y, o)] \in Known(x.pf)
    <3>1. Zero \in Known(x.pf) /\ Junk \in Known(x.pf)
      BY DEF Zero, Junk, Known
    <3> QED BY <2>1, <3>1
  <2>8. x.pf > HeapStart /\ x.pf <= HeapEnd
    BY <2>1, Numbers
  <2>9. KernelState(0, r[0], g0)
    <3>1. 1 .. 0 = {}
      OBVIOUS
    <3> QED BY <1>4, <2>1, <2>3, <2>4, <2>6, <2>7, <2>8, <3>1 DEF KernelState, Tidy
  <2> QED BY <1>2, <2>9
<1>6. ASSUME NEW i \in 1 .. n, i - 1 \in G PROVE i \in G
  <2>1. PICK g : KernelState(i - 1, r[i - 1], g)
    BY <1>6
  <2>2. i \in 0 .. n /\ i \in DOMAIN Segments /\ r[i].pf <= HeapEnd
    BY <1>2, <1>3
  <2>3. \E h : KernelState(i, r[i], h)
    BY <1>4, <2>1, <2>2, KernelRound
  <2> QED BY <2>2, <2>3
<1>7. PICK g : KernelState(n, r[n], g)
  <2> HIDE DEF G
  <2>1. \A i \in 0 .. n : i \in G
    BY <1>2, <1>5, <1>6, UpTo
  <2>2. n \in G
    BY <1>2, <2>1
  <2> QED BY <2>2 DEF G
<1>8. Good(r[n], g)
  <2>1. Tidy(r[n], g) /\ \A k \in 1 .. n : KernelAt(r[n], Segments[k])
    BY <1>7 DEF KernelState
  <2>2. \A k \in Range(Segments) : KernelAt(r[n], k)
    BY <1>2, <2>1 DEF Range
  <2> QED BY <2>1, <2>2 DEF Good
<1> QED BY <1>1, <1>8

----------------------------------------------------------------------------
(* init_proc(): the programs are loaded one after the other.               *)
InitRounds(k, r) ==
  /\ r = [i \in 0 .. k |-> r[i]] /\ r[0] = vme_init
  /\ \A i \in 1 .. k : r[i] = Uload(r[i - 1], InitImage[i - 1])

LEMMA InitRoundsExist == \E r : InitRounds(NProc, r)
<1> DEFINE G == {k \in 0 .. NProc : \E r : InitRounds(k, r)}
<1>1. 0 \in G
  <2>1. InitRounds(0, [i \in 0 .. 0 |-> vme_init])
    BY DEF InitRounds
  <2> QED BY <2>1, Numbers
<1>2. ASSUME NEW k \in 1 .. NProc, k - 1 \in G PROVE k \in G
  <2>1. PICK r : InitRounds(k - 1, r)
    BY <1>2
  <2> DEFINE s == [i \in 0 .. k |-> IF i = k THEN Uload(r[k - 1], InitImage[k - 1]) ELSE r[i]]
  <2>0. k \in Nat /\ k >= 1 /\ k \in 0 .. NProc
    BY Numbers
  <2>2. \A i \in 0 .. k : s[i] = IF i = k THEN Uload(r[k - 1], InitImage[k - 1]) ELSE r[i]
    OBVIOUS
  <2>3. s = [i \in 0 .. k |-> s[i]]
    OBVIOUS
  <2> HIDE DEF s
  <2>4. s[0] = vme_init
    <3>1. 0 \in 0 .. k /\ 0 # k
      BY <2>0
    <3> QED BY <2>1, <2>2, <3>1 DEF InitRounds
  <2>5. ASSUME NEW i \in 1 .. k PROVE s[i] = Uload(s[i - 1], InitImage[i - 1])
    <3>1. i \in 0 .. k /\ i - 1 \in 0 .. k /\ i - 1 # k
      BY <2>0
    <3>2. s[i - 1] = r[i - 1]
      BY <2>2, <3>1
    <3>3. CASE i = k
      BY <2>2, <3>1, <3>2, <3>3
    <3>4. CASE i # k
      <4>1. i \in 1 .. k - 1 /\ s[i] = r[i]
        BY <2>0, <2>2, <3>1, <3>4
      <4> QED BY <2>1, <3>2, <4>1 DEF InitRounds
    <3> QED BY <3>3, <3>4
  <2>6. InitRounds(k, s)
    BY <2>3, <2>4, <2>5 DEF InitRounds
  <2> QED BY <2>0, <2>6
<1>3. \A k \in 0 .. NProc : k \in G
  <2> HIDE DEF G
  <2> QED BY <1>1, <1>2, Numbers, UpTo
<1> QED BY <1>3, Numbers

LEMMA init_procIs ==
  /\ init_proc[0] = vme_init
  /\ \A p \in 1 .. NProc : init_proc[p] = Uload(init_proc[p - 1], InitImage[p - 1])
<1> DEFINE Is(g) == g = [p \in 0 .. NProc |->
                           IF p = 0 THEN vme_init ELSE Uload(g[p - 1], InitImage[p - 1])]
<1>1. PICK r : InitRounds(NProc, r)
  BY InitRoundsExist
<1>2. Is(r)
  <2>1. \A i \in 0 .. NProc :
          r[i] = IF i = 0 THEN vme_init ELSE Uload(r[i - 1], InitImage[i - 1])
    <3>1. \A i \in 0 .. NProc : i # 0 => i \in 1 .. NProc
      BY Numbers
    <3> QED BY <1>1, <3>1 DEF InitRounds
  <2>2. r = [i \in 0 .. NProc |-> r[i]]
    BY <1>1 DEF InitRounds
  <2> QED BY <2>1, <2>2
<1>3. init_proc = CHOOSE g : Is(g)
  BY DEF init_proc
<1>4. Is(init_proc)
  BY <1>2, <1>3
<1>5. 0 \in 0 .. NProc /\ \A p \in 1 .. NProc : p \in 0 .. NProc /\ p # 0
  BY Numbers
<1> QED BY <1>4, <1>5

InitState(p, g) ==
  /\ Good(init_proc[p], g)
  /\ \A q \in 0 .. p - 1 :
       LET x == init_proc[q].pf
       IN  /\ x \in Page /\ x # kas /\ x < init_proc[p].pf /\ g[x] = Directory
           /\ Begun(init_proc[p], x, InitImage[q])
  /\ \A q, r \in 0 .. p - 1 : q # r => init_proc[q].pf # init_proc[r].pf

LEMMA InitGood == \E g : InitState(NProc, g)
<1> DEFINE G == {p \in 0 .. NProc : \E g : InitState(p, g)}
<1>1. 0 \in G
  <2>1. 0 \in 0 .. NProc /\ 0 .. 0 - 1 = {}
    BY Numbers
  <2>2. init_proc[0] = vme_init /\ vme_init.pf < HeapEnd
    BY <2>1, init_procIs, MemoryAssumption
  <2>3. PICK r : VmeRounds(r) /\ vme_init = r[Len(Segments)]
    BY vme_initIs
  <2>4. vme_init.pf \in Nat
    <3>1. Len(Segments) \in 0 .. Len(Segments)
      BY SegmentsAre
    <3> QED BY <2>3, <3>1, VmeRises
  <2>5. \E g : Good(vme_init, g)
    <3>1. vme_init.pf <= HeapEnd
      BY <2>2, <2>4, Numbers
    <3> QED BY <3>1, vme_initGood
  <2>6. \E g : InitState(0, g)
    BY <2>1, <2>2, <2>5 DEF InitState
  <2> QED BY <2>1, <2>6
<1>2. ASSUME NEW p \in 1 .. NProc, p - 1 \in G PROVE p \in G
  <2> DEFINE m == init_proc[p - 1]
             n == init_proc[p]
             f == InitImage[p - 1]
  <2>1. /\ p \in Nat /\ p \in 0 .. NProc /\ p - 1 \in 0 .. NProc /\ p - 1 \in Proc
        /\ \A q \in 0 .. p - 1 : q \in Proc /\ (q = p - 1 \/ q \in 0 .. (p - 1) - 1)
        /\ \A q \in 0 .. (p - 1) - 1 : q \in Proc
    BY Numbers DEF Proc
  <2>2. f \in File
    BY <2>1, AddressSpaceAssumption
  <2>3. n = Uload(m, f) /\ m.pf < HeapEnd /\ n.pf < HeapEnd
    BY <2>1, init_procIs, MemoryAssumption
  <2>4. PICK g : InitState(p - 1, g)
    BY <1>2
  <2>5. Good(m, g) /\ m.pf \in Nat /\ m.pf > HeapStart /\ m.pf \in Page /\ m.pf # kas
    BY <2>3, <2>4, Numbers DEF InitState, Good, Tidy, Mem, Page, kas
  <2> HIDE DEF m, n, f
  <2>6. /\ m.pf < n.pf /\ n \in Mem
        /\ \E h : /\ Good(n, h) /\ Later(g, h) /\ Kept(m, n, g, m.pf) /\ h[m.pf] = Directory
        /\ Begun(n, m.pf, f)
    <3>1. n \in Mem
      <4>1. Prepare(m) \in Mem
        <5>1. protect(m) \in Mem
          BY <2>5, ProtectIs DEF Good, Tidy
        <5> QED BY <2>5, <5>1, MapStackMem DEF Prepare
      <4> QED BY <2>2, <2>3, <2>5, <4>1, loaderMem DEF Uload
    <3>2. n.pf <= HeapEnd
      BY <2>3, <3>1, Numbers DEF Mem
    <3> QED BY <2>2, <2>3, <2>5, <3>2, UloadGood
  <2>7. PICK h : Good(n, h) /\ Later(g, h) /\ Kept(m, n, g, m.pf) /\ h[m.pf] = Directory
    BY <2>6
  <2>8. n.pf \in Nat /\ g[m.pf] = Free
    BY <2>5, <2>6 DEF Mem, Good, Tidy, Roles
  <2>9. ASSUME NEW q \in 0 .. (p - 1) - 1
        PROVE  LET x == init_proc[q].pf
               IN  /\ x \in Page /\ x # kas /\ x < m.pf /\ x < n.pf /\ h[x] = Directory
                   /\ Begun(n, x, InitImage[q])
    <3> DEFINE x == init_proc[q].pf
               t == m.pf
    <3>1. x \in Page /\ x # kas /\ x < m.pf /\ g[x] = Directory /\ Begun(m, x, InitImage[q])
      BY <2>4 DEF InitState, m
    <3>2. h[x] = Directory
      BY <2>7, <3>1, RoleKinds, Sets DEF Later
    <3> HIDE DEF x
    <3>3. x < n.pf
      BY <2>5, <2>6, <2>8, <3>1, Sets
    <3>4. InitImage[q] \in File
      <4>1. q \in Proc
        BY <2>1
      <4> QED BY <4>1, AddressSpaceAssumption
    <3>5. /\ t \in Page /\ g[t] \in {Free, Directory} /\ Kept(m, n, g, t) /\ Good(m, g) /\ x # t
          /\ Begun(m, x, InitImage[q])
      BY <2>5, <2>7, <2>8, <3>1, Sets
    <3> HIDE DEF t
    <3> DEFINE e == InitImage[q]
    <3>6. e \in File /\ Begun(m, x, e)
      BY <3>4, <3>5
    <3> HIDE DEF e
    <3>7. Begun(n, x, e)
      BY <3>1, <3>5, <3>6, StillBegun
    <3> QED BY <3>1, <3>2, <3>3, <3>7 DEF x, e
  <2>10. InitState(p, h)
    <3>1. Good(init_proc[p], h)
      BY <2>7 DEF n
    <3>2. ASSUME NEW q \in 0 .. p - 1
          PROVE  LET x == init_proc[q].pf
                 IN  /\ x \in Page /\ x # kas /\ x < init_proc[p].pf /\ h[x] = Directory
                     /\ Begun(init_proc[p], x, InitImage[q])
      <4>1. CASE q = p - 1
        BY <2>5, <2>6, <2>7, <4>1 DEF m, n, f
      <4>2. CASE q \in 0 .. (p - 1) - 1
        BY <2>9, <4>2 DEF n
      <4> QED BY <2>1, <4>1, <4>2
    <3>3. ASSUME NEW q \in 0 .. p - 1, NEW r \in 0 .. p - 1, q # r
          PROVE  init_proc[q].pf # init_proc[r].pf
      <4>0. \A s \in 0 .. (p - 1) - 1 : init_proc[s].pf < m.pf /\ init_proc[s].pf \in Nat
        BY <2>9, Sets
      <4>1. CASE q = p - 1 /\ r \in 0 .. (p - 1) - 1
        BY <2>5, <4>0, <4>1 DEF m
      <4>2. CASE r = p - 1 /\ q \in 0 .. (p - 1) - 1
        BY <2>5, <4>0, <4>2 DEF m
      <4>3. CASE q \in 0 .. (p - 1) - 1 /\ r \in 0 .. (p - 1) - 1
        BY <2>4, <3>3, <4>3 DEF InitState
      <4> QED BY <2>1, <3>3, <4>1, <4>2, <4>3
    <3> QED BY <3>1, <3>2, <3>3 DEF InitState
  <2> QED BY <2>1, <2>10
<1>3. \A p \in 0 .. NProc : p \in G
  <2> HIDE DEF G
  <2> QED BY <1>1, <1>2, Numbers, UpTo
<1> QED BY <1>3, Numbers

----------------------------------------------------------------------------
(* The invariant: there are roles for the pages of which the directories   *)
(* of the processes are part, no two processes with the same one.          *)
Owned(g) ==
  /\ dir \in [Proc -> Page] /\ root \in [Proc -> Page]
  /\ \A p \in Proc : /\ g[dir[p]] = Directory /\ g[root[p]] = Directory
                     /\ dir[p] # kas /\ root[p] # kas
  /\ \A p, q \in Proc : p # q => dir[p] # dir[q] /\ root[p] # root[q] /\ dir[p] # root[q]

LEMMA WalkIs ==
  ASSUME NEW d, NEW v
  PROVE  Walk(d, v) = WalkOf(Memory, d, v)
BY DEF Walk, WalkOf, Memory, Loc

(* The last page below max_brk is in a table of the directory that the     *)
(* process runs with, unless an execve that failed has replaced as.ptr: so *)
(* brk() goes on in this table or begins one.                              *)
BrkTables ==
  \A p \in Proc : dir[p] = root[p] => mem[Loc(root[p], (max_brk[p] - 1) \div W)] # Zero

PagesInv == /\ \E g : Good(Memory, g) /\ Owned(g)
            /\ max_brk \in [Proc -> 1 .. StackFirst]
            /\ BrkTables

Views == \A p \in Proc : Space(p) = View(Memory, root[p], max_brk[p])

LEMMA ViewsHold == PagesInv => Views
<1> SUFFICES ASSUME PagesInv, NEW p \in Proc PROVE Space(p) = View(Memory, root[p], max_brk[p])
  BY DEF Views
<1>1. max_brk[p] \in Nat /\ StackFirst + 1 \in Nat
  BY Numbers DEF PagesInv
<1>2. ASSUME NEW a \in UserAddr
      PROVE  (IF Owns(p, a) /\ Valid(Walk(root[p], a \div W))
                THEN mem[isa_mmu_translate(root[p], a)] ELSE NoWord)
               = IF a \div W < max_brk[p] \/ a \div W > StackFirst
                   THEN At(Memory, root[p], a \div W, a % W) ELSE NoWord
  <2> DEFINE v == a \div W
             w == Walk(root[p], v)
  <2>1. Owns(p, a) <=> v < max_brk[p] \/ v > StackFirst
    <3> DEFINE B == (StackFirst + 1) * W
    <3>1. /\ a \in Nat /\ v \in Nat /\ B \in Nat /\ StackFirst \in Nat
          /\ (a < max_brk[p] * W <=> v < max_brk[p]) /\ (a < B <=> v < StackFirst + 1)
      BY <1>1, AddrIs, Numbers, Smaller DEF UserPage
    <3> HIDE DEF v, B
    <3>2. a >= B <=> v > StackFirst
      BY <3>1
    <3> QED BY <3>1, <3>2 DEF Owns, B
  <2>2. w = WalkOf(Memory, root[p], v)
    BY WalkIs
  <2>3. mem[isa_mmu_translate(root[p], a)] = Memory.mem[Loc(w[2], a % W)]
    BY DEF isa_mmu_translate, Loc, Memory
  <2> HIDE DEF v, w
  <2>4. At(Memory, root[p], v, a % W) = IF Valid(w) THEN Memory.mem[Loc(w[2], a % W)] ELSE NoWord
    BY <2>2 DEF At
  <2> QED BY <2>1, <2>3, <2>4 DEF v, w
<1> QED BY <1>2 DEF Space, View

LEMMA ViewsNext == PagesInv' => Views'
BY ViewsHold, PTL

LEMMA InitPages == Init => PagesInv /\ Abs!Init
<1> SUFFICES ASSUME Init PROVE PagesInv /\ Abs!Init
  OBVIOUS
<1>1. PICK g : InitState(NProc, g)
  BY InitGood
<1>2. Memory = init_proc[NProc] /\ Good(Memory, g)
  <2>1. init_proc[NProc] \in Mem
    BY <1>1 DEF InitState, Good, Tidy
  <2>2. Memory = init_proc[NProc]
    BY <2>1 DEF Memory, Init, Mem
  <2> QED BY <1>1, <2>2 DEF InitState
<1>3. Proc = 0 .. NProc - 1
  BY DEF Proc
<1>4. /\ \A p \in Proc : /\ init_proc[p].pf \in Page /\ init_proc[p].pf # kas
                         /\ g[init_proc[p].pf] = Directory
                         /\ Begun(Memory, init_proc[p].pf, InitImage[p])
      /\ \A p, q \in Proc : p # q => init_proc[p].pf # init_proc[q].pf
  BY <1>1, <1>2, <1>3 DEF InitState
<1>5. dir = [p \in Proc |-> init_proc[p].pf] /\ root = dir
  BY DEF Init
<1>6. Owned(g)
  BY <1>4, <1>5 DEF Owned
<1>7. max_brk \in [Proc -> 1 .. StackFirst]
  <2>1. \A p \in Proc : EndOf(InitImage[p]) \in 1 .. StackFirst
    BY EndOfIs, AddressSpaceAssumption
  <2> QED BY <2>1 DEF Init
<1>8. ASSUME NEW p \in Proc
      PROVE  /\ InitImage[p] \in File /\ max_brk[p] = EndOf(InitImage[p])
             /\ Begun(Memory, root[p], InitImage[p])
  BY <1>4, <1>5, AddressSpaceAssumption DEF Init
<1>9. BrkTables
  <2> SUFFICES ASSUME NEW p \in Proc PROVE mem[Loc(root[p], (max_brk[p] - 1) \div W)] # Zero
    BY DEF BrkTables
  <2>1. (max_brk[p] - 1) \div W = TableOf(InitImage[p])
    BY <1>8, EndOfIs
  <2> QED BY <1>8, <2>1 DEF Begun, HasFile, Memory
<1>10. PagesInv
  BY <1>2, <1>6, <1>7, <1>9 DEF PagesInv
<1>11. ASSUME NEW p \in Proc PROVE Abs!Loaded(Space(p), InitImage[p])
  <2> DEFINE d == root[p]
             f == InitImage[p]
  <2>1. d \in Page /\ g[d] = Directory /\ f \in File /\ Begun(Memory, d, f) /\ max_brk[p] = EndOf(f)
    BY <1>6, <1>8 DEF Owned
  <2>2. Space(p) = View(Memory, d, EndOf(f))
    BY <1>8, <1>10, ViewsHold DEF Views
  <2> HIDE DEF d, f
  <2>3. Abs!Loaded(View(Memory, d, EndOf(f)), f)
    BY <1>2, <2>1, LoadedIs
  <2> QED BY <2>2, <2>3 DEF f
<1>12. Abs!Init
  BY <1>5, <1>8, <1>11 DEF Abs!Init
<1> QED BY <1>10, <1>12

LEMMA MemoryIs ==
  ASSUME NEW m \in Mem, Becomes(m)
  PROVE  Memory' = m
BY DEF Memory, Becomes, Mem

(* Directories stay directories, and a new one goes to one process.        *)
LEMMA OwnedKept ==
  ASSUME NEW g, NEW h, Owned(g), Later(g, h), UNCHANGED <<dir, root>>
  PROVE  Owned(h)'
<1>1. \A x \in Page : g[x] = Directory => h[x] = Directory
  BY RoleKinds, Sets DEF Later
<1> QED BY <1>1 DEF Owned

LEMMA OwnedLoad ==
  ASSUME NEW g, NEW h, Owned(g), Later(g, h), NEW p \in Proc, NEW d \in Page,
         g[d] = Free, h[d] = Directory, d # kas,
         dir' = [dir EXCEPT ![p] = d],
         root' = [root EXCEPT ![p] = d] \/ root' = root
  PROVE  Owned(h)'
<1>1. \A x \in Page : g[x] = Directory => h[x] = Directory /\ x # d
  BY RoleKinds, Sets DEF Later
<1>2. /\ dir \in [Proc -> Page] /\ root \in [Proc -> Page]
      /\ \A q \in Proc : /\ g[dir[q]] = Directory /\ g[root[q]] = Directory
                         /\ dir[q] # kas /\ root[q] # kas
      /\ \A q, r \in Proc : q # r => dir[q] # dir[r] /\ root[q] # root[r] /\ dir[q] # root[r]
  BY DEF Owned
<1>3. /\ dir' \in [Proc -> Page] /\ root' \in [Proc -> Page]
      /\ \A q \in Proc : dir'[q] = IF q = p THEN d ELSE dir[q]
      /\ \A q \in Proc : root'[q] = root[q] \/ (q = p /\ root'[q] = d)
  BY <1>2
<1>4. \A q \in Proc : dir[q] # d /\ root[q] # d
  BY <1>1, <1>2
<1>5. ASSUME NEW q \in Proc
      PROVE  /\ h[dir'[q]] = Directory /\ h[root'[q]] = Directory
             /\ dir'[q] # kas /\ root'[q] # kas
  BY <1>1, <1>2, <1>3
<1>6. ASSUME NEW q \in Proc, NEW r \in Proc, q # r
      PROVE  dir'[q] # dir'[r] /\ root'[q] # root'[r] /\ dir'[q] # root'[r]
  BY <1>2, <1>3, <1>4, <1>6
<1> QED BY <1>3, <1>5, <1>6 DEF Owned

LEMMA TablesAre ==
  ASSUME NEW m, NEW g, Good(m, g), NEW d \in Page, g[d] = Directory, NEW i \in Index,
         Valid(m.mem[Loc(d, i)])
  PROVE  LET e == m.mem[Loc(d, i)]
         IN  e[2] \in Page /\ \E c : g[e[2]] = Table(c, i)
<1> DEFINE e == m.mem[Loc(d, i)]
<1>1. e # Zero
  BY WordKinds
<1>2. CASE i \in UserIndex
  BY <1>1, <1>2 DEF Good, Tidy, UserEntries
<1>3. CASE i \in KernelIndex
  <2>1. m.mem[Loc(kas, i)] = e
    BY <1>3 DEF Good, Tidy, KernelEntries
  <2> QED BY <1>1, <1>3, <2>1 DEF Good, Tidy, KernelEntries
<1> QED BY <1>2, <1>3, Indexes

LEMMA PagesAre ==
  ASSUME PagesInv, NEW g, Good(Memory, g), Owned(g)
  PROVE  /\ Memory \in Mem /\ Memory.pf = pf /\ Memory.mem = mem /\ pf \in Nat /\ pf > HeapStart
         /\ pf <= HeapEnd /\ g \in [Nat -> Role] /\ g[pf] = Free
         /\ dir \in [Proc -> Page] /\ root \in [Proc -> Page]
         /\ \A p \in Proc : /\ g[dir[p]] = Directory /\ g[root[p]] = Directory
                            /\ dir[p] # kas /\ root[p] # kas /\ root[p] # pf
         /\ max_brk \in [Proc -> 1 .. StackFirst]
         /\ \A p \in Proc : max_brk[p] - 1 \in UserPage /\ (max_brk[p] - 1) \div W \in Index
<1>1. /\ Memory \in Mem /\ Memory.pf = pf /\ Memory.mem = mem /\ pf \in Nat /\ pf > HeapStart
      /\ pf <= HeapEnd /\ g \in [Nat -> Role] /\ g[pf] = Free
  BY DEF Good, Tidy, Mem, Roles, Memory
<1>2. /\ dir \in [Proc -> Page] /\ root \in [Proc -> Page]
      /\ \A p \in Proc : /\ g[dir[p]] = Directory /\ g[root[p]] = Directory
                         /\ dir[p] # kas /\ root[p] # kas
      /\ max_brk \in [Proc -> 1 .. StackFirst]
  BY DEF Owned, PagesInv
<1>3. \A p \in Proc : max_brk[p] - 1 \in UserPage
  BY <1>2, Numbers DEF UserPage
<1> QED BY <1>1, <1>2, <1>3, RoleKinds, UserPageIs

LEMMA Room ==
  ASSUME PagesInv, NEW m, Becomes(m)
  PROVE  pf \in Page /\ pf # kas /\ pf < HeapEnd /\ m.pf <= HeapEnd
<1>1. pf \in Nat /\ pf > HeapStart
  BY PagesAre DEF PagesInv
<1>2. Reserve \in Nat \ {0}
  BY AddressSpaceAssumption
<1> QED BY <1>1, <1>2, Numbers DEF Becomes, Page, kas

(* What an operation on directory d leaves to a process with another one.  *)
Spared(n, p) ==
  /\ Alike(Memory, n, root[p], UserPage)
  /\ View(n, root[p], max_brk[p]) = View(Memory, root[p], max_brk[p])
  /\ n.mem[Loc(root[p], (max_brk[p] - 1) \div W)] = mem[Loc(root[p], (max_brk[p] - 1) \div W)]

LEMMA OtherView ==
  ASSUME PagesInv, NEW g, Good(Memory, g), Owned(g),
         NEW d \in Page, g[d] \in {Free, Directory}, NEW n \in Mem, Kept(Memory, n, g, d),
         NEW p \in Proc, root[p] # d
  PROVE  Spared(n, p)
<1> DEFINE e == root[p]
<1>1. /\ e \in Page /\ g[e] = Directory /\ e # d /\ Memory.mem = mem
      /\ (max_brk[p] - 1) \div W \in Index
  BY PagesAre
<1> HIDE DEF e
<1>2. Alike(Memory, n, e, UserPage)
  BY <1>1, OthersAlike
<1>3. g[e] # Free /\ ~Reached(g, d, e)
  BY <1>1, RoleKinds DEF Reached
<1>4. View(n, e, max_brk[p]) = View(Memory, e, max_brk[p])
  BY <1>2, SameView
<1>5. \A o \in Index : n.mem[Loc(e, o)] = Memory.mem[Loc(e, o)]
  BY <1>1, <1>3 DEF Kept
<1> QED BY <1>1, <1>2, <1>4, <1>5 DEF e, Spared

LEMMA ExecveGood ==
  ASSUME PagesInv, NEW p \in Proc, NEW f \in File, SysExecve(p, f)
  PROVE  PagesInv' /\ Abs!Load(p, f)
<1> DEFINE n == Uload(Memory, f)
<1>1. PICK g : Good(Memory, g) /\ Owned(g)
  BY DEF PagesInv
<1>2. /\ Becomes(n) /\ dir' = [dir EXCEPT ![p] = pf] /\ root' = [root EXCEPT ![p] = pf]
      /\ max_brk' = [max_brk EXCEPT ![p] = EndOf(f)]
  BY DEF SysExecve
<1>3. pf \in Page /\ pf # kas /\ pf < HeapEnd /\ n.pf <= HeapEnd
  BY <1>2, Room
<1>4. /\ Memory.pf = pf /\ Memory.mem = mem /\ g[pf] = Free
      /\ dir \in [Proc -> Page] /\ root \in [Proc -> Page] /\ \A q \in Proc : root[q] # pf
      /\ max_brk \in [Proc -> 1 .. StackFirst]
  BY <1>1, PagesAre
<1>5. /\ n \in Mem /\ Begun(n, pf, f)
      /\ \E h : Good(n, h) /\ Later(g, h) /\ Kept(Memory, n, g, pf) /\ h[pf] = Directory
  BY <1>1, <1>3, <1>4, UloadGood
<1> HIDE DEF n
<1>6. PICK h : Good(n, h) /\ Later(g, h) /\ Kept(Memory, n, g, pf) /\ h[pf] = Directory
  BY <1>5
<1>7. Memory' = n /\ mem' = n.mem
  BY <1>2, <1>5, MemoryIs DEF Becomes
<1>8. Owned(h)'
  BY <1>1, <1>2, <1>3, <1>4, <1>6, OwnedLoad
<1>9. max_brk' \in [Proc -> 1 .. StackFirst]
  BY <1>2, <1>4, EndOfIs
<1>10. /\ root'[p] = pf /\ dir'[p] = pf /\ max_brk'[p] = EndOf(f)
       /\ \A q \in Proc \ {p} :
            root'[q] = root[q] /\ dir'[q] = dir[q] /\ max_brk'[q] = max_brk[q]
  BY <1>2, <1>4
<1>11. ASSUME NEW q \in Proc \ {p}
       PROVE  /\ View(n, root[q], max_brk[q]) = View(Memory, root[q], max_brk[q])
              /\ n.mem[Loc(root[q], (max_brk[q] - 1) \div W)]
                   = mem[Loc(root[q], (max_brk[q] - 1) \div W)]
  <2>1. Spared(n, q)
    BY <1>1, <1>3, <1>4, <1>5, <1>6, OtherView
  <2> QED BY <2>1 DEF Spared
<1>12. BrkTables'
  <2> SUFFICES ASSUME NEW q \in Proc, dir'[q] = root'[q]
               PROVE  mem'[Loc(root'[q], (max_brk'[q] - 1) \div W)] # Zero
    BY DEF BrkTables
  <2>1. CASE q = p
    <3>1. (EndOf(f) - 1) \div W = TableOf(f)
      BY EndOfIs
    <3>2. n.mem[Loc(pf, TableOf(f))] # Zero
      BY <1>5 DEF Begun, HasFile
    <3> QED BY <1>7, <1>10, <2>1, <3>1, <3>2
  <2>2. CASE q # p
    <3>1. dir[q] = root[q]
      BY <1>10, <2>2
    <3>2. mem[Loc(root[q], (max_brk[q] - 1) \div W)] # Zero
      BY <3>1 DEF PagesInv, BrkTables
    <3> QED BY <1>7, <1>10, <1>11, <2>2, <3>2
  <2> QED BY <2>1, <2>2
<1>13. PagesInv'
  BY <1>6, <1>7, <1>8, <1>9, <1>12 DEF PagesInv
<1>14. /\ \A q \in Proc : Space(q) = View(Memory, root[q], max_brk[q])
       /\ \A q \in Proc : Space(q)' = View(n, root'[q], max_brk'[q])
  BY <1>7, <1>13, ViewsHold, ViewsNext DEF Views
<1>15. Abs!Loaded(Space(p)', f)
  <2>1. Abs!Loaded(View(n, pf, EndOf(f)), f)
    BY <1>3, <1>5, <1>6, LoadedIs
  <2> QED BY <1>10, <1>14, <2>1
<1>16. \A q \in Proc \ {p} : Space(q)' = Space(q)
  BY <1>10, <1>11, <1>14
<1>17. {q \in Proc : dir'[q] # root'[q]} = {q \in Proc : dir[q] # root[q]} \ {p}
  BY <1>10
<1> QED BY <1>13, <1>15, <1>16, <1>17 DEF Abs!Load, Abs!Others

LEMMA ExecveMissingGood ==
  ASSUME PagesInv, NEW p \in Proc, SysExecveMissing(p)
  PROVE  PagesInv' /\ Abs!Fail(p)
<1> DEFINE n == Prepare(Memory)
<1>1. PICK g : Good(Memory, g) /\ Owned(g)
  BY DEF PagesInv
<1>2. Becomes(n) /\ dir' = [dir EXCEPT ![p] = pf] /\ root' = root /\ max_brk' = max_brk
  BY DEF SysExecveMissing
<1>3. pf \in Page /\ pf # kas /\ pf < HeapEnd /\ n.pf <= HeapEnd
  BY <1>2, Room
<1>4. /\ Memory.pf = pf /\ g[pf] = Free
      /\ dir \in [Proc -> Page] /\ \A q \in Proc : root[q] # pf
      /\ max_brk \in [Proc -> 1 .. StackFirst]
  BY <1>1, PagesAre
<1>5. /\ n \in Mem
      /\ \E h : Good(n, h) /\ Later(g, h) /\ Kept(Memory, n, g, pf) /\ h[pf] = Directory
  BY <1>1, <1>3, <1>4, PrepareGood
<1> HIDE DEF n
<1>6. PICK h : Good(n, h) /\ Later(g, h) /\ Kept(Memory, n, g, pf) /\ h[pf] = Directory
  BY <1>5
<1>7. Memory' = n /\ mem' = n.mem
  BY <1>2, <1>5, MemoryIs DEF Becomes
<1>8. Owned(h)'
  BY <1>1, <1>2, <1>3, <1>4, <1>6, OwnedLoad
<1>9. dir'[p] = pf /\ \A q \in Proc \ {p} : dir'[q] = dir[q]
  BY <1>2, <1>4
<1>10. ASSUME NEW q \in Proc
       PROVE  /\ View(n, root[q], max_brk[q]) = View(Memory, root[q], max_brk[q])
              /\ n.mem[Loc(root[q], (max_brk[q] - 1) \div W)]
                   = mem[Loc(root[q], (max_brk[q] - 1) \div W)]
  <2>1. g[pf] \in {Free, Directory} /\ root[q] # pf
    BY <1>4
  <2>2. Spared(n, q)
    BY <1>1, <1>3, <1>5, <1>6, <2>1, OtherView
  <2> QED BY <2>2 DEF Spared
<1>11. BrkTables'
  <2> SUFFICES ASSUME NEW q \in Proc, dir'[q] = root[q]
               PROVE  mem'[Loc(root[q], (max_brk[q] - 1) \div W)] # Zero
    BY <1>2 DEF BrkTables
  <2>1. q # p /\ dir[q] = root[q]
    BY <1>4, <1>9
  <2>2. mem[Loc(root[q], (max_brk[q] - 1) \div W)] # Zero
    BY <2>1 DEF PagesInv, BrkTables
  <2> QED BY <1>7, <1>10, <2>2
<1>12. PagesInv'
  BY <1>2, <1>4, <1>6, <1>7, <1>8, <1>11 DEF PagesInv
<1>13. /\ \A q \in Proc : Space(q) = View(Memory, root[q], max_brk[q])
       /\ \A q \in Proc : Space(q)' = View(n, root[q], max_brk[q])
  BY <1>2, <1>7, <1>12, ViewsHold, ViewsNext DEF Views
<1>14. \A q \in Proc : Space(q)' = Space(q)
  BY <1>10, <1>13
<1>15. {q \in Proc : dir'[q] # root'[q]} = {q \in Proc : dir[q] # root[q]} \cup {p}
  BY <1>2, <1>4, <1>9
<1> QED BY <1>12, <1>14, <1>15 DEF Abs!Fail

LEMMA BrkStep ==
  ASSUME PagesInv, NEW p \in Proc, NEW brk \in BrkAt, SysBrk(p, brk)
  PROVE  PagesInv' /\ (Abs!Grow(p) \/ UNCHANGED vars)
<1> DEFINE first == max_brk[p]
           last == (brk + W - 1) \div W
           d == dir[p]
           n == Brk(Memory, d, first, last)
<1>1. PICK g : Good(Memory, g) /\ Owned(g)
  BY DEF PagesInv
<1>2. SUFFICES ASSUME brk > first * W PROVE PagesInv' /\ Abs!Grow(p)
  <2>1. CASE ~(brk > first * W)
    <3>1. UNCHANGED vars
      BY <2>1 DEF SysBrk
    <3> QED BY <3>1 DEF PagesInv, BrkTables, Memory, vars, Owned
  <2> QED BY <2>1
<1>3. Becomes(n) /\ max_brk' = [max_brk EXCEPT ![p] = last] /\ dir' = dir /\ root' = root
  BY <1>2 DEF SysBrk
<1>4. /\ Memory.mem = mem /\ d \in Page /\ g[d] = Directory /\ d # kas
      /\ first \in 1 .. StackFirst /\ first \in Nat /\ first >= 1
      /\ max_brk \in [Proc -> 1 .. StackFirst]
  BY <1>1, PagesAre
<1>5. last \in Nat /\ first <= last /\ last <= StackFirst
  <2> DEFINE A == first * W
             S == StackFirst * W
             L == last * W
             r == (brk + W - 1) % W
  <2>1. A \in Nat /\ S \in Nat /\ StackFirst \in Nat
    BY <1>4, Numbers, Smaller
  <2>2. brk \in Nat /\ brk <= S /\ brk > A
    BY <1>2, <2>1, AddressSpaceAssumption
  <2>3. brk + W - 1 \in Nat /\ W \in Nat /\ W >= 1
    BY <2>2, Numbers
  <2>4. last \in Nat /\ r \in Index /\ brk + W - 1 = L + r /\ L \in Nat
    BY <2>3, Division, Smaller
  <2>5. (last < first => L + W <= A) /\ (StackFirst < last => S + W <= L)
    BY <1>4, <2>1, <2>4, Smaller
  <2>6. r \in Nat /\ r < W
    BY <2>3, <2>4 DEF Index
  <2> HIDE DEF A, S, L, r, last, first
  <2>7. ~(last < first)
    BY <2>1, <2>2, <2>3, <2>4, <2>5, <2>6
  <2>8. ~(StackFirst < last)
    BY <2>1, <2>2, <2>3, <2>4, <2>5, <2>6
  <2> QED BY <1>4, <2>1, <2>4, <2>7, <2>8
<1>6. last \in 0 .. UserPages /\ n.pf <= HeapEnd
  BY <1>3, <1>5, Room, Numbers DEF StackFirst
<1> HIDE DEF first, last, d
<1>7. /\ n \in Mem
      /\ \E h : Good(n, h) /\ Later(g, h) /\ Kept(Memory, n, g, d)
      /\ Memory.mem[Loc(d, (first - 1) \div W)] # Zero => BrkView(Memory, d, first, last - first, n)
  BY <1>1, <1>4, <1>5, <1>6, BrkGood
<1> HIDE DEF n
<1>8. PICK h : Good(n, h) /\ Later(g, h) /\ Kept(Memory, n, g, d)
  BY <1>7
<1>9. Memory' = n /\ mem' = n.mem
  BY <1>3, <1>7, MemoryIs DEF Becomes
<1>10. Owned(h)'
  BY <1>1, <1>3, <1>8, OwnedKept
<1>11. /\ max_brk' \in [Proc -> 1 .. StackFirst] /\ max_brk'[p] = last
       /\ \A q \in Proc \ {p} : max_brk'[q] = max_brk[q]
  <2>1. last \in 1 .. StackFirst
    BY <1>4, <1>5
  <2> QED BY <1>3, <1>4, <2>1
<1>12. ASSUME NEW q \in Proc, root[q] # d
       PROVE  /\ Alike(Memory, n, root[q], UserPage)
              /\ View(n, root[q], max_brk[q]) = View(Memory, root[q], max_brk[q])
              /\ n.mem[Loc(root[q], (max_brk[q] - 1) \div W)]
                   = mem[Loc(root[q], (max_brk[q] - 1) \div W)]
  <2>1. g[d] \in {Free, Directory}
    BY <1>4
  <2>2. Spared(n, q)
    BY <1>1, <1>4, <1>7, <1>8, <1>12, <2>1, OtherView
  <2> QED BY <2>2 DEF Spared
<1>13. \A q \in Proc \ {p} : root[q] # d
  BY <1>1 DEF Owned, d
<1>14. d = root[p] =>
         /\ n.mem[Loc(d, (last - 1) \div W)] # Zero
         /\ Alike(Memory, n, d, UserPage \ (first .. last - 1))
         /\ \A v \in first .. last - 1 : \A o \in Index : At(n, d, v, o) = Zero
  <2> SUFFICES ASSUME d = root[p]
               PROVE  /\ n.mem[Loc(d, (last - 1) \div W)] # Zero
                      /\ Alike(Memory, n, d, UserPage \ (first .. last - 1))
                      /\ \A v \in first .. last - 1 : \A o \in Index : At(n, d, v, o) = Zero
    OBVIOUS
  <2>1. Memory.mem[Loc(d, (first - 1) \div W)] # Zero
    BY <1>4 DEF PagesInv, BrkTables, d, first
  <2>2. first + (last - first) - 1 = last - 1
    BY <1>4, <1>5
  <2> QED BY <1>7, <2>1, <2>2 DEF BrkView
<1>15. BrkTables'
  <2> SUFFICES ASSUME NEW q \in Proc, dir[q] = root[q]
               PROVE  mem'[Loc(root[q], (max_brk'[q] - 1) \div W)] # Zero
    BY <1>3 DEF BrkTables
  <2>1. CASE q = p
    BY <1>9, <1>11, <1>14, <2>1 DEF d
  <2>2. CASE q # p
    <3>1. mem[Loc(root[q], (max_brk[q] - 1) \div W)] # Zero
      BY DEF PagesInv, BrkTables
    <3> QED BY <1>9, <1>11, <1>12, <1>13, <2>2, <3>1
  <2> QED BY <2>1, <2>2
<1>16. PagesInv'
  BY <1>8, <1>9, <1>10, <1>11, <1>15 DEF PagesInv
<1>17. /\ \A q \in Proc : Space(q) = View(Memory, root[q], max_brk[q])
       /\ \A q \in Proc : Space(q)' = View(n, root[q], max_brk'[q])
  BY <1>3, <1>9, <1>16, ViewsHold, ViewsNext DEF Views
<1>18. \A q \in Proc \ {p} : Space(q)' = Space(q)
  BY <1>11, <1>12, <1>13, <1>17
<1>19. ASSUME NEW a \in UserAddr
       PROVE  /\ Space(p)[a] # NoWord => Space(p)'[a] = Space(p)[a]
              /\ d = root[p] /\ Space(p)'[a] # NoWord /\ Space(p)[a] = NoWord
                   => Space(p)'[a] = Zero
  <2> DEFINE v == a \div W
             e == root[p]
  <2>1. v \in UserPage /\ v \in Nat /\ a % W \in Index /\ StackFirst \in Nat
    BY AddrIs, Numbers DEF UserPage
  <2>2. Space(p)[a] = IF v < first \/ v > StackFirst THEN At(Memory, e, v, a % W) ELSE NoWord
    BY <1>17 DEF View, first
  <2>3. Space(p)'[a] = IF v < last \/ v > StackFirst THEN At(n, e, v, a % W) ELSE NoWord
    BY <1>11, <1>17 DEF View
  <2>4. v \in first .. last - 1 \/ ~(v \in first .. last - 1)
    OBVIOUS
  <2>5. /\ v \in first .. last - 1 => ~(v < first) /\ ~(v > StackFirst)
        /\ ~(v \in first .. last - 1) /\ v < last => v < first
        /\ v < first => v < last
    BY <1>4, <1>5, <2>1
  <2> HIDE DEF v, e
  <2>6. CASE d = root[p]
    <3>1. ~(v \in first .. last - 1) => At(n, e, v, a % W) = At(Memory, e, v, a % W)
      BY <1>14, <2>1, <2>6 DEF Alike, e
    <3>2. v \in first .. last - 1 => At(n, e, v, a % W) = Zero
      BY <1>14, <2>1, <2>6 DEF e
    <3> QED BY <2>2, <2>3, <2>5, <3>1, <3>2
  <2>7. CASE d # root[p]
    <3>1. At(n, e, v, a % W) = At(Memory, e, v, a % W)
      BY <1>12, <2>1, <2>7 DEF Alike, e
    <3> QED BY <2>2, <2>3, <2>5, <2>7, <3>1
  <2> QED BY <2>6, <2>7
<1>20. Abs!Grow(p)
  <2>1. p \notin {q \in Proc : dir[q] # root[q]} => d = root[p]
    BY DEF d
  <2>2. \A a \in Abs!Has(Space(p)) : Space(p)'[a] = Space(p)[a]
    BY <1>19 DEF Abs!Has
  <2>3. d = root[p] => \A a \in Abs!Has(Space(p)') \ Abs!Has(Space(p)) : Space(p)'[a] = Zero
    BY <1>19 DEF Abs!Has
  <2> QED BY <1>3, <1>18, <2>1, <2>2, <2>3 DEF Abs!Grow, Abs!Others
<1> QED BY <1>16, <1>20

LEMMA StoreGood ==
  ASSUME PagesInv, NEW p \in Proc, NEW a \in StoreAt, Store(p, a)
  PROVE  PagesInv' /\ Abs!Store(p, a)
<1> DEFINE d == root[p]
           u == a \div W
           k == a % W
           x == Walk(d, u)[2]
           n == [mem |-> [mem EXCEPT ![Loc(x, k)] = Stored(p)], pf |-> pf]
<1>1. PICK g : Good(Memory, g) /\ Owned(g)
  BY DEF PagesInv
<1>2. /\ Valid(Walk(d, u)) /\ Owns(p, a) /\ UNCHANGED <<pf, dir, root, max_brk>>
      /\ mem' = [mem EXCEPT ![Loc(x, k)] = Stored(p)]
  BY DEF Store, isa_mmu_translate, Loc
<1>3. a \in UserAddr /\ u \in UserPage /\ k \in Index /\ a = Loc(u, k)
  BY AddressSpaceAssumption, AddrIs
<1>4. /\ Memory \in Mem /\ Memory.pf = pf /\ Memory.mem = mem /\ pf \in Nat /\ pf <= HeapEnd
      /\ \A q \in Proc : /\ root[q] \in Page /\ g[root[q]] = Directory
                         /\ (max_brk[q] - 1) \div W \in Index
  BY <1>1, PagesAre
<1>5. /\ Walk(d, u) = WalkOf(Memory, d, u) /\ x \in Page
      /\ g[x] = Data(d, u \div W, u % W)
  BY <1>1, <1>2, <1>3, <1>4, WalkIs, SeenIs
<1>6. Loc(x, k) \in PhysAddr /\ ~Structure(g[x])
  BY <1>3, <1>5, Places, Structures
<1>7. Stored(p) \in AnyWord /\ Stored(p) \in Known(pf) /\ Stored(p) # NoWord
  BY Numbers DEF Stored, AnyWord, Kinds, Known, Proc, NoWord
<1> HIDE DEF d, u, k, x
<1>8. mem \in Words
  BY <1>4 DEF Mem
<1>9. n \in Mem /\ n.pf = pf
  <2>1. [mem EXCEPT ![Loc(x, k)] = Stored(p)] \in Words
    BY <1>7, <1>8 DEF Words
  <2> QED BY <1>4, <2>1 DEF Mem
<1>10. \A y \in Page, o \in Index :
         n.mem[Loc(y, o)] = IF y = x /\ o = k THEN Stored(p) ELSE mem[Loc(y, o)]
  <2> SUFFICES ASSUME NEW y \in Page, NEW o \in Index
               PROVE  n.mem[Loc(y, o)] = IF y = x /\ o = k THEN Stored(p) ELSE mem[Loc(y, o)]
    OBVIOUS
  <2>1. Loc(y, o) \in PhysAddr
    BY Places
  <2>2. Loc(y, o) = Loc(x, k) => y = x /\ o = k
    BY <1>3, <1>5, Sets, Apart
  <2> QED BY <1>8, <2>1, <2>2 DEF Words
<1>11. Memory' = n /\ mem' = n.mem
  BY <1>2 DEF Memory
<1> HIDE DEF n
<1>12. \A y \in Page, o \in Index :
         Structure(g[y]) => n.mem[Loc(y, o)] = Memory.mem[Loc(y, o)]
  BY <1>4, <1>6, <1>10
<1>13. Good(n, g)
  <2>1. \A y \in Page, o \in Index : n.mem[Loc(y, o)] \in Known(n.pf)
    BY <1>1, <1>4, <1>7, <1>9, <1>10 DEF Good, Tidy
  <2>2. n.pf >= Memory.pf /\ n.pf <= HeapEnd
    BY <1>4, <1>9
  <2> QED BY <1>1, <1>9, <1>12, <2>1, <2>2, DataGood
<1>14. Owned(g)'
  BY <1>1, <1>2, OwnedKept DEF Later
<1>15. BrkTables'
  <2> SUFFICES ASSUME NEW q \in Proc, dir[q] = root[q]
               PROVE  n.mem[Loc(root[q], (max_brk[q] - 1) \div W)] # Zero
    BY <1>2, <1>11 DEF BrkTables
  <2>1. mem[Loc(root[q], (max_brk[q] - 1) \div W)] # Zero
    BY DEF PagesInv, BrkTables
  <2>2. Structure(g[root[q]])
    BY <1>4, Structures
  <2> QED BY <1>4, <1>12, <2>1, <2>2
<1>16. PagesInv'
  BY <1>2, <1>11, <1>13, <1>14, <1>15 DEF PagesInv
<1>17. /\ \A q \in Proc : Space(q) = View(Memory, root[q], max_brk[q])
       /\ \A q \in Proc : Space(q)' = View(n, root[q], max_brk[q])
  BY <1>2, <1>11, <1>16, ViewsHold, ViewsNext DEF Views
(* The word that changes is seen at one address of one process.            *)
<1>18. ASSUME NEW q \in Proc, NEW v \in UserPage, NEW o \in Index
       PROVE  At(n, root[q], v, o) = IF q = p /\ v = u /\ o = k THEN Stored(p)
                                     ELSE At(Memory, root[q], v, o)
  <2> DEFINE e == root[q]
             w == WalkOf(Memory, e, v)
  <2>1. e \in Page /\ g[e] = Directory
    BY <1>4
  <2> HIDE DEF e
  <2>2. WalkOf(n, e, v) = w
    BY <1>1, <1>12, <2>1, SameWalks
  <2>3. Valid(w) => w[2] \in Page /\ g[w[2]] = Data(e, v \div W, v % W)
    BY <1>1, <2>1, SeenIs
  <2>4. Valid(w) /\ w[2] = x => q = p /\ v = u
    <3> SUFFICES ASSUME Valid(w), w[2] = x PROVE q = p /\ v = u
      OBVIOUS
    <3>1. Data(e, v \div W, v % W) = Data(d, u \div W, u % W)
      BY <1>5, <2>3
    <3>2. e = d /\ v \div W = u \div W /\ v % W = u % W
      BY <3>1, DataOnce
    <3>3. v = u
      BY <1>3, <3>2, UserPageIs, SamePage
    <3>4. q = p
      BY <1>1, <3>2 DEF Owned, d, e
    <3> QED BY <3>3, <3>4
  <2>5. Valid(w) => n.mem[Loc(w[2], o)] = IF w[2] = x /\ o = k THEN Stored(p)
                                          ELSE Memory.mem[Loc(w[2], o)]
    BY <1>4, <1>10, <2>3
  <2>6. q = p /\ v = u => Valid(w) /\ w[2] = x
    BY <1>2, <1>5 DEF d, e, x
  <2> HIDE DEF w
  <2>7. At(Memory, e, v, o) = IF Valid(w) THEN Memory.mem[Loc(w[2], o)] ELSE NoWord
    BY DEF At, w
  <2>8. At(n, e, v, o) = IF Valid(w) THEN n.mem[Loc(w[2], o)] ELSE NoWord
    BY <2>2 DEF At
  <2> QED BY <2>4, <2>5, <2>6, <2>7, <2>8 DEF e
<1>19. ASSUME NEW q \in Proc, NEW b \in UserAddr, q # p \/ b # a
       PROVE  Space(q)'[b] = Space(q)[b]
  <2>1. b \div W \in UserPage /\ b % W \in Index /\ b = Loc(b \div W, b % W)
    BY AddrIs
  <2>2. ~(q = p /\ b \div W = u /\ b % W = k)
    BY <1>3, <1>19, <2>1
  <2>3. At(n, root[q], b \div W, b % W) = At(Memory, root[q], b \div W, b % W)
    BY <1>18, <2>1, <2>2
  <2> QED BY <1>17, <2>3 DEF View
<1>20. Space(p)[a] # NoWord /\ Space(p)'[a] # NoWord
  <2>1. u < max_brk[p] \/ u > StackFirst
    <3> DEFINE B == (StackFirst + 1) * W
    <3>1. /\ u \in Nat /\ StackFirst \in Nat /\ a \in Nat /\ B \in Nat
          /\ (a < max_brk[p] * W <=> u < max_brk[p]) /\ (a < B <=> u < StackFirst + 1)
      <4>1. max_brk[p] \in Nat /\ StackFirst + 1 \in Nat /\ StackFirst \in Nat
        BY Numbers DEF PagesInv
      <4> QED BY <1>3, <4>1, AddrIs, Smaller, UserPageIs DEF u
    <3> HIDE DEF B
    <3>2. a >= B <=> u > StackFirst
      BY <3>1
    <3> QED BY <1>2, <3>1, <3>2 DEF Owns, B
  <2>2. Space(p)'[a] = Stored(p)
    <3>1. View(n, d, max_brk[p])[a] = At(n, d, u, k)
      BY <1>3, <2>1 DEF View, u, k
    <3>2. At(n, d, u, k) = Stored(p)
      BY <1>3, <1>18 DEF d
    <3> QED BY <1>17, <3>1, <3>2 DEF d
  <2>3. View(Memory, d, max_brk[p])[a] # NoWord
    BY <1>1, <1>2, <1>3, <1>4, <1>5, <2>1, HasIs DEF d, u
  <2> QED BY <1>7, <1>17, <2>2, <2>3 DEF d
<1>21. DOMAIN Space(p) = UserAddr
  BY DEF Space
<1>22. \A q \in Proc \ {p} : Space(q)' = Space(q)
  <2> SUFFICES ASSUME NEW q \in Proc \ {p} PROVE Space(q)' = Space(q)
    OBVIOUS
  <2>1. \A b \in UserAddr :
          View(n, root[q], max_brk[q])[b] = View(Memory, root[q], max_brk[q])[b]
    BY <1>17, <1>19
  <2>2. View(n, root[q], max_brk[q]) = View(Memory, root[q], max_brk[q])
    BY <2>1 DEF View
  <2> QED BY <1>17, <2>2
<1>23. {q \in Proc : dir'[q] # root'[q]} = {q \in Proc : dir[q] # root[q]}
  BY <1>2
<1>24. Abs!Store(p, a)
  BY <1>3, <1>19, <1>20, <1>22, <1>23 DEF Abs!Store, Abs!Others, Abs!Has
<1> QED BY <1>16, <1>24

LEMMA NextPages == PagesInv /\ [Next]_vars => PagesInv' /\ [Abs!Next]_(Abs!vars)
<1> SUFFICES ASSUME PagesInv, [Next]_vars PROVE PagesInv' /\ [Abs!Next]_(Abs!vars)
  OBVIOUS
<1>1. ASSUME NEW p \in Proc, NEW f \in File, SysExecve(p, f)
      PROVE  PagesInv' /\ Abs!Next
  <2>1. PagesInv' /\ Abs!Load(p, f)
    BY <1>1, ExecveGood
  <2> QED BY <2>1 DEF Abs!Next
<1>2. ASSUME NEW p \in Proc, SysExecveMissing(p)
      PROVE  PagesInv' /\ Abs!Next
  <2>1. PagesInv' /\ Abs!Fail(p)
    BY <1>2, ExecveMissingGood
  <2> QED BY <2>1 DEF Abs!Next
<1>3. UNCHANGED vars => PagesInv' /\ UNCHANGED Abs!vars
  <2> SUFFICES ASSUME UNCHANGED vars PROVE PagesInv' /\ UNCHANGED Abs!vars
    OBVIOUS
  <2>1. PagesInv' /\ Views' /\ Views
    <3>1. PagesInv'
      BY DEF PagesInv, BrkTables, Memory, vars, Owned
    <3> QED BY <3>1, ViewsHold, ViewsNext
  <2>2. \A p \in Proc : Space(p)' = Space(p)
    BY <2>1 DEF Views, Memory, vars
  <2> QED BY <2>1, <2>2 DEF Abs!vars, vars
<1>4. ASSUME NEW p \in Proc, NEW brk \in BrkAt, SysBrk(p, brk)
      PROVE  PagesInv' /\ [Abs!Next]_(Abs!vars)
  <2>1. PagesInv' /\ (Abs!Grow(p) \/ UNCHANGED vars)
    BY <1>4, BrkStep
  <2> QED BY <1>3, <2>1 DEF Abs!Next
<1>5. ASSUME NEW p \in Proc, NEW a \in StoreAt, Store(p, a)
      PROVE  PagesInv' /\ Abs!Next
  <2>1. PagesInv' /\ Abs!Store(p, a) /\ a \in UserAddr
    BY <1>5, StoreGood, AddressSpaceAssumption
  <2> QED BY <2>1 DEF Abs!Next
<1> QED BY <1>1, <1>2, <1>3, <1>4, <1>5 DEF Next

LEMMA Inductive == Spec => []PagesInv
<1>1. Init => PagesInv
  BY InitPages
<1>2. PagesInv /\ [Next]_vars => PagesInv'
  BY NextPages
<1> QED BY <1>1, <1>2, PTL DEF Spec

----------------------------------------------------------------------------
LEMMA TypesHold == PagesInv => TypeOK
<1> SUFFICES ASSUME PagesInv PROVE TypeOK
  OBVIOUS
<1>1. PICK g : Good(Memory, g) /\ Owned(g)
  BY DEF PagesInv
<1>2. /\ Memory \in Mem /\ Memory.pf = pf /\ Memory.mem = mem /\ pf \in Nat /\ pf > HeapStart
      /\ pf <= HeapEnd /\ \A x \in Nat : x >= pf => g[x] = Free
      /\ \A y \in Page, o \in Index : mem[Loc(y, o)] \in Known(pf)
  BY <1>1 DEF Good, Tidy, Mem, Roles, Memory
<1>3. DOMAIN mem = PhysAddr
  BY <1>2 DEF Mem, Words
<1>4. ASSUME NEW a \in PhysAddr PROVE mem[a] \in Word
  <2>1. a \in Nat /\ a \div W \in Page
    BY Places
  <2>2. a % W \in Index /\ a = Loc(a \div W, a % W)
    BY <2>1, Split
  <2>3. mem[Loc(a \div W, a % W)] \in Known(pf)
    BY <1>2, <2>1, <2>2
  <2>4. mem[a] \in Known(pf)
    BY <2>2, <2>3
  <2> QED BY <2>4 DEF Word, Known
<1>5. pf \in HeapStart + 1 .. HeapEnd
  BY <1>2, Numbers
<1>6. \A x \in Page : g[x] = Directory => x \in HeapStart .. pf - 1
  <2> SUFFICES ASSUME NEW x \in Page, g[x] = Directory PROVE x \in HeapStart .. pf - 1
    OBVIOUS
  <2>1. x \in Nat /\ x >= HeapStart /\ ~(x >= pf)
    BY <1>2, RoleKinds, Sets
  <2> QED BY <1>2, <2>1, Numbers
<1>7. dir \in [Proc -> HeapStart .. pf - 1] /\ root \in [Proc -> HeapStart .. pf - 1]
  BY <1>1, <1>6 DEF Owned
<1>8. max_brk \in [Proc -> 1 .. StackFirst]
  BY DEF PagesInv
<1> QED BY <1>3, <1>4, <1>5, <1>7, <1>8 DEF TypeOK

LEMMA DirsAre ==
  ASSUME NEW g, Good(Memory, g), Owned(g), NEW d \in Dirs
  PROVE  d \in Page /\ g[d] = Directory
BY Sets DEF Dirs, Owned, Good, Tidy, Roles

LEMMA ApartHolds == PagesInv => UserPagesApart
<1> SUFFICES ASSUME PagesInv PROVE UserPagesApart
  OBVIOUS
<1>1. PICK g : Good(Memory, g) /\ Owned(g)
  BY DEF PagesInv
<1>2. ASSUME NEW d \in Dirs, NEW x \in UserPpns(d)
      PROVE  x \in Page /\ \E i, j : g[x] = Data(d, i, j)
  <2>1. PICK v \in UserPage : Valid(Walk(d, v)) /\ x = Walk(d, v)[2]
    BY <1>2 DEF UserPpns, UserPage
  <2>2. d \in Page /\ g[d] = Directory
    BY <1>1, DirsAre
  <2> QED BY <1>1, <2>1, <2>2, WalkIs, SeenIs
<1>3. ASSUME NEW e \in Dirs, NEW x \in Tables(e)
      PROVE  \E c, i : g[x] = Table(c, i)
  <2>1. PICK i \in Index : Valid(mem[e * W + i]) /\ x = mem[e * W + i][2]
    BY <1>3 DEF Tables, Index
  <2>2. e \in Page /\ g[e] = Directory
    BY <1>1, DirsAre
  <2>3. Memory.mem[Loc(e, i)] = mem[e * W + i]
    BY DEF Memory, Loc
  <2> QED BY <1>1, <2>1, <2>2, <2>3, TablesAre
<1>4. ASSUME NEW d \in Dirs, NEW e \in Dirs PROVE UserPpns(d) \cap (Dirs \cup Tables(e)) = {}
  <2> SUFFICES ASSUME NEW x \in UserPpns(d), x \in Dirs \cup Tables(e) PROVE FALSE
    OBVIOUS
  <2>1. PICK i, j : g[x] = Data(d, i, j)
    BY <1>2
  <2>2. x \notin Dirs
    BY <1>1, <2>1, DirsAre, RoleKinds
  <2>3. x \notin Tables(e)
    BY <1>3, <2>1, NotBoth
  <2> QED BY <2>2, <2>3
<1>5. ASSUME NEW p \in Proc, NEW q \in Proc, p # q
      PROVE  UserPpns(root[p]) \cap UserPpns(root[q]) = {}
  <2>1. root[p] \in Dirs /\ root[q] \in Dirs
    BY DEF Dirs
  <2>2. root[p] # root[q]
    BY <1>1, <1>5 DEF Owned
  <2> SUFFICES ASSUME NEW x \in UserPpns(root[p]), x \in UserPpns(root[q]) PROVE FALSE
    OBVIOUS
  <2>3. PICK i, j : g[x] = Data(root[p], i, j)
    BY <1>2, <2>1
  <2>4. PICK k, l : g[x] = Data(root[q], k, l)
    BY <1>2, <2>1
  <2>5. Data(root[p], i, j) = Data(root[q], k, l)
    BY <2>3, <2>4
  <2> QED BY <2>2, <2>5, DataOnce
<1> QED BY <1>4, <1>5 DEF UserPagesApart

LEMMA KernelHolds == PagesInv => KernelEverywhere
<1> SUFFICES ASSUME PagesInv, NEW d \in Dirs, NEW i \in DOMAIN Segments
             PROVE  Walk(d, Segments[i]) = Pte(Segments[i])
  BY DEF KernelEverywhere
<1>1. PICK g : Good(Memory, g) /\ Owned(g)
  BY DEF PagesInv
<1> DEFINE k == Segments[i]
           e == Memory.mem[Loc(kas, k \div W)]
<1>2. k \in Range(Segments) /\ k \in UserPages .. W * W - 1
  BY Indexes DEF Range
<1>3. k \div W \in KernelIndex
  BY <1>2, Indexes
<1>4. KernelAt(Memory, k)
  BY <1>1, <1>2 DEF Good
<1>5. e # Zero /\ Memory.mem[Loc(e[2], k % W)] = Pte(k)
  BY <1>4 DEF KernelAt
<1>6. e = Pte(e[2]) /\ e[2] \in Page
  BY <1>1, <1>3, <1>5 DEF Good, Tidy, KernelEntries
<1>7. Memory.mem[Loc(d, k \div W)] = e
  <2>1. d \in Page /\ g[d] = Directory
    BY <1>1, DirsAre
  <2> QED BY <1>1, <1>3, <2>1 DEF Good, Tidy, KernelEntries
<1>8. Valid(e)
  <2>1. e[2] \in Nat
    BY <1>6, Sets
  <2> HIDE DEF e
  <2> QED BY <1>6, <2>1, WordKinds
<1> HIDE DEF k, e
<1>9. WalkOf(Memory, d, k) = Pte(k)
  BY <1>5, <1>7, <1>8 DEF WalkOf
<1> QED BY <1>9, WalkIs DEF k

(* Every variable holds a value of its kind, and the entry of a table      *)
(* names a page of the kernel or one that new_page() has given out         *)
(* (mm.c:7-12, vme.c:72-93).                                               *)
THEOREM AddressTypes == Spec => []TypeOK
BY Inductive, TypesHold, PTL

(* No page mapped in user space holds a table or a directory, and none is  *)
(* mapped in the user space of two processes, for any programs, any number *)
(* of them and any order of execve, failed execve, brk and stores          *)
(* (vme.c:50-106, mm.c:7-40, loader.c:21-62).  The kernel's pages, which   *)
(* every directory maps without protection, are not meant.                 *)
THEOREM ApartCorrect == Spec => []UserPagesApart
BY Inductive, ApartHolds, PTL

(* Every directory the machine may translate with maps the kernel alike    *)
(* (vme.c:50-57): no later map() touches the entries protect() copied.     *)
THEOREM KernelCorrect == Spec => []KernelEverywhere
BY Inductive, KernelHolds, PTL

(* What programs see of the page tables is what VirtualMemory promises:    *)
(* whatever the order of the calls, execve() gives its caller the image,   *)
(* cleared bss and arguments of its program (loader.c, proc.c), brk()      *)
(* zeroed words behind what it has, which it keeps (mm.c, vme.c), and a    *)
(* store to an address it was promised, through the walk of the MMU        *)
(* (mmu.c), changes that word of its memory and nothing of another's.      *)
THEOREM ImplementsCorrect == Spec => Implements
<1>1. Init => Abs!Init
  BY InitPages
<1>2. PagesInv /\ [Next]_vars => [Abs!Next]_(Abs!vars)
  BY NextPages
<1> QED BY <1>1, <1>2, Inductive, PTL DEF Spec, Implements, Abs!Spec
=============================================================================
