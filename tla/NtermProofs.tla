----------------------------- MODULE NtermProofs -----------------------------
(***************************************************************************)
(* Proofs about nterm.  Its steps are steps of the keyboard (KeysStep), so *)
(* that what KeyEventsProofs shows holds of it, and its terminal           *)
(* is followed through every character it is given.                        *)
(***************************************************************************)
EXTENDS Nterm, KeyEventsProofs, FiniteSetTheorems, WellFoundedInduction

----------------------------------------------------------------------------
(* Induction, in the form of the least number.                             *)
LEMMA LeastNumber ==
  ASSUME NEW S \in SUBSET Nat, S # {}
  PROVE  \E m \in S : \A k \in S : m <= k
<1> DEFINE R == {ss \in Nat \X Nat : ss[1] < ss[2]}
<1>1. IsWellFoundedOn(R, Nat)
  BY NatLessThanWellFounded DEF OpToRel
<1>2. \E x \in S : \A y \in S : ~ (<<y, x>> \in R)
  BY <1>1, WFMin
<1>3. PICK m \in S : \A y \in S : ~ (<<y, m>> \in R)
  BY <1>2
<1>4. ASSUME NEW k \in S PROVE m <= k
  <2>1. <<k, m>> \in Nat \X Nat /\ <<k, m>>[1] = k /\ <<k, m>>[2] = m
    OBVIOUS
  <2>2. ~(k < m)
    BY <1>3, <2>1
  <2> QED BY <2>2
<1> QED BY <1>4

LEMMA UpTo ==
  ASSUME NEW n \in Nat, NEW G, 0 \in G, \A i \in 1 .. n : i - 1 \in G => i \in G
  PROVE  \A i \in 0 .. n : i \in G
<1>1. SUFFICES ASSUME (0 .. n) \ G # {} PROVE FALSE
  OBVIOUS
<1>2. PICK m \in (0 .. n) \ G : \A k \in (0 .. n) \ G : m <= k
  <2>1. (0 .. n) \ G \in SUBSET Nat
    OBVIOUS
  <2> QED BY <1>1, <2>1, LeastNumber
<1>3. m \in 1 .. n /\ m - 1 \in 0 .. n /\ ~(m <= m - 1)
  BY <1>2
<1> QED BY <1>2, <1>3

----------------------------------------------------------------------------
(* The terminals whose characters are in C.                                *)
Screen(C) ==
  [x : 0 .. W - 1, y : 0 .. H - 1, buf : [Cell -> C], dirty : SUBSET Cell, input : Seq(C)]

(* What write() makes of a terminal, one character after the other.        *)
Writes(C, t, str, n, g) ==
  /\ g \in [0 .. n -> Screen(C)] /\ g[0] = t
  /\ \A i \in 1 .. n : g[i] = put(g[i - 1], str[i])

LEMMA WriteIs ==
  ASSUME NEW C, NEW t \in Screen(C), NEW str \in Seq(C),
         \A s \in Screen(C), ch \in C : put(s, ch) \in Screen(C)
  PROVE  \E g : Writes(C, t, str, Len(str), g) /\ write(t, str) = g[Len(str)]
<1> DEFINE n == Len(str)
<1>0. n \in Nat /\ \A i \in 1 .. n : str[i] \in C
  OBVIOUS
<1> DEFINE G == {m \in 0 .. n : \E g : Writes(C, t, str, m, g)}
<1>1. 0 \in G
  <2>1. Writes(C, t, str, 0, [i \in 0 .. 0 |-> t])
    BY DEF Writes
  <2> QED BY <1>0, <2>1
<1>2. ASSUME NEW m \in 1 .. n, m - 1 \in G PROVE m \in G
  <2>1. PICK g : Writes(C, t, str, m - 1, g)
    BY <1>2
  <2> DEFINE h == [i \in 0 .. m |-> IF i = m THEN put(g[m - 1], str[m]) ELSE g[i]]
  <2>2. g[m - 1] \in Screen(C) /\ put(g[m - 1], str[m]) \in Screen(C)
    BY <1>0, <2>1 DEF Writes
  <2>3. h \in [0 .. m -> Screen(C)] /\ h[0] = t
    BY <2>1, <2>2 DEF Writes
  <2>4. ASSUME NEW i \in 1 .. m PROVE h[i] = put(h[i - 1], str[i])
    BY <2>1 DEF Writes
  <2>5. Writes(C, t, str, m, h)
    BY <2>3, <2>4 DEF Writes
  <2> QED BY <1>0, <2>5
<1>3. n \in G
  <2> HIDE DEF G, n
  <2>1. \A i \in 1 .. n : i - 1 \in G => i \in G
    BY <1>2
  <2>2. \A i \in 0 .. n : i \in G
    BY <1>0, <1>1, <2>1, UpTo
  <2> QED BY <1>0, <2>2
<1>4. PICK g : Writes(C, t, str, n, g)
  BY <1>3
<1> DEFINE Is(f) == f = [i \in 0 .. n |-> IF i = 0 THEN t ELSE put(f[i - 1], str[i])]
           f0 == CHOOSE f : Is(f)
<1>5. Is(g)
  BY <1>0, <1>4 DEF Writes
<1>6. Is(f0) /\ write(t, str) = f0[n]
  BY <1>5 DEF write
<1> HIDE DEF f0
<1>7. f0[0] = t /\ \A i \in 1 .. n : f0[i] = put(f0[i - 1], str[i])
  BY <1>0, <1>6
<1> DEFINE S == {i \in 0 .. n : f0[i] = g[i]}
<1>8. \A i \in 0 .. n : i \in S
  <2>1. 0 \in S
    BY <1>0, <1>4, <1>7 DEF Writes
  <2>2. ASSUME NEW i \in 1 .. n, i - 1 \in S PROVE i \in S
    BY <1>4, <1>7, <2>2 DEF Writes
  <2> HIDE DEF S, n
  <2> QED BY <1>0, <2>1, <2>2, UpTo
<1>9. f0[n] = g[n]
  BY <1>0, <1>8
<1> QED BY <1>4, <1>6, <1>9

----------------------------------------------------------------------------
(* Where the cursor is.                                                    *)
LEMMA Places ==
  ASSUME NEW x \in 0 .. W - 1, NEW y \in 0 .. H - 1
  PROVE  /\ y * W + x \in Cell /\ y * W + x \in Nat /\ y * W \in Nat /\ W * H \in Nat
         /\ x + 1 = W /\ y + 1 < H => (y + 1) * W = y * W + x + 1 /\ (y + 1) * W \in Cell
         /\ x + 1 = W /\ y + 1 = H => y * W + x + 1 = W * H /\ y * W = W * H - W
         /\ x + 1 < W => y * W + x + 1 \in Cell
         /\ y > 0 => (y - 1) * W + (W - 1) = y * W - 1
<1>1. W \in Nat /\ H \in Nat /\ x \in Nat /\ y \in Nat /\ x < W /\ y < H /\ W >= 1 /\ H >= 1
  BY TerminalAssumption
<1>2. ASSUME NEW a \in Nat, NEW b \in Nat, a <= b PROVE a * W <= b * W
  BY <1>1, <1>2
<1>3. y * W <= (H - 1) * W
  BY <1>1, <1>2
<1>4. (H - 1) * W = W * H - W /\ y * W \in Nat /\ W * H \in Nat
  BY <1>1
<1>5. (y + 1) * W = y * W + W /\ (y > 0 => (y - 1) * W = y * W - W)
  BY <1>1
<1>6. y + 1 < H => (y + 1) * W <= (H - 1) * W
  BY <1>1, <1>2
<1>7. y + 1 = H => y * W = (H - 1) * W
  BY <1>1
<1> QED BY <1>1, <1>3, <1>4, <1>5, <1>6, <1>7 DEF Cell

LEMMA AtIsCell ==
  ASSUME NEW C, NEW t \in Screen(C)
  PROVE  At(t) \in Cell /\ At(t) \in Nat
BY Places DEF At, Screen

LEMMA BelowIsCell ==
  ASSUME NEW c \in Cell, NEW d \in 0 .. c
  PROVE  d \in Cell
<1>1. W * H \in Nat
  BY TerminalAssumption
<1> DEFINE z == W * H
<1>2. z \in Nat /\ c \in 0 .. z - 1
  BY <1>1 DEF Cell
<1> HIDE DEF z
<1>3. d \in 0 .. z - 1
  BY <1>2
<1> QED BY <1>3 DEF Cell, z

(* What is not dirty is as it was.                                         *)
Kept(t, s) == \A c \in Cell \ s.dirty : c \notin t.dirty /\ s.buf[c] = t.buf[c]

LEMMA PutchIs ==
  ASSUME NEW C, NEW t \in Screen(C), NEW c \in Cell, NEW ch \in C
  PROVE  /\ putch(t, c, ch) \in Screen(C)
         /\ Kept(t, putch(t, c, ch))
         /\ putch(t, c, ch).buf = [t.buf EXCEPT ![c] = ch]
         /\ putch(t, c, ch).x = t.x /\ putch(t, c, ch).y = t.y
         /\ putch(t, c, ch).input = t.input
BY DEF Screen, putch, Kept

LEMMA NextLineIs ==
  ASSUME NEW C, EMPTY \in C, NEW t \in Screen(C)
  PROVE  /\ NextLine(t) \in Screen(C) /\ Kept(t, NextLine(t))
         /\ NextLine(t).input = t.input
         /\ t.y + 1 < H => NextLine(t).buf = t.buf /\ NextLine(t).x = 0
                            /\ NextLine(t).y = t.y + 1
         /\ t.y + 1 >= H => /\ NextLine(t).x = 0 /\ NextLine(t).y = t.y
                             /\ \A c \in Cell : c + W \in Cell => NextLine(t).buf[c] = t.buf[c + W]
<1>0. W \in Nat /\ H \in Nat /\ t.y \in 0 .. H - 1 /\ W >= 1
  BY TerminalAssumption DEF Screen
<1>1. CASE t.y + 1 < H
  <2> DEFINE s == [t EXCEPT !.x = 0, !.y = @ + 1]
  <2>1. s \in Screen(C) /\ s.x = 0 /\ s.y = t.y + 1 /\ s.buf = t.buf /\ s.dirty = t.dirty
        /\ s.input = t.input
    <3>1. 0 \in 0 .. W - 1 /\ t.y + 1 \in 0 .. H - 1
      BY <1>0, <1>1
    <3> QED BY <3>1 DEF Screen
  <2>2. NextLine(t) = s
    BY <1>1 DEF NextLine
  <2> HIDE DEF s
  <2> QED BY <1>0, <1>1, <2>1, <2>2 DEF Kept
<1>2. CASE ~(t.y + 1 < H)
  <2> DEFINE b == [c \in Cell |-> IF c + W \in Cell THEN t.buf[c + W] ELSE EMPTY]
             s == [t EXCEPT !.buf = b, !.dirty = Cell]
  <2>1. b \in [Cell -> C]
    BY DEF Screen
  <2>2. s \in Screen(C) /\ s.buf = b /\ s.dirty = Cell /\ s.input = t.input /\ s.y = t.y
    BY <2>1 DEF Screen
  <2>3. NextLine(t) = [s EXCEPT !.x = 0]
    BY <1>2 DEF NextLine, scroll_up
  <2>4. /\ NextLine(t) \in Screen(C) /\ NextLine(t).buf = b /\ NextLine(t).dirty = Cell
        /\ NextLine(t).input = t.input /\ NextLine(t).y = t.y /\ NextLine(t).x = 0
    <3> HIDE DEF s
    <3> QED BY <1>0, <2>2, <2>3 DEF Screen
  <2> QED BY <1>0, <1>2, <2>4 DEF Kept
<1> QED BY <1>1, <1>2

LEMMA MoveIs ==
  ASSUME NEW C, EMPTY \in C, NEW t \in Screen(C)
  PROVE  /\ move_one(t) \in Screen(C) /\ Kept(t, move_one(t))
         /\ move_one(t).input = t.input
         /\ \/ At(move_one(t)) = At(t) + 1 /\ move_one(t).buf = t.buf
            \/ /\ At(t) + 1 = W * H /\ At(move_one(t)) = W * H - W
               /\ \A c \in Cell : c + W \in Cell => move_one(t).buf[c] = t.buf[c + W]
<1>0. W \in Nat /\ H \in Nat /\ t.x \in 0 .. W - 1 /\ t.y \in 0 .. H - 1
  BY TerminalAssumption DEF Screen
<1>1. CASE t.x + 1 < W
  <2> DEFINE s == [t EXCEPT !.x = @ + 1]
  <2>1. s \in Screen(C) /\ s.x = t.x + 1 /\ s.y = t.y /\ s.buf = t.buf /\ s.dirty = t.dirty
        /\ s.input = t.input
    BY <1>0, <1>1 DEF Screen
  <2>2. At(s) = At(t) + 1
    BY <1>0, <2>1, Places DEF At
  <2>3. move_one(t) = s
    BY <1>1 DEF move_one
  <2> HIDE DEF s
  <2> QED BY <2>1, <2>2, <2>3 DEF Kept
<1>2. CASE ~(t.x + 1 < W)
  <2>1. move_one(t) = NextLine(t) /\ t.x + 1 = W
    BY <1>0, <1>2 DEF move_one
  <2>2. CASE t.y + 1 < H
    <3>1. (t.y + 1) * W = t.y * W + t.x + 1 /\ (t.y + 1) * W \in Int
      BY <1>0, <2>1, <2>2, Places DEF Cell
    <3> QED BY <2>1, <2>2, <3>1, NextLineIs DEF At
  <2>3. CASE ~(t.y + 1 < H)
    <3>1. t.y * W + t.x + 1 = W * H /\ t.y * W = W * H - W /\ t.y * W \in Nat
      BY <1>0, <2>1, <2>3, Places
    <3>2. t.y + 1 >= H
      BY <1>0, <2>3
    <3> QED BY <2>1, <3>1, <3>2, NextLineIs DEF At
  <2> QED BY <2>2, <2>3
<1> QED BY <1>1, <1>2

LEMMA PutIs ==
  ASSUME NEW C, EMPTY \in C, NEW t \in Screen(C), NEW ch \in C
  PROVE  /\ put(t, ch) \in Screen(C) /\ Kept(t, put(t, ch))
         /\ put(t, ch).input = t.input
<1>1. CASE ch = NewLine
  BY <1>1, NextLineIs DEF put
<1>2. CASE ch # NewLine
  <2> DEFINE s == putch(t, At(t), ch)
  <2>0. At(t) \in Cell /\ ch \in C
    BY AtIsCell
  <2>1. s \in Screen(C) /\ Kept(t, s) /\ s.input = t.input
    <3>1. s \in Screen(C)
      BY <2>0, PutchIs
    <3>2. Kept(t, s)
      BY <2>0, PutchIs
    <3>3. s.input = t.input
      BY DEF putch, Screen
    <3> QED BY <3>1, <3>2, <3>3
  <2>2. put(t, ch) = move_one(s)
    BY <1>2 DEF put
  <2> HIDE DEF s
  <2>3. move_one(s) \in Screen(C) /\ Kept(s, move_one(s)) /\ move_one(s).input = s.input
    BY <2>1, MoveIs
  <2> QED BY <2>1, <2>2, <2>3 DEF Kept
<1> QED BY <1>1, <1>2

(* The cells in front of the cursor hold a line.                           *)
Echoes(t, line) ==
  /\ Len(line) <= At(t)
  /\ \A i \in 1 .. Len(line) : t.buf[At(t) - Len(line) + i - 1] = line[i]

(* The screen but for its last line.                                       *)
Room == W * (H - 1)

(* A character that is written stands behind the line, over the end of a   *)
(* screen line and after scrolling, as long as the line leaves a line of   *)
(* the screen free (term.cpp:177-201).                                     *)
LEMMA EchoPut ==
  ASSUME NEW C, EMPTY \in C, NEW t \in Screen(C), NEW ch \in C, ch # NewLine,
         NEW line \in Seq(C), Echoes(t, line), Len(line) + 1 <= Room
  PROVE  Echoes(put(t, ch), Append(line, ch))
<1> DEFINE s == putch(t, At(t), ch)  u == move_one(s)  long == Append(line, ch)
           n == Len(line)  a == At(t)
<1>0. a \in Cell /\ a \in Nat
  BY AtIsCell
<1>1. s \in Screen(C) /\ s.buf = [t.buf EXCEPT ![a] = ch] /\ s.x = t.x /\ s.y = t.y
  BY <1>0, PutchIs
<1>2. At(s) = a
  BY <1>1 DEF At
<1>3. put(t, ch) = u
  BY DEF put
<1>4. n \in Nat /\ Len(long) = n + 1 /\ long[n + 1] = ch /\ \A i \in 1 .. n : long[i] = line[i]
  BY AppendProperties
<1>5. t.buf \in [Cell -> C]
  BY DEF Screen
<1> HIDE DEF s, long
<1>6. /\ \/ At(u) = a + 1 /\ u.buf = s.buf
         \/ /\ a + 1 = W * H /\ At(u) = W * H - W
            /\ \A c \in Cell : c + W \in Cell => u.buf[c] = s.buf[c + W]
  BY <1>1, <1>2, MoveIs
<1> HIDE DEF u, a, n
<1>7. n <= a /\ \A i \in 1 .. n : t.buf[a - n + i - 1] = line[i]
  BY DEF Echoes, a, n
<1>8. ASSUME NEW i \in 1 .. n + 1
      PROVE  a - n + i - 1 \in Cell /\ s.buf[a - n + i - 1] = long[i]
  <2>1. a - n + i - 1 \in 0 .. a
    BY <1>0, <1>4, <1>7
  <2>2. a - n + i - 1 \in Cell
    BY <1>0, <2>1, BelowIsCell
  <2>3. CASE i = n + 1
    <3>1. a - n + i - 1 = a
      BY <1>0, <1>4, <2>3
    <3> QED BY <1>0, <1>1, <1>4, <1>5, <2>2, <2>3, <3>1
  <2>4. CASE i # n + 1
    <3>1. i \in 1 .. n /\ a - n + i - 1 # a
      BY <1>0, <1>4, <2>4
    <3> QED BY <1>0, <1>1, <1>4, <1>5, <1>7, <2>2, <3>1
  <2> QED BY <2>2, <2>3, <2>4
<1>9. CASE At(u) = a + 1 /\ u.buf = s.buf
  <2>1. Len(long) = n + 1 /\ At(u) = a + 1 /\ Len(long) <= At(u)
    BY <1>0, <1>4, <1>7, <1>9
  <2>2. ASSUME NEW i \in 1 .. n + 1 PROVE u.buf[At(u) - Len(long) + i - 1] = long[i]
    <3>1. At(u) - Len(long) + i - 1 = a - n + i - 1
      BY <1>0, <1>4, <2>1
    <3> QED BY <1>8, <1>9, <3>1
  <2>3. \A i \in 1 .. Len(long) : u.buf[At(u) - Len(long) + i - 1] = long[i]
    BY <2>1, <2>2
  <2> QED BY <1>3, <2>1, <2>3 DEF Echoes, long
<1>10. CASE /\ a + 1 = W * H /\ At(u) = W * H - W
            /\ \A c \in Cell : c + W \in Cell => u.buf[c] = s.buf[c + W]
  <2>0. W \in Nat /\ H \in Nat /\ W * H \in Nat /\ W * (H - 1) = W * H - W /\ W >= 1
    BY TerminalAssumption
  <2> DEFINE z == W * H
  <2>1. z \in Nat /\ n + 1 <= z - W /\ a + 1 = z /\ At(u) = z - W /\ Cell = 0 .. z - 1
    BY <1>10, <2>0 DEF Cell, n, Room
  <2> HIDE DEF z
  <2>2. ASSUME NEW i \in 1 .. n + 1 PROVE u.buf[z - W - (n + 1) + i - 1] = long[i]
    <3>1. z - W - (n + 1) + i - 1 \in Cell
          /\ z - W - (n + 1) + i - 1 + W = a - n + i - 1
      BY <1>0, <1>4, <2>0, <2>1
    <3> QED BY <1>8, <1>10, <3>1
  <2> QED BY <1>3, <1>4, <2>0, <2>1, <2>2 DEF Echoes, long
<1> QED BY <1>6, <1>9, <1>10

(* The last character of a line is erased (term.cpp:166-175).              *)
LEMMA BackIs ==
  ASSUME NEW C, EMPTY \in C, NEW t \in Screen(C)
  PROVE  /\ backspace(t) \in Screen(C) /\ Kept(t, backspace(t))
         /\ backspace(t).input = t.input
         /\ At(t) > 0 => /\ At(backspace(t)) = At(t) - 1
                         /\ backspace(t).buf = [t.buf EXCEPT ![At(t) - 1] = EMPTY]
<1>0. W \in Nat /\ W >= 1 /\ H \in Nat /\ t.x \in 0 .. W - 1 /\ t.y \in 0 .. H - 1
  BY TerminalAssumption DEF Screen
<1> DEFINE s == Back(t)
<1>1. /\ s \in Screen(C) /\ s.buf = t.buf /\ s.dirty = t.dirty /\ s.input = t.input
      /\ At(t) > 0 => At(s) = At(t) - 1
  <2>1. CASE t.x > 0
    <3> DEFINE r == [t EXCEPT !.x = @ - 1]
    <3>1. r \in Screen(C) /\ r.buf = t.buf /\ r.dirty = t.dirty /\ r.input = t.input
          /\ r.x = t.x - 1 /\ r.y = t.y
      BY <1>0, <2>1 DEF Screen
    <3>2. s = r
      BY <2>1 DEF Back
    <3> HIDE DEF r
    <3>3. t.y * W \in Nat
      BY <1>0, Places
    <3> QED BY <1>0, <3>1, <3>2, <3>3 DEF At
  <2>2. CASE t.x = 0 /\ t.y > 0
    <3> DEFINE r == [t EXCEPT !.x = W - 1, !.y = @ - 1]
    <3>1. r \in Screen(C) /\ r.buf = t.buf /\ r.dirty = t.dirty /\ r.input = t.input
          /\ r.x = W - 1 /\ r.y = t.y - 1
      <4>1. W - 1 \in 0 .. W - 1 /\ t.y - 1 \in 0 .. H - 1
        BY <1>0, <2>2
      <4> QED BY <4>1 DEF Screen
    <3>2. s = r
      BY <1>0, <2>2 DEF Back
    <3> HIDE DEF r
    <3>3. t.y * W \in Nat /\ (t.y - 1) * W + (W - 1) = t.y * W - 1
      BY <1>0, <2>2, Places
    <3> QED BY <1>0, <2>2, <3>1, <3>2, <3>3 DEF At
  <2>3. CASE t.x = 0 /\ t.y = 0
    <3>1. At(t) = 0
      BY <1>0, <2>3 DEF At
    <3> QED BY <1>0, <2>3, <3>1 DEF Back
  <2> QED BY <1>0, <2>1, <2>2, <2>3
<1>2. backspace(t) = putch(s, At(s), EMPTY)
  BY DEF backspace, putch
<1> HIDE DEF s
<1>3. At(s) \in Cell
  BY <1>1, AtIsCell
<1> DEFINE r == putch(s, At(s), EMPTY)
<1>4. r \in Screen(C) /\ Kept(s, r) /\ r.buf = [s.buf EXCEPT ![At(s)] = EMPTY]
      /\ r.x = s.x /\ r.y = s.y /\ r.input = s.input
  BY <1>1, <1>3, PutchIs
<1>5. At(r) = At(s)
  BY <1>4 DEF At
<1> HIDE DEF r
<1> QED BY <1>1, <1>2, <1>4, <1>5 DEF Kept, r

LEMMA EchoBack ==
  ASSUME NEW C, EMPTY \in C, NEW t \in Screen(C), NEW line \in Seq(C), NEW ch \in C,
         Echoes(t, Append(line, ch))
  PROVE  Echoes(backspace(t), line)
<1> DEFINE n == Len(line)  a == At(t)  s == backspace(t)
<1>1. n \in Nat /\ Len(Append(line, ch)) = n + 1
      /\ \A i \in 1 .. n : Append(line, ch)[i] = line[i]
  BY AppendProperties
<1>2. a \in Cell /\ a \in Nat /\ t.buf \in [Cell -> C]
  BY AtIsCell DEF Screen
<1>3. n + 1 <= a /\ \A i \in 1 .. n + 1 : t.buf[a - (n + 1) + i - 1] = Append(line, ch)[i]
  BY <1>1 DEF Echoes
<1>4. a > 0
  BY <1>1, <1>2, <1>3
<1>5. At(s) = a - 1 /\ s.buf = [t.buf EXCEPT ![a - 1] = EMPTY]
  BY <1>4, BackIs
<1> HIDE DEF a, s, n
<1>6. ASSUME NEW i \in 1 .. n PROVE s.buf[a - 1 - n + i - 1] = line[i]
  <2>1. /\ a - 1 - n + i - 1 = a - (n + 1) + i - 1 /\ a - 1 - n + i - 1 # a - 1
        /\ a - 1 - n + i - 1 \in 0 .. a /\ i \in 1 .. n + 1
    BY <1>1, <1>2, <1>3
  <2>2. a - 1 - n + i - 1 \in Cell
    BY <1>2, <2>1, BelowIsCell
  <2> QED BY <1>1, <1>2, <1>3, <1>5, <2>1, <2>2
<1> QED BY <1>1, <1>2, <1>3, <1>5, <1>6 DEF Echoes, n, s

(* write() gives the characters to the terminal one by one, and so does    *)
(* what write() does with the screen follow from what put() does.          *)
LEMMA WriteTypes ==
  ASSUME NEW C, EMPTY \in C, NEW t \in Screen(C), NEW str \in Seq(C)
  PROVE  /\ write(t, str) \in Screen(C) /\ Kept(t, write(t, str))
         /\ write(t, str).input = t.input
<1> DEFINE n == Len(str)
<1>0. n \in Nat /\ \A i \in 1 .. n : str[i] \in C
  OBVIOUS
<1>1. PICK g : Writes(C, t, str, n, g) /\ write(t, str) = g[n]
  BY PutIs, WriteIs
<1> DEFINE G == {i \in 0 .. n : Kept(t, g[i]) /\ g[i].input = t.input}
<1>2. 0 \in G
  BY <1>0, <1>1 DEF Writes, Kept
<1>3. ASSUME NEW i \in 1 .. n, i - 1 \in G PROVE i \in G
  <2>1. g[i - 1] \in Screen(C) /\ g[i] = put(g[i - 1], str[i]) /\ str[i] \in C
    BY <1>0, <1>1 DEF Writes
  <2>2. Kept(g[i - 1], g[i]) /\ g[i].input = g[i - 1].input
    BY <2>1, PutIs
  <2> QED BY <1>3, <2>2 DEF Kept
<1>4. n \in G
  <2> HIDE DEF G, n
  <2>1. \A i \in 1 .. n : i - 1 \in G => i \in G
    BY <1>3
  <2>2. \A i \in 0 .. n : i \in G
    BY <1>0, <1>2, <2>1, UpTo
  <2> QED BY <1>0, <2>2
<1> QED BY <1>0, <1>1, <1>4 DEF Writes

LEMMA WriteOne ==
  ASSUME NEW C, EMPTY \in C, NEW t \in Screen(C), NEW ch \in C
  PROVE  write(t, <<ch>>) = put(t, ch)
<1>1. <<ch>> \in Seq(C) /\ Len(<<ch>>) = 1 /\ <<ch>>[1] = ch
  OBVIOUS
<1>2. PICK g : Writes(C, t, <<ch>>, 1, g) /\ write(t, <<ch>>) = g[1]
  BY <1>1, PutIs, WriteIs
<1>3. g[1] = put(g[1 - 1], ch) /\ g[0] = t
  BY <1>1, <1>2 DEF Writes
<1> QED BY <1>2, <1>3

(* The prompt stands in front of the cursor when it has been written.      *)
LEMMA EchoWrite ==
  ASSUME NEW C, EMPTY \in C, NEW t \in Screen(C), NEW str \in Seq(C \ {NewLine}),
         Len(str) <= Room
  PROVE  Echoes(write(t, str), str)
<1> DEFINE n == Len(str)
<1>0. /\ n \in Nat /\ n <= Room /\ str \in Seq(C)
      /\ \A i \in 1 .. n : str[i] \in C /\ str[i] # NewLine
  OBVIOUS
<1>1. PICK g : Writes(C, t, str, n, g) /\ write(t, str) = g[n]
  BY <1>0, PutIs, WriteIs
<1> DEFINE G == {i \in 0 .. n : Echoes(g[i], SubSeq(str, 1, i))}
<1>2. 0 \in G
  <2>1. SubSeq(str, 1, 0) = <<>>
    BY SubSeqEmpty
  <2>2. At(t) >= 0
    BY AtIsCell
  <2> QED BY <1>0, <1>1, <2>1, <2>2 DEF Writes, Echoes
<1>3. ASSUME NEW i \in 1 .. n, i - 1 \in G PROVE i \in G
  <2>1. g[i - 1] \in Screen(C) /\ g[i] = put(g[i - 1], str[i])
    BY <1>0, <1>1 DEF Writes
  <2>2. SubSeq(str, 1, i - 1) \in Seq(C) /\ Len(SubSeq(str, 1, i - 1)) = i - 1
    BY <1>0, SubSeqProperties
  <2>3. SubSeq(str, 1, i) = Append(SubSeq(str, 1, i - 1), str[i])
    BY <1>0, SubSeqRecursiveSecond
  <2>4. Room \in Int
    BY TerminalAssumption DEF Room
  <2>5. i - 1 + 1 <= Room
    BY <1>0, <2>4
  <2>6. Echoes(g[i - 1], SubSeq(str, 1, i - 1))
    BY <1>3
  <2>7. Echoes(put(g[i - 1], str[i]), Append(SubSeq(str, 1, i - 1), str[i]))
    BY <1>0, <2>1, <2>2, <2>5, <2>6, EchoPut
  <2>8. Echoes(g[i], SubSeq(str, 1, i))
    BY <2>1, <2>3, <2>7
  <2> QED BY <1>0, <2>8
<1>4. n \in G
  <2> HIDE DEF G, n
  <2>1. \A i \in 1 .. n : i - 1 \in G => i \in G
    BY <1>3
  <2>2. \A i \in 0 .. n : i \in G
    BY <1>0, <1>2, <2>1, UpTo
  <2> QED BY <1>0, <2>2
<1>5. SubSeq(str, 1, n) = str
  BY <1>0, SubSeqFull
<1> QED BY <1>1, <1>4, <1>5

----------------------------------------------------------------------------
(* The characters of nterm, and a terminal with its line in front of the   *)
(* cursor.                                                                 *)
Letters == Printing \X {0, 1}
Chars   == Letters \cup {EMPTY, NewLine} \cup Range(Banner) \cup Range(Prompt)

Ready(t) ==
  /\ t \in Screen(Chars) /\ Len(t.input) < InputSize
  /\ Echoes(t, Prompt \o t.input)

LEMMA PromptIs ==
  /\ Banner \in Seq(Chars) /\ Prompt \in Seq(Chars \ {NewLine}) /\ Prompt \in Seq(Chars)
  /\ Len(Prompt) \in Nat /\ Room \in Int /\ InputSize \in Nat
  /\ Len(Prompt) + InputSize - 1 <= Room /\ Len(Prompt) <= Room
  /\ EMPTY \in Chars /\ NewLine \in Chars
<1>1. Room \in Int /\ InputSize \in Nat \ {0} /\ Len(Prompt) + InputSize - 1 <= Room
  BY TerminalAssumption, NtermAssumption DEF Room
<1>2. Banner \in Seq(Range(Banner)) /\ Prompt \in Seq(Range(Prompt) \ {NewLine})
  BY NtermAssumption
<1>3. Range(Banner) \subseteq Chars /\ Range(Prompt) \ {NewLine} \subseteq Chars \ {NewLine}
  BY DEF Chars
<1>4. Banner \in Seq(Chars) /\ Prompt \in Seq(Chars \ {NewLine})
  BY <1>2, <1>3, SeqMonotonic
<1>5. Prompt \in Seq(Chars) /\ Len(Prompt) \in Nat
  BY <1>4, SeqMonotonic, LenProperties
<1> QED BY <1>1, <1>4, <1>5 DEF Chars

LEMMA PromptAnd ==
  ASSUME NEW a \in Seq(Chars), NEW b \in Seq(Chars)
  PROVE  (Prompt \o a) \o b = Prompt \o (a \o b)
BY PromptIs, ConcatAssociative

LEMMA PromptWritten ==
  ASSUME NEW t \in Screen(Chars), t.input = <<>>
  PROVE  Ready(write(t, Prompt)) /\ Kept(t, write(t, Prompt))
<1>1. /\ write(t, Prompt) \in Screen(Chars) /\ Kept(t, write(t, Prompt))
      /\ write(t, Prompt).input = <<>>
  BY PromptIs, WriteTypes
<1>2. Echoes(write(t, Prompt), Prompt)
  BY PromptIs, EchoWrite
<1>3. Prompt \o <<>> = Prompt
  BY PromptIs, ConcatEmptySeq
<1>4. Len(<<>>) < InputSize
  BY TerminalAssumption
<1> QED BY <1>1, <1>2, <1>3, <1>4 DEF Ready

LEMMA StartedIs == Ready(Started) /\ Started.dirty = Cell
<1>0. 0 \in 0 .. W - 1 /\ 0 \in 0 .. H - 1
  BY TerminalAssumption
<1>1. Terminal \in Screen(Chars) /\ Terminal.input = <<>> /\ Terminal.dirty = Cell
  BY <1>0, PromptIs DEF Terminal, Screen
<1> DEFINE t == write(Terminal, Banner)
<1>2. t \in Screen(Chars) /\ t.input = <<>> /\ Kept(Terminal, t)
  BY <1>1, PromptIs, WriteTypes
<1> HIDE DEF t
<1>3. Ready(write(t, Prompt)) /\ Kept(t, write(t, Prompt))
  BY <1>2, PromptWritten
<1>4. Started = write(t, Prompt)
  BY DEF Started, t
<1>5. Started.dirty \subseteq Cell
  BY <1>3, <1>4 DEF Ready, Screen
<1> QED BY <1>1, <1>2, <1>3, <1>4, <1>5 DEF Kept

(* A key: a letter that fits is appended, to the line and on the screen,   *)
(* and BACKSPACE takes the last one from both (term.cpp:267-301).          *)
LEMMA KeypressIs ==
  ASSUME NEW t, Ready(t), NEW ch \in Letters \cup {Nul, Backspace}
  PROVE  Ready(keypress(t, ch)) /\ Kept(t, keypress(t, ch))
<1> DEFINE line == Prompt \o t.input
<1>0. /\ t \in Screen(Chars) /\ t.input \in Seq(Chars) /\ Len(t.input) < InputSize
      /\ Len(t.input) \in Nat /\ line \in Seq(Chars) /\ Len(line) = Len(Prompt) + Len(t.input)
      /\ Echoes(t, line)
  BY PromptIs, ConcatProperties, LenProperties DEF Ready, Screen
<1> USE NtermAssumption
<1>1. ASSUME keypress(t, ch) = t PROVE Ready(keypress(t, ch)) /\ Kept(t, keypress(t, ch))
  BY <1>1 DEF Kept
<1>2. CASE ch = Nul
  BY <1>1, <1>2 DEF keypress
<1>3. CASE ch = Backspace
  <2>1. CASE t.input = <<>>
    BY <1>1, <1>3, <2>1 DEF keypress
  <2>2. CASE t.input # <<>>
    <3> DEFINE s == backspace(t)  u == [s EXCEPT !.input = Front(@)]
    <3>1. keypress(t, ch) = u
      BY <1>3, <2>2 DEF keypress
    <3>2. s \in Screen(Chars) /\ Kept(t, s) /\ s.input = t.input
      BY <1>0, PromptIs, BackIs
    <3>3. PICK rest \in Seq(Chars), last \in Chars : t.input = Append(rest, last)
      <4>1. PICK inp \in Seq(Chars) : inp = t.input
        BY <1>0
      <4>2. \E rest \in Seq(Chars), last \in Chars : inp = Append(rest, last)
        <5>1. ASSUME NEW q \in Seq(Chars), q # <<>>
              PROVE  \E rest \in Seq(Chars), last \in Chars : q = Append(rest, last)
          BY <5>1, SequenceEmptyOrAppend
        <5> QED BY <2>2, <4>1, <5>1
      <4> QED BY <4>1, <4>2
    <3>4. Len(rest) \in Nat /\ Len(t.input) = Len(rest) + 1 /\ Front(t.input) = rest
      <4>1. Len(rest) \in Nat /\ Len(t.input) = Len(rest) + 1
            /\ \A i \in 1 .. Len(rest) : t.input[i] = rest[i] /\ rest[i] \in Chars
        BY <3>3, AppendProperties, LenProperties, ElementOfSeq
      <4>2. /\ Front(t.input) \in Seq(Chars) /\ Len(Front(t.input)) = Len(rest)
            /\ \A i \in 1 .. Len(rest) : Front(t.input)[i] = t.input[i]
        <5>1. Front(t.input) = SubSeq(t.input, 1, Len(rest))
          BY <4>1 DEF Front
        <5>2. \A i \in 1 .. Len(rest) : t.input[i] \in Chars
          BY <4>1
        <5>3. 1 <= Len(rest) \/ Len(rest) = 0
          BY <4>1
        <5> QED BY <4>1, <5>1, <5>2, <5>3, SubSeqProperties
      <4> QED BY <4>1, <4>2, SeqEqual
    <3>5. line = Append(Prompt \o rest, last) /\ Prompt \o rest \in Seq(Chars)
      <4>1. Append(rest, last) = rest \o <<last>> /\ <<last>> \in Seq(Chars)
        BY <3>3, AppendIsConcat
      <4>2. Prompt \o rest \in Seq(Chars)
        BY <3>3, PromptIs, ConcatProperties
      <4>3. Append(Prompt \o rest, last) = (Prompt \o rest) \o <<last>>
        BY <3>3, <4>2, AppendIsConcat
      <4>4. (Prompt \o rest) \o <<last>> = Prompt \o (rest \o <<last>>)
        <5>1. PICK one \in Seq(Chars) : one = <<last>>
          BY <4>1
        <5>2. (Prompt \o rest) \o one = Prompt \o (rest \o one)
          BY PromptAnd
        <5> QED BY <5>1, <5>2
      <4> QED BY <3>3, <4>1, <4>2, <4>3, <4>4
    <3>6. Echoes(s, Prompt \o rest)
      <4> DEFINE short == Prompt \o rest
      <4>1. short \in Seq(Chars) /\ Echoes(t, Append(short, last))
        BY <1>0, <3>5
      <4> HIDE DEF short
      <4>2. Echoes(backspace(t), short)
        BY <1>0, <3>3, <4>1, PromptIs, EchoBack
      <4> QED BY <4>2 DEF short
    <3> HIDE DEF s
    <3>7. u \in Screen(Chars) /\ u.input = rest /\ u.buf = s.buf /\ u.dirty = s.dirty
          /\ u.x = s.x /\ u.y = s.y
      BY <3>2, <3>3, <3>4 DEF Screen
    <3> HIDE DEF u
    <3>8. Len(rest) < InputSize
      BY <1>0, <3>4, PromptIs
    <3> QED BY <3>1, <3>2, <3>6, <3>7, <3>8 DEF Ready, Kept, Echoes, At
  <2> QED BY <2>1, <2>2
<1>4. CASE ch \in Letters
  <2>0. ch # Nul /\ ch # NewLine /\ ch # Backspace /\ ch \in Chars
    BY <1>4 DEF Letters, Chars
  <2>1. CASE Len(t.input) + 1 >= InputSize
    BY <1>1, <2>0, <2>1 DEF keypress
  <2>2. CASE ~(Len(t.input) + 1 >= InputSize)
    <3> DEFINE s == put(t, ch)  u == [s EXCEPT !.input = Append(@, ch)]
    <3>1. keypress(t, ch) = u
      <4>1. write(t, <<ch>>) = s
        BY <1>0, <2>0, PromptIs, WriteOne
      <4> QED BY <2>0, <2>2, <4>1 DEF keypress
    <3>2. s \in Screen(Chars) /\ Kept(t, s) /\ s.input = t.input
      BY <1>0, <2>0, PromptIs, PutIs
    <3>3. Len(t.input) + 1 < InputSize /\ Len(line) + 1 <= Room
      BY <1>0, <2>2, PromptIs
    <3>4. Echoes(s, Append(line, ch))
      BY <1>0, <2>0, <3>3, PromptIs, EchoPut
    <3>5. /\ Append(t.input, ch) \in Seq(Chars) /\ Len(Append(t.input, ch)) < InputSize
          /\ Append(line, ch) = Prompt \o Append(t.input, ch)
      <4>1. Append(t.input, ch) = t.input \o <<ch>> /\ <<ch>> \in Seq(Chars)
        BY <1>0, <2>0, AppendIsConcat
      <4>2. Append(line, ch) = line \o <<ch>>
        BY <1>0, <2>0, AppendIsConcat
      <4>3. line \o <<ch>> = Prompt \o (t.input \o <<ch>>)
        <5>1. PICK inp \in Seq(Chars) : inp = t.input
          BY <1>0
        <5>2. PICK one \in Seq(Chars) : one = <<ch>>
          BY <4>1
        <5>3. (Prompt \o inp) \o one = Prompt \o (inp \o one)
          BY PromptAnd
        <5> QED BY <5>1, <5>2, <5>3
      <4>4. Append(t.input, ch) \in Seq(Chars) /\ Len(Append(t.input, ch)) = Len(t.input) + 1
        BY <1>0, <2>0, AppendProperties
      <4> QED BY <3>3, <4>1, <4>2, <4>3, <4>4
    <3> HIDE DEF s
    <3>6. u \in Screen(Chars) /\ u.input = Append(t.input, ch) /\ u.buf = s.buf
          /\ u.dirty = s.dirty /\ u.x = s.x /\ u.y = s.y
      BY <3>2, <3>5 DEF Screen
    <3> HIDE DEF u
    <3> QED BY <3>1, <3>2, <3>4, <3>5, <3>6 DEF Ready, Kept, Echoes, At
  <2> QED BY <2>1, <2>2
<1> QED BY <1>2, <1>3, <1>4

(* RETURN, and the prompt of the next line.                                *)
LEMMA ReturnIs ==
  ASSUME NEW t, Ready(t)
  PROVE  /\ Ready(write(keypress(t, NewLine), Prompt))
         /\ Kept(t, write(keypress(t, NewLine), Prompt))
<1> DEFINE s == put(t, NewLine)  u == [s EXCEPT !.input = <<>>]
<1>0. t \in Screen(Chars)
  BY DEF Ready
<1>1. keypress(t, NewLine) = u
  <2>1. write(t, <<NewLine>>) = s
    BY <1>0, PromptIs, WriteOne
  <2> QED BY <2>1, NtermAssumption DEF keypress
<1>2. s \in Screen(Chars) /\ Kept(t, s)
  BY <1>0, PromptIs, PutIs
<1> HIDE DEF s
<1>3. u \in Screen(Chars) /\ u.input = <<>> /\ u.buf = s.buf /\ u.dirty = s.dirty
  <2>1. PICK none \in Seq(Chars) : none = <<>>
    BY EmptySeq
  <2>2. u = [s EXCEPT !.input = none]
    BY <2>1
  <2> HIDE DEF u
  <2> QED BY <1>2, <2>1, <2>2 DEF Screen
<1> HIDE DEF u
<1>4. Ready(write(u, Prompt)) /\ Kept(u, write(u, Prompt))
  BY <1>3, PromptWritten
<1> QED BY <1>1, <1>2, <1>3, <1>4 DEF Kept

----------------------------------------------------------------------------
(* The shell has an event in its hands only between the poll that took it  *)
(* and the use of it (builtin-sh.cpp:67-76).                               *)
Loop ==
  /\ app \in [Program -> {"nterm", "other"}]
  /\ pc \in [Term -> {"poll", "event", "refresh"}]
  /\ \A p \in Term : app[p] = "nterm" /\ pc[p] # "event" => msg[p] = NONE

LEMMA LoopInit == ASSUME NtermInit PROVE Loop
BY NtermAssumption DEF NtermInit, KeyInit, Loop

(* Every step of the terminals and the programs is one of the keyboard.    *)
LEMMA KeysStep ==
  ASSUME KeyTypeOK, Loop, [NtermNext]_allVars
  PROVE  [KeyNext]_keyVars
<1> USE NtermAssumption
<1>1. ASSUME NEW p \in Program, Runs(p), Exit(p) PROVE Leaves(p)
  BY <1>1 DEF Exit, Leaves, KeyTypeOK
<1>2. ASSUME NEW p \in Term, Shell(p) PROVE [KeyNext]_keyVars
  <2>1. CASE Poll(p)
    <3>1. NDL_PollEvent(p) => Polls(p)
      BY <2>1 DEF Poll, Polls, Loop
    <3> QED BY <2>1, <3>1 DEF Poll, KeyNext
  <2>2. CASE Keypress(p)
    <3>1. Uses(p)
      BY <2>2 DEF Keypress, Uses
    <3> QED BY <3>1 DEF KeyNext
  <2>3. CASE NoSuchProgram(p)
    <3>1. Uses(p)
      BY <2>3 DEF NoSuchProgram, Uses
    <3> QED BY <3>1 DEF KeyNext
  <2>4. CASE Runnable(p)
    <3>1. Leaves(p)
      BY <2>4 DEF Runnable, EndsLine, Leaves, KeyTypeOK
    <3> QED BY <3>1 DEF KeyNext
  <2>5. CASE Poweroff(p)
    <3>1. Leaves(p)
      BY <1>1, <2>5 DEF Poweroff, EndsLine
    <3> QED BY <3>1 DEF KeyNext
  <2>6. CASE EmptyCommand(p)
    <3>1. Uses(p)
      BY <2>6 DEF EmptyCommand, Uses
    <3> QED BY <3>1 DEF KeyNext
  <2>7. CASE refresh_terminal(p)
    BY <2>7 DEF refresh_terminal
  <2> QED BY <1>2, <2>1, <2>2, <2>3, <2>4, <2>5, <2>6, <2>7 DEF Shell
<1>3. ASSUME NEW p \in Term, OtherExits(p) PROVE KeyNext
  BY <1>1, <1>3 DEF OtherExits, KeyNext
<1>4. ASSUME NEW p \in Program, OtherReads(p) PROVE KeyNext
  BY <1>4 DEF OtherReads, Polls, Uses, KeyNext
<1>5. ASSUME NEW k \in Key, Type(k) PROVE KeyNext
  BY <1>5 DEF Type, KeyNext
<1>6. CASE Outside
  BY <1>6 DEF Outside, KeyNext
<1>7. CASE PollingCall
  BY <1>7 DEF PollingCall, KeyNext
<1>8. CASE Stopped \/ UNCHANGED allVars
  BY <1>8 DEF Stopped, allVars
<1> QED BY <1>2, <1>3, <1>4, <1>5, <1>6, <1>7, <1>8 DEF NtermNext

LEMMA LoopStep ==
  ASSUME KeyTypeOK, Loop, [NtermNext]_allVars
  PROVE  Loop'
<1> USE NtermAssumption
<1>1. ASSUME UNCHANGED <<msg, ntermVars>> PROVE Loop'
  BY <1>1 DEF Loop, ntermVars
<1>2. ASSUME NEW p \in Term, Exit(p) PROVE Loop'
  <2>1. msg' = [msg EXCEPT ![p] = NONE]
    BY <1>2 DEF Exit
  <2>2. CASE UNCHANGED <<app, pc>>
    BY <2>1, <2>2 DEF Loop, KeyTypeOK
  <2>3. CASE app' = [app EXCEPT ![p] = "nterm"] /\ pc' = [pc EXCEPT ![p] = "poll"]
    BY <2>1, <2>3 DEF Loop, KeyTypeOK
  <2> QED BY <1>2, <2>2, <2>3 DEF Exit, ntermVars
<1>3. ASSUME NEW p \in Term, Shell(p) PROVE Loop'
  <2>1. CASE Poll(p)
    <3>1. CASE NDL_PollEvent(p) /\ pc' = [pc EXCEPT ![p] = "event"]
      BY <2>1, <3>1 DEF Poll, NDL_PollEvent, Loop, KeyTypeOK
    <3>2. CASE UNCHANGED keyVars /\ pc' = [pc EXCEPT ![p] = "refresh"]
      BY <2>1, <3>2 DEF Poll, Loop, keyVars, appVars
    <3> QED BY <2>1, <3>1, <3>2 DEF Poll
  <2>2. CASE Keypress(p) \/ NoSuchProgram(p)
    BY <2>2 DEF Keypress, NoSuchProgram, UseEvent, Loop, KeyTypeOK
  <2>3. CASE Runnable(p)
    BY <2>3 DEF Runnable, Loop, KeyTypeOK
  <2>4. CASE Poweroff(p)
    BY <1>2, <2>4 DEF Poweroff
  <2>5. CASE EmptyCommand(p)
    BY <2>5 DEF EmptyCommand, UseEvent, Loop, ntermVars, KeyTypeOK
  <2>6. CASE refresh_terminal(p)
    BY <2>6 DEF refresh_terminal, Loop, keyVars, appVars
  <2> QED BY <1>3, <2>1, <2>2, <2>3, <2>4, <2>5, <2>6 DEF Shell
<1>4. ASSUME NEW p \in Term, OtherExits(p) PROVE Loop'
  BY <1>2, <1>4 DEF OtherExits
<1>5. ASSUME NEW p \in Program, OtherReads(p) PROVE Loop'
  BY <1>5 DEF OtherReads, NDL_PollEvent, UseEvent, Loop, ntermVars, KeyTypeOK
<1>6. ASSUME NEW k \in Key, Type(k) PROVE Loop'
  BY <1>1, <1>6 DEF Type, Press, Post, appVars
<1>7. CASE Outside
  <2>1. UNCHANGED msg
    BY <1>7 DEF Outside, Release, CloseWindow, Post, device_update, sdb_mainloop, schedule, appVars
  <2> QED BY <1>1, <1>7, <2>1 DEF Outside
<1>8. CASE PollingCall
  BY <1>1, <1>8 DEF PollingCall, schedule, appVars
<1>9. CASE Stopped \/ UNCHANGED allVars
  BY <1>1, <1>9 DEF Stopped, allVars, keyVars, appVars
<1> QED BY <1>3, <1>4, <1>5, <1>6, <1>7, <1>8, <1>9 DEF NtermNext

----------------------------------------------------------------------------
LEMMA KeysAlways == NtermSpec => [](KeyInv /\ Loop)
<1>1. NtermInit => KeyInv /\ Loop
  BY LoopInit, TrackedInit DEF NtermInit
<1>2. KeyInv /\ Loop /\ [NtermNext]_allVars => KeyInv' /\ Loop'
  BY LoopStep, KeysStep, TrackedStep DEF KeyInv
<1> QED BY <1>1, <1>2, PTL DEF NtermSpec

(* What a program believes of a key is true.                               *)
THEOREM KeyStateCorrect == NtermSpec => []KeyStateTrue
<1>1. KeyInv => KeyStateTrue
  BY TrackedIsTrue
<1> QED BY <1>1, KeysAlways, PTL

(* The keyboard and its readers are a queue.                               *)
THEOREM KeyboardIsQueue == NtermSpec => Implements
<1>1. NtermInit => Queue!Init
  BY QueueInit DEF NtermInit
<1>2. KeyInv /\ Loop /\ [NtermNext]_allVars => [Queue!Next]_<<Waiting, Got, Up>>
  BY KeysStep, QueueStep DEF KeyInv
<1>3. KeyInv /\ Loop /\ [NtermNext]_allVars =>
        [Queue!Next]_<<Waiting, [r \in Readers |-> IF r = Scheduler THEN ev_buf ELSE msg[r]],
                       nemu_state # "ABORT">>
  BY <1>2 DEF Got, Up
<1> QED BY <1>1, <1>3, KeysAlways, PTL DEF NtermSpec, Implements, Queue!Spec

----------------------------------------------------------------------------
(* Every terminal is ready for a key, and what is not dirty is on the      *)
(* screen as it is in the terminal.                                        *)
Drawn(t, s) == \A c \in Cell \ t.dirty : s[c] = t.buf[c]

Screens ==
  /\ shift \in [Term -> {0, 1}] /\ chosen \in Program
  /\ DOMAIN term = Term /\ DOMAIN shown = Term
  /\ \A p \in Term : /\ Ready(term[p]) /\ Drawn(term[p], shown[p])
                     /\ DOMAIN shown[p] = Cell

LEMMA ScreensInit == ASSUME NtermInit PROVE Screens
BY StartedIs, KeyAssumption DEF NtermInit, Screens, Drawn

(* What a step does with the terminal of p, if anything.                   *)
LEMMA TermChanges ==
  ASSUME Screens, NEW p \in Term, NEW t, NEW s, Ready(t), Drawn(t, s), DOMAIN s = Cell,
         term' = [term EXCEPT ![p] = t], shown' = [shown EXCEPT ![p] = s],
         shift' \in [Term -> {0, 1}], chosen' \in Program
  PROVE  Screens'
BY DEF Screens

LEMMA KeptIsDrawn ==
  ASSUME NEW t, NEW u, NEW s, Drawn(t, s), Kept(t, u)
  PROVE  Drawn(u, s)
BY DEF Drawn, Kept

LEMMA ClearIs ==
  ASSUME NEW t, Ready(t)
  PROVE  /\ Ready(clear(t)) /\ Drawn(clear(t), [t.buf EXCEPT ![At(t)] = Cursor])
         /\ clear(t).buf = t.buf /\ clear(t).dirty = {At(t)}
<1>1. t \in Screen(Chars) /\ At(t) \in Cell
  BY AtIsCell DEF Ready
<1> DEFINE u == [t EXCEPT !.dirty = {At(t)}]
<1>2. clear(t) = u
  BY DEF clear
<1>3. /\ u \in Screen(Chars) /\ u.buf = t.buf /\ u.dirty = {At(t)} /\ u.input = t.input
      /\ u.x = t.x /\ u.y = t.y
  BY <1>1 DEF Screen
<1> HIDE DEF u
<1>4. Ready(u)
  BY <1>3 DEF Ready, Echoes, At
<1>5. t.buf \in [Cell -> Chars]
  BY <1>1 DEF Screen
<1> QED BY <1>1, <1>2, <1>3, <1>4, <1>5 DEF Drawn

(* What refresh_terminal() draws: the characters and the cursor.           *)
LEMMA RefreshedIs ==
  ASSUME NEW t, Ready(t), NEW s, Drawn(t, s), DOMAIN s = Cell
  PROVE  Refreshed(t, s) = [t.buf EXCEPT ![At(t)] = Cursor]
<1>1. t \in Screen(Chars) /\ At(t) \in Cell
  BY AtIsCell DEF Ready
<1>2. DOMAIN t.buf = Cell /\ t.buf = [c \in Cell |-> t.buf[c]]
  BY <1>1 DEF Screen
<1> QED BY <1>1, <1>2 DEF Refreshed, Drawn

LEMMA ScreensStep ==
  ASSUME KeyTypeOK, Loop, Screens, [NtermNext]_allVars
  PROVE  Screens'
<1> USE NtermAssumption
<1>1. ASSUME UNCHANGED <<term, shift, shown>>, chosen' \in Program PROVE Screens'
  BY <1>1 DEF Screens
<1>2. chosen \in Program
  BY DEF Screens
<1>3. ASSUME NEW p \in Term, Exit(p) PROVE Screens'
  <2>1. CASE UNCHANGED ntermVars /\ UNCHANGED userVars
    BY <1>1, <1>2, <2>1 DEF ntermVars, userVars
  <2>2. CASE /\ term' = [term EXCEPT ![p] = Started] /\ shift' = [shift EXCEPT ![p] = 0]
             /\ shown' = [shown EXCEPT ![p] = [c \in Cell |-> EMPTY]]
             /\ UNCHANGED chosen
    <3>1. Drawn(Started, [c \in Cell |-> EMPTY])
      BY StartedIs DEF Drawn
    <3>2. shift' \in [Term -> {0, 1}]
      BY <2>2 DEF Screens
    <3> QED BY <1>2, <2>2, <3>1, <3>2, StartedIs, TermChanges
  <2> QED BY <1>3, <2>1, <2>2 DEF Exit
<1>4. ASSUME NEW p \in Term, NEW t, Ready(t), Kept(term[p], t),
             term' = [term EXCEPT ![p] = t], UNCHANGED <<shown, chosen>>,
             shift' \in [Term -> {0, 1}]
      PROVE  Screens'
  <2>1. Drawn(t, shown[p])
    BY <1>4, KeptIsDrawn DEF Screens
  <2> QED BY <1>2, <1>4, <2>1 DEF Screens
<1>5. ASSUME NEW p \in Term, Shell(p) PROVE Screens'
  <2>1. Ready(term[p]) /\ Drawn(term[p], shown[p]) /\ DOMAIN shown[p] = Cell
        /\ shift[p] \in {0, 1}
    BY DEF Screens
  <2>2. CASE Poll(p)
    BY <1>1, <1>2, <2>2 DEF Poll, userVars
  <2>3. CASE Keypress(p)
    <3>1. /\ handle_key(p) # NewLine /\ Shifted(p) /\ UNCHANGED <<shown, chosen>>
          /\ term' = [term EXCEPT ![p] = keypress(term[p], handle_key(p))]
      BY <2>3 DEF Keypress, userVars
    <3>2. handle_key(p) \in Letters \cup {Nul, Backspace}
      BY <2>1, <3>1 DEF handle_key, Char, Letters
    <3>3. shift' \in [Term -> {0, 1}]
      BY <2>1, <3>1 DEF Shifted, Screens
    <3> QED BY <1>4, <2>1, <3>1, <3>2, <3>3, KeypressIs
  <2>4. CASE NoSuchProgram(p)
    <3>1. /\ UNCHANGED <<shift, shown, chosen>>
          /\ term' = [term EXCEPT ![p] = write(keypress(term[p], NewLine), Prompt)]
      BY <2>4 DEF NoSuchProgram, userVars
    <3>2. shift' \in [Term -> {0, 1}]
      BY <3>1 DEF Screens
    <3> QED BY <1>4, <2>1, <3>1, <3>2, ReturnIs
  <2>5. CASE Runnable(p)
    BY <1>1, <1>2, <2>5 DEF Runnable, userVars
  <2>6. CASE Poweroff(p)
    BY <1>3, <2>6 DEF Poweroff
  <2>7. CASE EmptyCommand(p)
    BY <1>1, <1>2, <2>7 DEF EmptyCommand, ntermVars, userVars
  <2>8. CASE refresh_terminal(p)
    <3>1. /\ shown' = [shown EXCEPT ![p] = Refreshed(term[p], shown[p])]
          /\ term' = [term EXCEPT ![p] = clear(term[p])] /\ UNCHANGED <<shift, chosen>>
      BY <2>8 DEF refresh_terminal, userVars
    <3>2. Refreshed(term[p], shown[p]) = [term[p].buf EXCEPT ![At(term[p])] = Cursor]
      BY <2>1, RefreshedIs
    <3>3. Ready(clear(term[p])) /\ Drawn(clear(term[p]), Refreshed(term[p], shown[p]))
      BY <2>1, <3>2, ClearIs
    <3>4. DOMAIN Refreshed(term[p], shown[p]) = Cell
      BY DEF Refreshed
    <3>5. shift' \in [Term -> {0, 1}]
      BY <3>1 DEF Screens
    <3> QED BY <1>2, <3>1, <3>3, <3>4, <3>5, TermChanges
  <2> QED BY <1>5, <2>2, <2>3, <2>4, <2>5, <2>6, <2>7, <2>8 DEF Shell
<1>6. ASSUME NEW p \in Term, OtherExits(p) PROVE Screens'
  BY <1>3, <1>6 DEF OtherExits
<1>7. ASSUME NEW p \in Program, OtherReads(p) PROVE Screens'
  BY <1>1, <1>2, <1>7 DEF OtherReads, ntermVars, userVars
<1>8. ASSUME NEW k \in Key, Type(k) PROVE Screens'
  BY <1>1, <1>2, <1>8, KeyAssumption DEF Type, ntermVars
<1>9. CASE Outside \/ PollingCall
  BY <1>1, <1>2, <1>9 DEF Outside, PollingCall, ntermVars, userVars
<1>10. CASE Stopped \/ UNCHANGED allVars
  BY <1>1, <1>2, <1>10 DEF Stopped, allVars, ntermVars, userVars
<1> QED BY <1>5, <1>6, <1>7, <1>8, <1>9, <1>10 DEF NtermNext

LEMMA NtermAlways == NtermSpec => [](KeyInv /\ Loop /\ Screens)
<1>1. NtermInit => Screens
  BY ScreensInit
<1>2. KeyInv /\ Loop /\ Screens /\ [NtermNext]_allVars => Screens'
  BY ScreensStep DEF KeyInv
<1> QED BY <1>1, <1>2, KeysAlways, PTL DEF NtermSpec

(* Types, with the cursor on the screen and the line in its buffer.        *)
THEOREM NtermTypes == NtermSpec => []TypeOK
<1>1. KeyInv /\ Loop /\ Screens => TypeOK
  <2> SUFFICES ASSUME KeyInv, Loop, Screens PROVE TypeOK
    OBVIOUS
  <2>1. ASSUME NEW p \in Term
        PROVE  /\ term[p].x \in 0 .. W - 1 /\ term[p].y \in 0 .. H - 1
               /\ DOMAIN term[p].buf = Cell /\ term[p].dirty \subseteq Cell
               /\ Len(term[p].input) < InputSize /\ DOMAIN shown[p] = Cell
    BY DEF Screens, Ready, Screen
  <2> QED BY <2>1 DEF KeyInv, Loop, Screens, TypeOK
<1> QED BY <1>1, NtermAlways, PTL

(* The prompt and the line stand on the screen in front of the cursor.     *)
THEOREM EchoCorrect == NtermSpec => []EchoOnScreen
<1>1. Screens => EchoOnScreen
  <2> SUFFICES ASSUME Screens, NEW p \in Term
               PROVE  LET t == term[p]
                          line == Prompt \o t.input
                          first == At(t) - Len(line)
                      IN  first >= 0 /\ \A i \in DOMAIN line : t.buf[first + i - 1] = line[i]
    BY DEF EchoOnScreen
  <2> DEFINE t == term[p]  line == Prompt \o t.input
  <2>1. t \in Screen(Chars) /\ Echoes(t, line)
    BY DEF Screens, Ready
  <2>2. t.input \in Seq(Chars)
    BY <2>1 DEF Screen
  <2>3. line \in Seq(Chars)
    BY <2>2, PromptIs, ConcatProperties
  <2>4. DOMAIN line = 1 .. Len(line) /\ Len(line) \in Nat /\ At(t) \in Nat
    BY <2>1, <2>3, LenProperties, AtIsCell
  <2> HIDE DEF t, line
  <2>5. At(t) - Len(line) >= 0 /\ \A i \in DOMAIN line : t.buf[At(t) - Len(line) + i - 1] = line[i]
    BY <2>1, <2>4 DEF Echoes
  <2> QED BY <2>5 DEF t, line
<1> QED BY <1>1, NtermAlways, PTL

(* What nterm has drawn is what its terminal holds, and the cursor.        *)
THEOREM RefreshCorrect == NtermSpec => RefreshShows
<1> DEFINE Shows == \A p \in Term : pc[p] = "refresh" /\ pc'[p] = "poll" /\ app'[p] = app[p] =>
                      shown'[p] = [term[p].buf EXCEPT ![At(term[p])] = Cursor]
<1>1. ASSUME Loop, Screens, [NtermNext]_allVars PROVE Shows
  <2> SUFFICES ASSUME NEW p \in Term, pc[p] = "refresh", pc'[p] = "poll", app'[p] = app[p]
               PROVE  shown'[p] = [term[p].buf EXCEPT ![At(term[p])] = Cursor]
    OBVIOUS
  <2>1. ASSUME UNCHANGED pc PROVE FALSE
    BY <2>1
  <2>2. ASSUME NEW q \in Term, Exit(q), app[q] = "other" \/ pc[q] = "event" PROVE FALSE
    BY <1>1, <2>1, <2>2, NtermAssumption DEF Exit, Loop, ntermVars
  <2>3. ASSUME NEW q \in Term, Shell(q) PROVE refresh_terminal(p)
    <3>1. CASE Poll(q)
      BY <1>1, <3>1 DEF Poll, Loop
    <3>2. CASE Keypress(q) \/ NoSuchProgram(q)
      BY <1>1, <3>2 DEF Keypress, NoSuchProgram, EndsLine, Loop
    <3>3. CASE Runnable(q) \/ EmptyCommand(q)
      BY <2>1, <3>3 DEF Runnable, EmptyCommand, ntermVars
    <3>4. CASE Poweroff(q)
      BY <1>1, <2>2, <3>4 DEF Poweroff, EndsLine
    <3>5. CASE refresh_terminal(q)
      BY <1>1, <3>5 DEF refresh_terminal, Loop
    <3> QED BY <2>3, <3>1, <3>2, <3>3, <3>4, <3>5 DEF Shell
  <2>4. refresh_terminal(p)
    BY <1>1, <2>1, <2>2, <2>3 DEF NtermNext, Type, Outside, PollingCall, OtherExits, OtherReads, Stopped,
                            allVars, ntermVars
  <2>5. shown'[p] = Refreshed(term[p], shown[p])
    BY <1>1, <2>4 DEF refresh_terminal, Screens
  <2> QED BY <1>1, <2>5, RefreshedIs DEF Screens
<1>2. KeyInv /\ Loop /\ Screens /\ [NtermNext]_allVars => [Shows]_allVars
  BY <1>1
<1> QED BY <1>2, NtermAlways, PTL DEF NtermSpec, RefreshShows
----------------------------------------------------------------------------
(* From the keys to the line.  Every event on its way is one step from the *)
(* line, the shift and the foreground that nterm has to those the user     *)
(* means.                                                                  *)

(* What an event makes of the line of p, the toggle of its shift and the   *)
(* program in front, if it goes to the program in front at the time.  Keys *)
(* that NEMU does not know never arrive.                                   *)
LineAfter(line, s, e) ==
  Edited(line, IF e.down /\ e.key \notin Modifier THEN Char(e.key, s) ELSE Nul)

ShiftAfter(s, e) == IF e.key \in Modifier THEN 1 - s ELSE s

FrontAfter(f, e) == IF FunctionDown(e) THEN Foreground[e.key] ELSE f

State(line, s, f) == [line |-> line, shift |-> s, front |-> f]

After(p, v, e) ==
  IF e \notin Event \/ e.key \notin Mapped THEN v
  ELSE State(IF v.front = p THEN LineAfter(v.line, v.shift, e) ELSE v.line,
             ShiftAfter(v.shift, e), FrontAfter(v.front, e))

(* What the events of s make of a, one after the other, is b.              *)
Leads(p, s, a, b) ==
  \E r : /\ r[0] = a /\ r[Len(s)] = b
         /\ \A i \in 1 .. Len(s) : r[i] = After(p, r[i - 1], s[i])

(* First the events w in the ring, then those of the host, h.              *)
Joins(p, w, h, a, b) == \E v : Leads(p, w, a, v) /\ Leads(p, h, v, b)

LEMMA LeadsEmpty == ASSUME NEW p, NEW a PROVE Leads(p, <<>>, a, a)
<1>1. Len(<<>>) = 0 /\ 1 .. 0 = {}
  OBVIOUS
<1>2. [i \in {0} |-> a][0] = a
  OBVIOUS
<1> QED BY <1>1, <1>2 DEF Leads

LEMMA LeadsAppend ==
  ASSUME NEW S, NEW s \in Seq(S), NEW e \in S, NEW p, NEW a, NEW b, Leads(p, s, a, b)
  PROVE  Leads(p, Append(s, e), a, After(p, b, e))
<1> DEFINE n == Len(s)
<1>1. n \in Nat /\ Len(Append(s, e)) = n + 1 /\ Append(s, e)[n + 1] = e
      /\ \A i \in 1 .. n : Append(s, e)[i] = s[i]
  BY AppendProperties, LenProperties
<1>2. PICK r : r[0] = a /\ r[n] = b /\ \A i \in 1 .. n : r[i] = After(p, r[i - 1], s[i])
  BY DEF Leads
<1> HIDE DEF n
<1> DEFINE q == [i \in 0 .. n + 1 |-> IF i = n + 1 THEN After(p, b, e) ELSE r[i]]
<1>3. q[n + 1] = After(p, b, e) /\ \A i \in 0 .. n : q[i] = r[i]
  BY <1>1
<1> HIDE DEF q
<1>4. q[0] = a /\ q[n] = b
  BY <1>1, <1>2, <1>3
<1>5. ASSUME NEW i \in 1 .. n + 1 PROVE q[i] = After(p, q[i - 1], Append(s, e)[i])
  <2>1. CASE i = n + 1
    <3>1. i - 1 = n
      BY <1>1, <2>1
    <3> QED BY <1>1, <1>3, <1>4, <2>1, <3>1
  <2>2. CASE i # n + 1
    <3>1. i \in 1 .. n /\ i \in 0 .. n /\ i - 1 \in 0 .. n
      BY <1>1, <2>2
    <3> QED BY <1>1, <1>2, <1>3, <3>1
  <2> QED BY <2>1, <2>2
<1> QED BY <1>1, <1>3, <1>4, <1>5 DEF Leads

LEMMA LeadsTail ==
  ASSUME NEW S, NEW s \in Seq(S), s # <<>>, NEW p, NEW a, NEW b, Leads(p, s, a, b)
  PROVE  Leads(p, Tail(s), After(p, a, Head(s)), b)
<1> DEFINE n == Len(s)
<1>1. /\ n \in Nat /\ n >= 1 /\ Len(Tail(s)) = n - 1 /\ Head(s) = s[1]
      /\ \A i \in 1 .. n - 1 : Tail(s)[i] = s[i + 1]
  <2>1. Tail(s) \in Seq(S) /\ Len(Tail(s)) = n - 1
        /\ \A i \in 1 .. Len(Tail(s)) : Tail(s)[i] = s[i + 1]
    BY HeadTailProperties
  <2>2. n \in Nat /\ n # 0
    BY EmptySeq, LenProperties
  <2> QED BY <2>1, <2>2
<1>2. PICK r : r[0] = a /\ r[n] = b /\ \A i \in 1 .. n : r[i] = After(p, r[i - 1], s[i])
  BY DEF Leads
<1> HIDE DEF n
<1> DEFINE q == [i \in 0 .. n - 1 |-> r[i + 1]]
<1>3. \A i \in 0 .. n - 1 : q[i] = r[i + 1]
  OBVIOUS
<1> HIDE DEF q
<1>4. q[0] = After(p, a, Head(s))
  <2>1. q[0] = r[0 + 1] /\ 0 + 1 = 1 /\ 1 - 1 = 0 /\ 1 \in 1 .. n
    BY <1>1, <1>3
  <2>2. r[1] = After(p, r[1 - 1], s[1])
    BY <1>2, <2>1
  <2> QED BY <1>1, <1>2, <2>1, <2>2
<1>5. q[n - 1] = b
  <2>1. n - 1 \in 0 .. n - 1 /\ n - 1 + 1 = n
    BY <1>1
  <2> QED BY <1>2, <1>3, <2>1
<1>6. ASSUME NEW i \in 1 .. n - 1 PROVE q[i] = After(p, q[i - 1], Tail(s)[i])
  <2>1. i + 1 \in 1 .. n /\ i \in 0 .. n - 1 /\ i - 1 \in 0 .. n - 1
        /\ i - 1 + 1 = i /\ i + 1 - 1 = i
    BY <1>1
  <2>2. r[i + 1] = After(p, r[i], s[i + 1])
    <3>1. r[i + 1] = After(p, r[i + 1 - 1], s[i + 1])
      BY <1>2, <2>1
    <3> QED BY <2>1, <3>1
  <2>3. q[i] = r[i + 1] /\ q[i - 1] = r[i]
    <3>1. q[i - 1] = r[i - 1 + 1]
      BY <1>3, <2>1
    <3> QED BY <1>3, <2>1, <3>1
  <2> QED BY <1>1, <2>2, <2>3
<1> QED BY <1>1, <1>4, <1>5, <1>6 DEF Leads

(* The steps of the two queues.                                            *)
LEMMA JoinsSteps ==
  ASSUME NEW S, NEW w \in Seq(S), NEW T, NEW h \in Seq(T), NEW p, NEW a, NEW b, Joins(p, w, h, a, b)
  PROVE  /\ \A e \in T : Joins(p, w, Append(h, e), a, After(p, b, e))
         /\ w # <<>> => Joins(p, Tail(w), h, After(p, a, Head(w)), b)
         /\ h # <<>> /\ Head(h) \in S => Joins(p, Append(w, Head(h)), Tail(h), a, b)
         /\ h # <<>> /\ (Head(h) \notin Event \/ Head(h).key \notin Mapped)
              => Joins(p, w, Tail(h), a, b)
<1>1. PICK v : Leads(p, w, a, v) /\ Leads(p, h, v, b)
  BY DEF Joins
<1>2. \A e \in T : Joins(p, w, Append(h, e), a, After(p, b, e))
  BY <1>1, LeadsAppend DEF Joins
<1>3. ASSUME w # <<>> PROVE Joins(p, Tail(w), h, After(p, a, Head(w)), b)
  BY <1>1, <1>3, LeadsTail DEF Joins
<1>4. ASSUME h # <<>>, Head(h) \in S PROVE Joins(p, Append(w, Head(h)), Tail(h), a, b)
  <2>1. Leads(p, Append(w, Head(h)), a, After(p, v, Head(h)))
    BY <1>1, <1>4, LeadsAppend
  <2>2. Leads(p, Tail(h), After(p, v, Head(h)), b)
    BY <1>1, <1>4, LeadsTail
  <2> QED BY <2>1, <2>2 DEF Joins
<1>5. ASSUME h # <<>>, Head(h) \notin Event \/ Head(h).key \notin Mapped
      PROVE  Joins(p, w, Tail(h), a, b)
  <2>1. Leads(p, Tail(h), After(p, v, Head(h)), b)
    BY <1>1, <1>5, LeadsTail
  <2>2. After(p, v, Head(h)) = v
    BY <1>5 DEF After
  <2> QED BY <1>1, <2>1, <2>2 DEF Joins
<1> QED BY <1>2, <1>3, <1>4, <1>5

LEMMA EditedIs ==
  ASSUME NEW l
  PROVE  Edited(l, Nul) = l /\ Edited(l, NewLine) = <<>>
<1>1. Nul # NewLine /\ NewLine # Backspace /\ Nul # Backspace
  BY NtermAssumption
<1>2. Edited(l, Nul) = l
  BY <1>1, Zenon DEF Edited
<1>3. Edited(l, NewLine) = <<>>
  BY <1>1, SMT DEF Edited
<1> QED BY <1>2, <1>3

(* A key that types nothing.                                               *)
LEMMA CharIs ==
  ASSUME NEW k, NEW s, k \notin Printing \cup {Return, Erase}
  PROVE  Char(k, s) = Nul
BY DEF Char

(* No key that is not known to NEMU types, shifts or chooses.              *)
LEMMA AfterIs ==
  ASSUME NEW p, NEW l, NEW s, NEW f, NEW e \in Event
  PROVE  After(p, State(l, s, f), e)
           = State(IF f = p THEN LineAfter(l, s, e) ELSE l, ShiftAfter(s, e), FrontAfter(f, e))
<1>1. CASE e.key \in Mapped
  BY <1>1 DEF After, State
<1>2. CASE e.key \notin Mapped
  <2>1. Char(e.key, s) = Nul /\ e.key \notin Modifier /\ e.key \notin DOMAIN Foreground
    BY <1>2, NtermAssumption, KeyAssumption, CharIs
  <2>2. LineAfter(l, s, e) = l
    BY <2>1, EditedIs DEF LineAfter
  <2>3. ShiftAfter(s, e) = s /\ FrontAfter(f, e) = f
    BY <2>1 DEF ShiftAfter, FrontAfter, FunctionDown
  <2>4. After(p, State(l, s, f), e) = State(l, s, f)
    BY <1>2 DEF After
  <2> QED BY <2>2, <2>3, <2>4
<1> QED BY <1>1, <1>2
----------------------------------------------------------------------------
(* What nterm has, with the event in its hands, and what the user means.   *)
Now(p) ==
  State(IF msg[p] = NONE THEN term[p].input ELSE LineAfter(term[p].input, shift[p], msg[p]),
        IF msg[p] = NONE THEN shift[p] ELSE ShiftAfter(shift[p], msg[p]),
        fg_pcb)

(* handle_key() toggles with every shift key that moves.                   *)
Parity == Cardinality(held \cap Modifier) % 2

Meant(l) == State(l, Parity, chosen)

Listening(p) == nemu_state \in {"RUNNING", "QUIT"} /\ app[p] = "nterm" /\ p \notin missed

(* The events on their way lead from what nterm has to a line l and to the *)
(* shift and the foreground of the user; l is the line the user means, if  *)
(* none of it was typed with two shift keys.                               *)
Typed(p, l) == Joins(p, Waiting, host, Now(p), Meant(l))

AsMeant(p, l) == p \notin both => l = meant[p]

(* The program in front runs, or the background.                           *)
InFront ==
  /\ current \in {0, fg_pcb}
  /\ FunctionDown(ev_buf) => fg_pcb = Foreground[ev_buf.key]

Typing ==
  /\ InFront /\ DOMAIN meant = Term
  /\ \A p \in Term : Listening(p) => \E l : Typed(p, l) /\ AsMeant(p, l)

(* What follows from the invariant for a terminal that listens.            *)
LEMMA ListenerIs ==
  ASSUME KeyInv, Screens, NEW p \in Term, Listening(p)
  PROVE  /\ p \in Program /\ KeyTypeOK
         /\ Waiting \in Seq(Item) /\ host \in Seq(Event \cup {Window})
         /\ \A i \in DOMAIN Waiting : Waiting[i] \in Event
         /\ Ready(term[p])
BY NtermAssumption, WaitingIs DEF KeyInv, AllTracked, KeyTypeOK, Listening, Screens

(* Nothing happens to this terminal.                                       *)
LEMMA TypedStays ==
  ASSUME NEW p, NEW l, Typed(p, l), UNCHANGED <<ring, host, held, fg_pcb, chosen>>,
         msg'[p] = msg[p], term'[p].input = term[p].input, shift'[p] = shift[p]
  PROVE  Typed(p, l)'
<1>1. Waiting' = Waiting
  BY RingStays
<1> QED BY <1>1 DEF Typed, Now, Meant, Parity

(* The user.                                                               *)
LEMMA TypedPost ==
  ASSUME KeyInv, Screens, Typing, NEW p \in Term, Listening(p), NEW l, Typed(p, l), NEW e \in Event \cup {Window}, Post(e),
         UNCHANGED ntermVars,
         NEW m, Meant(m)' = After(p, Meant(l), e)
  PROVE  Typed(p, m)'
<1>1. UNCHANGED <<ring, kernel, msg>> /\ host' = Append(host, e)
  BY DEF Post, appVars
<1>2. Waiting' = Waiting
  BY <1>1, RingStays
<1>3. Now(p)' = Now(p)
  BY <1>1 DEF Now, ntermVars, kernel
<1>4. Joins(p, Waiting, Append(host, e), Now(p), After(p, Meant(l), e))
  BY ListenerIs, JoinsSteps DEF Typed
<1> QED BY <1>1, <1>2, <1>3, <1>4 DEF Typed

(* The shift keys, and their parity.                                       *)
LEMMA ParityIs ==
  /\ held \cap Modifier = {} => Parity = 0 /\ ShiftHeld = 0
  /\ ~TwoShifted => Parity = ShiftHeld
<1>1. IsFiniteSet(held \cap Modifier)
  BY KeyAssumption, FS_Intersection
<1>2. ASSUME held \cap Modifier = {} PROVE Parity = 0 /\ ShiftHeld = 0
  <2>1. Cardinality(held \cap Modifier) = 0
    BY <1>2, FS_EmptySet
  <2> QED BY <1>2, <2>1 DEF Parity, ShiftHeld
<1>3. ASSUME held \cap Modifier # {}, ~TwoShifted PROVE Parity = 1 /\ ShiftHeld = 1
  <2>1. PICK k : held \cap Modifier = {k}
    BY <1>3 DEF TwoShifted
  <2>2. Cardinality(held \cap Modifier) = 1
    BY <2>1, FS_Singleton
  <2> QED BY <1>3, <2>2 DEF Parity, ShiftHeld
<1> QED BY <1>2, <1>3

LEMMA ShiftIs ==
  ASSUME NEW k \in Key,
         \/ (k \notin held \/ k \in Repeating) /\ held' = held \cup {k}
         \/ k \in held /\ held' = held \ {k}
  PROVE  Parity' = IF k \in Modifier THEN 1 - Parity ELSE Parity
<1> DEFINE S == held \cap Modifier
<1>0. IsFiniteSet(S) /\ Cardinality(S) \in Nat
  BY KeyAssumption, FS_Intersection, FS_CardinalityType
<1>1. CASE k \notin Modifier
  <2>1. held' \cap Modifier = held \cap Modifier
    BY <1>1
  <2> QED BY <1>1, <2>1 DEF Parity
<1>2. CASE k \in Modifier /\ k \notin held /\ held' = held \cup {k}
  <2>1. held' \cap Modifier = S \cup {k} /\ k \notin S
    BY <1>2
  <2>2. Cardinality(held' \cap Modifier) = Cardinality(S) + 1
    <3> HIDE DEF S
    <3>1. Cardinality(S \cup {k}) = IF k \in S THEN Cardinality(S) ELSE Cardinality(S) + 1
      BY <1>0, FS_AddElement
    <3> QED BY <2>1, <3>1, Zenon
  <2> QED BY <1>0, <1>2, <2>2 DEF Parity
<1>3. CASE k \in Modifier /\ k \in held /\ held' = held \ {k}
  <2>1. held' \cap Modifier = S \ {k} /\ k \in S
    BY <1>3
  <2>2. Cardinality(held' \cap Modifier) = Cardinality(S) - 1
    <3> HIDE DEF S
    <3>1. Cardinality(S \ {k}) = IF k \in S THEN Cardinality(S) - 1 ELSE Cardinality(S)
      BY <1>0, FS_RemoveElement
    <3> QED BY <2>1, <3>1, Zenon
  <2>3. Cardinality(S) # 0
    <3>1. Cardinality(S) = 0 <=> S = {}
      BY <1>0, FS_EmptySet
    <3> QED BY <2>1, <3>1
  <2> QED BY <1>0, <1>3, <2>2, <2>3 DEF Parity
<1> QED BY <1>1, <1>2, <1>3, KeyAssumption

LEMMA TypedType ==
  ASSUME KeyInv, Screens, Typing, NEW p \in Term, Listening(p), NEW l, Typed(p, l), AsMeant(p, l),
         NEW k \in Key, Type(k)
  PROVE  \E m : Typed(p, m)' /\ AsMeant(p, m)'
<1> DEFINE e == [key |-> k, down |-> TRUE]
<1>0. PICK m : m = IF chosen = p THEN LineAfter(l, Parity, e) ELSE l
  OBVIOUS
<1>1. e \in Event /\ e.key = k /\ e.down /\ e # NONE
  <2>1. e \in Event /\ e.key = k /\ e.down
    BY DEF Event
  <2> QED BY <2>1, KeyAssumption
<1>2. Press(k) /\ Post(e) /\ UNCHANGED ntermVars
  BY DEF Type, Press
<1>3. ShiftAfter(Parity, e) = Parity'
  BY <1>1, <1>2, ShiftIs DEF Press, ShiftAfter
<1>4. FrontAfter(chosen, e) = chosen'
  BY <1>1 DEF Type, FrontAfter, FunctionDown
<1>5. LineAfter(l, Parity, e) = Edited(l, Char(k, Parity))
  <2>1. k \in Modifier => Char(k, Parity) = Nul
    BY NtermAssumption, CharIs
  <2> QED BY <1>1, <2>1 DEF LineAfter
<1>6. Meant(m)' = After(p, Meant(l), e)
  BY <1>0, <1>1, <1>3, <1>4, AfterIs DEF Meant
<1>7. Typed(p, m)'
  BY <1>1, <1>2, <1>6, TypedPost
<1>8. /\ meant' = IF chosen \in Term
                    THEN [meant EXCEPT ![chosen] = Edited(meant[chosen], Char(k, ShiftHeld))]
                    ELSE meant
      /\ both' = IF chosen \notin Term THEN both
                 ELSE IF k = Return THEN both \ {chosen}
                 ELSE IF k \in Printing /\ TwoShifted THEN both \cup {chosen}
                 ELSE both
      /\ DOMAIN meant = Term
  BY DEF Type, Typing
<1>9. AsMeant(p, m)'
  <2> SUFFICES ASSUME p \notin both' PROVE m = meant'[p]
    BY DEF AsMeant
  <2>1. CASE chosen # p
    BY <1>0, <1>8, <2>1 DEF AsMeant
  <2>2. CASE chosen = p
    <3>1. m = Edited(l, Char(k, Parity)) /\ meant'[p] = Edited(meant[p], Char(k, ShiftHeld))
      BY <1>0, <1>5, <1>8, <2>2
    <3>2. CASE k = Return
      <4>1. \A x : Char(Return, x) = NewLine
        BY NtermAssumption DEF Char
      <4> QED BY <3>1, <3>2, <4>1, EditedIs
    <3>3. CASE k # Return
      <4>1. l = meant[p] /\ (k \notin Printing \/ ~TwoShifted)
        BY <1>8, <2>2, <3>3 DEF AsMeant
      <4>2. Char(k, Parity) = Char(k, ShiftHeld)
        <5>1. CASE ~TwoShifted
          BY <5>1, ParityIs
        <5>2. CASE k \notin Printing
          BY <5>2 DEF Char
        <5> QED BY <4>1, <5>1, <5>2
      <4> QED BY <3>1, <4>1, <4>2
    <3> QED BY <3>2, <3>3
  <2> QED BY <2>1, <2>2
<1> QED BY <1>7, <1>9

LEMMA TypedRelease ==
  ASSUME KeyInv, Screens, Typing, NEW p \in Term, Listening(p), NEW l, Typed(p, l),
         NEW k \in Key, Release(k), UNCHANGED <<ntermVars, userVars>>
  PROVE  Typed(p, l)'
<1> DEFINE e == [key |-> k, down |-> FALSE]
<1>1. e \in Event /\ e.key = k /\ ~e.down
  BY DEF Event
<1>2. Post(e)
  BY DEF Release
<1>3. ShiftAfter(Parity, e) = Parity'
  BY <1>1, ShiftIs DEF Release, ShiftAfter
<1>4. FrontAfter(chosen, e) = chosen'
  BY <1>1 DEF FrontAfter, FunctionDown, userVars
<1>5. LineAfter(l, Parity, e) = l
  BY <1>1, EditedIs DEF LineAfter
<1>6. Meant(l)' = After(p, Meant(l), e)
  BY <1>1, <1>3, <1>4, <1>5, AfterIs DEF Meant
<1> QED BY <1>1, <1>2, <1>6, TypedPost

LEMMA TypedClose ==
  ASSUME KeyInv, Screens, Typing, NEW p \in Term, Listening(p), NEW l, Typed(p, l), CloseWindow,
         UNCHANGED <<ntermVars, userVars>>
  PROVE  Typed(p, l)'
<1>1. Post(Window) /\ UNCHANGED held
  BY DEF CloseWindow
<1>2. After(p, Meant(l), Window) = Meant(l)
  BY KeyAssumption DEF After
<1>3. Meant(l)' = Meant(l)
  BY <1>1 DEF Meant, Parity, userVars
<1> QED BY <1>1, <1>2, <1>3, TypedPost

(* NEMU puts the event into the ring, or does not know its key.            *)
LEMMA TypedUpdate ==
  ASSUME KeyInv, Screens, Typing, NEW p \in Term, Listening(p), NEW l, Typed(p, l), Listening(p)',
         device_update, UNCHANGED <<ntermVars, userVars>>
  PROVE  Typed(p, l)'
<1> DEFINE e == Head(host)
<1>1. /\ host # <<>> /\ host' = Tail(host) /\ UNCHANGED <<held, kernel, msg>>
      /\ e = Window => UNCHANGED ring
      /\ e # Window => send_key(e)
  BY DEF device_update, appVars
<1>2. e \in Event \cup {Window} /\ Window \notin Event
  BY <1>1, ListenerIs, HeadTailProperties, KeyAssumption
<1>3. Now(p)' = Now(p) /\ Meant(l)' = Meant(l)
  BY <1>1 DEF Now, Meant, Parity, ntermVars, userVars, kernel
<1>4. /\ e \in Item => Joins(p, Append(Waiting, e), Tail(host), Now(p), Meant(l))
      /\ e \notin Event \/ e.key \notin Mapped => Joins(p, Waiting, Tail(host), Now(p), Meant(l))
  BY <1>1, ListenerIs, JoinsSteps DEF Typed
<1>5. CASE e # Window /\ nemu_state = "RUNNING" /\ e.key \in Mapped
  <2>1. key_enqueue(e) /\ nemu_state' # "ABORT"
    BY <1>1, <1>5 DEF send_key, Listening
  <2>2. Waiting' = Append(Waiting, e)
    BY <1>2, <1>5, <2>1, EnqueueIs, ListenerIs
  <2>3. e \in Item
    BY <1>2, <1>5 DEF Item
  <2> QED BY <1>1, <1>3, <1>4, <2>2, <2>3 DEF Typed
<1>6. CASE ~(e # Window /\ nemu_state = "RUNNING" /\ e.key \in Mapped)
  <2>1. UNCHANGED ring /\ (e # Window => Dropped(e))
    BY <1>1, <1>6 DEF send_key
  <2>2. e \notin Event \/ e.key \notin Mapped
    BY <1>2, <2>1, ListenerIs DEF Dropped, Listening
  <2>3. Waiting' = Waiting
    BY <2>1, RingStays
  <2> QED BY <1>1, <1>3, <1>4, <2>2, <2>3 DEF Typed
<1> QED BY <1>5, <1>6

(* What the debugger's prompt throws away is missed.                       *)
LEMMA TypedPrompt ==
  ASSUME KeyInv, Screens, NEW p \in Term, Listening(p), NEW l, Typed(p, l), Listening(p)',
         sdb_mainloop, UNCHANGED <<ntermVars, userVars>>
  PROVE  Typed(p, l)'
<1>1. host' = host
  BY ListenerIs DEF sdb_mainloop, Listening
<1> QED BY <1>1, TypedStays DEF sdb_mainloop, appVars, kernel, ntermVars, userVars

(* schedule() takes a function key, and nothing else that is typed.        *)
LEMMA TypedSchedule ==
  ASSUME KeyInv, Screens, Typing, NEW p \in Term, Listening(p), NEW l, Typed(p, l), Listening(p)',
         NEW poll, NEW first, schedule(poll, first), UNCHANGED <<ntermVars, userVars>>
  PROVE  Typed(p, l)'
<1>1. UNCHANGED <<held, host, msg>>
  BY DEF schedule, hostVars, appVars
<1>2. Meant(l)' = Meant(l)
  BY <1>1 DEF Meant, Parity, userVars
<1>3. fg_pcb' = FrontAfter(fg_pcb, ev_buf')
  BY DEF schedule, FrontAfter
<1>4. CASE poll /\ key_dequeue # NONE
  <2> DEFINE e == key_dequeue
  <2>1. Dequeued /\ ev_buf' = e /\ e.key \in DOMAIN Foreground
    BY <1>4, ListenerIs DEF schedule, events_read, PolledBySchedule, Listening
  <2>2. Waiting # <<>> /\ e = Head(Waiting) /\ e \in Event /\ Waiting' = Tail(Waiting)
    BY <1>4, <2>1, ListenerIs, TakenIs
  <2>3. e.key \notin Modifier /\ \A s : Char(e.key, s) = Nul
    BY <2>1, NtermAssumption, CharIs
  <2>4. \A m, s : LineAfter(m, s, e) = m /\ ShiftAfter(s, e) = s
    BY <2>3, EditedIs DEF LineAfter, ShiftAfter
  <2>5. Now(p)' = After(p, Now(p), e)
    <3>1. PICK m, s : Now(p) = State(m, s, fg_pcb) /\ Now(p)' = State(m, s, fg_pcb')
      BY <1>1 DEF Now, ntermVars
    <3>2. After(p, State(m, s, fg_pcb), e) = State(m, s, FrontAfter(fg_pcb, e))
      BY <2>2, <2>4, AfterIs
    <3> QED BY <1>3, <2>1, <3>1, <3>2
  <2>6. Joins(p, Tail(Waiting), host, After(p, Now(p), Head(Waiting)), Meant(l))
    BY <2>2, ListenerIs, JoinsSteps DEF Typed
  <2> QED BY <1>1, <1>2, <2>2, <2>5, <2>6 DEF Typed
<1>5. CASE ~(poll /\ key_dequeue # NONE)
  <2>1. Waiting' = Waiting /\ ev_buf' = ev_buf
    <3>1. CASE poll
      BY <1>5, <3>1, ListenerIs, TakenIs DEF schedule, events_read
    <3>2. CASE ~poll
      BY <3>2, RingStays DEF schedule
    <3> QED BY <3>1, <3>2
  <2>2. fg_pcb' = fg_pcb
    BY <1>3, <2>1 DEF FrontAfter, Typing, InFront
  <2>3. Now(p)' = Now(p)
    BY <1>1, <2>2 DEF Now, ntermVars
  <2> QED BY <1>1, <1>2, <2>1, <2>3 DEF Typed, Listening, Typing
<1> QED BY <1>4, <1>5

(* A program takes an event: the one in front, and no key that matters to  *)
(* another.                                                                *)
LEMMA TypedPoll ==
  ASSUME KeyInv, Screens, Typing, NEW p \in Term, Listening(p), NEW l, Typed(p, l), Listening(p)',
         NEW q \in Program, msg[q] = NONE, NDL_PollEvent(q),
         UNCHANGED <<term, shift, userVars>>
  PROVE  Typed(p, l)'
<1> DEFINE e == key_dequeue
<1>1. /\ UNCHANGED <<held, host, fg_pcb>> /\ Dequeued /\ e # NONE /\ q = fg_pcb
      /\ msg' = [msg EXCEPT ![q] = e]
  BY KeyAssumption DEF NDL_PollEvent, Runs, Typing, InFront, hostVars, kernel
<1>2. Waiting # <<>> /\ e = Head(Waiting) /\ e \in Event /\ Waiting' = Tail(Waiting)
  BY <1>1, ListenerIs, TakenIs
<1>3. ~FunctionDown(e) /\ (p # q => e.key \notin Modifier)
  BY ListenerIs DEF NDL_PollEvent, Listening
<1>4. FrontAfter(fg_pcb, e) = fg_pcb
  BY <1>3 DEF FrontAfter
<1>5. msg \in [Program -> Event \cup {NONE}] /\ p \in Program
  BY ListenerIs DEF KeyTypeOK
<1>6. Now(p)' = After(p, Now(p), e)
  <2>1. CASE p = q
    <3>1. msg[p] = NONE /\ msg'[p] = e
      BY <1>1, <1>5, <2>1
    <3>2. Now(p) = State(term[p].input, shift[p], fg_pcb)
      BY <3>1 DEF Now
    <3>3. Now(p)' = State(LineAfter(term[p].input, shift[p], e), ShiftAfter(shift[p], e), fg_pcb)
      BY <1>1, <3>1 DEF Now
    <3> QED BY <1>1, <1>2, <1>4, <2>1, <3>2, <3>3, AfterIs
  <2>2. CASE p # q
    <3>1. PICK m, s : Now(p) = State(m, s, fg_pcb) /\ Now(p)' = State(m, s, fg_pcb)
      BY <1>1, <1>5, <2>2 DEF Now
    <3>2. ShiftAfter(s, e) = s /\ fg_pcb # p
      BY <1>1, <1>3, <2>2 DEF ShiftAfter
    <3> QED BY <1>2, <1>4, <3>1, <3>2, AfterIs
  <2> QED BY <2>1, <2>2
<1>7. Joins(p, Tail(Waiting), host, After(p, Now(p), Head(Waiting)), Meant(l))
  BY <1>2, ListenerIs, JoinsSteps DEF Typed
<1>8. Meant(l)' = Meant(l)
  BY <1>1 DEF Meant, Parity, userVars
<1> QED BY <1>1, <1>2, <1>6, <1>7, <1>8 DEF Typed

(* The line of the terminal is the one that is meant (term.cpp:267-301).   *)
LEMMA KeypressInput ==
  ASSUME NEW t, Ready(t), NEW ch \in Letters \cup {Nul, Backspace}
  PROVE  keypress(t, ch).input = Edited(t.input, ch)
<1>0. t \in Screen(Chars) /\ Len(t.input) < InputSize /\ Len(t.input) \in Nat
  BY LenProperties DEF Ready, Screen
<1>1. ASSUME NEW s \in Screen(Chars), NEW l PROVE [s EXCEPT !.input = l].input = l
  BY <1>1 DEF Screen
<1> USE NtermAssumption
<1>2. CASE ch = Nul
  BY <1>2, EditedIs DEF keypress
<1>3. CASE ch = Backspace
  <2>1. CASE t.input = <<>>
    BY <1>3, <2>1, Zenon DEF keypress, Edited
  <2>2. CASE t.input # <<>>
    <3>1. keypress(t, ch) = [backspace(t) EXCEPT !.input = Front(backspace(t).input)]
      BY <1>3, <2>2 DEF keypress
    <3>2. backspace(t) \in Screen(Chars) /\ backspace(t).input = t.input
      BY <1>0, PromptIs, BackIs
    <3>3. Edited(t.input, ch) = Front(t.input)
      BY <1>3, <2>2, Zenon DEF Edited
    <3> QED BY <1>1, <3>1, <3>2, <3>3
  <2> QED BY <2>1, <2>2
<1>4. CASE ch \in Letters
  <2>0. ch # Nul /\ ch # NewLine /\ ch # Backspace /\ ch \in Chars
    BY <1>4 DEF Letters, Chars
  <2>1. InputSize \in Nat
    BY TerminalAssumption
  <2>2. CASE Len(t.input) + 1 >= InputSize
    <3>1. keypress(t, ch) = t
      BY <2>0, <2>2 DEF keypress
    <3>2. ~(Len(t.input) < InputSize - 1)
      BY <1>0, <2>1, <2>2
    <3>3. Edited(t.input, ch) = t.input
      BY <2>0, <3>2, Zenon DEF Edited
    <3> QED BY <3>1, <3>3
  <2>3. CASE ~(Len(t.input) + 1 >= InputSize)
    <3> DEFINE s == put(t, ch)
    <3>1. s \in Screen(Chars) /\ s.input = t.input /\ write(t, <<ch>>) = s
      BY <1>0, <2>0, PromptIs, PutIs, WriteOne
    <3> HIDE DEF s
    <3>2. keypress(t, ch) = [s EXCEPT !.input = Append(s.input, ch)]
      BY <2>0, <2>3, <3>1 DEF keypress
    <3>3. Len(t.input) < InputSize - 1
      BY <1>0, <2>1, <2>3
    <3>4. Edited(t.input, ch) = Append(t.input, ch)
      BY <2>0, <3>3, Zenon DEF Edited
    <3> QED BY <1>1, <3>1, <3>2, <3>4
  <2> QED BY <2>2, <2>3
<1> QED BY <1>2, <1>3, <1>4

LEMMA ReturnInput ==
  ASSUME NEW t, Ready(t)
  PROVE  write(keypress(t, NewLine), Prompt).input = <<>>
<1>0. t \in Screen(Chars)
  BY DEF Ready
<1> DEFINE s == put(t, NewLine)  u == [s EXCEPT !.input = <<>>]
<1>1. keypress(t, NewLine) = u
  <2>1. write(t, <<NewLine>>) = s
    BY <1>0, PromptIs, WriteOne
  <2> QED BY <2>1, NtermAssumption DEF keypress
<1>2. s \in Screen(Chars)
  BY <1>0, PromptIs, PutIs
<1> HIDE DEF s
<1>3. u \in Screen(Chars) /\ u.input = <<>>
  <2>1. PICK none \in Seq(Chars) : none = <<>>
    BY EmptySeq
  <2>2. u = [s EXCEPT !.input = none]
    BY <2>1
  <2> HIDE DEF u
  <2> QED BY <1>2, <2>1, <2>2 DEF Screen
<1> HIDE DEF u
<1> QED BY <1>1, <1>3, PromptIs, WriteTypes

LEMMA StartedInput == Started.input = <<>>
<1>0. 0 \in 0 .. W - 1 /\ 0 \in 0 .. H - 1
  BY TerminalAssumption
<1>1. Terminal \in Screen(Chars) /\ Terminal.input = <<>>
  BY <1>0, PromptIs DEF Terminal, Screen
<1> DEFINE t == write(Terminal, Banner)
<1>2. t \in Screen(Chars) /\ t.input = <<>>
  BY <1>1, PromptIs, WriteTypes
<1> HIDE DEF t
<1>3. write(t, Prompt).input = <<>>
  BY <1>2, PromptIs, WriteTypes
<1> QED BY <1>3 DEF Started, t

(* nterm gives the event in its hands to the terminal: what it had with    *)
(* the event is what it has now.                                           *)
LEMMA TypedUse ==
  ASSUME NEW p, NEW l, KeyTypeOK, p \in Program, Typed(p, l), UNCHANGED <<ring, host, held, fg_pcb, userVars>>,
         msg[p] # NONE, msg' = [msg EXCEPT ![p] = NONE],
         term'[p].input = LineAfter(term[p].input, shift[p], msg[p]),
         shift'[p] = ShiftAfter(shift[p], msg[p])
  PROVE  Typed(p, l)'
<1>1. Waiting' = Waiting /\ Meant(l)' = Meant(l)
  BY RingStays DEF Meant, Parity, userVars
<1>2. msg'[p] = NONE
  BY DEF KeyTypeOK
<1>3. Now(p)' = Now(p)
  BY <1>2 DEF Now
<1> QED BY <1>1, <1>3 DEF Typed

LEMMA TypedShell ==
  ASSUME KeyInv, Loop, Screens, Typing, NEW p \in Term, Listening(p), NEW l, Typed(p, l), Listening(p)', Shell(p),
         ~Poweroff(p)
  PROVE  Typed(p, l)'
<1>0. KeyTypeOK /\ p \in Program /\ Ready(term[p]) /\ DOMAIN term = Term
  BY ListenerIs DEF Screens
<1>1. CASE Poll(p)
  <2>1. CASE NDL_PollEvent(p)
    BY <1>0, <1>1, <2>1, TypedPoll DEF Poll, Loop
  <2>2. CASE UNCHANGED keyVars
    BY <1>0, <1>1, <2>2, TypedStays DEF Poll, keyVars, hostVars, kernel, appVars, userVars
  <2> QED BY <1>1, <2>1, <2>2 DEF Poll
<1>2. ASSUME UseEvent(p)
      PROVE  UNCHANGED <<ring, host, held, fg_pcb>> /\ msg[p] # NONE /\ msg' = [msg EXCEPT ![p] = NONE]
  BY <1>2 DEF UseEvent, hostVars, kernel
<1>3. LineAfter(term[p].input, shift[p], msg[p]) = Edited(term[p].input, handle_key(p))
  BY DEF LineAfter, handle_key
<1>4. CASE Keypress(p)
  <2>1. handle_key(p) \in Letters \cup {Nul, Backspace}
    BY <1>4 DEF Keypress, handle_key, Char, Letters, Screens
  <2>2. term'[p] = keypress(term[p], handle_key(p)) /\ shift'[p] = ShiftAfter(shift[p], msg[p])
    BY <1>0, <1>4 DEF Keypress, Shifted, ShiftAfter, Screens
  <2>3. term'[p].input = LineAfter(term[p].input, shift[p], msg[p])
    BY <1>0, <1>3, <2>1, <2>2, KeypressInput
  <2>4. UseEvent(p) /\ UNCHANGED userVars
    BY <1>4 DEF Keypress
  <2> QED BY <1>0, <1>2, <2>2, <2>3, <2>4, TypedUse
<1>5. CASE NoSuchProgram(p)
  <2>1. UseEvent(p) /\ UNCHANGED <<shift, userVars>> /\ handle_key(p) = NewLine
        /\ term'[p] = write(keypress(term[p], NewLine), Prompt)
    BY <1>0, <1>5 DEF NoSuchProgram, EndsLine
  <2>2. msg[p].key \notin Modifier
    BY <2>1, NtermAssumption DEF handle_key
  <2>3. shift'[p] = ShiftAfter(shift[p], msg[p])
    BY <2>1, <2>2 DEF ShiftAfter
  <2>4. term'[p].input = LineAfter(term[p].input, shift[p], msg[p])
    BY <1>0, <1>3, <2>1, ReturnInput, EditedIs
  <2> QED BY <1>0, <1>2, <2>1, <2>3, <2>4, TypedUse
<1>6. CASE Runnable(p)
  BY <1>0, <1>6 DEF Runnable, Listening
<1>7. CASE EmptyCommand(p)
  BY <1>7 DEF EmptyCommand, Listening
<1>8. CASE refresh_terminal(p)
  <2>1. term'[p] = clear(term[p])
    BY <1>0, <1>8 DEF refresh_terminal
  <2>2. clear(term[p]).input = term[p].input
    BY <1>0 DEF clear, Ready, Screen
  <2> QED BY <1>0, <1>8, <2>1, <2>2, TypedStays
         DEF refresh_terminal, keyVars, hostVars, kernel, appVars, userVars
<1> QED BY <1>1, <1>4, <1>5, <1>6, <1>7, <1>8 DEF Shell

(* nterm begins anew: with an empty line, if nothing is on its way.        *)
LEMMA TypedExit ==
  ASSUME KeyInv, Screens, Typing, Loop, NEW p \in Term, Listening(p)', Exit(p)
  PROVE  Typed(p, <<>>)' /\ AsMeant(p, <<>>)'
<1>1. /\ msg' = [msg EXCEPT ![p] = NONE] /\ UNCHANGED <<host, held, fg_pcb, chosen>> /\ UNCHANGED ring
      /\ term' = [term EXCEPT ![p] = Started] /\ shift' = [shift EXCEPT ![p] = 0]
      /\ Quiet /\ meant' = [meant EXCEPT ![p] = <<>>]
  BY DEF Exit, Listening, hostVars, kernel
<1>2. p \in Program /\ KeyTypeOK
  BY NtermAssumption DEF KeyInv
<1>3. msg'[p] = NONE /\ term'[p].input = <<>> /\ shift'[p] = 0 /\ meant'[p] = <<>>
  BY <1>1, <1>2, StartedInput DEF KeyTypeOK, Screens, Typing
<1>4. Waiting' = <<>> /\ host' = <<>>
  <2>1. Waiting = <<>>
    BY <1>1, <1>2, WaitingIs, RingFull DEF Quiet
  <2> QED BY <1>1, <2>1, RingStays DEF Quiet
<1>5. Now(p)' = State(<<>>, 0, fg_pcb) /\ Meant(<<>>)' = State(<<>>, 0, fg_pcb)
  <2>1. Parity' = 0
    BY <1>1, ParityIs DEF Parity, Quiet
  <2> QED BY <1>1, <1>3, <2>1 DEF Now, Meant, Quiet
<1>6. Joins(p, <<>>, <<>>, State(<<>>, 0, fg_pcb), State(<<>>, 0, fg_pcb))
  BY LeadsEmpty DEF Joins
<1> QED BY <1>3, <1>4, <1>5, <1>6 DEF Typed, AsMeant
(* What another process does, but for its polls, does nothing to p.        *)
LEMMA TypedApart ==
  ASSUME KeyInv, Loop, Screens, Typing, NEW p \in Term, Listening(p), NEW l, Typed(p, l), Listening(p)',
         NEW q \in Term \ {p}, Shell(q) \/ Exit(q)
  PROVE  Typed(p, l)'
<1>0. /\ KeyTypeOK /\ p \in Program /\ DOMAIN term = Term /\ DOMAIN shift = Term
      /\ DOMAIN meant = Term /\ DOMAIN msg = Program
  BY ListenerIs DEF Screens, Typing, KeyTypeOK
<1>1. CASE Exit(q)
  <2>1. /\ UNCHANGED <<host, held, fg_pcb, chosen>> /\ UNCHANGED ring /\ msg'[p] = msg[p]
        /\ term'[p] = term[p] /\ shift'[p] = shift[p] /\ meant'[p] = meant[p]
    BY <1>0, <1>1 DEF Exit, Listening, hostVars, kernel, ntermVars, userVars
  <2> QED BY <1>0, <2>1, TypedStays
<1>2. CASE Poll(q)
  <2>1. NDL_PollEvent(q) => msg[q] = NONE
    BY <1>2 DEF Poll, Loop
  <2>2. CASE NDL_PollEvent(q)
    BY <1>2, <2>1, <2>2, NtermAssumption, TypedPoll DEF Poll
  <2>3. CASE UNCHANGED keyVars
    BY <1>0, <1>2, <2>3, TypedStays DEF Poll, keyVars, hostVars, kernel, appVars, userVars
  <2> QED BY <1>2, <2>2, <2>3 DEF Poll
<1>3. CASE Keypress(q) \/ NoSuchProgram(q) \/ Runnable(q) \/ EmptyCommand(q) \/ refresh_terminal(q)
  <2>1. /\ UNCHANGED <<host, held, fg_pcb, userVars>> /\ UNCHANGED ring /\ msg'[p] = msg[p]
        /\ term'[p] = term[p] /\ shift'[p] = shift[p]
    BY <1>0, <1>3 DEF Keypress, NoSuchProgram, Runnable, EmptyCommand, refresh_terminal, UseEvent,
                      Shifted, hostVars, kernel, ntermVars, keyVars, appVars
  <2> QED BY <1>0, <2>1, TypedStays DEF userVars
<1> QED BY <1>1, <1>2, <1>3 DEF Shell, Poweroff

LEMMA InFrontStep ==
  ASSUME InFront, [NtermNext]_allVars
  PROVE  InFront'
<1>1. ASSUME UNCHANGED kernel PROVE InFront'
  BY <1>1 DEF InFront, kernel, FunctionDown
<1>2. ASSUME NEW poll, NEW first, schedule(poll, first) PROVE InFront'
  BY <1>2 DEF schedule, InFront
<1>3. CASE Outside \/ PollingCall
  BY <1>1, <1>2, <1>3 DEF Outside, PollingCall, Release, CloseWindow, Post, device_update, sdb_mainloop
<1>4. ASSUME NEW k \in Key, Type(k) PROVE InFront'
  BY <1>1, <1>4 DEF Type, Press, Post
<1>5. ASSUME NEW p, Shell(p) \/ OtherExits(p) \/ OtherReads(p) PROVE InFront'
  BY <1>1, <1>5 DEF Shell, Poll, Keypress, NoSuchProgram, Runnable, Poweroff, EmptyCommand,
                    refresh_terminal, OtherExits, OtherReads, Exit, NDL_PollEvent, UseEvent, keyVars
<1>6. CASE Stopped \/ UNCHANGED allVars
  BY <1>1, <1>6 DEF Stopped, allVars, keyVars
<1> QED BY <1>3, <1>4, <1>5, <1>6 DEF NtermNext

(* Who begins to listen has just begun anew.                               *)
LEMMA ListeningStep ==
  ASSUME KeyTypeOK, Loop, [NtermNext]_allVars, NEW p \in Term, Listening(p)',
         ~(Exit(p) /\ (Poweroff(p) \/ OtherExits(p)))
  PROVE  Listening(p)
<1> USE NtermAssumption
<1>1. ASSUME UNCHANGED <<nemu_state, app, missed>> PROVE Listening(p)
  BY <1>1 DEF Listening
<1>2. ASSUME NEW q \in Program, NDL_PollEvent(q), UNCHANGED app PROVE Listening(p)
  BY <1>2 DEF Listening, NDL_PollEvent, KeyTypeOK
<1>3. ASSUME NEW q \in Term, Exit(q), q # p PROVE Listening(p)
  <2>1. app'[p] = app[p] /\ (p \in missed' <=> p \in missed) /\ nemu_state' \in {nemu_state, "END"}
    BY <1>3 DEF Exit, ntermVars, Loop
  <2> QED BY <2>1 DEF Listening
<1>4. ASSUME NEW q \in Term, Shell(q) PROVE Listening(p)
  <2>1. CASE Poll(q)
    BY <1>1, <1>2, <2>1 DEF Poll, keyVars, keyHistory
  <2>2. CASE Keypress(q) \/ NoSuchProgram(q) \/ refresh_terminal(q)
    BY <1>1, <2>2 DEF Keypress, NoSuchProgram, refresh_terminal, keyVars, keyHistory
  <2>3. CASE Runnable(q)
    BY <2>3 DEF Runnable, Listening, Loop
  <2>4. CASE Poweroff(q)
    BY <1>3, <2>4 DEF Poweroff
  <2>5. CASE EmptyCommand(q)
    BY <2>5 DEF EmptyCommand, Listening
  <2> QED BY <1>4, <2>1, <2>2, <2>3, <2>4, <2>5 DEF Shell
<1>5. ASSUME NEW q \in Term, OtherExits(q) PROVE Listening(p)
  BY <1>3, <1>5 DEF OtherExits
<1>6. ASSUME NEW q \in Program, OtherReads(q) PROVE Listening(p)
  BY <1>1, <1>2, <1>6 DEF OtherReads, ntermVars
<1>7. ASSUME NEW k \in Key, Type(k) PROVE Listening(p)
  BY <1>1, <1>7 DEF Type, Press, Post, ntermVars
<1>8. CASE Outside \/ PollingCall
  <2>1. UNCHANGED app
    BY <1>8 DEF Outside, PollingCall, ntermVars
  <2>2. ASSUME NEW poll, NEW first, schedule(poll, first) PROVE Listening(p)
    BY <2>1, <2>2 DEF schedule, PolledBySchedule, keyHistory, Listening, KeyTypeOK
  <2>3. CASE device_update
    BY <2>1, <2>3 DEF device_update, send_key, key_enqueue, Dropped, keyHistory, Listening, KeyTypeOK
  <2>4. CASE sdb_mainloop
    BY <2>1, <2>4 DEF sdb_mainloop, Listening, KeyTypeOK
  <2>5. CASE (\E k \in Key : Release(k)) \/ CloseWindow
    BY <1>1, <2>1, <2>5 DEF Release, CloseWindow, Post
  <2> QED BY <1>8, <2>2, <2>3, <2>4, <2>5 DEF Outside, PollingCall
<1>9. CASE Stopped \/ UNCHANGED allVars
  BY <1>1, <1>9 DEF Stopped, allVars, keyVars, keyHistory, ntermVars
<1> QED BY <1>4, <1>5, <1>6, <1>7, <1>8, <1>9 DEF NtermNext

(* Only the user changes what is meant, or who begins anew.                *)
LEMMA MeantStays ==
  ASSUME Typing, [NtermNext]_allVars, NEW p \in Term, \A k \in Key : ~Type(k),
         ~(Exit(p) /\ (Poweroff(p) \/ OtherExits(p)))
  PROVE  meant'[p] = meant[p] /\ (p \in both' <=> p \in both)
<1>1. CASE UNCHANGED userVars
  BY <1>1 DEF userVars
<1>2. ASSUME NEW q \in Term, Exit(q), q # p
      PROVE  meant'[p] = meant[p] /\ (p \in both' <=> p \in both)
  <2>1. CASE UNCHANGED userVars
    BY <2>1 DEF userVars
  <2>2. CASE /\ meant' = IF Quiet THEN [meant EXCEPT ![q] = <<>>] ELSE meant
             /\ both' = IF Quiet THEN both \ {q} ELSE both
    BY <1>2, <2>2 DEF Typing
  <2> QED BY <1>2, <2>1, <2>2 DEF Exit
<1>3. ASSUME NEW q \in Term, Shell(q) \/ OtherExits(q)
      PROVE  meant'[p] = meant[p] /\ (p \in both' <=> p \in both)
  <2>1. CASE q = p
    BY <1>1, <1>3, <2>1 DEF Shell, Poll, Keypress, NoSuchProgram, Runnable, EmptyCommand,
                            refresh_terminal, Poweroff, OtherExits
  <2>2. CASE q # p
    BY <1>1, <1>2, <1>3, <2>2 DEF Shell, Poll, Keypress, NoSuchProgram, Runnable, EmptyCommand,
                                  refresh_terminal, Poweroff, OtherExits
  <2> QED BY <2>1, <2>2
<1>4. CASE Outside \/ PollingCall \/ Stopped \/ UNCHANGED allVars \/ \E q \in Program : OtherReads(q)
  BY <1>1, <1>4 DEF Outside, PollingCall, Stopped, allVars, OtherReads
<1> QED BY <1>3, <1>4 DEF NtermNext

LEMMA TypingInit == ASSUME NtermInit PROVE Typing
<1>1. InFront
  BY KeyAssumption DEF NtermInit, KeyInit, InFront, FunctionDown
<1>2. DOMAIN meant = Term
  BY DEF NtermInit
<1>3. ASSUME NEW p \in Term PROVE Typed(p, <<>>) /\ AsMeant(p, <<>>)
  <2>1. Waiting = <<>> /\ host = <<>>
    <3>1. KeyTypeOK /\ key_f = key_r /\ host = <<>>
      BY KeyTypesInit DEF NtermInit, KeyInit
    <3> QED BY <3>1, WaitingIs, RingFull
  <2>2. Now(p) = State(<<>>, 0, 1) /\ Meant(<<>>) = State(<<>>, 0, 1)
    BY NtermAssumption, StartedInput, ParityIs DEF NtermInit, KeyInit, Now, Meant
  <2>3. Joins(p, <<>>, <<>>, State(<<>>, 0, 1), State(<<>>, 0, 1))
    BY LeadsEmpty DEF Joins
  <2>4. meant[p] = <<>>
    BY DEF NtermInit
  <2> QED BY <2>1, <2>2, <2>3, <2>4 DEF Typed, AsMeant
<1> QED BY <1>1, <1>2, <1>3 DEF Typing

LEMMA TypingStep ==
  ASSUME KeyInv, Loop, Screens, Typing, [NtermNext]_allVars
  PROVE  Typing'
<1>0. KeyTypeOK
  BY DEF KeyInv
<1>1. InFront'
  BY InFrontStep DEF Typing
<1>2. DOMAIN meant' = Term
  BY DEF Typing, NtermNext, Type, Outside, PollingCall, Shell, Poll, Keypress, NoSuchProgram, Runnable,
         Poweroff, EmptyCommand, refresh_terminal, OtherExits, OtherReads, Exit, Stopped, allVars, userVars
<1>3. ASSUME NEW p \in Term, Listening(p)' PROVE \E m : Typed(p, m)' /\ AsMeant(p, m)'
  <2>1. CASE Exit(p) /\ (Poweroff(p) \/ OtherExits(p))
    BY <1>3, <2>1, TypedExit
  <2>2. CASE ~(Exit(p) /\ (Poweroff(p) \/ OtherExits(p)))
    <3>0. PICK l : Listening(p) /\ p \in Program /\ Typed(p, l) /\ AsMeant(p, l)
      BY <1>0, <1>3, <2>2, ListeningStep, ListenerIs DEF Typing
    <3>1. ASSUME NEW k \in Key, Type(k) PROVE \E m : Typed(p, m)' /\ AsMeant(p, m)'
      BY <3>0, <3>1, TypedType
    <3>2. ASSUME Outside \/ PollingCall PROVE Typed(p, l)'
      <4>1. UNCHANGED <<ntermVars, userVars>>
        BY <3>2 DEF Outside, PollingCall
      <4>2. sdb_mainloop => Typed(p, l)'
        BY <1>3, <3>0, <4>1, TypedPrompt
      <4> QED BY <1>3, <3>0, <3>2, <4>1, <4>2, TypedRelease, TypedClose, TypedUpdate, TypedSchedule
             DEF Outside, PollingCall
    <3>3. ASSUME NEW q \in Term, Shell(q) PROVE Typed(p, l)'
      <4>1. CASE q = p
        BY <1>3, <2>2, <3>0, <3>3, <4>1, TypedShell DEF Poweroff
      <4>2. CASE q # p
        BY <1>3, <3>0, <3>3, <4>2, TypedApart
      <4> QED BY <4>1, <4>2
    <3>4. ASSUME NEW q \in Term, OtherExits(q) PROVE Typed(p, l)'
      BY <1>3, <2>2, <3>0, <3>4, TypedApart DEF OtherExits
    <3>5. ASSUME NEW q \in Program, OtherReads(q) PROVE Typed(p, l)'
      <4>1. q # p /\ UNCHANGED <<ntermVars, userVars>>
        BY <3>0, <3>5 DEF OtherReads, Listening
      <4>2. CASE msg[q] = NONE /\ NDL_PollEvent(q)
        BY <1>3, <3>0, <4>1, <4>2, TypedPoll DEF ntermVars
      <4>3. CASE UseEvent(q)
        <5>1. msg'[p] = msg[p] /\ UNCHANGED <<ring, host, held, fg_pcb>>
          BY <1>0, <3>0, <4>1, <4>3 DEF UseEvent, hostVars, kernel, KeyTypeOK
        <5> QED BY <3>0, <4>1, <5>1, TypedStays DEF ntermVars, userVars
      <4> QED BY <3>5, <4>2, <4>3 DEF OtherReads
    <3>6. ASSUME Stopped \/ UNCHANGED allVars PROVE Typed(p, l)'
      BY <3>0, <3>6, TypedStays DEF Stopped, allVars, keyVars, hostVars, kernel, appVars, ntermVars, userVars
    <3>7. ASSUME Typed(p, l)', ~\E k \in Key : Type(k)
          PROVE  \E m : Typed(p, m)' /\ AsMeant(p, m)'
      <4>1. meant'[p] = meant[p] /\ (p \in both' <=> p \in both)
        BY <2>2, <3>7, MeantStays
      <4> QED BY <3>0, <3>7, <4>1 DEF AsMeant
    <3> QED BY <3>1, <3>2, <3>3, <3>4, <3>5, <3>6, <3>7 DEF NtermNext
  <2> QED BY <2>1, <2>2
<1> QED BY <1>1, <1>2, <1>3 DEF Typing

(* The line in a terminal is the one that was typed, with any number of    *)
(* shift keys, if no event was missed and no character of it typed with    *)
(* two of them held.                                                       *)
THEOREM LineCorrect == NtermSpec => []WhatYouType
<1>1. NtermInit => Typing
  BY TypingInit
<1>2. KeyInv /\ Loop /\ Screens /\ Typing /\ [NtermNext]_allVars => Typing'
  BY TypingStep
<1>3. KeyInv /\ Screens /\ Typing => WhatYouType
  <2> SUFFICES ASSUME KeyInv, Screens, Typing, NEW p \in Term, nemu_state = "RUNNING",
                      host = <<>>, Waiting = <<>>, msg[p] = NONE, app[p] = "nterm", p \notin missed \cup both
               PROVE  term[p].input = meant[p]
    BY DEF WhatYouType
  <2>1. PICK l : Joins(p, <<>>, <<>>, Now(p), Meant(l)) /\ l = meant[p]
    BY DEF Listening, Typed, Typing, AsMeant
  <2>2. Now(p) = Meant(l)
    <3>1. ASSUME NEW a, NEW b, Leads(p, <<>>, a, b) PROVE a = b
      BY <3>1 DEF Leads
    <3> QED BY <2>1, <3>1 DEF Joins
  <2>3. Now(p).line = term[p].input /\ Meant(l).line = l
    BY DEF Now, Meant, State
  <2> QED BY <2>1, <2>2, <2>3
<1> QED BY <1>1, <1>2, <1>3, NtermAlways, PTL DEF NtermSpec
=============================================================================
