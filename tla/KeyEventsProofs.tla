--------------------------- MODULE KeyEventsProofs ---------------------------
(***************************************************************************)
(* Proofs about KeyEvents, for a ring of any length and any keys and       *)
(* programs.  The ring is shown to be a queue (Ring), an event is then     *)
(* followed from the host through the ring to the program that takes it    *)
(* (Tracked).                                                              *)
(***************************************************************************)
EXTENDS KeyEvents, SequenceTheorems, TLAPS

----------------------------------------------------------------------------
(* The sequence between two indices of a ring.                             *)
Index == 0 .. KEY_QUEUE_LEN - 1
Item  == Event \cup {NONE}

Ring(slots, f, r) ==
  [i \in 1 .. (r + KEY_QUEUE_LEN - f) % KEY_QUEUE_LEN |-> slots[(f + i - 1) % KEY_QUEUE_LEN]]

Length(f, r) == IF f <= r THEN r - f ELSE r - f + KEY_QUEUE_LEN
Slot(f, i)   == IF f + i - 1 < KEY_QUEUE_LEN THEN f + i - 1 ELSE f + i - 1 - KEY_QUEUE_LEN

LEMMA Wraps ==
  ASSUME NEW x \in Nat, x < 2 * KEY_QUEUE_LEN
  PROVE  x % KEY_QUEUE_LEN = IF x < KEY_QUEUE_LEN THEN x ELSE x - KEY_QUEUE_LEN
<1>1. ASSUME NEW d \in Nat \ {0}, NEW y \in 0 .. 2 * d - 1
      PROVE  y % d = IF y < d THEN y ELSE y - d
  OBVIOUS
<1>2. KEY_QUEUE_LEN \in Nat \ {0}
  BY KeyAssumption
<1>3. x \in 0 .. 2 * KEY_QUEUE_LEN - 1
  BY <1>2
<1> QED BY <1>1, <1>2, <1>3

LEMMA SuccIs ==
  ASSUME NEW i \in Index
  PROVE  Succ(i) \in Index /\ Succ(i) = IF i + 1 < KEY_QUEUE_LEN THEN i + 1 ELSE 0
<1>1. i + 1 \in Nat /\ i + 1 < 2 * KEY_QUEUE_LEN /\ i + 1 <= KEY_QUEUE_LEN /\ KEY_QUEUE_LEN \in Nat
  BY KeyAssumption DEF Index
<1> QED BY <1>1, Wraps DEF Index, Succ

LEMMA RingIs ==
  ASSUME NEW slots \in [Index -> Item], NEW f \in Index, NEW r \in Index
  PROVE  /\ Length(f, r) \in Nat /\ Length(f, r) < KEY_QUEUE_LEN
         /\ \A i \in 1 .. Length(f, r) : Slot(f, i) \in Index
         /\ Ring(slots, f, r) = [i \in 1 .. Length(f, r) |-> slots[Slot(f, i)]]
         /\ Ring(slots, f, r) \in Seq(Item)
         /\ Len(Ring(slots, f, r)) = Length(f, r)
         /\ DOMAIN Ring(slots, f, r) = 1 .. Length(f, r)
<1>0. KEY_QUEUE_LEN \in Nat /\ KEY_QUEUE_LEN > 1 /\ f \in Nat /\ r \in Nat
      /\ f < KEY_QUEUE_LEN /\ r < KEY_QUEUE_LEN
  BY KeyAssumption DEF Index
<1>1. Length(f, r) \in Nat /\ Length(f, r) < KEY_QUEUE_LEN
  BY <1>0 DEF Length
<1>2. (r + KEY_QUEUE_LEN - f) % KEY_QUEUE_LEN = Length(f, r)
  BY <1>0, Wraps DEF Length
<1>3. ASSUME NEW i \in 1 .. Length(f, r)
      PROVE  Slot(f, i) \in Index /\ (f + i - 1) % KEY_QUEUE_LEN = Slot(f, i)
  <2> DEFINE x == f + i - 1
  <2>1. x \in Nat /\ x < 2 * KEY_QUEUE_LEN
    BY <1>0, <1>1
  <2> HIDE DEF x
  <2>2. x % KEY_QUEUE_LEN = IF x < KEY_QUEUE_LEN THEN x ELSE x - KEY_QUEUE_LEN
    BY <2>1, Wraps
  <2> USE DEF x
  <2> QED BY <1>0, <2>1, <2>2 DEF Slot, Index
<1>4. Ring(slots, f, r) = [i \in 1 .. Length(f, r) |-> slots[Slot(f, i)]]
  BY <1>2, <1>3 DEF Ring
<1>5. Ring(slots, f, r) \in [1 .. Length(f, r) -> Item]
  BY <1>3, <1>4
<1>6. Ring(slots, f, r) \in Seq(Item)
  BY <1>1, <1>5
<1> QED BY <1>1, <1>3, <1>4, <1>5, <1>6, LenProperties

(* key_enqueue() appends, or finds the ring full (keyboard.c:52-57).       *)
LEMMA RingAppend ==
  ASSUME NEW slots \in [Index -> Item], NEW f \in Index, NEW r \in Index, NEW e \in Item,
         Succ(r) # f
  PROVE  Ring([slots EXCEPT ![r] = e], f, Succ(r)) = Append(Ring(slots, f, r), e)
<1> DEFINE new == [slots EXCEPT ![r] = e]  n == Length(f, r)
<1>0. KEY_QUEUE_LEN \in Nat /\ f \in Nat /\ r \in Nat /\ f < KEY_QUEUE_LEN /\ r < KEY_QUEUE_LEN
  BY KeyAssumption DEF Index
<1>1. new \in [Index -> Item] /\ new[r] = e /\ \A i \in Index \ {r} : new[i] = slots[i]
  OBVIOUS
<1>2. Succ(r) \in Index /\ Succ(r) = IF r + 1 < KEY_QUEUE_LEN THEN r + 1 ELSE 0
  BY SuccIs
<1>3. /\ n \in Nat /\ n < KEY_QUEUE_LEN
      /\ \A i \in 1 .. n : Slot(f, i) \in Index
      /\ Ring(slots, f, r) = [i \in 1 .. n |-> slots[Slot(f, i)]]
      /\ Ring(slots, f, r) \in Seq(Item) /\ Len(Ring(slots, f, r)) = n
  BY RingIs
<1> HIDE DEF new
<1>4. Length(f, Succ(r)) = n + 1
  BY <1>0, <1>2 DEF Length
<1>5. Ring(new, f, Succ(r)) = [i \in 1 .. n + 1 |-> new[Slot(f, i)]]
      /\ Ring(new, f, Succ(r)) \in Seq(Item)
  <2>1. Ring(new, f, Succ(r)) = [i \in 1 .. Length(f, Succ(r)) |-> new[Slot(f, i)]]
        /\ Ring(new, f, Succ(r)) \in Seq(Item)
    BY <1>1, <1>2, RingIs
  <2> QED BY <1>4, <2>1
<1>6. Slot(f, n + 1) = r
  BY <1>0 DEF Slot, Length
<1>7. ASSUME NEW i \in 1 .. n PROVE Slot(f, i) # r
  BY <1>0, <1>3 DEF Slot, Length
<1> HIDE DEF n
<1>8. Append(Ring(slots, f, r), e) \in Seq(Item) /\ Len(Append(Ring(slots, f, r), e)) = n + 1
      /\ (\A i \in 1 .. n : Append(Ring(slots, f, r), e)[i] = Ring(slots, f, r)[i])
      /\ Append(Ring(slots, f, r), e)[n + 1] = e
  BY <1>3, AppendProperties
<1>9. Append(Ring(slots, f, r), e) \in [1 .. n + 1 -> Item]
  BY <1>8, LenProperties
<1>10. ASSUME NEW i \in 1 .. n + 1
       PROVE  Append(Ring(slots, f, r), e)[i] = new[Slot(f, i)]
  <2>1. CASE i = n + 1
    BY <1>1, <1>6, <1>8, <2>1
  <2>2. CASE i # n + 1
    <3>1. i \in 1 .. n
      BY <1>3, <2>2
    <3> QED BY <1>1, <1>3, <1>7, <1>8, <3>1
  <2> QED BY <2>1, <2>2
<1> QED BY <1>5, <1>9, <1>10 DEF new

LEMMA RingFull ==
  ASSUME NEW slots \in [Index -> Item], NEW f \in Index, NEW r \in Index
  PROVE  /\ Succ(r) = f => Len(Ring(slots, f, r)) = KEY_QUEUE_LEN - 1
         /\ Succ(r) # f => Len(Ring(slots, f, r)) < KEY_QUEUE_LEN - 1
         /\ Ring(slots, f, f) = <<>>
         /\ Ring(slots, f, r) = <<>> <=> f = r
<1>0. KEY_QUEUE_LEN \in Nat /\ KEY_QUEUE_LEN > 1 /\ f \in Nat /\ r \in Nat
      /\ f < KEY_QUEUE_LEN /\ r < KEY_QUEUE_LEN
  BY KeyAssumption DEF Index
<1>1. Succ(r) = IF r + 1 < KEY_QUEUE_LEN THEN r + 1 ELSE 0
  BY SuccIs
<1>2. Len(Ring(slots, f, r)) = Length(f, r) /\ Ring(slots, f, r) \in Seq(Item)
      /\ Len(Ring(slots, f, f)) = Length(f, f) /\ Ring(slots, f, f) \in Seq(Item)
  BY RingIs
<1>3. Ring(slots, f, f) = <<>>
  BY <1>0, <1>2, EmptySeq DEF Length
<1>4. f # r => Length(f, r) # 0
  BY <1>0 DEF Length
<1>5. Ring(slots, f, r) = <<>> => Length(f, r) = 0
  BY <1>2, EmptySeq
<1> QED BY <1>0, <1>1, <1>2, <1>3, <1>4, <1>5 DEF Length

(* The read of the register takes the first (keyboard.c:59-72).            *)
LEMMA RingTail ==
  ASSUME NEW slots \in [Index -> Item], NEW f \in Index, NEW r \in Index, f # r
  PROVE  /\ Ring(slots, f, r) # <<>> /\ Head(Ring(slots, f, r)) = slots[f]
         /\ Ring(slots, Succ(f), r) = Tail(Ring(slots, f, r))
<1> DEFINE n == Length(f, r)
<1>0. KEY_QUEUE_LEN \in Nat /\ f \in Nat /\ r \in Nat /\ f < KEY_QUEUE_LEN /\ r < KEY_QUEUE_LEN
  BY KeyAssumption DEF Index
<1>1. Succ(f) \in Index /\ Succ(f) = IF f + 1 < KEY_QUEUE_LEN THEN f + 1 ELSE 0
  BY SuccIs
<1>2. /\ n \in Nat /\ n < KEY_QUEUE_LEN
      /\ Ring(slots, f, r) = [i \in 1 .. n |-> slots[Slot(f, i)]]
      /\ Ring(slots, f, r) \in Seq(Item) /\ Len(Ring(slots, f, r)) = n
  BY RingIs
<1>3. n >= 1 /\ Length(Succ(f), r) = n - 1
  BY <1>0, <1>1 DEF Length
<1>4. Ring(slots, f, r) # <<>>
  BY RingFull
<1>5. Ring(slots, Succ(f), r) = [i \in 1 .. n - 1 |-> slots[Slot(Succ(f), i)]]
  <2>1. Ring(slots, Succ(f), r)
          = [i \in 1 .. Length(Succ(f), r) |-> slots[Slot(Succ(f), i)]]
    BY <1>1, RingIs
  <2> QED BY <1>3, <2>1
<1>6. ASSUME NEW i \in 1 .. n - 1 PROVE Slot(Succ(f), i) = Slot(f, i + 1)
  BY <1>0, <1>1, <1>2 DEF Slot
<1>7. Slot(f, 1) = f
  BY <1>0 DEF Slot
<1> HIDE DEF n
<1>8. /\ Tail(Ring(slots, f, r)) \in Seq(Item)
      /\ Len(Tail(Ring(slots, f, r))) = n - 1
      /\ \A i \in 1 .. n - 1 : Tail(Ring(slots, f, r))[i] = Ring(slots, f, r)[i + 1]
  BY <1>2, <1>4, HeadTailProperties
<1>9. Tail(Ring(slots, f, r)) \in [1 .. n - 1 -> Item]
  BY <1>8, LenProperties
<1>10. ASSUME NEW i \in 1 .. n - 1
       PROVE  Tail(Ring(slots, f, r))[i] = slots[Slot(Succ(f), i)]
  <2>1. i + 1 \in 1 .. n
    BY <1>2
  <2> QED BY <1>2, <1>6, <1>8, <2>1
<1>11. Head(Ring(slots, f, r)) = slots[f]
  BY <1>2, <1>3, <1>4, <1>7
<1> QED BY <1>4, <1>5, <1>9, <1>10, <1>11

----------------------------------------------------------------------------
(* The keyboard by itself: the steps of the user, of NEMU and of schedule() *)
(* are those of KeyEvents; a program uses an event, in whatever way, or is *)
(* replaced.  Nterm's steps are among these (NtermProofs).                 *)
Uses(p) ==
  /\ UseEvent(p) /\ missed' = missed
  /\ nemu_state' \in {nemu_state, "PANIC"}

Leaves(p) ==
  /\ Runs(p)
  /\ msg' = [msg EXCEPT ![p] = NONE]
  /\ FreshProgram(p)
  /\ nemu_state' \in {nemu_state, "END"}
  /\ missed' \subseteq Program
  /\ UNCHANGED <<hostVars, ring, kernel>>

Polls(p) == msg[p] = NONE /\ NDL_PollEvent(p)

KeyNext ==
  \/ \E k \in Key : Press(k) \/ Release(k)
  \/ CloseWindow \/ device_update \/ sdb_mainloop
  \/ \E poll, first \in BOOLEAN : schedule(poll, first)
  \/ \E p \in Program : Polls(p) \/ Uses(p) \/ Leaves(p)

(* The places of s that hold an event of key k, and what the last of them  *)
(* says of the key.                                                        *)
Of(s, k) == {i \in DOMAIN s : s[i] \in Event /\ s[i].key = k}

LastIs(s, k, b) == \E i \in Of(s, k) : s[i].down = b /\ \A j \in Of(s, k) : j <= i

(* Where the truth about key k stands: in the last event of the key that   *)
(* has not arrived, be it on the host, in the ring or in the hands of the  *)
(* program that took it, and if there is none, in that program.            *)
Arrived(k) ==
  \A p \in Program : fate[k] = p =>
    IF msg[p] # NONE /\ msg[p].key = k THEN msg[p].down = (k \in held)
                                       ELSE keystat[p][k] = (k \in held)

Tracked(k) ==
  k \notin dropped =>
    IF Of(host, k) # {} THEN LastIs(host, k, k \in held)
    ELSE IF Of(Waiting, k) # {} THEN LastIs(Waiting, k, k \in held)
    ELSE Arrived(k)

AllTracked ==
  /\ \A i \in DOMAIN Waiting : Waiting[i] \in Event
  /\ \A k \in Key : Tracked(k)

KeyInv == KeyTypeOK /\ (nemu_state # "ABORT" => AllTracked)

----------------------------------------------------------------------------
(* What appending to a sequence of events, or taking its head, makes of    *)
(* the last event of a key.                                                *)
LEMMA LastAppend ==
  ASSUME NEW S, NEW s \in Seq(S), NEW e \in S, NEW k, NEW b
  PROVE  IF e \in Event /\ e.key = k
           THEN Of(Append(s, e), k) # {} /\ (e.down = b => LastIs(Append(s, e), k, b))
           ELSE /\ Of(Append(s, e), k) = Of(s, k)
                /\ LastIs(s, k, b) => LastIs(Append(s, e), k, b)
<1> DEFINE t == Append(s, e)  n == Len(s)
<1>1. /\ n \in Nat /\ DOMAIN s = 1 .. n /\ DOMAIN t = 1 .. n + 1
      /\ t[n + 1] = e /\ \A i \in 1 .. n : t[i] = s[i]
  BY AppendProperties, LenProperties
<1> HIDE DEF t, n
<1>2. CASE e \in Event /\ e.key = k
  <2>1. n + 1 \in Of(t, k) /\ \A j \in Of(t, k) : j <= n + 1
    BY <1>1, <1>2 DEF Of
  <2> QED BY <1>1, <1>2, <2>1 DEF LastIs, t
<1>3. CASE ~(e \in Event /\ e.key = k)
  <2>1. ASSUME NEW i PROVE i \in Of(t, k) <=> i \in Of(s, k)
    <3>1. i \in 1 .. n + 1 <=> i \in 1 .. n \/ i = n + 1
      BY <1>1
    <3> QED BY <1>1, <1>3, <3>1 DEF Of
  <2>2. Of(t, k) = Of(s, k)
    BY <2>1
  <2>3. \A i \in Of(s, k) : t[i] = s[i]
    BY <1>1 DEF Of
  <2> QED BY <1>3, <2>2, <2>3 DEF LastIs, t
<1> QED BY <1>2, <1>3

LEMMA LastTail ==
  ASSUME NEW S, NEW s \in Seq(S), s # <<>>, NEW k, NEW b
  PROVE  /\ Of(Tail(s), k) # {} =>
              Of(s, k) # {} /\ (LastIs(s, k, b) => LastIs(Tail(s), k, b))
         /\ Of(Tail(s), k) = {} =>
              IF Head(s) \in Event /\ Head(s).key = k
                THEN Of(s, k) # {} /\ (LastIs(s, k, b) => Head(s).down = b)
                ELSE Of(s, k) = {}
<1> DEFINE t == Tail(s)  n == Len(s)
<1>1. /\ n \in Nat \ {0} /\ DOMAIN s = 1 .. n /\ DOMAIN t = 1 .. n - 1
      /\ Head(s) = s[1] /\ \A i \in 1 .. n - 1 : t[i] = s[i + 1]
  <2>1. /\ Head(s) \in S /\ t \in Seq(S) /\ Len(t) = n - 1
        /\ \A i \in 1 .. Len(t) : t[i] = s[i + 1]
    BY HeadTailProperties
  <2>2. n \in Nat /\ n # 0 /\ DOMAIN s = 1 .. n /\ DOMAIN t = 1 .. n - 1
    BY <2>1, EmptySeq, LenProperties
  <2> QED BY <2>1, <2>2
<1> HIDE DEF t, n
<1>2. ASSUME NEW i \in Of(s, k) PROVE i \in Nat /\ (i = 1 \/ i - 1 \in Of(t, k))
  <2>1. i \in 1 .. n
    BY <1>1 DEF Of
  <2>2. CASE i # 1
    <3>1. i - 1 \in 1 .. n - 1 /\ i - 1 + 1 = i
      BY <1>1, <2>1, <2>2
    <3>2. t[i - 1] = s[i]
      BY <1>1, <3>1
    <3> QED BY <1>1, <2>1, <3>1, <3>2 DEF Of
  <2> QED BY <1>1, <2>1, <2>2
<1>3. ASSUME NEW i \in Of(t, k)
      PROVE  i \in Nat /\ i >= 1 /\ i + 1 \in Of(s, k) /\ t[i] = s[i + 1]
  <2>1. i \in 1 .. n - 1 /\ i + 1 \in 1 .. n
    BY <1>1 DEF Of
  <2>2. t[i] = s[i + 1] /\ t[i] \in Event /\ t[i].key = k
    BY <1>1, <2>1 DEF Of
  <2> QED BY <1>1, <2>1, <2>2 DEF Of
<1>4. ASSUME Of(t, k) # {}
      PROVE  Of(s, k) # {} /\ (LastIs(s, k, b) => LastIs(t, k, b))
  <2>1. Of(s, k) # {}
    BY <1>3, <1>4
  <2>2. ASSUME LastIs(s, k, b) PROVE LastIs(t, k, b)
    <3>1. PICK i \in Of(s, k) : s[i].down = b /\ \A j \in Of(s, k) : j <= i
      BY <2>2 DEF LastIs
    <3>2. PICK j \in Of(t, k) : TRUE
      BY <1>4
    <3>3. i # 1
      <4>1. j + 1 <= i /\ j >= 1 /\ j \in Nat
        BY <1>3, <3>1
      <4> QED BY <4>1
    <3>4. i - 1 \in Of(t, k) /\ i \in Nat
      BY <1>2, <3>3
    <3>5. t[i - 1].down = b
      <4>1. t[i - 1] = s[i - 1 + 1]
        BY <1>3, <3>4
      <4>2. i - 1 + 1 = i
        BY <3>4
      <4> QED BY <3>1, <4>1, <4>2
    <3>6. ASSUME NEW m \in Of(t, k) PROVE m <= i - 1
      <4>1. m + 1 \in Of(s, k) /\ m \in Nat
        BY <1>3
      <4>2. m + 1 <= i
        BY <3>1, <4>1
      <4> QED BY <3>4, <4>1, <4>2
    <3> QED BY <3>4, <3>5, <3>6 DEF LastIs
  <2> QED BY <2>1, <2>2
<1>5. ASSUME Of(t, k) = {}
      PROVE  IF Head(s) \in Event /\ Head(s).key = k
               THEN Of(s, k) # {} /\ (LastIs(s, k, b) => Head(s).down = b)
               ELSE Of(s, k) = {}
  <2>1. \A i \in Of(s, k) : i = 1
    BY <1>2, <1>5
  <2>2. 1 \in Of(s, k) <=> Head(s) \in Event /\ Head(s).key = k
    BY <1>1 DEF Of
  <2> QED BY <1>1, <2>1, <2>2 DEF LastIs
<1> QED BY <1>4, <1>5 DEF t

LEMMA NoneOfEmpty == ASSUME NEW k PROVE Of(<<>>, k) = {}
BY DEF Of

----------------------------------------------------------------------------
(* The steps of the ring, as steps of the sequence that waits.             *)
LEMMA WaitingIs ==
  ASSUME KeyTypeOK
  PROVE  /\ key_f \in Index /\ key_r \in Index /\ key_queue \in [Index -> Item]
         /\ Waiting = Ring(key_queue, key_f, key_r)
         /\ Waiting \in Seq(Item)
<1>1. key_f \in Index /\ key_r \in Index /\ key_queue \in [Index -> Item]
  BY DEF KeyTypeOK, Index, Item
<1>2. Waiting = Ring(key_queue, key_f, key_r)
  BY DEF Waiting, Ring
<1> QED BY <1>1, <1>2, RingIs

LEMMA EnqueueIs ==
  ASSUME KeyTypeOK, NEW e \in Event, key_enqueue(e)
  PROVE  /\ key_queue' \in [Index -> Item] /\ key_f' \in Index /\ key_r' \in Index
         /\ Succ(key_r) = key_f => nemu_state' = "ABORT" /\ Len(Waiting) = KEY_QUEUE_LEN - 1
         /\ Succ(key_r) # key_f => /\ nemu_state' = nemu_state
                                   /\ Waiting' = Append(Waiting, e)
                                   /\ Len(Waiting) < KEY_QUEUE_LEN - 1
<1>1. e \in Item
  BY DEF Item
<1>2. Succ(key_r) \in Index
  BY WaitingIs, SuccIs
<1>3. key_queue' = [key_queue EXCEPT ![key_r] = e] /\ key_f' = key_f /\ key_r' = Succ(key_r)
  BY DEF key_enqueue
<1>4. Waiting' = Ring(key_queue', key_f', key_r')
  BY DEF Waiting, Ring
<1>5. ASSUME Succ(key_r) # key_f PROVE Waiting' = Append(Waiting, e)
  <2>1. key_f \in Index /\ key_r \in Index /\ key_queue \in [Index -> Item]
        /\ Waiting = Ring(key_queue, key_f, key_r)
    BY WaitingIs
  <2>2. Ring([key_queue EXCEPT ![key_r] = e], key_f, Succ(key_r))
          = Append(Ring(key_queue, key_f, key_r), e)
    BY <1>1, <1>5, <2>1, RingAppend
  <2> QED BY <1>3, <1>4, <2>1, <2>2
<1>6. /\ Succ(key_r) = key_f => Len(Waiting) = KEY_QUEUE_LEN - 1
      /\ Succ(key_r) # key_f => Len(Waiting) < KEY_QUEUE_LEN - 1
  BY WaitingIs, RingFull
<1> QED BY <1>1, <1>2, <1>3, <1>5, <1>6, WaitingIs DEF key_enqueue

LEMMA DequeueIs ==
  ASSUME KeyTypeOK, Dequeued
  PROVE  /\ key_queue' = key_queue /\ key_f' \in Index /\ key_r' = key_r
         /\ key_f = key_r => Waiting = <<>> /\ Waiting' = Waiting
         /\ key_f # key_r => /\ Waiting # <<>> /\ Head(Waiting) = key_queue[key_f]
                             /\ Waiting' = Tail(Waiting)
<1>1. key_queue' = key_queue /\ key_r' = key_r
      /\ key_f' = IF key_f = key_r THEN key_f ELSE Succ(key_f)
  BY DEF Dequeued
<1>2. key_f' \in Index
  BY <1>1, WaitingIs, SuccIs
<1>3. Waiting' = Ring(key_queue', key_f', key_r')
  BY DEF Waiting, Ring
<1> QED BY <1>1, <1>2, <1>3, WaitingIs, RingFull, RingTail

LEMMA RingStays == ASSUME UNCHANGED ring PROVE Waiting' = Waiting
BY DEF ring, Waiting

(* What a read of the register gives.                                      *)
LEMMA TakenIs ==
  ASSUME KeyTypeOK, Dequeued, \A i \in DOMAIN Waiting : Waiting[i] \in Event
  PROVE  /\ key_dequeue = NONE <=> Waiting = <<>>
         /\ key_dequeue # NONE => /\ Waiting # <<>> /\ key_dequeue = Head(Waiting)
                                  /\ key_dequeue \in Event /\ Waiting' = Tail(Waiting)
         /\ key_dequeue = NONE => Waiting' = Waiting
         /\ \A i \in DOMAIN Waiting' : Waiting'[i] \in Event
<1>1. CASE key_f = key_r
  BY <1>1, DequeueIs DEF key_dequeue
<1>2. CASE key_f # key_r
  <2>1. Waiting # <<>> /\ key_dequeue = Head(Waiting) /\ Waiting' = Tail(Waiting)
    BY <1>2, DequeueIs DEF key_dequeue
  <2>2. /\ 1 \in DOMAIN Waiting /\ Head(Waiting) = Waiting[1]
        /\ DOMAIN Waiting' = 1 .. Len(Waiting) - 1 /\ Len(Waiting) \in Nat
        /\ DOMAIN Waiting = 1 .. Len(Waiting)
        /\ \A i \in 1 .. Len(Waiting) - 1 : Waiting'[i] = Waiting[i + 1]
    <3>1. Waiting \in Seq(Item)
      BY WaitingIs
    <3>2. /\ Tail(Waiting) \in Seq(Item) /\ Len(Tail(Waiting)) = Len(Waiting) - 1
          /\ \A i \in 1 .. Len(Tail(Waiting)) : Tail(Waiting)[i] = Waiting[i + 1]
      BY <2>1, <3>1, HeadTailProperties
    <3>3. Len(Waiting) \in Nat /\ Len(Waiting) # 0 /\ DOMAIN Waiting = 1 .. Len(Waiting)
          /\ DOMAIN Tail(Waiting) = 1 .. Len(Waiting) - 1
      BY <2>1, <3>1, <3>2, EmptySeq, LenProperties
    <3> QED BY <2>1, <3>2, <3>3
  <2>3. key_dequeue \in Event /\ key_dequeue # NONE
    BY <2>1, <2>2, KeyAssumption
  <2>4. ASSUME NEW i \in DOMAIN Waiting' PROVE Waiting'[i] \in Event
    <3>1. i + 1 \in DOMAIN Waiting /\ Waiting'[i] = Waiting[i + 1]
      BY <2>2
    <3> QED BY <3>1
  <2> QED BY <2>1, <2>3, <2>4
<1> QED BY <1>1, <1>2

----------------------------------------------------------------------------
(* Types.                                                                  *)
LEMMA KeyTypesInit == ASSUME KeyInit PROVE KeyTypeOK
BY KeyAssumption DEF KeyInit, KeyTypeOK

LEMMA KeyTypesStep ==
  ASSUME KeyInv, [KeyNext]_keyVars
  PROVE  KeyTypeOK'
<1> USE DEF KeyInv, AllTracked
<1>1. CASE UNCHANGED keyVars
  BY <1>1 DEF KeyTypeOK, keyVars, hostVars, ring, kernel, appVars, keyHistory
<1>2. ASSUME NEW e \in Event \cup {Window}, Post(e), held' \subseteq Key
      PROVE  KeyTypeOK'
  <2>1. host' \in Seq(Event \cup {Window})
    BY <1>2, AppendProperties DEF Post, KeyTypeOK
  <2>2. made' \in 0 .. MaxEvents
    BY <1>2, KeyAssumption DEF Post, KeyTypeOK
  <2> QED BY <1>2, <2>1, <2>2 DEF Post, KeyTypeOK, ring, kernel, appVars
<1>3. ASSUME NEW k \in Key, Press(k) \/ Release(k) PROVE KeyTypeOK'
  <2>1. held' \subseteq Key
    BY <1>3 DEF Press, Release, KeyTypeOK
  <2>2. PICK e \in Event : Post(e)
    BY <1>3 DEF Press, Release, Event
  <2> QED BY <1>2, <2>1, <2>2
<1>4. CASE CloseWindow
  BY <1>2, <1>4 DEF CloseWindow, KeyTypeOK
<1>5. ASSUME NEW e \in Event, Dropped(e) PROVE dropped' \subseteq Key /\ missed' \subseteq Program
                                               /\ fate' \in [Key -> Program \cup {Scheduler, NONE}]
  <2>1. e # Window /\ e.key \in Key
    BY KeyAssumption DEF Event
  <2> QED BY <1>5, <2>1 DEF Dropped, KeyTypeOK
<1>6. CASE device_update
  <2>1. host' \in Seq(Event \cup {Window}) /\ Head(host) \in Event \cup {Window}
    BY <1>6, HeadTailProperties DEF device_update, KeyTypeOK
  <2>2. CASE Head(host) = Window
    BY <1>6, <2>1, <2>2 DEF device_update, KeyTypeOK, ring, keyHistory, kernel, appVars
  <2>3. CASE Head(host) # Window
    <3>1. Head(host) \in Event /\ send_key(Head(host))
      BY <1>6, <2>1, <2>3 DEF device_update
    <3>2. CASE nemu_state = "RUNNING" /\ Head(host).key \in Mapped
      <4>1. key_enqueue(Head(host)) /\ UNCHANGED keyHistory
        BY <3>1, <3>2 DEF send_key
      <4>2. key_queue' \in [Index -> Item] /\ key_f' \in Index /\ key_r' \in Index
        BY <3>1, <4>1, EnqueueIs
      <4>3. nemu_state' \in {"RUNNING", "QUIT", "END", "ABORT", "PANIC"}
        BY <4>1 DEF key_enqueue, KeyTypeOK
      <4>4. UNCHANGED <<held, made, kernel, appVars, keyHistory>>
        BY <1>6, <4>1 DEF device_update
      <4> QED BY <2>1, <4>2, <4>3, <4>4
              DEF KeyTypeOK, Index, Item, keyHistory, kernel, appVars
    <3>3. CASE ~(nemu_state = "RUNNING" /\ Head(host).key \in Mapped)
      <4>1. Dropped(Head(host)) /\ UNCHANGED <<nemu_state, ring>>
        BY <3>1, <3>3 DEF send_key
      <4> QED BY <1>5, <1>6, <2>1, <3>1, <4>1
              DEF device_update, KeyTypeOK, ring, kernel, appVars
    <3> QED BY <3>2, <3>3
  <2> QED BY <2>2, <2>3
<1>7. CASE sdb_mainloop
  <2>1. \A e \in Range(host) \ {Window} : e.key \in Key
    BY DEF KeyTypeOK, Range, Event
  <2>2. dropped' \subseteq Key /\ host' = <<>> /\ missed' \subseteq Program
    BY <1>7, <2>1 DEF sdb_mainloop, KeyTypeOK
  <2> QED BY <1>7, <2>2 DEF sdb_mainloop, KeyTypeOK, ring, kernel, appVars
<1>8. ASSUME nemu_state = "RUNNING", Dequeued
      PROVE  /\ key_queue' = key_queue /\ key_f' \in Index /\ key_r' = key_r
             /\ key_dequeue \in Event \cup {NONE}
  BY <1>8, DequeueIs, TakenIs
<1>9. ASSUME NEW poll \in BOOLEAN, NEW first \in BOOLEAN, schedule(poll, first)
      PROVE  KeyTypeOK'
  <2>1. nemu_state = "RUNNING" /\ UNCHANGED <<hostVars, nemu_state, appVars>>
    BY <1>9 DEF schedule, Guest
  <2>2. /\ key_queue' = key_queue /\ key_f' \in Index /\ key_r' = key_r
        /\ ev_buf' \in Event \cup {NONE}
        /\ fate' \in [Key -> Program \cup {Scheduler, NONE}]
        /\ dropped' \subseteq Key /\ missed' \subseteq Program
    <3>1. CASE poll
      <4>1. ev_buf' = events_read(ev_buf) /\ Dequeued /\ PolledBySchedule
        BY <1>9, <3>1 DEF schedule
      <4>2. key_dequeue \in Event \cup {NONE}
        BY <1>8, <2>1, <4>1
      <4>3. /\ fate' \in [Key -> Program \cup {Scheduler, NONE}]
            /\ dropped' \subseteq Key /\ missed' \subseteq Program
        BY <4>1, <4>2 DEF PolledBySchedule, keyHistory, KeyTypeOK, Event
      <4> QED BY <1>8, <2>1, <4>1, <4>2, <4>3 DEF events_read, KeyTypeOK
    <3>2. CASE ~poll
      BY <1>9, <3>2, WaitingIs DEF schedule, ring, keyHistory, KeyTypeOK
    <3> QED BY <3>1, <3>2
  <2>3. fg_pcb' \in Program /\ current' \in Program \cup {0}
    BY <1>9, <2>2, KeyAssumption DEF schedule, FunctionDown, KeyTypeOK
  <2> QED BY <2>1, <2>2, <2>3 DEF KeyTypeOK, hostVars, appVars, Index
<1>10. ASSUME NEW p \in Program, NDL_PollEvent(p) PROVE KeyTypeOK'
  <2>1. /\ nemu_state = "RUNNING" /\ Dequeued /\ key_dequeue # NONE
        /\ msg' = [msg EXCEPT ![p] = key_dequeue]
        /\ fate' = [fate EXCEPT ![key_dequeue.key] = p]
        /\ UNCHANGED <<hostVars, nemu_state, kernel, keystat, dropped>>
    BY <1>10 DEF NDL_PollEvent, Runs, Guest
  <2>2. /\ key_queue' = key_queue /\ key_f' \in Index /\ key_r' = key_r
        /\ key_dequeue \in Event
    BY <1>8, <2>1
  <2>3. missed' \subseteq Program
    BY <1>10 DEF NDL_PollEvent, KeyTypeOK
  <2> QED BY <2>1, <2>2, <2>3 DEF KeyTypeOK, hostVars, kernel, Index
<1>11. ASSUME NEW p \in Program, Uses(p) PROVE KeyTypeOK'
  <2>1. msg[p] \in Event
    BY <1>11 DEF Uses, UseEvent, KeyTypeOK
  <2>2. keystat' = [keystat EXCEPT ![p][msg[p].key] = msg[p].down]
    BY <1>11 DEF Uses, UseEvent, KeyState
  <2>3. msg[p].key \in Key /\ msg[p].down \in BOOLEAN
    BY <2>1 DEF Event
  <2>4. keystat' \in [Program -> [Key -> BOOLEAN]]
    BY <2>2, <2>3 DEF KeyTypeOK
  <2> QED BY <1>11, <2>4 DEF Uses, UseEvent, KeyTypeOK, hostVars, ring, kernel
<1>12. ASSUME NEW p \in Program, Leaves(p) PROVE KeyTypeOK'
  <2>1. keystat' \in [Program -> [Key -> BOOLEAN]]
        /\ fate' \in [Key -> Program \cup {Scheduler, NONE}]
    BY <1>12 DEF Leaves, FreshProgram, KeyTypeOK
  <2> QED BY <1>12, <2>1 DEF Leaves, FreshProgram, KeyTypeOK, hostVars, ring, kernel
<1> QED BY <1>1, <1>3, <1>4, <1>6, <1>7, <1>9, <1>10, <1>11, <1>12 DEF KeyNext, Polls

----------------------------------------------------------------------------
(* The truth about a key is tracked through every step.                    *)
LEMMA TrackedInit == ASSUME KeyInit PROVE KeyInv
<1>1. KeyTypeOK
  BY KeyTypesInit
<1>2. Waiting = <<>>
  <2>1. key_f \in Index /\ key_r \in Index /\ key_queue \in [Index -> Item] /\ key_f = key_r
        /\ Waiting = Ring(key_queue, key_f, key_r)
    BY <1>1, WaitingIs DEF KeyInit
  <2> QED BY <2>1, RingFull
<1>3. ASSUME NEW k \in Key PROVE Tracked(k)
  <2>1. Of(host, k) = {} /\ Of(Waiting, k) = {}
    BY <1>2, NoneOfEmpty DEF KeyInit
  <2>2. Arrived(k)
    BY KeyAssumption DEF KeyInit, Arrived
  <2> QED BY <2>1, <2>2 DEF Tracked
<1> QED BY <1>1, <1>2, <1>3, WaitingIs DEF KeyInv, AllTracked

(* An event of the user is put behind the others.                          *)
LEMMA TrackedPost ==
  ASSUME KeyTypeOK, AllTracked,
         (\E k \in Key : Press(k) \/ Release(k)) \/ CloseWindow
  PROVE  AllTracked'
<1>1. PICK e \in Event \cup {Window} :
        /\ Post(e)
        /\ e = Window => held' = held
        /\ e # Window => /\ e.down = (e.key \in held')
                         /\ \A k \in Key : k # e.key => (k \in held' <=> k \in held)
  <2>1. ASSUME NEW k0 \in Key, Press(k0) \/ Release(k0)
        PROVE  \E e \in Event :
                 /\ Post(e) /\ e # Window /\ e.down = (e.key \in held')
                 /\ \A k \in Key : k # e.key => (k \in held' <=> k \in held)
    <3>1. PICK d \in BOOLEAN :
            /\ Post([key |-> k0, down |-> d])
            /\ held' = IF d THEN held \cup {k0} ELSE held \ {k0}
      BY <2>1 DEF Press, Release
    <3>2. [key |-> k0, down |-> d] \in Event /\ d = (k0 \in held')
      BY <3>1 DEF Event
    <3> QED BY <3>1, <3>2, KeyAssumption
  <2>2. CASE CloseWindow
    BY <2>2 DEF CloseWindow
  <2> QED BY <2>1, <2>2
<1>2. /\ host' = Append(host, e) /\ host \in Seq(Event \cup {Window})
      /\ dropped' = IF e = Window THEN dropped ELSE dropped \ {e.key}
      /\ UNCHANGED <<ring, msg, keystat, fate>>
  BY <1>1 DEF Post, KeyTypeOK, appVars
<1>3. Waiting' = Waiting
  BY <1>2, RingStays
<1>4. ASSUME NEW k \in Key PROVE Tracked(k)'
  <2> DEFINE b == k \in held'
  <2>1. CASE e \in Event /\ e.key = k
    <3>1. Of(host', k) # {} /\ (e.down = b => LastIs(host', k, b))
      BY <1>2, <2>1, LastAppend
    <3>2. e # Window
      BY <2>1, KeyAssumption
    <3> QED BY <1>1, <2>1, <3>1, <3>2 DEF Tracked
  <2>2. CASE ~(e \in Event /\ e.key = k)
    <3>1. Of(host', k) = Of(host, k) /\ (LastIs(host, k, b) => LastIs(host', k, b))
      BY <1>2, <2>2, LastAppend
    <3>2. b = (k \in held) /\ (k \in dropped' <=> k \in dropped)
      BY <1>1, <1>2, <2>2
    <3>3. Arrived(k) => Arrived(k)'
      BY <1>2, <3>2 DEF Arrived
    <3>4. Tracked(k)
      BY DEF AllTracked
    <3> QED BY <1>3, <3>1, <3>2, <3>3, <3>4 DEF Tracked
  <2> QED BY <2>1, <2>2
<1> QED BY <1>3, <1>4 DEF AllTracked

(* NEMU moves the first event of the host into the ring, or drops it.      *)
LEMMA TrackedUpdate ==
  ASSUME KeyTypeOK, AllTracked, device_update, nemu_state' # "ABORT"
  PROVE  AllTracked'
<1> DEFINE e == Head(host)
<1>1. /\ host # <<>> /\ host' = Tail(host) /\ host \in Seq(Event \cup {Window})
      /\ e \in Event \cup {Window}
      /\ UNCHANGED <<held, msg, keystat>>
  BY HeadTailProperties DEF device_update, KeyTypeOK, appVars
<1>2. CASE e = Window \/ ~(nemu_state = "RUNNING" /\ e.key \in Mapped)
  <2>1. /\ UNCHANGED <<ring, fate>>
        /\ e = Window => dropped' = dropped
        /\ e # Window => dropped' = dropped \cup {e.key}
    BY <1>2 DEF device_update, send_key, Dropped, keyHistory
  <2>2. Waiting' = Waiting
    BY <2>1, RingStays
  <2>3. ASSUME NEW k \in Key PROVE Tracked(k)'
    <3>1. SUFFICES ASSUME k \notin dropped' PROVE Tracked(k)'
      BY DEF Tracked
    <3>2. ~(e \in Event /\ e.key = k) /\ k \notin dropped
      BY <2>1, <3>1, KeyAssumption
    <3>3. /\ Of(host', k) # {} =>
               Of(host, k) # {} /\ (LastIs(host, k, k \in held) => LastIs(host', k, k \in held))
          /\ Of(host', k) = {} => Of(host, k) = {}
      BY <1>1, <3>2, LastTail
    <3>4. Arrived(k) => Arrived(k)'
      BY <1>1, <2>1 DEF Arrived
    <3>5. Tracked(k)
      BY DEF AllTracked
    <3> QED BY <1>1, <2>2, <3>2, <3>3, <3>4, <3>5 DEF Tracked
  <2> QED BY <2>2, <2>3 DEF AllTracked
<1>3. CASE e # Window /\ nemu_state = "RUNNING" /\ e.key \in Mapped
  <2>1. e \in Event /\ key_enqueue(e) /\ UNCHANGED <<fate, dropped>>
    BY <1>1, <1>3 DEF device_update, send_key, keyHistory
  <2>2. Waiting' = Append(Waiting, e) /\ Waiting \in Seq(Item)
    BY <2>1, EnqueueIs, WaitingIs
  <2>3. ASSUME NEW i \in DOMAIN Waiting' PROVE Waiting'[i] \in Event
    <3>1. /\ DOMAIN Waiting = 1 .. Len(Waiting) /\ DOMAIN Waiting' = 1 .. Len(Waiting) + 1
          /\ Len(Waiting) \in Nat /\ Waiting'[Len(Waiting) + 1] = e
          /\ \A j \in 1 .. Len(Waiting) : Waiting'[j] = Waiting[j]
      BY <2>1, <2>2, AppendProperties, LenProperties DEF Item
    <3>2. i \in 1 .. Len(Waiting) \/ i = Len(Waiting) + 1
      BY <3>1
    <3> QED BY <2>1, <3>1, <3>2 DEF AllTracked
  <2>4. ASSUME NEW k \in Key PROVE Tracked(k)'
    <3>0. PICK b : b = (k \in held)
      OBVIOUS
    <3>1. /\ Of(host', k) # {} =>
               Of(host, k) # {} /\ (LastIs(host, k, b) => LastIs(host', k, b))
          /\ Of(host', k) = {} =>
               IF e.key = k THEN Of(host, k) # {} /\ (LastIs(host, k, b) => e.down = b)
                            ELSE Of(host, k) = {}
      <4>1. host # <<>> /\ host' = Tail(host)
        BY <1>1
      <4>2. /\ Of(Tail(host), k) # {} =>
                 Of(host, k) # {} /\ (LastIs(host, k, b) => LastIs(Tail(host), k, b))
            /\ Of(Tail(host), k) = {} =>
                 IF e \in Event /\ e.key = k
                   THEN Of(host, k) # {} /\ (LastIs(host, k, b) => e.down = b)
                   ELSE Of(host, k) = {}
        BY <1>1, LastTail
      <4> QED BY <2>1, <4>1, <4>2
    <3>2. IF e.key = k
            THEN Of(Waiting', k) # {} /\ (e.down = b => LastIs(Waiting', k, b))
            ELSE /\ Of(Waiting', k) = Of(Waiting, k)
                 /\ LastIs(Waiting, k, b) => LastIs(Waiting', k, b)
      BY <2>1, <2>2, LastAppend DEF Item
    <3>3. Arrived(k) => Arrived(k)'
      BY <1>1, <2>1 DEF Arrived
    <3>4. Tracked(k) /\ held' = held /\ (k \in dropped' <=> k \in dropped)
      BY <1>1, <2>1 DEF AllTracked
    <3> QED BY <3>0, <3>1, <3>2, <3>3, <3>4 DEF Tracked
  <2> QED BY <2>3, <2>4 DEF AllTracked
<1> QED BY <1>2, <1>3

(* At the debugger's prompt the events of the host are gone, and known to  *)
(* be dropped.                                                             *)
LEMMA TrackedPrompt ==
  ASSUME KeyTypeOK, AllTracked, sdb_mainloop
  PROVE  AllTracked'
<1>1. /\ host' = <<>> /\ host \in Seq(Event \cup {Window})
      /\ dropped' = dropped \cup {e.key : e \in Range(host) \ {Window}}
      /\ UNCHANGED <<held, ring, fate, msg, keystat>>
  BY DEF sdb_mainloop, KeyTypeOK, appVars
<1>2. Waiting' = Waiting
  BY <1>1, RingStays
<1>3. ASSUME NEW k \in Key, k \notin dropped' PROVE Tracked(k)'
  <2>1. ASSUME NEW i \in Of(host, k) PROVE FALSE
    <3>1. host[i] \in Range(host) \ {Window} /\ host[i].key = k
      BY <2>1, KeyAssumption DEF Of, Range
    <3> QED BY <1>1, <1>3, <3>1
  <2>2. Of(host, k) = {} /\ Of(host', k) = {}
    BY <1>1, <2>1, NoneOfEmpty
  <2>3. Arrived(k) => Arrived(k)'
    BY <1>1 DEF Arrived
  <2>4. Tracked(k)
    BY DEF AllTracked
  <2> QED BY <1>1, <1>2, <1>3, <2>2, <2>3, <2>4 DEF Tracked
<1> QED BY <1>2, <1>3 DEF AllTracked, Tracked

(* The register: schedule() or a program takes the first event of the ring. *)
LEMMA TrackedTaken ==
  ASSUME KeyTypeOK, AllTracked, Dequeued, NEW k \in Key, key_dequeue # NONE,
         UNCHANGED <<held, host, dropped>>,
         Of(Waiting', k) = {} /\ Of(host, k) = {} /\ k \notin dropped =>
           \/ key_dequeue.key = k /\ (key_dequeue.down = (k \in held) => Arrived(k)')
           \/ key_dequeue.key # k /\ (Arrived(k) => Arrived(k)')
  PROVE  Tracked(k)'
<1>1. /\ Waiting # <<>> /\ key_dequeue = Head(Waiting) /\ key_dequeue \in Event
      /\ Waiting' = Tail(Waiting) /\ Waiting \in Seq(Item)
  BY TakenIs, WaitingIs DEF AllTracked
<1>2. PICK b : b = (k \in held)
  OBVIOUS
<1>3. /\ Of(Waiting', k) # {} =>
           Of(Waiting, k) # {} /\ (LastIs(Waiting, k, b) => LastIs(Waiting', k, b))
      /\ Of(Waiting', k) = {} =>
           IF key_dequeue.key = k
             THEN Of(Waiting, k) # {} /\ (LastIs(Waiting, k, b) => key_dequeue.down = b)
             ELSE Of(Waiting, k) = {}
  BY <1>1, LastTail
<1>4. Tracked(k)
  BY DEF AllTracked
<1> QED BY <1>2, <1>3, <1>4 DEF Tracked

LEMMA TrackedSchedule ==
  ASSUME KeyTypeOK, AllTracked, NEW poll, NEW first, schedule(poll, first)
  PROVE  AllTracked'
<1>1. UNCHANGED <<held, host, msg, keystat, dropped>>
  BY DEF schedule, hostVars, appVars, PolledBySchedule, keyHistory
<1>2. CASE poll /\ key_dequeue # NONE
  <2>1. Dequeued /\ fate' = [fate EXCEPT ![key_dequeue.key] = Scheduler]
    BY <1>2 DEF schedule, PolledBySchedule
  <2>2. key_dequeue \in Event /\ \A i \in DOMAIN Waiting' : Waiting'[i] \in Event
    BY <1>2, <2>1, TakenIs DEF AllTracked
  <2>3. ASSUME NEW k \in Key PROVE Tracked(k)'
    <3>1. CASE key_dequeue.key = k
      <4>1. Arrived(k)'
        BY <2>1, <3>1, KeyAssumption DEF Arrived, KeyTypeOK
      <4> QED BY <1>1, <1>2, <2>1, <3>1, <4>1, TrackedTaken
    <3>2. CASE key_dequeue.key # k
      <4>1. Arrived(k) => Arrived(k)'
        BY <1>1, <2>1, <3>2 DEF Arrived, KeyTypeOK
      <4> QED BY <1>1, <1>2, <2>1, <3>2, <4>1, TrackedTaken
    <3> QED BY <3>1, <3>2
  <2> QED BY <2>2, <2>3 DEF AllTracked
<1>3. CASE ~(poll /\ key_dequeue # NONE)
  <2>1. Waiting' = Waiting /\ fate' = fate
    <3>1. CASE poll
      BY <1>3, <3>1, TakenIs DEF schedule, PolledBySchedule, keyHistory, AllTracked
    <3>2. CASE ~poll
      BY <3>2, RingStays DEF schedule, keyHistory
    <3> QED BY <3>1, <3>2
  <2> QED BY <1>1, <2>1 DEF AllTracked, Tracked, Arrived
<1> QED BY <1>2, <1>3

LEMMA TrackedPoll ==
  ASSUME KeyTypeOK, AllTracked, NEW p \in Program, Polls(p)
  PROVE  AllTracked'
<1>1. /\ Dequeued /\ key_dequeue # NONE /\ msg[p] = NONE
      /\ msg' = [msg EXCEPT ![p] = key_dequeue]
      /\ fate' = [fate EXCEPT ![key_dequeue.key] = p]
      /\ UNCHANGED <<held, host, dropped, keystat>>
  BY DEF Polls, NDL_PollEvent, hostVars
<1>2. key_dequeue \in Event /\ \A i \in DOMAIN Waiting' : Waiting'[i] \in Event
  BY <1>1, TakenIs DEF AllTracked
<1>3. ASSUME NEW k \in Key PROVE Tracked(k)'
  <2>1. CASE key_dequeue.key = k
    <3>1. key_dequeue.down = (k \in held) => Arrived(k)'
      BY <1>1, <2>1 DEF Arrived, KeyTypeOK
    <3> QED BY <1>1, <2>1, <3>1, TrackedTaken
  <2>2. CASE key_dequeue.key # k
    <3>1. Arrived(k) => Arrived(k)'
      BY <1>1, <2>2 DEF Arrived, KeyTypeOK
    <3> QED BY <1>1, <2>2, <3>1, TrackedTaken
  <2> QED BY <2>1, <2>2
<1> QED BY <1>2, <1>3 DEF AllTracked

(* The program notes the event it has taken, or begins anew.               *)
LEMMA TrackedUsed ==
  ASSUME KeyTypeOK, AllTracked, NEW p \in Program, Uses(p) \/ Leaves(p)
  PROVE  AllTracked'
<1>1. /\ UNCHANGED <<held, host, dropped>> /\ UNCHANGED ring
      /\ msg' = [msg EXCEPT ![p] = NONE]
  BY DEF Uses, UseEvent, Leaves, FreshProgram, hostVars
<1>2. Waiting' = Waiting
  BY <1>1, RingStays
<1>3. ASSUME NEW k \in Key, Arrived(k) PROVE Arrived(k)'
  <2>1. CASE Uses(p)
    <3>1. msg[p] \in Event /\ msg[p].key \in Key /\ fate' = fate
          /\ keystat' = [keystat EXCEPT ![p][msg[p].key] = msg[p].down]
      BY <2>1 DEF Uses, UseEvent, KeyState, KeyTypeOK, Event
    <3>2. ASSUME NEW q \in Program, fate[k] = q
          PROVE  IF msg'[q] # NONE /\ msg'[q].key = k THEN msg'[q].down = (k \in held)
                                                     ELSE keystat'[q][k] = (k \in held)
      <4>1. IF msg[q] # NONE /\ msg[q].key = k THEN msg[q].down = (k \in held)
                                               ELSE keystat[q][k] = (k \in held)
        BY <1>3, <3>2 DEF Arrived
      <4>2. CASE q # p
        BY <1>1, <3>1, <4>1, <4>2 DEF KeyTypeOK
      <4>3. CASE q = p
        <5>1. msg'[p] = NONE
              /\ keystat'[p][k] = IF k = msg[p].key THEN msg[p].down ELSE keystat[p][k]
          BY <1>1, <3>1 DEF KeyTypeOK
        <5>2. msg[p] # NONE
          BY <3>1, KeyAssumption
        <5> QED BY <4>1, <4>3, <5>1, <5>2
      <4> QED BY <4>2, <4>3
    <3> QED BY <1>1, <3>1, <3>2 DEF Arrived
  <2>2. CASE Leaves(p)
    <3>1. /\ keystat' = [keystat EXCEPT ![p] = [x \in Key |-> FALSE]]
          /\ fate' = [x \in Key |-> IF fate[x] = p THEN NONE ELSE fate[x]]
      BY <2>2 DEF Leaves, FreshProgram
    <3>2. ASSUME NEW q \in Program, fate'[k] = q
          PROVE  fate[k] = q /\ msg'[q] = msg[q] /\ keystat'[q] = keystat[q]
      BY <1>1, <3>1, <3>2, KeyAssumption DEF KeyTypeOK
    <3> QED BY <1>1, <1>3, <3>2 DEF Arrived
  <2> QED BY <2>1, <2>2
<1> QED BY <1>1, <1>2, <1>3 DEF AllTracked, Tracked

LEMMA TrackedStep ==
  ASSUME KeyInv, [KeyNext]_keyVars
  PROVE  KeyInv'
<1>1. KeyTypeOK /\ KeyTypeOK'
  BY KeyTypesStep DEF KeyInv
<1>2. SUFFICES ASSUME nemu_state' # "ABORT" PROVE AllTracked'
  BY <1>1 DEF KeyInv
<1>3. CASE UNCHANGED keyVars
  <2>1. UNCHANGED <<held, host, dropped, msg, fate, keystat, nemu_state, ring>>
    BY <1>3 DEF keyVars, hostVars, appVars, keyHistory
  <2> QED BY <1>2, <2>1, RingStays DEF KeyInv, AllTracked, Tracked, Arrived
<1>4. CASE KeyNext
  <2>1. nemu_state # "ABORT"
    BY <1>4 DEF KeyNext, Press, Release, CloseWindow, Post, device_update, sdb_mainloop,
                schedule, Polls, NDL_PollEvent, Uses, UseEvent, Leaves, Runs, Guest
  <2>2. AllTracked
    BY <2>1 DEF KeyInv
  <2> QED BY <1>1, <1>2, <1>4, <2>2, TrackedPost, TrackedUpdate, TrackedPrompt,
             TrackedSchedule, TrackedPoll, TrackedUsed DEF KeyNext
<1> QED BY <1>3, <1>4

(* What is tracked is what KeyStateTrue says, once nothing is on its way.  *)
LEMMA TrackedIsTrue == ASSUME KeyInv PROVE KeyStateTrue
<1>1. SUFFICES ASSUME nemu_state # "ABORT", NEW k \in Key, NEW p \in Program,
                      fate[k] = p, k \notin dropped,
                      \A e \in Range(host) \cup Range(Waiting) \cup {msg[p]} :
                        e \in Event => e.key # k
               PROVE  keystat[p][k] = (k \in held)
  BY DEF KeyStateTrue
<1>2. Of(host, k) = {} /\ Of(Waiting, k) = {}
  BY <1>1 DEF Of, Range
<1>3. msg[p] # NONE => msg[p].key # k
  BY <1>1 DEF KeyInv, KeyTypeOK
<1> QED BY <1>1, <1>2, <1>3 DEF KeyInv, AllTracked, Tracked, Arrived

----------------------------------------------------------------------------
(* Ring, register and readers implement the queue: each step is one of its *)
(* steps or none.                                                          *)
Got == [r \in Readers |-> IF r = Scheduler THEN ev_buf ELSE msg[r]]
Up  == nemu_state # "ABORT"

LEMMA QueueInit == ASSUME KeyInit PROVE Queue!Init
<1>1. Waiting = <<>>
  <2>1. key_f \in Index /\ key_r \in Index /\ key_queue \in [Index -> Item] /\ key_f = key_r
        /\ Waiting = Ring(key_queue, key_f, key_r)
    BY KeyTypesInit, WaitingIs DEF KeyInit
  <2> QED BY <2>1, RingFull
<1>2. Got = [r \in Readers |-> NONE]
  BY DEF KeyInit, Got, Readers
<1>3. Up
  BY DEF KeyInit, Up
<1> QED BY <1>1, <1>2, <1>3 DEF Queue!Init, Got, Up

LEMMA QueueStep ==
  ASSUME KeyInv, [KeyNext]_keyVars
  PROVE  [Queue!Next]_<<Waiting, Got, Up>>
<1> USE DEF KeyInv
<1> DEFINE Still == UNCHANGED <<Waiting, Got, Up>>
<1>1. ASSUME UNCHANGED <<ring, ev_buf, msg>>, (nemu_state' = "ABORT") = (nemu_state = "ABORT")
      PROVE  Still
  <2>1. Waiting' = Waiting
    BY <1>1, RingStays
  <2>2. Up' = Up
    BY <1>1 DEF Up
  <2> QED BY <1>1, <2>1, <2>2 DEF Got
<1>2. CASE UNCHANGED keyVars
  BY <1>1, <1>2 DEF keyVars, kernel, appVars
<1>3. ASSUME NEW e, Post(e) PROVE Still
  BY <1>1, <1>3 DEF Post, kernel, appVars
<1>4. CASE (\E k \in Key : Press(k) \/ Release(k)) \/ CloseWindow
  BY <1>3, <1>4 DEF Press, Release, CloseWindow
<1>5. CASE sdb_mainloop
  BY <1>1, <1>5 DEF sdb_mainloop, kernel, appVars
<1>6. CASE device_update
  <2>1. UNCHANGED <<ev_buf, msg>> /\ nemu_state \in {"RUNNING", "QUIT"}
        /\ Head(host) \in Event \cup {Window}
    BY <1>6, HeadTailProperties DEF device_update, KeyTypeOK, kernel, appVars
  <2>2. CASE Head(host) = Window \/ ~(nemu_state = "RUNNING" /\ Head(host).key \in Mapped)
    <3>1. UNCHANGED ring /\ nemu_state' \in {nemu_state, "QUIT"}
      BY <1>6, <2>2 DEF device_update, send_key
    <3> QED BY <1>1, <2>1, <3>1
  <2>3. CASE Head(host) # Window /\ nemu_state = "RUNNING" /\ Head(host).key \in Mapped
    <3>1. Head(host) \in Event /\ key_enqueue(Head(host))
      BY <1>6, <2>1, <2>3 DEF device_update, send_key
    <3>2. UNCHANGED Got /\ Up
      BY <2>1 DEF Got, Up
    <3>3. CASE Succ(key_r) # key_f
      <4>1. Waiting' = Append(Waiting, Head(host)) /\ nemu_state' = nemu_state
            /\ Len(Waiting) < KEY_QUEUE_LEN - 1
        BY <3>1, <3>3, EnqueueIs
      <4>2. Up' = Up
        BY <4>1 DEF Up
      <4>3. Queue!Accept(Head(host))
        BY <3>2, <4>1, <4>2 DEF Queue!Accept, Got, Up
      <4> QED BY <3>1, <4>3 DEF Queue!Next
    <3>4. CASE Succ(key_r) = key_f
      <4>1. nemu_state' = "ABORT" /\ Len(Waiting) = KEY_QUEUE_LEN - 1
        BY <3>1, <3>4, EnqueueIs
      <4>2. Waiting' = <<>>
        <5>1. key_r' = key_f' /\ key_queue' \in [Index -> Item] /\ key_f' \in Index
          BY <3>1, <3>4, EnqueueIs DEF key_enqueue
        <5>2. Waiting' = Ring(key_queue', key_f', key_r')
          BY DEF Waiting, Ring
        <5> QED BY <5>1, <5>2, RingFull
      <4>3. Queue!Overflow
        BY <3>2, <4>1, <4>2 DEF Queue!Overflow, Got, Up
      <4> QED BY <4>3 DEF Queue!Next
    <3> QED BY <3>3, <3>4
  <2> QED BY <2>2, <2>3
<1>7. ASSUME nemu_state = "RUNNING", UNCHANGED nemu_state, NEW r \in Readers, Dequeued,
             key_dequeue # NONE, Got' = [Got EXCEPT ![r] = key_dequeue]
      PROVE  Queue!Next
  <2>1. Waiting # <<>> /\ key_dequeue = Head(Waiting) /\ Waiting' = Tail(Waiting)
    BY <1>7, TakenIs DEF AllTracked
  <2>2. Up /\ Up' = Up
    BY <1>7 DEF Up
  <2>3. Queue!Take(r)
    BY <1>7, <2>1, <2>2 DEF Queue!Take, Got, Up
  <2> QED BY <2>3 DEF Queue!Next
<1>8. ASSUME NEW poll, NEW first, schedule(poll, first)
      PROVE  Queue!Next \/ Still
  <2>1. nemu_state = "RUNNING" /\ UNCHANGED <<nemu_state, msg>>
    BY <1>8 DEF schedule, Guest, appVars
  <2>2. CASE poll /\ key_dequeue # NONE
    <3>1. Dequeued /\ ev_buf' = key_dequeue
      BY <1>8, <2>2 DEF schedule, events_read
    <3>2. Scheduler \in Readers /\ Got' = [Got EXCEPT ![Scheduler] = key_dequeue]
      BY <2>1, <3>1 DEF Got, Readers
    <3> QED BY <1>7, <2>1, <2>2, <3>1, <3>2
  <2>3. CASE poll /\ key_dequeue = NONE
    <3>1. Waiting' = Waiting /\ ev_buf' = ev_buf
      BY <1>8, <2>1, <2>3, TakenIs DEF schedule, events_read, AllTracked
    <3> QED BY <2>1, <3>1 DEF Got, Up
  <2>4. CASE ~poll
    BY <1>1, <1>8, <2>1, <2>4 DEF schedule
  <2> QED BY <2>2, <2>3, <2>4
<1>9. ASSUME NEW p \in Program, Polls(p) PROVE Queue!Next
  <2>1. /\ nemu_state = "RUNNING" /\ UNCHANGED <<nemu_state, ev_buf>> /\ Dequeued
        /\ key_dequeue # NONE /\ msg' = [msg EXCEPT ![p] = key_dequeue]
    BY <1>9 DEF Polls, NDL_PollEvent, Runs, Guest, kernel
  <2>2. p \in Readers /\ Got' = [Got EXCEPT ![p] = key_dequeue]
    BY <2>1, KeyAssumption DEF Got, Readers, KeyTypeOK
  <2> QED BY <1>7, <2>1, <2>2
<1>10. ASSUME NEW p \in Program, Uses(p) \/ Leaves(p) PROVE Queue!Next
  <2>1. /\ nemu_state = "RUNNING" /\ UNCHANGED ev_buf /\ UNCHANGED ring
        /\ msg' = [msg EXCEPT ![p] = NONE]
    BY <1>10 DEF Uses, Leaves, UseEvent, Runs, Guest, kernel
  <2>2. Waiting' = Waiting
    BY <2>1, RingStays
  <2>3. p \in Readers /\ Got' = [Got EXCEPT ![p] = NONE]
    BY <2>1, KeyAssumption DEF Got, Readers, KeyTypeOK
  <2>4. Up /\ Up' = Up
    <3>1. nemu_state' \in {"RUNNING", "PANIC", "END"}
      BY <1>10, <2>1 DEF Uses, Leaves
    <3> QED BY <2>1, <3>1 DEF Up
  <2>5. Queue!UseUp(p)
    BY <2>2, <2>3, <2>4 DEF Queue!UseUp, Got, Up
  <2> QED BY <2>3, <2>5 DEF Queue!Next
<1> QED BY <1>2, <1>4, <1>5, <1>6, <1>8, <1>9, <1>10 DEF KeyNext
=============================================================================
