------------------------- MODULE WatchpointsProofs -------------------------
(***************************************************************************)
(* Proofs about Watchpoints, for a pool of any size.  Because both lists   *)
(* are kept in order, what a list is can be said node by node (Linked), so *)
(* that each loop needs an invariant about its curr only and no notion of  *)
(* what is reachable.                                                      *)
(***************************************************************************)
EXTENDS Watchpoints, TLAPS

Pointer == Node \cup {Null}

LEMMA NodesAreIntegers == (\A i \in Node : i \in Int) /\ Null \notin Node
  BY PoolAssumption DEF Node

(* What the pointer of a node of a list is.                                *)
LEMMA NextNode ==
  ASSUME NEW n \in [Node -> Pointer], NEW S \in SUBSET Node, NEW h,
         Linked(n, S, h), NEW i \in S
  PROVE  \/ n[i] = Null /\ \A j \in S : j <= i
         \/ n[i] \in S /\ i < n[i] /\ \A j \in S : i < j => n[i] <= j
  BY NodesAreIntegers DEF Linked, Least

LEMMA FirstNode ==
  ASSUME NEW n, NEW S, NEW h, Linked(n, S, h)
  PROVE  \/ S = {} /\ h = Null
         \/ h \in S /\ \A i \in S : h <= i
  BY DEF Linked, Least

(* And the other way round: such pointers make a list.                     *)
LEMMA MakesList ==
  ASSUME NEW n \in [Node -> Pointer], NEW S \in SUBSET Node, NEW h \in S,
         \A i \in S : h <= i,
         \A i \in S : \/ n[i] = Null /\ \A j \in S : j <= i
                      \/ n[i] \in S /\ i < n[i] /\ \A j \in S : i < j => n[i] <= j
  PROVE  Linked(n, S, h)
<1>1. Least(h, S)
  BY DEF Least
<1>2. ASSUME NEW i \in S PROVE Least(n[i], {j \in S : i < j})
  <2>1. CASE n[i] = Null /\ \A j \in S : j <= i
    <3>1. {j \in S : i < j} = {}
      BY <2>1, NodesAreIntegers
    <3> QED BY <2>1, <3>1 DEF Least
  <2>2. CASE n[i] \in S /\ i < n[i] /\ \A j \in S : i < j => n[i] <= j
    BY <2>2 DEF Least
  <2> QED BY <2>1, <2>2
<1> QED BY <1>1, <1>2 DEF Linked

(* A list does not depend on the pointers of other nodes.                  *)
LEMMA OthersPointers ==
  ASSUME NEW n, NEW m, NEW S, NEW h, Linked(n, S, h), \A i \in S : m[i] = n[i]
  PROVE  Linked(m, S, h)
  BY DEF Linked

(* A node put between two, behind the last, or in front (watchpoint.c:     *)
(* 64-80, 101-115).                                                        *)
LEMMA PutBetween ==
  ASSUME NEW n \in [Node -> Pointer], NEW S \in SUBSET Node, NEW h,
         NEW c \in S, NEW x \in Node \ S,
         Linked(n, S, h), c < x, n[c] # Null, n[c] > x
  PROVE  Linked([n EXCEPT ![x] = n[c], ![c] = x], S \cup {x}, h)
<1> DEFINE m == [n EXCEPT ![x] = n[c], ![c] = x]
           T == S \cup {x}
<1>0. T \in SUBSET Node /\ (\A i \in Node : i \in Int) /\ c # x
  BY NodesAreIntegers
<1>1. m \in [Node -> Pointer] /\ m[c] = x /\ m[x] = n[c] /\ \A i \in S \ {c} : m[i] = n[i]
  BY <1>0 DEF Pointer
<1>2. n[c] \in S /\ \A j \in S : c < j => n[c] <= j
  BY NextNode
<1>3. h \in T /\ \A i \in T : h <= i
  <2>1. h \in S /\ \A i \in S : h <= i
    BY FirstNode
  <2> QED BY <2>1, <1>0
<1> HIDE DEF m
<1>4. ASSUME NEW i \in T
      PROVE  \/ m[i] = Null /\ \A j \in T : j <= i
             \/ m[i] \in T /\ i < m[i] /\ \A j \in T : i < j => m[i] <= j
  <2>1. CASE i = x
    <3>1. ASSUME NEW j \in S, x < j PROVE n[c] <= j
      BY <1>0, <1>2, <3>1
    <3> QED BY <1>0, <1>1, <1>2, <2>1, <3>1
  <2>2. CASE i = c
    <3>1. ASSUME NEW j \in S, c < j PROVE x <= j
      BY <1>0, <1>2, <3>1
    <3> QED BY <1>0, <1>1, <2>2, <3>1
  <2>3. CASE i \in S \ {c}
    <3>1. \/ n[i] = Null /\ \A j \in S : j <= i
          \/ n[i] \in S /\ i < n[i] /\ \A j \in S : i < j => n[i] <= j
      BY <2>3, NextNode
    <3>2. m[i] = n[i]
      BY <1>1, <2>3
    <3>3. CASE n[i] = Null /\ \A j \in S : j <= i
      BY <1>0, <1>2, <3>2, <3>3
    <3>4. CASE n[i] \in S /\ i < n[i] /\ \A j \in S : i < j => n[i] <= j
      <4>1. i < x => n[i] <= x
        BY <1>0, <1>2, <2>3, <3>4
      <4> QED BY <1>0, <3>2, <3>4, <4>1
    <3> QED BY <3>1, <3>3, <3>4
  <2> QED BY <2>1, <2>2, <2>3
<1>5. Linked(m, T, h)
  BY <1>0, <1>1, <1>3, <1>4, MakesList
<1> QED BY <1>5 DEF m

LEMMA PutBehind ==
  ASSUME NEW n \in [Node -> Pointer], NEW S \in SUBSET Node, NEW h,
         NEW c \in S, NEW x \in Node \ S,
         Linked(n, S, h), c < x, n[c] = Null
  PROVE  Linked([n EXCEPT ![c] = x, ![x] = Null], S \cup {x}, h)
<1> DEFINE m == [n EXCEPT ![c] = x, ![x] = Null]
           T == S \cup {x}
<1>0. T \in SUBSET Node /\ (\A i \in Node : i \in Int) /\ c # x /\ Null \notin Node
  BY NodesAreIntegers
<1>1. m \in [Node -> Pointer] /\ m[c] = x /\ m[x] = Null /\ \A i \in S \ {c} : m[i] = n[i]
  BY <1>0 DEF Pointer
<1>2. \A j \in S : j <= c
  BY <1>0, NextNode
<1>3. h \in T /\ \A i \in T : h <= i
  <2>1. h \in S /\ \A i \in S : h <= i
    BY FirstNode
  <2> QED BY <2>1, <1>0
<1> HIDE DEF m
<1>4. ASSUME NEW i \in T
      PROVE  \/ m[i] = Null /\ \A j \in T : j <= i
             \/ m[i] \in T /\ i < m[i] /\ \A j \in T : i < j => m[i] <= j
  <2>1. CASE i = x
    BY <1>0, <1>1, <1>2, <2>1
  <2>2. CASE i = c
    <3>1. \A j \in T : c < j => x <= j
      BY <1>0, <1>2
    <3> QED BY <1>0, <1>1, <2>2, <3>1
  <2>3. CASE i \in S \ {c}
    <3>1. \/ n[i] = Null /\ \A j \in S : j <= i
          \/ n[i] \in S /\ i < n[i] /\ \A j \in S : i < j => n[i] <= j
      BY <2>3, NextNode
    <3>2. m[i] = n[i] /\ i < c
      BY <1>0, <1>1, <1>2, <2>3
    <3>3. n[i] \in S /\ i < n[i] /\ n[i] <= c /\ \A j \in S : i < j => n[i] <= j
      BY <1>0, <3>1, <3>2
    <3> QED BY <1>0, <3>2, <3>3
  <2> QED BY <2>1, <2>2, <2>3
<1>5. Linked(m, T, h)
  BY <1>0, <1>1, <1>3, <1>4, MakesList
<1> QED BY <1>5 DEF m

LEMMA PutFront ==
  ASSUME NEW n \in [Node -> Pointer], NEW S \in SUBSET Node, NEW h,
         NEW x \in Node \ S,
         Linked(n, S, h), h = Null \/ x < h
  PROVE  Linked([n EXCEPT ![x] = h], S \cup {x}, x)
<1> DEFINE m == [n EXCEPT ![x] = h]
           T == S \cup {x}
<1>0. T \in SUBSET Node /\ (\A i \in Node : i \in Int) /\ Null \notin Node
  BY NodesAreIntegers
<1>1. \/ S = {} /\ h = Null
      \/ h \in S /\ \A i \in S : h <= i
  BY FirstNode
<1>2. m \in [Node -> Pointer] /\ m[x] = h /\ \A i \in S : m[i] = n[i]
  BY <1>1 DEF Pointer
<1>3. \A i \in S : x < i
  BY <1>0, <1>1
<1> HIDE DEF m
<1>4. ASSUME NEW i \in T
      PROVE  \/ m[i] = Null /\ \A j \in T : j <= i
             \/ m[i] \in T /\ i < m[i] /\ \A j \in T : i < j => m[i] <= j
  <2>1. CASE i = x
    BY <1>0, <1>1, <1>2, <1>3, <2>1
  <2>2. CASE i \in S
    <3>1. \/ n[i] = Null /\ \A j \in S : j <= i
          \/ n[i] \in S /\ i < n[i] /\ \A j \in S : i < j => n[i] <= j
      BY <2>2, NextNode
    <3> QED BY <1>0, <1>2, <1>3, <2>2, <3>1
  <2> QED BY <2>1, <2>2
<1>5. \A i \in T : x <= i
  BY <1>0, <1>3
<1>6. Linked(m, T, x)
  BY <1>0, <1>2, <1>4, <1>5, MakesList
<1> QED BY <1>6 DEF m

(* A node taken off the front, or from behind c (watchpoint.c:55, 88, 92). *)
LEMMA TakeFront ==
  ASSUME NEW n \in [Node -> Pointer], NEW S \in SUBSET Node, NEW h \in S,
         Linked(n, S, h)
  PROVE  Linked(n, S \ {h}, n[h])
<1>0. (\A i \in Node : i \in Int) /\ Null \notin Node
  BY NodesAreIntegers
<1>1. \A i \in S : h <= i
  BY <1>0, FirstNode
<1>2. \/ n[h] = Null /\ \A j \in S : j <= h
      \/ n[h] \in S /\ h < n[h] /\ \A j \in S : h < j => n[h] <= j
  BY NextNode
<1>3. CASE n[h] = Null
  <2>1. S \ {h} = {}
    BY <1>0, <1>1, <1>2, <1>3
  <2> QED BY <1>3, <2>1 DEF Linked, Least
<1>4. CASE n[h] # Null
  <2>1. n[h] \in S \ {h} /\ \A i \in S \ {h} : n[h] <= i
    BY <1>0, <1>1, <1>2, <1>4
  <2>2. ASSUME NEW i \in S \ {h}
        PROVE  \/ n[i] = Null /\ \A j \in S \ {h} : j <= i
               \/ n[i] \in S \ {h} /\ i < n[i] /\ \A j \in S \ {h} : i < j => n[i] <= j
    <3>1. \/ n[i] = Null /\ \A j \in S : j <= i
          \/ n[i] \in S /\ i < n[i] /\ \A j \in S : i < j => n[i] <= j
      BY NextNode
    <3> QED BY <1>0, <1>1, <3>1
  <2> QED BY <2>1, <2>2, MakesList
<1> QED BY <1>3, <1>4

LEMMA TakeBehind ==
  ASSUME NEW n \in [Node -> Pointer], NEW S \in SUBSET Node, NEW h,
         NEW c \in S, NEW x \in S,
         Linked(n, S, h), n[c] = x
  PROVE  Linked([n EXCEPT ![c] = n[x]], S \ {x}, h)
<1> DEFINE m == [n EXCEPT ![c] = n[x]]
           T == S \ {x}
<1>0. T \in SUBSET Node /\ (\A i \in Node : i \in Int) /\ Null \notin Node
  BY NodesAreIntegers
<1>1. m \in [Node -> Pointer] /\ m[c] = n[x] /\ \A i \in S \ {c} : m[i] = n[i]
  BY DEF Pointer
<1>2. c < x /\ \A j \in S : c < j => x <= j
  BY <1>0, NextNode
<1>3. \/ n[x] = Null /\ \A j \in S : j <= x
      \/ n[x] \in S /\ x < n[x] /\ \A j \in S : x < j => n[x] <= j
  BY NextNode
<1>4. h \in T /\ \A i \in T : h <= i
  <2>1. h \in S /\ \A i \in S : h <= i
    BY FirstNode
  <2> QED BY <1>0, <1>2, <2>1
<1> HIDE DEF m
<1>5. ASSUME NEW i \in T
      PROVE  \/ m[i] = Null /\ \A j \in T : j <= i
             \/ m[i] \in T /\ i < m[i] /\ \A j \in T : i < j => m[i] <= j
  <2>1. CASE i = c
    <3>1. \A j \in T : c < j => x < j
      BY <1>0, <1>2
    <3>2. CASE n[x] = Null
      BY <1>0, <1>1, <1>2, <1>3, <2>1, <3>1, <3>2
    <3>3. CASE n[x] # Null
      <4>1. n[x] \in T /\ c < n[x] /\ \A j \in T : c < j => n[x] <= j
        BY <1>0, <1>2, <1>3, <3>1, <3>3
      <4> QED BY <1>1, <2>1, <4>1
    <3> QED BY <3>2, <3>3
  <2>2. CASE i # c
    <3>1. \/ n[i] = Null /\ \A j \in S : j <= i
          \/ n[i] \in S /\ i < n[i] /\ \A j \in S : i < j => n[i] <= j
      BY NextNode
    <3>2. n[i] # x
      BY <1>0, <1>2, <2>2, <3>1
    <3> QED BY <1>0, <1>1, <2>2, <3>1, <3>2
  <2> QED BY <2>1, <2>2
<1>6. Linked(m, T, h)
  BY <1>0, <1>1, <1>4, <1>5, MakesList
<1> QED BY <1>6 DEF m

(* A loop that walks a list from below x does not pass x.                  *)
LEMMA Walk ==
  ASSUME NEW n \in [Node -> Pointer], NEW S \in SUBSET Node, NEW h,
         NEW c \in S, NEW x \in Node, Linked(n, S, h), c < x
  PROVE  /\ n[c] # Null => n[c] \in S
         /\ x \notin S /\ n[c] # Null /\ ~(n[c] > x) => n[c] < x
         /\ x \in S => n[c] \in S /\ (n[c] # x => n[c] < x)
<1>0. (\A i \in Node : i \in Int) /\ Null \notin Node
  BY NodesAreIntegers
<1>1. \/ n[c] = Null /\ \A j \in S : j <= c
      \/ n[c] \in S /\ c < n[c] /\ \A j \in S : c < j => n[c] <= j
  BY NextNode
<1> QED BY <1>0, <1>1

----------------------------------------------------------------------------
(* The inductive invariant, action by action.                              *)
LEMMA InitInv == Init => IInv
<1> SUFFICES ASSUME Init PROVE IInv
  OBVIOUS
<1>0. (\A i \in Node : i \in Int) /\ Null \notin Node /\ 0 \in Node
  BY NodesAreIntegers, PoolAssumption DEF Node
<1>1. next \in [Node -> Pointer]
  BY PoolAssumption DEF Init, FreeList, Node, Pointer
<1>2. TypeOK
  BY <1>0, <1>1 DEF Init, TypeOK, Pointer
<1>3. Linked(next, used, head)
  BY DEF Init, Linked, Least
<1>4. Linked(next, Node, 0)
  <2>1. ASSUME NEW i \in Node
        PROVE  \/ next[i] = Null /\ \A j \in Node : j <= i
               \/ next[i] \in Node /\ i < next[i] /\ \A j \in Node : i < j => next[i] <= j
    <3>1. CASE i = NR_WP - 1
      BY <3>1, PoolAssumption DEF Init, FreeList, Node
    <3>2. CASE i # NR_WP - 1
      BY <3>2, PoolAssumption DEF Init, FreeList, Node
    <3> QED BY <3>1, <3>2
  <2>2. \A i \in Node : 0 <= i
    BY PoolAssumption DEF Node
  <2> QED BY <1>0, <1>1, <2>1, <2>2, MakesList
<1>5. Linked(next, (Node \ used) \ InTransit, free_)
  <2>1. (Node \ used) \ InTransit = Node /\ free_ = 0
    BY DEF Init, InTransit
  <2> QED BY <1>4, <2>1
<1>6. Loops /\ Fresh
  BY DEF Init, Loops, Fresh
<1> QED BY <1>2, <1>3, <1>5, <1>6 DEF IInv

LEMMA ExecuteInv == IInv /\ Execute => IInv'
  BY DEF IInv, Execute, TypeOK, Loops, Fresh, InTransit, lists, data

LEMMA AddInv ==
  ASSUME IInv, NEW e \in Expr, Add(e)
  PROVE  IInv'
<1>0. /\ next \in [Node -> Pointer] /\ head \in Pointer /\ used \in SUBSET Node
      /\ (\A i \in Node : i \in Int) /\ Null \notin Node
      /\ pc = "ready" /\ free_ # Null
  BY NodesAreIntegers DEF IInv, TypeOK, Add, Pointer
<1> DEFINE F == Node \ used
           x == free_
<1>1. Linked(next, used, head) /\ Linked(next, F, x)
  <2>1. (Node \ used) \ InTransit = F
    BY <1>0 DEF InTransit
  <2> QED BY <2>1 DEF IInv
<1>2. x \in F /\ \A i \in F : x <= i
  BY <1>0, <1>1, FirstNode
<1>3. Linked(next, F \ {x}, next[x]) /\ next[x] \in Pointer
  BY <1>0, <1>1, <1>2, TakeFront
<1>4. CASE head = Null \/ x < head
  <2>1. /\ next' = [next EXCEPT ![x] = head] /\ head' = x /\ free_' = next[x]
        /\ Watched(x, e) /\ UNCHANGED <<cur, changed, value>> /\ node' = x /\ arg' = e
    BY <1>4 DEF Add
  <2>2. used' = used \cup {x} /\ pc' = "ready" /\ (Node \ used') \ InTransit' = F \ {x}
    BY <2>1 DEF Watched, InTransit
  <2>3. Linked(next', used', head')
    BY <1>0, <1>1, <1>2, <1>4, <2>1, <2>2, PutFront
  <2>4. Linked(next', F \ {x}, free_')
    <3>1. \A i \in F \ {x} : next'[i] = next[i]
      BY <1>0, <2>1
    <3> QED BY <1>3, <2>1, <3>1, OthersPointers
  <2>5. TypeOK'
    BY <1>0, <1>2, <1>3, <2>1, <2>2 DEF IInv, TypeOK, Watched, Pointer
  <2>6. Loops' /\ Fresh'
    BY <2>2 DEF Loops, Fresh
  <2> QED BY <2>2, <2>3, <2>4, <2>5, <2>6 DEF IInv
<1>5. CASE ~(head = Null \/ x < head)
  <2>1. /\ next' = [next EXCEPT ![x] = Null] /\ free_' = next[x]
        /\ pc' = "insert" /\ cur' = head /\ node' = x /\ arg' = e
        /\ UNCHANGED <<head, expr, val, used, changed, value>>
    BY <1>5 DEF Add, data
  <2>2. (Node \ used') \ InTransit' = F \ {x}
    BY <2>1 DEF InTransit
  <2>3. Linked(next', used', head')
    <3>1. \A i \in used : next'[i] = next[i]
      BY <1>0, <1>2, <2>1
    <3> QED BY <1>1, <2>1, <3>1, OthersPointers
  <2>4. Linked(next', F \ {x}, free_')
    <3>1. \A i \in F \ {x} : next'[i] = next[i]
      BY <1>0, <2>1
    <3> QED BY <1>3, <2>1, <3>1, OthersPointers
  <2>5. TypeOK'
    BY <1>0, <1>2, <1>3, <2>1 DEF IInv, TypeOK, Pointer
  <2>6. head \in used /\ head < x
    <3>1. head \in used
      BY <1>1, <1>5, FirstNode
    <3> QED BY <1>0, <1>2, <1>5, <3>1
  <2>7. Loops' /\ Fresh'
    BY <1>2, <2>1, <2>6 DEF Loops, Fresh
  <2> QED BY <2>2, <2>3, <2>4, <2>5, <2>7 DEF IInv
<1> QED BY <1>4, <1>5

LEMMA InsertInv == IInv /\ Insert => IInv'
<1> SUFFICES ASSUME IInv, Insert PROVE IInv'
  OBVIOUS
<1>0. /\ next \in [Node -> Pointer] /\ used \in SUBSET Node
      /\ (\A i \in Node : i \in Int) /\ Null \notin Node
      /\ pc = "insert" /\ node \in Node \ used /\ cur \in used /\ cur < node /\ arg \in Expr
  BY NodesAreIntegers DEF IInv, TypeOK, Insert, Loops, Pointer
<1> DEFINE F == (Node \ used) \ {node}
<1>1. Linked(next, used, head) /\ Linked(next, F, free_)
  BY <1>0 DEF IInv, InTransit
<1>2. CASE /\ Put /\ Watched(node, arg)
           /\ UNCHANGED <<head, free_, cur, node, arg, changed, value>>
  <2>1. used' = used \cup {node} /\ pc' = "ready" /\ (Node \ used') \ InTransit' = F
    BY <1>2 DEF Watched, InTransit
  <2>2. Linked(next', used', head')
    <3>1. CASE next[cur] = Null /\ next' = Behind
      BY <1>0, <1>1, <1>2, <2>1, <3>1, PutBehind DEF Behind
    <3>2. CASE next[cur] # Null /\ cur < node /\ next[cur] > node /\ next' = Between
      BY <1>0, <1>1, <1>2, <2>1, <3>2, PutBetween DEF Between
    <3> QED BY <1>2, <3>1, <3>2 DEF Put
  <2>3. next' \in [Node -> Pointer] /\ \A i \in F : next'[i] = next[i]
    BY <1>0, <1>2 DEF Put, Behind, Between, Pointer
  <2>4. Linked(next', F, free_')
    BY <1>1, <1>2, <2>3, OthersPointers
  <2>5. TypeOK'
    <3>1. /\ expr' = [expr EXCEPT ![node] = arg] /\ val' = [val EXCEPT ![node] = value[arg]]
          /\ value[arg] \in Val
      BY <1>0, <1>2 DEF Watched, IInv, TypeOK
    <3>2. /\ expr' \in [Node -> Expr \cup {Null}] /\ val' \in [Node -> Val \cup {Null}]
          /\ \A i \in used' : expr'[i] \in Expr
      BY <1>0, <2>1, <3>1 DEF IInv, TypeOK
    <3> QED BY <1>0, <1>2, <2>1, <2>3, <3>2 DEF IInv, TypeOK, Pointer
  <2>6. Loops' /\ Fresh'
    BY <2>1 DEF Loops, Fresh
  <2> QED BY <2>1, <2>2, <2>4, <2>5, <2>6 DEF IInv
<1>3. CASE Pass
  <2>1. next[cur] \in used /\ next[cur] < node
    BY <1>0, <1>1, <1>3, Walk DEF Pass
  <2> QED BY <1>0, <1>3, <2>1 DEF IInv, Pass, TypeOK, Loops, Fresh, InTransit, lists, data
<1> QED BY <1>2, <1>3 DEF Insert

LEMMA RemoveInv ==
  ASSUME IInv, NEW no \in Node, Remove(no)
  PROVE  IInv'
<1>1. head \in used
  BY FirstNode DEF IInv, Remove
<1> QED BY <1>1 DEF IInv, Remove, TypeOK, Loops, Fresh, InTransit, lists, data

(* node is off the used list, whose pointers are n: the rest of free_wp(). *)
LEMMA ReleaseInv ==
  ASSUME IInv, pc \in {"find", "unlink"}, node \in used,
         NEW n \in [Node -> Pointer], Release(n), head' \in Pointer,
         Linked(n, used \ {node}, head'), Linked(n, Node \ used, free_)
  PROVE  IInv'
<1>0. /\ used \in SUBSET Node /\ node \in Node /\ free_ \in Pointer
      /\ (\A i \in Node : i \in Int) /\ Null \notin Node
  BY NodesAreIntegers DEF IInv, TypeOK, Pointer
<1>1. used' = used \ {node} /\ UNCHANGED <<expr, val, node, arg, changed, value>>
  BY DEF Release, data
<1> DEFINE F == Node \ used
<1>2. CASE free_ = Null \/ node < free_
  <2>1. /\ next' = [n EXCEPT ![node] = free_] /\ free_' = node
        /\ pc' = "ready" /\ cur' = cur
    BY <1>2 DEF Release
  <2>2. (Node \ used') \ InTransit' = F \cup {node}
    BY <1>0, <1>1, <2>1 DEF InTransit
  <2>3. Linked(next', F \cup {node}, free_')
    BY <1>0, <1>2, <2>1, PutFront
  <2>4. Linked(next', used', head')
    <3>1. \A i \in used \ {node} : next'[i] = n[i]
      BY <1>0, <2>1
    <3> QED BY <1>1, <3>1, OthersPointers
  <2>5. TypeOK'
    BY <1>0, <1>1, <2>1 DEF IInv, TypeOK, Pointer
  <2>6. Loops' /\ Fresh'
    BY <2>1 DEF Loops, Fresh
  <2> QED BY <2>2, <2>3, <2>4, <2>5, <2>6 DEF IInv
<1>3. CASE ~(free_ = Null \/ node < free_)
  <2>1. next' = n /\ pc' = "free" /\ cur' = free_ /\ free_' = free_
    BY <1>3 DEF Release
  <2>2. (Node \ used') \ InTransit' = F /\ Node \ used' = F \cup {node}
    BY <1>0, <1>1, <2>1 DEF InTransit
  <2>3. free_ \in F /\ free_ < node
    <3>1. free_ \in F
      BY <1>3, FirstNode
    <3> QED BY <1>0, <1>3, <3>1
  <2>4. TypeOK'
    BY <1>0, <1>1, <2>1 DEF IInv, TypeOK, Pointer
  <2>5. Loops' /\ Fresh'
    BY <1>0, <1>1, <2>1, <2>2, <2>3 DEF Loops, Fresh
  <2> QED BY <1>1, <2>1, <2>2, <2>4, <2>5 DEF IInv
<1> QED BY <1>2, <1>3

LEMMA FindInv == IInv /\ Find => IInv'
<1> SUFFICES ASSUME IInv, Find PROVE IInv'
  OBVIOUS
<1>0. /\ next \in [Node -> Pointer] /\ used \in SUBSET Node /\ head \in Pointer
      /\ (\A i \in Node : i \in Int) /\ Null \notin Node
      /\ pc = "find" /\ node \in Node /\ cur \in used \cup {Null}
  BY NodesAreIntegers DEF IInv, TypeOK, Find, Loops, Pointer
<1>1. Linked(next, used, head) /\ Linked(next, Node \ used, free_)
  <2>1. (Node \ used) \ InTransit = Node \ used
    BY <1>0 DEF InTransit
  <2> QED BY <2>1 DEF IInv
<1>2. CASE cur = Null /\ pc' = "ready" /\ UNCHANGED <<lists, data, cur, node, arg, changed, value, used>>
  BY <1>0, <1>2 DEF IInv, TypeOK, Loops, Fresh, InTransit, lists, data
<1>3. CASE /\ cur # Null /\ cur # node /\ cur' = next[cur]
           /\ UNCHANGED <<lists, data, pc, node, arg, changed, value, used>>
  <2>1. next[cur] \in used \cup {Null}
    BY <1>0, <1>1, <1>3, NextNode
  <2> QED BY <1>0, <1>3, <2>1 DEF IInv, TypeOK, Loops, Fresh, InTransit, lists, data
<1>4. CASE cur = node /\ head = node /\ head' = next[head] /\ Release(next)
  <2>1. node \in used
    BY <1>0, <1>4
  <2>2. Linked(next, used \ {node}, head') /\ head' \in Pointer
    BY <1>0, <1>1, <1>4, <2>1, TakeFront
  <2> QED BY <1>0, <1>1, <1>4, <2>1, <2>2, ReleaseInv
<1>5. CASE /\ cur = node /\ head # node /\ pc' = "unlink" /\ cur' = head
           /\ UNCHANGED <<lists, data, node, arg, changed, value, used>>
  <2>1. node \in used /\ head \in used /\ head < node
    <3>1. node \in used
      BY <1>0, <1>5
    <3>2. head \in used /\ head <= node
      BY <1>1, <3>1, FirstNode
    <3> QED BY <1>0, <1>5, <3>1, <3>2
  <2> QED BY <1>0, <1>5, <2>1 DEF IInv, TypeOK, Loops, Fresh, InTransit, lists, data
<1> QED BY <1>2, <1>3, <1>4, <1>5 DEF Find

LEMMA UnlinkInv == IInv /\ Unlink => IInv'
<1> SUFFICES ASSUME IInv, Unlink PROVE IInv'
  OBVIOUS
<1>0. /\ next \in [Node -> Pointer] /\ used \in SUBSET Node /\ head \in Pointer
      /\ (\A i \in Node : i \in Int) /\ Null \notin Node
      /\ pc = "unlink" /\ node \in used /\ cur \in used /\ cur < node
  BY NodesAreIntegers DEF IInv, TypeOK, Unlink, Loops, Pointer
<1>1. Linked(next, used, head) /\ Linked(next, Node \ used, free_)
  <2>1. (Node \ used) \ InTransit = Node \ used
    BY <1>0 DEF InTransit
  <2> QED BY <2>1 DEF IInv
<1>2. next[cur] \in used /\ (next[cur] # node => next[cur] < node)
  BY <1>0, <1>1, Walk
<1>3. CASE /\ next[cur] # Null /\ next[cur] # node /\ cur' = next[cur]
           /\ UNCHANGED <<lists, data, pc, node, arg, changed, value, used>>
  BY <1>0, <1>2, <1>3 DEF IInv, TypeOK, Loops, Fresh, InTransit, lists, data
<1>4. CASE /\ next[cur] = node /\ head' = head
           /\ Release([next EXCEPT ![cur] = next[node]])
  <2> DEFINE n == [next EXCEPT ![cur] = next[node]]
  <2>1. n \in [Node -> Pointer] /\ \A i \in Node \ used : n[i] = next[i]
    BY <1>0
  <2>2. Linked(n, used \ {node}, head')
    BY <1>0, <1>1, <1>4, TakeBehind
  <2>3. Linked(n, Node \ used, free_)
    BY <1>1, <2>1, OthersPointers
  <2>4. Release(n)
    BY <1>4
  <2> HIDE DEF n
  <2> QED BY <1>0, <1>4, <2>1, <2>2, <2>3, <2>4, ReleaseInv
<1> QED BY <1>0, <1>2, <1>3, <1>4 DEF Unlink

LEMMA FreeInv == IInv /\ Free => IInv'
<1> SUFFICES ASSUME IInv, Free PROVE IInv'
  OBVIOUS
<1> DEFINE F == (Node \ used) \ {node}
<1>0. /\ next \in [Node -> Pointer] /\ used \in SUBSET Node
      /\ (\A i \in Node : i \in Int) /\ Null \notin Node
      /\ pc = "free" /\ node \in Node \ used /\ cur \in F /\ cur < node
  BY NodesAreIntegers DEF IInv, TypeOK, Free, Loops, Pointer
<1>1. Linked(next, used, head) /\ Linked(next, F, free_) /\ F \in SUBSET Node
  BY <1>0 DEF IInv, InTransit
<1>2. CASE /\ Put /\ pc' = "ready"
           /\ UNCHANGED <<head, free_, data, cur, node, arg, changed, value, used>>
  <2>1. (Node \ used') \ InTransit' = F \cup {node} /\ node \in Node \ F
    BY <1>0, <1>2 DEF InTransit
  <2>2. Linked(next', F \cup {node}, free_')
    <3>1. CASE next[cur] = Null /\ next' = Behind
      BY <1>0, <1>1, <1>2, <2>1, <3>1, PutBehind DEF Behind
    <3>2. CASE next[cur] # Null /\ cur < node /\ next[cur] > node /\ next' = Between
      BY <1>0, <1>1, <1>2, <2>1, <3>2, PutBetween DEF Between
    <3> QED BY <1>2, <3>1, <3>2 DEF Put
  <2>3. next' \in [Node -> Pointer] /\ \A i \in used : next'[i] = next[i]
    BY <1>0, <1>2 DEF Put, Behind, Between, Pointer
  <2>4. Linked(next', used', head')
    BY <1>1, <1>2, <2>3, OthersPointers
  <2>5. TypeOK'
    BY <1>0, <1>2, <2>3 DEF IInv, TypeOK, Pointer, data
  <2>6. Loops' /\ Fresh'
    BY <1>2 DEF Loops, Fresh
  <2> QED BY <2>1, <2>2, <2>4, <2>5, <2>6 DEF IInv
<1>3. CASE Pass
  <2>1. next[cur] \in F /\ next[cur] < node
    BY <1>0, <1>1, <1>3, Walk DEF Pass
  <2> QED BY <1>0, <1>3, <2>1 DEF IInv, Pass, TypeOK, Loops, Fresh, InTransit, lists, data
<1> QED BY <1>2, <1>3 DEF Free

LEMMA ScanInv == IInv /\ Scan => IInv'
<1> SUFFICES ASSUME IInv, Scan PROVE IInv'
  OBVIOUS
<1>1. \/ used = {} /\ head = Null
      \/ head \in used /\ \A i \in used : head <= i
  BY FirstNode DEF IInv
<1>2. \A i \in used : ~(head = Null \/ i < head)
  BY <1>1, NodesAreIntegers DEF IInv, TypeOK
<1> QED BY <1>1, <1>2 DEF IInv, Scan, TypeOK, Loops, Fresh, InTransit, lists, data

LEMMA ScanNextInv == IInv /\ ScanNext => IInv'
<1> SUFFICES ASSUME IInv, ScanNext PROVE IInv'
  OBVIOUS
<1>0. /\ next \in [Node -> Pointer] /\ used \in SUBSET Node
      /\ (\A i \in Node : i \in Int) /\ Null \notin Node
      /\ pc = "scan" /\ cur \in used \cup {Null}
  BY NodesAreIntegers DEF IInv, TypeOK, ScanNext, Loops, Pointer
<1>1. CASE cur = Null /\ pc' = "ready" /\ UNCHANGED <<lists, data, cur, node, arg, changed, value, used>>
  BY <1>0, <1>1 DEF IInv, TypeOK, Loops, Fresh, InTransit, lists, data
<1>2. CASE /\ cur # Null /\ Compare /\ cur' = next[cur]
           /\ UNCHANGED <<lists, expr, pc, node, arg, value, used>>
  <2>1. \/ next[cur] = Null /\ \A j \in used : j <= cur
        \/ next[cur] \in used /\ \A j \in used : cur < j => next[cur] <= j
    BY <1>0, <1>2, NextNode DEF IInv
  <2>2. expr[cur] \in Expr /\ value[expr[cur]] \in Val
    BY <1>0, <1>2 DEF IInv, TypeOK
  <2>3. TypeOK'
    BY <1>0, <1>2, <2>1, <2>2 DEF IInv, TypeOK, Compare, lists
  <2>4. Fresh'
    <3> SUFFICES ASSUME NEW i \in used, next[cur] = Null \/ i < next[cur]
                 PROVE  val'[i] = value[expr[i]]
      BY <1>2 DEF Fresh
    <3>1. CASE i = cur
      BY <1>0, <1>2, <3>1 DEF IInv, TypeOK, Compare
    <3>2. CASE i # cur
      <4>1. i < cur
        BY <1>0, <1>2, <2>1, <3>2
      <4>2. val[i] = value[expr[i]]
        BY <1>0, <4>1 DEF IInv, Fresh
      <4> QED BY <1>0, <1>2, <3>2, <4>2 DEF IInv, TypeOK, Compare
    <3> QED BY <3>1, <3>2
  <2>5. Loops'
    BY <1>0, <1>2, <2>1 DEF IInv, Loops
  <2> QED BY <1>2, <2>3, <2>4, <2>5 DEF IInv, InTransit, lists
<1> QED BY <1>1, <1>2 DEF ScanNext

LEMMA StutterInv == IInv /\ UNCHANGED vars => IInv'
  BY DEF IInv, TypeOK, Loops, Fresh, InTransit, vars, lists, data

THEOREM Invariance == Spec => []IInv
<1>1. IInv /\ [Next]_vars => IInv'
  BY ExecuteInv, AddInv, InsertInv, RemoveInv, FindInv, UnlinkInv, FreeInv, ScanInv,
     ScanNextInv, StutterInv DEF Next, Loop
<1> QED BY InitInv, <1>1, PTL DEF Spec

(* Every variable holds a value of its kind.                               *)
THEOREM TypeCorrect == Spec => []TypeOK
  BY Invariance, PTL DEF IInv

(* Between two commands every node of the pool is on exactly one of the    *)
(* lists, and both are in order (watchpoint.c:50-117).                     *)
THEOREM PoolIntactCorrect == Spec => []PoolIntact
<1>1. IInv => PoolIntact
  <2>1. pc = "ready" => (Node \ used) \ InTransit = Node \ used
    BY DEF InTransit
  <2> QED BY <2>1 DEF IInv, PoolIntact
<1> QED BY <1>1, Invariance, PTL

----------------------------------------------------------------------------
(* The lists implement a set of watchpoints: each round of a loop does     *)
(* nothing to the set, or all that the command has to do.                  *)
LEMMA InitMaps == Init => Abs!Init
  BY DEF Init, Abs!Init, Abs!Used, Watch

LEMMA WatchedMaps ==
  ASSUME NEW i \in Node \ used, NEW e \in Expr, IInv, pc # "scan",
         \A j \in Node \ used : i <= j,
         Watched(i, e), UNCHANGED <<value, changed>>
  PROVE  Abs!Add(e)
<1>0. DOMAIN Watch = used
  BY DEF Watch
<1>1. Watch' = [j \in used \cup {i} |-> IF j = i THEN [expr |-> e, val |-> value[e]] ELSE Watch[j]]
  <2>1. ASSUME NEW j \in used \cup {i}
        PROVE  [expr |-> expr'[j], val |-> val'[j]] =
                 IF j = i THEN [expr |-> e, val |-> value[e]] ELSE Watch[j]
    BY DEF Watch, Watched, IInv, TypeOK
  <2>2. used' = used \cup {i}
    BY DEF Watched
  <2> QED BY <2>1, <2>2 DEF Watch
<1>2. (pc = "scan") = FALSE /\ (pc = "scan")' = FALSE
  BY DEF Watched
<1> QED BY <1>0, <1>1, <1>2 DEF Abs!Add, Abs!Used, Abs!Seen

LEMMA ReleaseMaps ==
  ASSUME IInv, pc \in {"find", "unlink"}, node \in used, NEW n, Release(n)
  PROVE  Abs!Remove(node) /\ node \in Abs!Used
<1>1. used' = used \ {node} /\ UNCHANGED <<expr, val, changed, value>> /\ pc' \in {"ready", "free"}
  BY DEF Release, data
<1>2. DOMAIN Watch = used /\ Watch' = [j \in used \ {node} |-> Watch[j]]
  BY <1>1 DEF Watch
<1>3. (pc = "scan") = FALSE /\ (pc = "scan")' = FALSE
  BY <1>1
<1> QED BY <1>1, <1>2, <1>3 DEF Abs!Remove, Abs!Used

LEMMA SameMaps ==
  ASSUME UNCHANGED <<expr, val, used, changed, value>>, (pc = "scan") = (pc' = "scan")
  PROVE  UNCHANGED Abs!vars
  BY DEF Abs!vars, Watch

LEMMA AddMaps ==
  ASSUME IInv, NEW e \in Expr, Add(e)
  PROVE  Abs!Next \/ UNCHANGED Abs!vars
<1>1. CASE head = Null \/ free_ < head
  <2>1. Watched(free_, e) /\ UNCHANGED <<value, changed>> /\ pc = "ready" /\ free_ # Null
    BY <1>1 DEF Add
  <2>2. free_ \in Node \ used /\ \A j \in Node \ used : free_ <= j
    <3>1. (Node \ used) \ InTransit = Node \ used
      BY <2>1 DEF InTransit
    <3> QED BY <2>1, <3>1, FirstNode DEF IInv
  <2> QED BY <2>1, <2>2, WatchedMaps DEF Abs!Next
<1>2. CASE ~(head = Null \/ free_ < head)
  BY <1>2, SameMaps DEF Add, data
<1> QED BY <1>1, <1>2

LEMMA InsertMaps == IInv /\ Insert => Abs!Next \/ UNCHANGED Abs!vars
<1> SUFFICES ASSUME IInv, Insert PROVE Abs!Next \/ UNCHANGED Abs!vars
  OBVIOUS
<1>1. CASE Watched(node, arg) /\ UNCHANGED <<changed, value>>
  <2>1. /\ node \in Node \ used /\ arg \in Expr /\ pc # "scan"
        /\ \A j \in Node \ used : node <= j
    BY DEF Insert, IInv, Loops
  <2> QED BY <1>1, <2>1, WatchedMaps DEF Abs!Next
<1>2. CASE Pass
  BY <1>2, SameMaps DEF Pass, data
<1> QED BY <1>1, <1>2 DEF Insert

LEMMA FindMaps == IInv /\ Find => Abs!Next \/ UNCHANGED Abs!vars
<1> SUFFICES ASSUME IInv, Find PROVE Abs!Next \/ UNCHANGED Abs!vars
  OBVIOUS
<1>1. CASE cur = node /\ Release(next)
  <2>1. node \in used
    BY <1>1, NodesAreIntegers DEF Find, IInv, Loops
  <2> QED BY <1>1, <2>1, ReleaseMaps DEF Find, Abs!Next
<1>2. CASE UNCHANGED <<expr, val, used, changed, value>> /\ pc' # "scan"
  BY <1>2, SameMaps DEF Find
<1> QED BY <1>1, <1>2 DEF Find, data

LEMMA UnlinkMaps == IInv /\ Unlink => Abs!Next \/ UNCHANGED Abs!vars
<1> SUFFICES ASSUME IInv, Unlink PROVE Abs!Next \/ UNCHANGED Abs!vars
  OBVIOUS
<1>1. ASSUME NEW n, Release(n) PROVE Abs!Next
  BY <1>1, ReleaseMaps DEF Unlink, IInv, Loops, Abs!Next
<1>2. CASE UNCHANGED <<expr, val, used, changed, value, pc>>
  BY <1>2, SameMaps
<1> QED BY <1>1, <1>2 DEF Unlink, data

LEMMA ScanMaps == Scan => Abs!Next
<1> SUFFICES ASSUME Scan PROVE Abs!Begin
  BY DEF Abs!Next
<1> QED BY DEF Scan, Abs!Begin, Watch, data

LEMMA ScanNextMaps == IInv /\ ScanNext => Abs!Next \/ UNCHANGED Abs!vars
<1> SUFFICES ASSUME IInv, ScanNext PROVE Abs!Next \/ UNCHANGED Abs!vars
  OBVIOUS
<1>0. DOMAIN Watch = used /\ Abs!Used = used
  BY DEF Watch, Abs!Used
<1>1. CASE /\ cur = Null /\ pc' = "ready"
           /\ UNCHANGED <<lists, data, cur, node, arg, changed, value, used>>
  <2>1. Watch' = Watch
    BY <1>1 DEF Watch, data
  <2>2. \A i \in used : ~Abs!Stale(i)
    BY <1>1 DEF Abs!Stale, Watch, IInv, Fresh, ScanNext
  <2>3. (pc = "scan") = TRUE /\ (pc = "scan")' = FALSE
    BY <1>1 DEF ScanNext
  <2> QED BY <1>0, <1>1, <2>1, <2>2, <2>3 DEF Abs!End, Abs!Next
<1>2. CASE /\ cur # Null /\ Compare
           /\ UNCHANGED <<lists, expr, pc, node, arg, value, used>>
  <2>1. cur \in used
    BY <1>2 DEF IInv, Loops, ScanNext
  <2>2. val' = [val EXCEPT ![cur] = value[expr[cur]]] /\ cur \in Node
    BY <1>2, <2>1 DEF Compare, IInv, TypeOK
  <2>3. CASE value[expr[cur]] = val[cur]
    <3>1. val' = val /\ changed' = changed
      BY <1>2, <2>2, <2>3 DEF Compare, IInv, TypeOK
    <3> QED BY <1>2, <3>1, SameMaps
  <2>4. CASE value[expr[cur]] # val[cur]
    <3>1. changed' = TRUE
      BY <1>2, <2>4 DEF Compare
    <3>2. Watch' = [Watch EXCEPT ![cur] = [expr |-> expr[cur], val |-> value[expr[cur]]]]
      <4>1. ASSUME NEW i \in used
            PROVE  [expr |-> expr'[i], val |-> val'[i]] =
                     IF i = cur THEN [expr |-> expr[cur], val |-> value[expr[cur]]] ELSE Watch[i]
        BY <1>2, <2>2 DEF Watch, IInv, TypeOK
      <4> QED BY <1>2, <4>1 DEF Watch
    <3>3. Watch[cur] = [expr |-> expr[cur], val |-> val[cur]]
      BY <2>1 DEF Watch
    <3>4. (pc = "scan") = TRUE /\ (pc = "scan")' = TRUE
      BY <1>2 DEF ScanNext
    <3>5. Abs!Report(cur)
      BY <1>2, <2>4, <3>1, <3>2, <3>3, <3>4 DEF Abs!Report, Abs!Stale, Abs!Seen
    <3> QED BY <1>0, <2>1, <3>5 DEF Abs!Next
  <2> QED BY <2>3, <2>4
<1> QED BY <1>1, <1>2 DEF ScanNext

LEMMA OtherMaps ==
  ASSUME IInv, Execute \/ Free \/ UNCHANGED vars \/ \E no \in Node : Remove(no)
  PROVE  Abs!Next \/ UNCHANGED Abs!vars
<1>1. CASE Execute
  <2>1. (pc = "scan") = FALSE /\ (pc = "scan")' = FALSE /\ Watch' = Watch
    BY <1>1 DEF Execute, Watch, data
  <2> QED BY <1>1, <2>1 DEF Execute, Abs!Execute, Abs!Next
<1>2. CASE Free
  BY <1>2, SameMaps DEF Free, Pass, data
<1>3. CASE UNCHANGED vars
  BY <1>3, SameMaps DEF vars, data
<1>4. CASE \E no \in Node : Remove(no)
  BY <1>4, SameMaps DEF Remove, data
<1> QED BY <1>1, <1>2, <1>3, <1>4

(* Adding, deleting and scanning do to the set of watchpoints what         *)
(* WatchSet says: in particular a scan reports a change exactly when a     *)
(* watched value differs from the one seen before (watchpoint.c:180-199).  *)
THEOREM ImplementsCorrect == Spec => Implements
<1>1. IInv /\ [Next]_vars => [Abs!Next]_(Abs!vars)
  BY AddMaps, InsertMaps, FindMaps, UnlinkMaps, ScanMaps, ScanNextMaps, OtherMaps
     DEF Next, Loop
<1> QED BY InitMaps, <1>1, Invariance, PTL DEF Spec, Implements, Abs!Spec
=============================================================================
