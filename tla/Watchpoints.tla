---------------------------- MODULE Watchpoints ----------------------------
(***************************************************************************)
(* The watchpoints of NEMU's debugger (watchpoint.c): a pool of NR_WP      *)
(* nodes on two lists, the used ones from head and the others from free_,  *)
(* both kept in the order of the node numbers.                             *)
(*                                                                         *)
(* The debugger is sequential: add_wp(), rm_wp() and scan_wp() run to      *)
(* their end before anything else happens.  Each round of their loops is a *)
(* step, so that what the loops rely on can be said: pc names the loop,    *)
(* cur is its curr, node the node that is moved.                           *)
(*                                                                         *)
(* What an expression means is left to expr.c: it has a value, and the     *)
(* program that is debugged changes it.                                    *)
(***************************************************************************)
EXTENDS Integers

CONSTANTS
  NR_WP,        \* 32
  Null,
  Expr,         \* expressions the user watches
  Val           \* values of an expression

Node == 0 .. NR_WP - 1

ASSUME PoolAssumption == NR_WP \in Nat \ {0} /\ Null \notin Node

VARIABLES
  head, free_, next,    \* the lists
  expr, val,            \* of each node
  pc, cur, node, arg,   \* the loop that runs, and its variables
  changed,              \* what the last scan_wp() returns
  value,                \* the value of each expression now
  used                  \* history: the nodes that hold a watchpoint

lists   == <<head, free_, next>>
data    == <<expr, val>>
vars    == <<lists, data, pc, cur, node, arg, changed, value, used>>

(* init_wp_pool() *)
Mut_FreeList == [i \in Node |-> i + 1]   \* mutant: the last node points on
FreeList     == [i \in Node |-> IF i = NR_WP - 1 THEN Null ELSE i + 1]

Init ==
  /\ head = Null /\ free_ = 0
  /\ next = FreeList
  /\ expr \in [Node -> {Null}] /\ val \in [Node -> {Null}]
  /\ pc = "ready" /\ cur = Null /\ node = Null /\ arg = Null
  /\ changed = FALSE
  /\ value \in [Expr -> Val]
  /\ used = {}

(* The program runs while the debugger does nothing.                       *)
Execute ==
  /\ pc = "ready"
  /\ value' \in [Expr -> Val]
  /\ UNCHANGED <<lists, data, pc, cur, node, arg, changed, used>>

----------------------------------------------------------------------------
(* One round of the loop that puts node into a list after cur: behind the  *)
(* last node, between two, or one further.                                 *)
Between == [next EXCEPT ![node] = next[cur], ![cur] = node]

Mut_Behind == [next EXCEPT ![cur] = node]
                        \* mutant: the last node keeps its old next
Behind  == [next EXCEPT ![cur] = node, ![node] = Null]

Put ==
  \/ next[cur] = Null /\ next' = Behind
  \/ next[cur] # Null /\ cur < node /\ next[cur] > node /\ next' = Between

Pass ==
  /\ next[cur] # Null /\ ~(cur < node /\ next[cur] > node)
  /\ cur' = next[cur]
  /\ UNCHANGED <<lists, data, pc, node, arg, changed, value, used>>

(* The new node is on its list: add_wp() fills it in and returns.          *)
Watched(i, e) ==
  /\ expr' = [expr EXCEPT ![i] = e]
  /\ val' = [val EXCEPT ![i] = value[e]]
  /\ used' = used \cup {i}
  /\ pc' = "ready"

(* add_wp(e) takes the first free node; without one the user is told so.   *)
Add(e) ==
  /\ pc = "ready" /\ free_ # Null
  /\ node' = free_ /\ arg' = e
  /\ free_' = next[free_]
  /\ IF head = Null \/ free_ < head
       THEN /\ next' = [next EXCEPT ![free_] = head] /\ head' = free_
            /\ Watched(free_, e) /\ UNCHANGED cur
       ELSE /\ next' = [next EXCEPT ![free_] = Null]
            /\ pc' = "insert" /\ cur' = head
            /\ UNCHANGED <<head, data, used>>
  /\ UNCHANGED <<changed, value>>

Insert ==
  /\ pc = "insert"
  /\ \/ Put /\ Watched(node, arg) /\ UNCHANGED <<head, free_, cur, node, arg, changed, value>>
     \/ Pass

(* rm_wp(no) looks the number up among the used nodes.                     *)
Remove(no) ==
  /\ pc = "ready" /\ head # Null
  /\ pc' = "find" /\ cur' = head /\ node' = no
  /\ UNCHANGED <<lists, data, arg, changed, value, used>>

(* The rest of free_wp(), from line 100 on, when n is next so far.         *)
Mut_Release(n) ==       \* mutant: free_ is set before it is read
  /\ used' = used \ {node}
  /\ IF free_ = Null \/ node < free_
       THEN /\ next' = [n EXCEPT ![node] = node] /\ free_' = node
            /\ pc' = "ready" /\ UNCHANGED cur
       ELSE /\ next' = n /\ pc' = "free" /\ cur' = free_ /\ UNCHANGED free_
  /\ UNCHANGED <<data, node, arg, changed, value>>

Release(n) ==
  /\ used' = used \ {node}
  /\ IF free_ = Null \/ node < free_
       THEN /\ next' = [n EXCEPT ![node] = free_] /\ free_' = node
            /\ pc' = "ready" /\ UNCHANGED cur
       ELSE /\ next' = n /\ pc' = "free" /\ cur' = free_ /\ UNCHANGED free_
  /\ UNCHANGED <<data, node, arg, changed, value>>

Find ==
  /\ pc = "find"
  /\ \/ /\ cur = Null /\ pc' = "ready"
        /\ UNCHANGED <<lists, data, cur, node, arg, changed, value, used>>
     \/ /\ cur # Null /\ cur # node /\ cur' = next[cur]
        /\ UNCHANGED <<lists, data, pc, node, arg, changed, value, used>>
     \/ /\ cur = node /\ head = node
        /\ head' = next[head] /\ Release(next)
     \/ /\ cur = node /\ head # node
        /\ pc' = "unlink" /\ cur' = head
        /\ UNCHANGED <<lists, data, node, arg, changed, value, used>>

Unlink ==
  /\ pc = "unlink"
  /\ \/ /\ next[cur] # Null /\ next[cur] # node /\ cur' = next[cur]
        /\ UNCHANGED <<lists, data, pc, node, arg, changed, value, used>>
     \/ /\ next[cur] \in {node, Null}        \* Null would be: not found
        /\ Release(IF next[cur] = node THEN [next EXCEPT ![cur] = next[node]] ELSE next)
        /\ UNCHANGED head

Free ==
  /\ pc = "free"
  /\ \/ /\ Put /\ pc' = "ready"
        /\ UNCHANGED <<head, free_, data, cur, node, arg, changed, value, used>>
     \/ Pass

(* scan_wp() evaluates every used node and stores what is new.             *)
Mut_Scan ==             \* mutant: changed keeps what the last scan found
  /\ pc = "ready"
  /\ pc' = "scan" /\ cur' = head
  /\ UNCHANGED <<lists, data, node, arg, changed, value, used>>

Scan ==
  /\ pc = "ready"
  /\ pc' = "scan" /\ cur' = head /\ changed' = FALSE
  /\ UNCHANGED <<lists, data, node, arg, value, used>>

Mut_Compare ==          \* mutant: the last node decides
  /\ changed' = (value[expr[cur]] # val[cur])
  /\ val' = [val EXCEPT ![cur] = value[expr[cur]]]

Compare ==
  /\ changed' = (changed \/ value[expr[cur]] # val[cur])
  /\ val' = [val EXCEPT ![cur] = value[expr[cur]]]

ScanNext ==
  /\ pc = "scan"
  /\ \/ /\ cur # Null
        /\ Compare /\ cur' = next[cur]
        /\ UNCHANGED <<lists, expr, pc, node, arg, value, used>>
     \/ /\ cur = Null /\ pc' = "ready"
        /\ UNCHANGED <<lists, data, cur, node, arg, changed, value, used>>

Loop == Insert \/ Find \/ Unlink \/ Free \/ ScanNext

Next ==
  \/ Execute
  \/ \E e \in Expr : Add(e)
  \/ \E no \in Node : Remove(no)
  \/ Scan
  \/ Loop

Spec     == Init /\ [][Next]_vars
FairSpec == Spec /\ WF_vars(Loop)       \* a loop does not stop half way

----------------------------------------------------------------------------
(* Every variable holds a value of its kind.                               *)
TypeOK ==
  /\ head \in Node \cup {Null} /\ free_ \in Node \cup {Null}
  /\ next \in [Node -> Node \cup {Null}]
  /\ expr \in [Node -> Expr \cup {Null}] /\ val \in [Node -> Val \cup {Null}]
  /\ pc \in {"ready", "insert", "find", "unlink", "free", "scan"}
  /\ cur \in Node \cup {Null} /\ node \in Node \cup {Null}
  /\ arg \in Expr \cup {Null}
  /\ changed \in BOOLEAN
  /\ value \in [Expr -> Val]
  /\ used \subseteq Node
  /\ \A i \in used : expr[i] \in Expr

(* The pointer p names the least of the nodes S.                           *)
Least(p, S) == \/ S = {} /\ p = Null
               \/ p \in S /\ \A j \in S : p <= j

(* The pointers n link the nodes of S and no others, from h on and in      *)
(* order: after each comes the least node of S above it.                   *)
Linked(n, S, h) ==
  Least(h, S) /\ \A i \in S : Least(n[i], {j \in S : i < j})

(* Between two commands every node of the pool is on exactly one of the    *)
(* two lists, and both are in order, whatever was added and deleted: no    *)
(* node is lost, none is on both (watchpoint.c:50-117).                    *)
PoolIntact ==
  pc = "ready" => Linked(next, used, head) /\ Linked(next, Node \ used, free_)

(* The lists implement a set of watchpoints.                               *)
Watch == [i \in used |-> [expr |-> expr[i], val |-> val[i]]]

Abs == INSTANCE WatchSet WITH
  watch    <- Watch,
  scanning <- pc = "scan",
  reported <- changed

Implements == Abs!Spec

(* Every command and every scan comes back to the prompt: the loops end.   *)
Returns == []<>(pc = "ready")

(* The inductive invariant: what each loop knows.                          *)
InTransit == IF pc \in {"insert", "free"} THEN {node} ELSE {}

Loops ==
  /\ pc \in {"insert", "free"} => node \in Node \ used /\ cur < node
  /\ pc = "insert" => arg \in Expr /\ \A i \in Node \ used : node <= i
  /\ pc \in {"insert", "unlink"} => cur \in used
  /\ pc = "free" => cur \in (Node \ used) \ {node}
  /\ pc = "unlink" => node \in used /\ cur < node
  /\ pc \in {"find", "scan"} => cur \in used \cup {Null}
  /\ pc = "find" => node \in Node

(* A scan has refreshed what lies before its curr.                         *)
Fresh ==
  pc = "scan" => \A i \in used : cur = Null \/ i < cur => val[i] = value[expr[i]]

IInv ==
  /\ TypeOK
  /\ Linked(next, used, head)
  /\ Linked(next, (Node \ used) \ InTransit, free_)
  /\ Loops /\ Fresh
=============================================================================
