--------------------------- MODULE LinkListProofs --------------------------
(***************************************************************************)
(* Proofs about LinkList, for any number of nodes and items.  The          *)
(* inductive invariant says what the list looks like while the stores of   *)
(* an operation are under way: there is a chain of nodes that was sound    *)
(* before the operation, and each store of the operation is either still   *)
(* to do, and its place as before, or done, and its place as after.        *)
(***************************************************************************)
EXTENDS LinkList, SetInduction, FiniteSetTheorems, SequenceTheorems

N == Cardinality(Node)

----------------------------------------------------------------------------
(* A chain is a list of len different nodes.                               *)

Chain(c, len) ==
    /\ len \in 0 .. N /\ c \in [1 .. len -> Node]
    /\ \A j, k \in 1 .. len : c[j] = c[k] => j = k

First(c, len)   == IF len = 0 THEN NULL ELSE c[1]
Last(c, len)    == IF len = 0 THEN NULL ELSE c[len]
Succ(c, len, k) == IF k = len THEN NULL ELSE c[k + 1]
Pred(c, k)      == IF k = 1 THEN NULL ELSE c[k - 1]

\* The chain with a node more at its end, and without its d-th one.
Longer(c, len, n)  == [k \in 1 .. len + 1 |-> IF k = len + 1 THEN n ELSE c[k]]
Shorter(c, len, d) == [k \in 1 .. len - 1 |-> IF k < d THEN c[k] ELSE c[k + 1]]

Nodes(c, len) == {c[k] : k \in 1 .. len}
Data(c, len)  == {node[c[k]].data : k \in 1 .. len}

\* Each node of the chain holds an item of its own.
Filled(c, len) ==
    /\ \A k \in 1 .. len : node[c[k]].data \in Items \ lost
    /\ \A j, k \in 1 .. len : node[c[j]].data = node[c[k]].data => j = k

\* What is allocated: the chain with its items, the nodes X and the items V.
Owns(c, len, X, V) == live = Nodes(c, len) \cup X /\ held = lost \cup Data(c, len) \cup V

Counts(len) == count = len \/ (len = 0 /\ count = -RobustnessFactor)

\* The list is the chain, with nothing left to do.
Sound(c, len) ==
    /\ Chain(c, len) /\ Filled(c, len) /\ Counts(len)
    /\ head = First(c, len) /\ tail = Last(c, len)
    /\ \A k \in 1 .. len : node[c[k]].next = Succ(c, len, k) /\ node[c[k]].prev = Pred(c, k)

----------------------------------------------------------------------------
(* An operation under way, E being the stores that are still to do.        *)

AddPrev(c, len, n) == Store("prev", n, Last(c, len))
AddData(n, v)      == Store("data", n, v)
AddLink(c, len, n) == IF len = 0 THEN Store("head", NULL, n) ELSE Store("next", Last(c, len), n)
AddTail(n)         == Store("tail", NULL, n)
AddCount(len)      == Store("count", NULL, len + 1)

Adds(c, len, n, v) == {AddPrev(c, len, n), AddData(n, v), AddLink(c, len, n), AddTail(n), AddCount(len)}

AddState(c, len, n, v, E) ==
    /\ Chain(c, len) /\ Filled(c, len)
    /\ n \in Node \ Nodes(c, len) /\ v \in Items \ (lost \cup Data(c, len))
    /\ Owns(c, len, {n}, {v})
    /\ head = IF AddLink(c, len, n) \notin E /\ len = 0 THEN n ELSE First(c, len)
    /\ tail = IF AddTail(n) \notin E THEN n ELSE Last(c, len)
    /\ IF AddCount(len) \notin E THEN count = len + 1 ELSE Counts(len)
    /\ \A k \in 1 .. len :
          /\ node[c[k]].next = IF AddLink(c, len, n) \notin E /\ k = len THEN n ELSE Succ(c, len, k)
          /\ node[c[k]].prev = Pred(c, k)
    /\ node[n].next = NULL
    /\ node[n].prev = IF AddPrev(c, len, n) \notin E THEN Last(c, len) ELSE NULL
    /\ node[n].data = IF AddData(n, v) \notin E THEN v ELSE NULL

DelLink(c, len, d) == IF d = 1 THEN Store("head", NULL, Succ(c, len, d))
                               ELSE Store("next", c[d - 1], Succ(c, len, d))
DelBack(c, len, d) == IF d = len THEN Store("tail", NULL, Pred(c, d))
                                 ELSE Store("prev", c[d + 1], Pred(c, d))
DelCount(len)      == Store("count", NULL, len - 1)

Dels(c, len, d) == {DelLink(c, len, d), DelBack(c, len, d), DelCount(len)}

DelState(c, len, d, E) ==
    /\ Chain(c, len) /\ Filled(c, len) /\ d \in 1 .. len
    /\ Owns(c, len, {}, {})
    /\ head = IF DelLink(c, len, d) \notin E /\ d = 1 THEN Succ(c, len, d) ELSE First(c, len)
    /\ tail = IF DelBack(c, len, d) \notin E /\ d = len THEN Pred(c, d) ELSE Last(c, len)
    /\ count = IF DelCount(len) \notin E THEN len - 1 ELSE len
    /\ \A k \in 1 .. len :
          /\ node[c[k]].next = IF DelLink(c, len, d) \notin E /\ k = d - 1 THEN Succ(c, len, d)
                                                                         ELSE Succ(c, len, k)
          /\ node[c[k]].prev = IF DelBack(c, len, d) \notin E /\ k = d + 1 THEN Pred(c, d)
                                                                         ELSE Pred(c, k)

Free(x)    == {Store("free", x, NULL)}
Destroy(v) == {Store("destroy", v, NULL)}
Mark       == {Store("count", NULL, -RobustnessFactor)}

----------------------------------------------------------------------------
(* The inductive invariant: what the main program is doing.                *)

Types ==
    /\ head \in Ptr /\ tail \in Ptr /\ count \in {-RobustnessFactor} \cup (0 .. N)
    /\ node \in [Node -> [next : Ptr, prev : Ptr, data : Items \cup {NULL}]]
    /\ lost \subseteq held /\ held \subseteq Items

\* The place where a sweep goes on is a node of the chain, other than X.
Cursor(c, len, X) ==
    /\ phase \in {"run", "sweep"} /\ cursor \in Ptr
    /\ phase = "sweep" => cursor \in (Nodes(c, len) \ X) \cup {NULL}

Idle(c, len) ==
    /\ todo = <<>>
    /\ Sound(c, len) /\ Owns(c, len, {}, {}) /\ Cursor(c, len, {})

Adding(c, len) ==
    \E n \in Node, v \in Items : \E E \in SUBSET Adds(c, len, n, v) :
        /\ todo = <<E>> /\ E # {} /\ phase = "run" /\ cursor \in Ptr
        /\ AddState(c, len, n, v, E)

\* The mark only follows when the last item of a list was deleted.
MayMark(len) == phase = "run" /\ len = 0

Removing(c, len) ==
    \E d \in 1 .. len : \E E \in SUBSET Dels(c, len, d) :
        LET x == c[d]
            v == node[x].data
        IN /\ \/ todo = <<E, Free(x), Destroy(v)>>
              \/ todo = <<E, Free(x), Destroy(v), Mark>> /\ MayMark(len - 1)
           /\ E # {} /\ Cursor(c, len, {x})
           /\ DelState(c, len, d, E)

Freeing(c, len) ==
    \E x \in Node \ Nodes(c, len), v \in Items \ (lost \cup Data(c, len)) :
        /\ \/ todo = <<Free(x), Destroy(v)>>
           \/ todo = <<Free(x), Destroy(v), Mark>> /\ MayMark(len)
        /\ Sound(c, len) /\ Owns(c, len, {x}, {v}) /\ Cursor(c, len, {})

Destroying(c, len) ==
    \E v \in Items \ (lost \cup Data(c, len)) :
        /\ \/ todo = <<Destroy(v)>>
           \/ todo = <<Destroy(v), Mark>> /\ MayMark(len)
        /\ Sound(c, len) /\ Owns(c, len, {}, {v}) /\ Cursor(c, len, {})

Marking(c, len) ==
    /\ todo = <<Mark>> /\ MayMark(len)
    /\ Sound(c, len) /\ Owns(c, len, {}, {}) /\ Cursor(c, len, {})

\* At the shutdown the nodes from the a-th and the items from the b-th are
\* still there, and the loop goes on with the j-th.
StopState(c, len, j, a, b) ==
    /\ Chain(c, len) /\ Filled(c, len)
    /\ phase = "stop" /\ cursor = (IF j = len + 1 THEN NULL ELSE c[j])
    /\ \A k \in 1 .. len : node[c[k]].next = Succ(c, len, k)
    /\ live = {c[k] : k \in a .. len} /\ held = lost \cup {node[c[k]].data : k \in b .. len}

Stopping(c, len) ==
    \E j \in 1 .. len + 1 :
        \/ todo = <<>> /\ StopState(c, len, j, j, j)
        \/ j > 1 /\ todo = <<Destroy(node[c[j - 1]].data), Free(c[j - 1])>> /\ StopState(c, len, j, j - 1, j - 1)
        \/ j > 1 /\ todo = <<Free(c[j - 1])>> /\ StopState(c, len, j, j - 1, j)

Clears == {Store("head", NULL, NULL), Store("tail", NULL, NULL), Store("count", NULL, 0)}

Down ==
    /\ phase = "down" /\ cursor = NULL /\ live = {} /\ held = lost
    /\ \/ todo = <<>> /\ head = NULL
       \/ \E E \in SUBSET Clears :
             E # {} /\ todo = <<E>> /\ (Store("head", NULL, NULL) \notin E => head = NULL)

Busy(c, len) == Adding(c, len) \/ Removing(c, len) \/ Freeing(c, len) \/ Destroying(c, len) \/ Marking(c, len)

LInv ==
    /\ Types
    /\ \/ \E len \in 0 .. N : \E c \in [1 .. len -> Node] : Idle(c, len) \/ Busy(c, len) \/ Stopping(c, len)
       \/ Down

----------------------------------------------------------------------------
(* Chains.                                                                 *)

\* The memory for nodes is a number of nodes.
LEMMA SizeType == N \in Nat
  BY MemoryAssumption, FS_CardinalityType DEF N

\* A chain is not longer than the memory for nodes.
LEMMA ChainBound ==
  ASSUME NEW len \in Nat, NEW c \in [1 .. len -> Node], \A j, k \in 1 .. len : c[j] = c[k] => j = k
  PROVE  Chain(c, len)
  <1>1. c \in Injection(1 .. len, Node)
    BY DEF Injection, IsInjective
  <1>2. IsFiniteSet(1 .. len) /\ Cardinality(1 .. len) = len
    BY FS_Interval
  <1>3. Cardinality(1 .. len) <= Cardinality(Node)
    BY <1>1, MemoryAssumption, FS_Injection DEF ExistsInjection
  <1> QED BY <1>2, <1>3, SizeType DEF Chain, N

\* A chain has as many nodes as it is long.
LEMMA ChainSize ==
  ASSUME NEW c, NEW len, Chain(c, len)
  PROVE  Cardinality(Nodes(c, len)) = len /\ Nodes(c, len) \subseteq Node
  <1>1. len \in Nat /\ c \in [1 .. len -> Node]
    BY SizeType DEF Chain
  <1>2. c \in Bijection(1 .. len, Nodes(c, len))
    BY <1>1 DEF Chain, Nodes, Bijection, Injection, Surjection, IsInjective
  <1>3. Cardinality(Nodes(c, len)) = len
    BY <1>1, <1>2, FS_CountingElements DEF ExistsBijection
  <1> QED BY <1>1, <1>3 DEF Nodes

\* A chain with a new node is one.
LEMMA LongerChain ==
  ASSUME NEW c, NEW len, Chain(c, len), NEW n \in Node \ Nodes(c, len)
  PROVE  /\ Chain(Longer(c, len, n), len + 1)
         /\ len \in Nat /\ c \in [1 .. len -> Node]
         /\ \A k \in 1 .. len : Longer(c, len, n)[k] = c[k] /\ c[k] # n
         /\ Longer(c, len, n)[len + 1] = n
         /\ Nodes(Longer(c, len, n), len + 1) = Nodes(c, len) \cup {n}
  <1> DEFINE b == Longer(c, len, n)
  <1>1. len \in Nat /\ c \in [1 .. len -> Node]
    BY SizeType DEF Chain
  <1>2. /\ b \in [1 .. len + 1 -> Node]
        /\ \A k \in 1 .. len : b[k] = c[k] /\ c[k] # n
        /\ b[len + 1] = n
        /\ \A k \in 1 .. len + 1 : k = len + 1 \/ k \in 1 .. len
        /\ 1 .. len \subseteq 1 .. len + 1 /\ len + 1 \in 1 .. len + 1
    BY <1>1 DEF Longer, Nodes
  <1> HIDE DEF b
  <1>3. \A j, k \in 1 .. len + 1 : b[j] = b[k] => j = k
    BY <1>2 DEF Chain
  <1>4. Chain(b, len + 1)
    BY <1>1, <1>2, <1>3, ChainBound
  <1>5. Nodes(b, len + 1) = Nodes(c, len) \cup {n}
    BY <1>2 DEF Nodes
  <1> QED BY <1>1, <1>2, <1>4, <1>5 DEF b

\* So is a chain that lost a node.
LEMMA ShorterChain ==
  ASSUME NEW c, NEW len, Chain(c, len), NEW d \in 1 .. len
  PROVE  /\ Chain(Shorter(c, len, d), len - 1)
         /\ len \in Nat /\ len - 1 \in Nat /\ d \in Nat /\ c \in [1 .. len -> Node]
         /\ \A k \in 1 .. len - 1 : Shorter(c, len, d)[k] = IF k < d THEN c[k] ELSE c[k + 1]
         /\ Nodes(Shorter(c, len, d), len - 1) = Nodes(c, len) \ {c[d]}
  <1> DEFINE b == Shorter(c, len, d)
  <1>1. len \in Nat /\ c \in [1 .. len -> Node] /\ len - 1 \in Nat /\ d \in Nat
    BY SizeType DEF Chain
  <1>2. /\ b \in [1 .. len - 1 -> Node]
        /\ \A k \in 1 .. len - 1 : b[k] = (IF k < d THEN c[k] ELSE c[k + 1])
    BY <1>1 DEF Shorter
  <1> HIDE DEF b
  <1>3. \A j, k \in 1 .. len - 1 : b[j] = b[k] => j = k
    BY <1>1, <1>2 DEF Chain
  <1>4. Chain(b, len - 1)
    BY <1>1, <1>2, <1>3, ChainBound
  <1>5. Nodes(b, len - 1) = Nodes(c, len) \ {c[d]}
    <2>1. ASSUME NEW k \in 1 .. len - 1 PROVE b[k] \in Nodes(c, len) \ {c[d]}
      BY <1>1, <1>2 DEF Chain, Nodes
    <2>2. ASSUME NEW k \in 1 .. len, k # d PROVE c[k] \in Nodes(b, len - 1)
      <3>1. CASE k < d
        <4>1. k \in 1 .. len - 1 /\ b[k] = c[k]
          BY <1>1, <1>2, <3>1
        <4> QED BY <4>1 DEF Nodes
      <3>2. CASE ~(k < d)
        <4>1. k - 1 \in 1 .. len - 1 /\ b[k - 1] = c[k]
          BY <1>1, <1>2, <2>2, <3>2
        <4> QED BY <4>1 DEF Nodes
      <3> QED BY <3>1, <3>2
    <2> QED BY <2>1, <2>2 DEF Nodes
  <1> QED BY <1>1, <1>2, <1>4, <1>5 DEF b

----------------------------------------------------------------------------
(* Walking.                                                                *)

\* A loop that follows next from head meets the nodes of the chain in turn
\* and ends.  Induction over the steps of the loop.
LEMMA WalkChain ==
  ASSUME NEW c, NEW len, Chain(c, len), head = First(c, len),
         \A k \in 1 .. len : node[c[k]].next = Succ(c, len, k)
  PROVE  /\ At = [k \in 0 .. N + 1 |-> IF k < len THEN c[k + 1] ELSE NULL]
         /\ Walked = Nodes(c, len)
  <1> DEFINE K == 0 .. N + 1
             w == [k \in K |-> IF k < len THEN c[k + 1] ELSE NULL]
  <1>1. len \in 0 .. N /\ len \in Nat /\ N \in Nat /\ c \in [1 .. len -> Node] /\ NULL \notin Node
    BY SizeType, NullAssumption DEF Chain
  <1>2. w = [k \in K |-> IF k = 0 THEN head ELSE IF w[k - 1] = NULL THEN NULL ELSE node[w[k - 1]].next]
    <2>1. ASSUME NEW k \in K
          PROVE  w[k] = IF k = 0 THEN head ELSE IF w[k - 1] = NULL THEN NULL ELSE node[w[k - 1]].next
      <3>1. CASE k = 0
        BY <1>1, <3>1 DEF First
      <3>2. CASE k # 0 /\ k - 1 < len
        <4>1. w[k - 1] = c[k] /\ k \in 1 .. len
          BY <1>1, <3>2
        <4>2. w[k - 1] # NULL /\ node[w[k - 1]].next = Succ(c, len, k)
          BY <1>1, <4>1
        <4>3. w[k] = Succ(c, len, k)
          BY <1>1, <4>1 DEF Succ
        <4> QED BY <3>2, <4>2, <4>3
      <3>3. CASE k # 0 /\ ~(k - 1 < len)
        BY <1>1, <3>3
      <3> QED BY <3>1, <3>2, <3>3
    <2> QED BY <2>1
  <1>3. At = [k \in K |-> IF k = 0 THEN head ELSE IF At[k - 1] = NULL THEN NULL ELSE node[At[k - 1]].next]
    <2> HIDE DEF w
    <2> QED BY <1>2 DEF At, N
  <1> DEFINE S == {k \in K : At[k] = w[k]}
  <1>4. 0 \in S
    BY <1>1, <1>2, <1>3
  <1>5. ASSUME NEW k \in 0 .. N, k \in S PROVE k + 1 \in S
    <2>1. k + 1 \in K /\ k + 1 # 0 /\ (k + 1) - 1 = k
      BY <1>1
    <2>2. At[k + 1] = IF At[k] = NULL THEN NULL ELSE node[At[k]].next
      BY <1>3, <2>1
    <2>3. w[k + 1] = IF w[k] = NULL THEN NULL ELSE node[w[k]].next
      <3> HIDE DEF w
      <3> QED BY <1>2, <2>1
    <2> HIDE DEF w
    <2> QED BY <1>5, <2>1, <2>2, <2>3
  <1>6. K \subseteq S
    <2>1. N + 1 \in Nat /\ (N + 1) - 1 = N
      BY <1>1
    <2> HIDE DEF S
    <2> QED BY <1>4, <1>5, <2>1, UpTo
  <1>7. At = w
    <2>1. \A k \in K : At[k] = w[k]
      BY <1>6
    <2>2. At = [k \in K |-> At[k]] /\ w = [k \in K |-> w[k]]
      BY <1>3
    <2> HIDE DEF w, K
    <2> QED BY <2>1, <2>2
  <1>8. Walked = Nodes(c, len)
    <2>1. DOMAIN At = K
      BY <1>7
    <2>2. ASSUME NEW k \in K, At[k] # NULL PROVE At[k] \in Nodes(c, len)
      BY <1>1, <1>7, <2>2 DEF Nodes
    <2>3. ASSUME NEW k \in 1 .. len PROVE k - 1 \in K /\ At[k - 1] = c[k] /\ c[k] # NULL
      BY <1>1, <1>7
    <2> HIDE DEF K, w
    <2> QED BY <2>1, <2>2, <2>3 DEF Walked, Nodes
  <1> QED BY <1>7, <1>8

----------------------------------------------------------------------------
(* Single stores.                                                          *)

\* What a store writes is of the kind of the place it is written to, and an
\* item that is destroyed was listed.
Proper(e) ==
    /\ e.what \in {"head", "tail", "next", "prev"} => e.val \in Ptr
    /\ e.what = "data" => e.val \in Items
    /\ e.what = "count" => e.val \in {-RobustnessFactor} \cup (0 .. N)
    /\ e.what = "destroy" => e.at \notin lost

\* A store changes its place only.
LEMMA PerformFields ==
  ASSUME Types, NEW e, Perform(e), Proper(e)
  PROVE  /\ Types'
         /\ head' = (IF e.what = "head" THEN e.val ELSE head)
         /\ tail' = (IF e.what = "tail" THEN e.val ELSE tail)
         /\ count' = (IF e.what = "count" THEN e.val ELSE count)
         /\ live' = (IF e.what = "free" THEN live \ {e.at} ELSE live)
         /\ held' = (IF e.what = "destroy" THEN held \ {e.at} ELSE held)
         /\ \A m \in Node :
               /\ node'[m].next = (IF e.what = "next" /\ e.at = m THEN e.val ELSE node[m].next)
               /\ node'[m].prev = (IF e.what = "prev" /\ e.at = m THEN e.val ELSE node[m].prev)
               /\ node'[m].data = (IF e.what = "data" /\ e.at = m THEN e.val ELSE node[m].data)
         /\ lost' = lost /\ phase' = phase /\ cursor' = cursor
  <1>1. /\ head' = (IF e.what = "head" THEN e.val ELSE head)
        /\ tail' = (IF e.what = "tail" THEN e.val ELSE tail)
        /\ count' = (IF e.what = "count" THEN e.val ELSE count)
        /\ live' = (IF e.what = "free" THEN live \ {e.at} ELSE live)
        /\ held' = (IF e.what = "destroy" THEN held \ {e.at} ELSE held)
        /\ lost' = lost /\ phase' = phase /\ cursor' = cursor
    BY DEF Perform
  <1>2. /\ node' = [m \in Node |->
                     [next |-> IF e.what = "next" /\ e.at = m THEN e.val ELSE node[m].next,
                      prev |-> IF e.what = "prev" /\ e.at = m THEN e.val ELSE node[m].prev,
                      data |-> IF e.what = "data" /\ e.at = m THEN e.val ELSE node[m].data]]
    BY DEF Perform
  <1>3. \A m \in Node :
           /\ node'[m].next = (IF e.what = "next" /\ e.at = m THEN e.val ELSE node[m].next)
           /\ node'[m].prev = (IF e.what = "prev" /\ e.at = m THEN e.val ELSE node[m].prev)
           /\ node'[m].data = (IF e.what = "data" /\ e.at = m THEN e.val ELSE node[m].data)
    BY <1>2
  <1>4. node' \in [Node -> [next : Ptr, prev : Ptr, data : Items \cup {NULL}]]
    BY <1>2 DEF Types, Proper
  <1>5. Types'
    BY <1>1, <1>4 DEF Types, Proper
  <1> QED BY <1>1, <1>3, <1>5

\* The stores that are left when one of the first ones is done.
LEMMA PerformTodo ==
  ASSUME NEW e, Perform(e), NEW E, todo[1] = E, Head(todo) = E, e \in E
  PROVE  todo' = IF E \ {e} = {} THEN Tail(todo) ELSE [todo EXCEPT ![1] = E \ {e}]
  <1>1. E = {e} <=> E \ {e} = {}
    OBVIOUS
  <1> QED BY <1>1 DEF Perform

\* As long as the data of its nodes stays, a chain stays filled.
LEMMA FilledKept ==
  ASSUME NEW c, NEW len, Filled(c, len), lost' = lost,
         \A k \in 1 .. len : node'[c[k]].data = node[c[k]].data
  PROVE  Filled(c, len)' /\ Data(c, len)' = Data(c, len)
  BY DEF Filled, Data

----------------------------------------------------------------------------
(* Adding.                                                                 *)

\* The five stores of listnode_add.
LEMMA AddStores ==
  ASSUME NEW c, NEW len, NEW n, NEW v
  PROVE  /\ AddPrev(c, len, n).what = "prev" /\ AddPrev(c, len, n).at = n
         /\ AddPrev(c, len, n).val = Last(c, len)
         /\ AddData(n, v).what = "data" /\ AddData(n, v).at = n /\ AddData(n, v).val = v
         /\ len = 0 => AddLink(c, len, n).what = "head"
         /\ len # 0 => AddLink(c, len, n).what = "next" /\ AddLink(c, len, n).at = c[len]
         /\ AddLink(c, len, n).val = n
         /\ AddTail(n).what = "tail" /\ AddTail(n).val = n
         /\ AddCount(len).what = "count" /\ AddCount(len).val = len + 1
  BY DEF AddPrev, AddData, AddLink, AddTail, AddCount, Store, Last

\* Each of them, in any order, leaves an addition under way.
LEMMA AddPerform ==
  ASSUME Types, NEW c, NEW len, NEW n, NEW v, NEW E \in SUBSET Adds(c, len, n, v),
         AddState(c, len, n, v, E), NEW e \in E, Perform(e)
  PROVE  Types' /\ AddState(c, len, n, v, E \ {e})' /\ phase' = phase /\ cursor' = cursor
  <1> DEFINE P == AddPrev(c, len, n)
             D == AddData(n, v)
             L == AddLink(c, len, n)
             T == AddTail(n)
             K == AddCount(len)
             F == E \ {e}
  <1>1. /\ P.what = "prev" /\ P.at = n /\ P.val = Last(c, len)
        /\ D.what = "data" /\ D.at = n /\ D.val = v
        /\ len = 0 => L.what = "head"
        /\ len # 0 => L.what = "next" /\ L.at = c[len]
        /\ L.val = n
        /\ T.what = "tail" /\ T.val = n
        /\ K.what = "count" /\ K.val = len + 1
    BY AddStores
  <1>2. e \in {P, D, L, T, K}
    BY DEF Adds
  <1>3. /\ Chain(c, len) /\ Filled(c, len) /\ n \in Node \ Nodes(c, len)
        /\ v \in Items \ (lost \cup Data(c, len)) /\ Owns(c, len, {n}, {v})
        /\ head = IF L \notin E /\ len = 0 THEN n ELSE First(c, len)
        /\ tail = IF T \notin E THEN n ELSE Last(c, len)
        /\ IF K \notin E THEN count = len + 1 ELSE Counts(len)
        /\ \A k \in 1 .. len :
              /\ node[c[k]].next = IF L \notin E /\ k = len THEN n ELSE Succ(c, len, k)
              /\ node[c[k]].prev = Pred(c, k)
        /\ node[n].next = NULL
        /\ node[n].prev = IF P \notin E THEN Last(c, len) ELSE NULL
        /\ node[n].data = IF D \notin E THEN v ELSE NULL
    BY DEF AddState
  <1>4. /\ len \in Nat /\ c \in [1 .. len -> Node] /\ len + 1 \in 0 .. N
        /\ \A k \in 1 .. len : c[k] \in Node /\ c[k] # n
        /\ \A j, k \in 1 .. len : c[j] = c[k] => j = k
        /\ len # 0 => len \in 1 .. len
    BY <1>3, LongerChain DEF Chain
  <1> HIDE DEF P, D, L, T, K
  <1>5. Last(c, len) \in Ptr /\ n \in Ptr /\ v \in Items
    BY <1>3, <1>4 DEF Last, Ptr
  <1>6. Proper(e)
    BY <1>1, <1>2, <1>4, <1>5 DEF Proper
  <1>7. /\ Types'
        /\ head' = (IF e.what = "head" THEN e.val ELSE head)
        /\ tail' = (IF e.what = "tail" THEN e.val ELSE tail)
        /\ count' = (IF e.what = "count" THEN e.val ELSE count)
        /\ live' = (IF e.what = "free" THEN live \ {e.at} ELSE live)
        /\ held' = (IF e.what = "destroy" THEN held \ {e.at} ELSE held)
        /\ \A m \in Node :
              /\ node'[m].next = (IF e.what = "next" /\ e.at = m THEN e.val ELSE node[m].next)
              /\ node'[m].prev = (IF e.what = "prev" /\ e.at = m THEN e.val ELSE node[m].prev)
              /\ node'[m].data = (IF e.what = "data" /\ e.at = m THEN e.val ELSE node[m].data)
        /\ lost' = lost /\ phase' = phase /\ cursor' = cursor
    BY <1>6, PerformFields
  <1>8. \A k \in 1 .. len : node'[c[k]].data = node[c[k]].data
    BY <1>1, <1>2, <1>4, <1>7
  <1>9. Filled(c, len)' /\ Data(c, len)' = Data(c, len)
    BY <1>3, <1>7, <1>8, FilledKept
  <1>10. Owns(c, len, {n}, {v})'
    <2>1. live' = live /\ held' = held
      BY <1>1, <1>2, <1>7
    <2> QED BY <1>3, <1>7, <1>9, <2>1 DEF Owns, Nodes
  <1>11. /\ P \notin F <=> (P \notin E \/ e = P)
         /\ D \notin F <=> (D \notin E \/ e = D)
         /\ L \notin F <=> (L \notin E \/ e = L)
         /\ T \notin F <=> (T \notin E \/ e = T)
         /\ K \notin F <=> (K \notin E \/ e = K)
    OBVIOUS
  <1> HIDE DEF F
  <1>12. /\ head' = IF L \notin F /\ len = 0 THEN n ELSE First(c, len)
         /\ tail' = IF T \notin F THEN n ELSE Last(c, len)
    BY <1>1, <1>2, <1>3, <1>7, <1>11
  <1>13. IF K \notin F THEN count' = len + 1 ELSE Counts(len)'
    BY <1>1, <1>2, <1>3, <1>7, <1>11 DEF Counts
  <1>14. ASSUME NEW k \in 1 .. len
         PROVE  /\ node'[c[k]].next = IF L \notin F /\ k = len THEN n ELSE Succ(c, len, k)
                /\ node'[c[k]].prev = Pred(c, k)
    BY <1>1, <1>2, <1>3, <1>4, <1>7, <1>11
  <1>15. /\ node'[n].next = NULL
         /\ node'[n].prev = IF P \notin F THEN Last(c, len) ELSE NULL
         /\ node'[n].data = IF D \notin F THEN v ELSE NULL
    BY <1>1, <1>2, <1>3, <1>4, <1>7, <1>11
  <1>16. v \in Items \ (lost' \cup Data(c, len)')
    BY <1>3, <1>7, <1>9
  <1>17. AddState(c, len, n, v, F)'
    BY <1>3, <1>9, <1>10, <1>12, <1>13, <1>14, <1>15, <1>16 DEF AddState, P, D, L, T, K, Chain
  <1> QED BY <1>7, <1>17 DEF F

\* When all of them are done the list is the longer chain.
LEMMA AddDone ==
  ASSUME Types, NEW c, NEW len, NEW n, NEW v, AddState(c, len, n, v, {})
  PROVE  Sound(Longer(c, len, n), len + 1) /\ Owns(Longer(c, len, n), len + 1, {}, {})
  <1> DEFINE b == Longer(c, len, n)
  <1>1. /\ Chain(c, len) /\ Filled(c, len) /\ n \in Node \ Nodes(c, len)
        /\ v \in Items \ (lost \cup Data(c, len)) /\ Owns(c, len, {n}, {v})
        /\ head = IF len = 0 THEN n ELSE First(c, len)
        /\ tail = n /\ count = len + 1
        /\ \A k \in 1 .. len :
              /\ node[c[k]].next = IF k = len THEN n ELSE Succ(c, len, k)
              /\ node[c[k]].prev = Pred(c, k)
        /\ node[n].next = NULL /\ node[n].prev = Last(c, len) /\ node[n].data = v
    BY DEF AddState
  <1>2. /\ Chain(b, len + 1) /\ len \in Nat
        /\ \A k \in 1 .. len : b[k] = c[k] /\ c[k] # n
        /\ b[len + 1] = n
        /\ Nodes(b, len + 1) = Nodes(c, len) \cup {n}
    BY <1>1, LongerChain
  <1> HIDE DEF b
  <1>3. /\ len + 1 # 0 /\ 1 \in 1 .. len + 1 /\ len + 1 \in 1 .. len + 1
        /\ \A k \in 1 .. len + 1 : k = len + 1 \/ k \in 1 .. len
        /\ 1 .. len \subseteq 1 .. len + 1
    BY <1>2
  <1>4. Filled(b, len + 1)
    <2>1. \A k \in 1 .. len : node[c[k]].data \in Items \ lost /\ node[c[k]].data # v
      BY <1>1 DEF Filled, Data
    <2>2. \A k \in 1 .. len + 1 : node[b[k]].data \in Items \ lost
      BY <1>1, <1>2, <1>3, <2>1
    <2>3. \A j, k \in 1 .. len + 1 : node[b[j]].data = node[b[k]].data => j = k
      BY <1>1, <1>2, <1>3, <2>1 DEF Filled
    <2> QED BY <2>2, <2>3 DEF Filled
  <1>5. Data(b, len + 1) = Data(c, len) \cup {v}
    <2>1. \A k \in 1 .. len : node[b[k]].data = node[c[k]].data
      BY <1>2
    <2>2. node[b[len + 1]].data = v
      BY <1>1, <1>2
    <2> QED BY <1>3, <2>1, <2>2 DEF Data
  <1>6. Owns(b, len + 1, {}, {})
    BY <1>1, <1>2, <1>5 DEF Owns
  <1>7. Counts(len + 1)
    BY <1>1 DEF Counts
  <1>8. head = First(b, len + 1) /\ tail = Last(b, len + 1)
    BY <1>1, <1>2, <1>3 DEF First, Last
  <1>9. ASSUME NEW k \in 1 .. len + 1
        PROVE  node[b[k]].next = Succ(b, len + 1, k) /\ node[b[k]].prev = Pred(b, k)
    <2>1. CASE k = len + 1
      <3>1. len # 0 => len \in 1 .. len /\ b[len] = c[len]
        BY <1>2
      <3> QED BY <1>1, <1>2, <2>1, <3>1 DEF Succ, Pred, Last
    <2>2. CASE k \in 1 .. len
      <3>1. b[k] = c[k] /\ k # len + 1 /\ (k # 1 => k - 1 \in 1 .. len) /\ (k # len => k + 1 \in 1 .. len)
        BY <1>2, <2>2
      <3>2. node[b[k]].next = Succ(b, len + 1, k)
        BY <1>1, <1>2, <2>2, <3>1 DEF Succ
      <3>3. node[b[k]].prev = Pred(b, k)
        BY <1>1, <1>2, <2>2, <3>1 DEF Pred
      <3> QED BY <3>2, <3>3
    <2> QED BY <1>3, <2>1, <2>2
  <1>10. Sound(b, len + 1)
    BY <1>2, <1>4, <1>7, <1>8, <1>9 DEF Sound
  <1> QED BY <1>6, <1>10 DEF b

----------------------------------------------------------------------------
(* Deleting.                                                               *)

\* The three stores of list_delete_node.
LEMMA DelStores ==
  ASSUME NEW c, NEW len, NEW d
  PROVE  /\ d = 1 => DelLink(c, len, d).what = "head"
         /\ d # 1 => DelLink(c, len, d).what = "next" /\ DelLink(c, len, d).at = c[d - 1]
         /\ DelLink(c, len, d).val = Succ(c, len, d)
         /\ d = len => DelBack(c, len, d).what = "tail"
         /\ d # len => DelBack(c, len, d).what = "prev" /\ DelBack(c, len, d).at = c[d + 1]
         /\ DelBack(c, len, d).val = Pred(c, d)
         /\ DelCount(len).what = "count" /\ DelCount(len).val = len - 1
  BY DEF DelLink, DelBack, DelCount, Store

\* Each of them, in any order, leaves a deletion under way.
LEMMA DelPerform ==
  ASSUME Types, NEW c, NEW len, NEW d, NEW E \in SUBSET Dels(c, len, d),
         DelState(c, len, d, E), NEW e \in E, Perform(e)
  PROVE  /\ Types' /\ DelState(c, len, d, E \ {e})' /\ phase' = phase /\ cursor' = cursor
         /\ node'[c[d]].data = node[c[d]].data
  <1> DEFINE L == DelLink(c, len, d)
             B == DelBack(c, len, d)
             K == DelCount(len)
             F == E \ {e}
  <1>1. /\ d = 1 => L.what = "head"
        /\ d # 1 => L.what = "next" /\ L.at = c[d - 1]
        /\ L.val = Succ(c, len, d)
        /\ d = len => B.what = "tail"
        /\ d # len => B.what = "prev" /\ B.at = c[d + 1]
        /\ B.val = Pred(c, d)
        /\ K.what = "count" /\ K.val = len - 1
    BY DelStores
  <1>2. e \in {L, B, K}
    BY DEF Dels
  <1>3. /\ Chain(c, len) /\ Filled(c, len) /\ d \in 1 .. len /\ Owns(c, len, {}, {})
        /\ head = IF L \notin E /\ d = 1 THEN Succ(c, len, d) ELSE First(c, len)
        /\ tail = IF B \notin E /\ d = len THEN Pred(c, d) ELSE Last(c, len)
        /\ count = IF K \notin E THEN len - 1 ELSE len
        /\ \A k \in 1 .. len :
              /\ node[c[k]].next = IF L \notin E /\ k = d - 1 THEN Succ(c, len, d) ELSE Succ(c, len, k)
              /\ node[c[k]].prev = IF B \notin E /\ k = d + 1 THEN Pred(c, d) ELSE Pred(c, k)
    BY DEF DelState
  <1>4. /\ len \in Nat /\ d \in Nat /\ c \in [1 .. len -> Node] /\ len - 1 \in 0 .. N
        /\ \A j, k \in 1 .. len : c[j] = c[k] => j = k
        /\ d # 1 => d - 1 \in 1 .. len
        /\ d # len => d + 1 \in 1 .. len
    BY <1>3, SizeType DEF Chain
  <1> HIDE DEF L, B, K
  <1>5. Succ(c, len, d) \in Ptr /\ Pred(c, d) \in Ptr
    BY <1>4 DEF Succ, Pred, Ptr
  <1>6. Proper(e)
    BY <1>1, <1>2, <1>4, <1>5 DEF Proper
  <1>7. /\ Types'
        /\ head' = (IF e.what = "head" THEN e.val ELSE head)
        /\ tail' = (IF e.what = "tail" THEN e.val ELSE tail)
        /\ count' = (IF e.what = "count" THEN e.val ELSE count)
        /\ live' = (IF e.what = "free" THEN live \ {e.at} ELSE live)
        /\ held' = (IF e.what = "destroy" THEN held \ {e.at} ELSE held)
        /\ \A m \in Node :
              /\ node'[m].next = (IF e.what = "next" /\ e.at = m THEN e.val ELSE node[m].next)
              /\ node'[m].prev = (IF e.what = "prev" /\ e.at = m THEN e.val ELSE node[m].prev)
              /\ node'[m].data = (IF e.what = "data" /\ e.at = m THEN e.val ELSE node[m].data)
        /\ lost' = lost /\ phase' = phase /\ cursor' = cursor
    BY <1>6, PerformFields
  <1>8. \A k \in 1 .. len : node'[c[k]].data = node[c[k]].data
    BY <1>1, <1>2, <1>4, <1>7
  <1>9. Filled(c, len)' /\ Data(c, len)' = Data(c, len)
    BY <1>3, <1>7, <1>8, FilledKept
  <1>10. Owns(c, len, {}, {})'
    <2>1. live' = live /\ held' = held
      BY <1>1, <1>2, <1>7
    <2> QED BY <1>3, <1>7, <1>9, <2>1 DEF Owns, Nodes
  <1>11. /\ L \notin F <=> (L \notin E \/ e = L)
         /\ B \notin F <=> (B \notin E \/ e = B)
         /\ K \notin F <=> (K \notin E \/ e = K)
    OBVIOUS
  <1> HIDE DEF F
  <1>12. /\ head' = IF L \notin F /\ d = 1 THEN Succ(c, len, d) ELSE First(c, len)
         /\ tail' = IF B \notin F /\ d = len THEN Pred(c, d) ELSE Last(c, len)
         /\ count' = IF K \notin F THEN len - 1 ELSE len
    BY <1>1, <1>2, <1>3, <1>7, <1>11
  <1>13. ASSUME NEW k \in 1 .. len
         PROVE  node'[c[k]].next = IF L \notin F /\ k = d - 1 THEN Succ(c, len, d) ELSE Succ(c, len, k)
    <2>1. c[k] \in Node /\ (d # 1 => (c[d - 1] = c[k] <=> k = d - 1)) /\ (d = 1 => k # d - 1)
      BY <1>4
    <2> QED BY <1>1, <1>2, <1>3, <1>7, <1>11, <2>1
  <1>14. ASSUME NEW k \in 1 .. len
         PROVE  node'[c[k]].prev = IF B \notin F /\ k = d + 1 THEN Pred(c, d) ELSE Pred(c, k)
    <2>1. c[k] \in Node /\ (d # len => (c[d + 1] = c[k] <=> k = d + 1)) /\ (d = len => k # d + 1)
      BY <1>4
    <2> QED BY <1>1, <1>2, <1>3, <1>7, <1>11, <2>1
  <1>15. DelState(c, len, d, F)'
    BY <1>3, <1>9, <1>10, <1>12, <1>13, <1>14 DEF DelState, L, B, K, Chain
  <1> QED BY <1>3, <1>7, <1>8, <1>15 DEF F

\* When all of them are done the list is the shorter chain, and the node and
\* its item are still allocated.
LEMMA DelDone ==
  ASSUME Types, NEW c, NEW len, NEW d, DelState(c, len, d, {})
  PROVE  /\ Sound(Shorter(c, len, d), len - 1)
         /\ Nodes(Shorter(c, len, d), len - 1) = Nodes(c, len) \ {c[d]}
         /\ c[d] \in Node \ Nodes(Shorter(c, len, d), len - 1)
         /\ node[c[d]].data \in Items \ (lost \cup Data(Shorter(c, len, d), len - 1))
         /\ Owns(Shorter(c, len, d), len - 1, {c[d]}, {node[c[d]].data})
  <1> DEFINE b == Shorter(c, len, d)
             v == node[c[d]].data
  <1>1. /\ Chain(c, len) /\ Filled(c, len) /\ d \in 1 .. len /\ Owns(c, len, {}, {})
        /\ head = IF d = 1 THEN Succ(c, len, d) ELSE First(c, len)
        /\ tail = IF d = len THEN Pred(c, d) ELSE Last(c, len)
        /\ count = len - 1
        /\ \A k \in 1 .. len :
              /\ node[c[k]].next = IF k = d - 1 THEN Succ(c, len, d) ELSE Succ(c, len, k)
              /\ node[c[k]].prev = IF k = d + 1 THEN Pred(c, d) ELSE Pred(c, k)
    BY DEF DelState
  <1>2. /\ Chain(b, len - 1)
        /\ len \in Nat /\ len - 1 \in Nat /\ d \in Nat /\ c \in [1 .. len -> Node]
        /\ \A k \in 1 .. len - 1 : b[k] = IF k < d THEN c[k] ELSE c[k + 1]
        /\ Nodes(b, len - 1) = Nodes(c, len) \ {c[d]}
    BY <1>1, ShorterChain
  <1> HIDE DEF b
  <1>3. /\ v \in Items \ lost
        /\ \A k \in 1 .. len : node[c[k]].data \in Items \ lost
        /\ \A j, k \in 1 .. len : node[c[j]].data = node[c[k]].data => j = k
        /\ c[d] \in Nodes(c, len)
    BY <1>1 DEF Filled, Nodes
  <1>4. ASSUME NEW k \in 1 .. len - 1
        PROVE  /\ k < d => k \in 1 .. len /\ k # d /\ b[k] = c[k]
               /\ ~(k < d) => k + 1 \in 1 .. len /\ k + 1 # d /\ b[k] = c[k + 1]
    BY <1>1, <1>2
  <1>5. Filled(b, len - 1)
    <2>1. \A k \in 1 .. len - 1 : node[b[k]].data \in Items \ lost
      BY <1>3, <1>4
    <2>2. \A j, k \in 1 .. len - 1 : node[b[j]].data = node[b[k]].data => j = k
      <3> TAKE j, k \in 1 .. len - 1
      <3> HAVE node[b[j]].data = node[b[k]].data
      <3>1. j \in Int /\ k \in Int
        BY <1>2
      <3> QED BY <1>2, <1>3, <1>4, <3>1
    <2> QED BY <2>1, <2>2 DEF Filled
  <1>6. Data(b, len - 1) \cup {v} = Data(c, len) /\ v \notin Data(b, len - 1)
    <2>1. \A k \in 1 .. len - 1 : node[b[k]].data \in Data(c, len) /\ node[b[k]].data # v
      BY <1>1, <1>3, <1>4 DEF Data
    <2>2. ASSUME NEW k \in 1 .. len, k # d PROVE node[c[k]].data \in Data(b, len - 1)
      <3>1. c[k] \in Nodes(b, len - 1)
        BY <1>1, <1>2, <2>2 DEF Chain, Nodes
      <3> QED BY <3>1 DEF Nodes, Data
    <2>3. v \in Data(c, len)
      BY <1>1 DEF Data
    <2>4. v \notin Data(b, len - 1)
      BY <2>1 DEF Data
    <2>5. \A y \in Data(b, len - 1) : y \in Data(c, len)
      BY <2>1 DEF Data
    <2>6. \A y \in Data(c, len) : y = v \/ y \in Data(b, len - 1)
      BY <2>2 DEF Data
    <2> HIDE DEF v
    <2> QED BY <2>3, <2>4, <2>5, <2>6
  <1>7. Owns(b, len - 1, {c[d]}, {v})
    BY <1>1, <1>2, <1>3, <1>6 DEF Owns
  <1>8. head = First(b, len - 1)
    BY <1>1, <1>2, <1>4 DEF First, Succ
  <1>9. tail = Last(b, len - 1)
    BY <1>1, <1>2, <1>4 DEF Last, Pred
  <1>10. ASSUME NEW k \in 1 .. len - 1
         PROVE  node[b[k]].next = Succ(b, len - 1, k) /\ node[b[k]].prev = Pred(b, k)
    <2>1. CASE k < d
      <3>1. node[b[k]].next = Succ(b, len - 1, k)
        <4>1. CASE k = d - 1
          BY <1>1, <1>2, <1>4, <2>1, <4>1 DEF Succ
        <4>2. CASE k # d - 1
          <5>1. k # len /\ k # len - 1 /\ k + 1 \in 1 .. len - 1 /\ k + 1 < d
            BY <1>1, <1>2, <2>1, <4>2
          <5> QED BY <1>1, <1>2, <1>4, <2>1, <4>2, <5>1 DEF Succ
        <4> QED BY <4>1, <4>2
      <3>2. node[b[k]].prev = Pred(b, k)
        <4>1. k # d + 1 /\ (k # 1 => k - 1 \in 1 .. len - 1 /\ k - 1 < d)
          BY <1>1, <1>2, <2>1
        <4> QED BY <1>1, <1>2, <1>4, <2>1, <4>1 DEF Pred
      <3> QED BY <3>1, <3>2
    <2>2. CASE ~(k < d)
      <3>1. k + 1 \in 1 .. len /\ b[k] = c[k + 1] /\ k + 1 # 1 /\ (k + 1) - 1 = k /\ k + 1 # d - 1
        BY <1>1, <1>2, <1>4, <2>2
      <3>2. node[b[k]].next = Succ(b, len - 1, k)
        <4>1. CASE k = len - 1
          BY <1>1, <1>2, <3>1, <4>1 DEF Succ
        <4>2. CASE k # len - 1
          <5>1. k + 1 # len /\ k + 1 \in 1 .. len - 1 /\ ~(k + 1 < d)
            BY <1>1, <1>2, <2>2, <4>2
          <5> QED BY <1>1, <1>2, <3>1, <4>2, <5>1 DEF Succ
        <4> QED BY <4>1, <4>2
      <3>3. node[b[k]].prev = Pred(b, k)
        <4>1. CASE k = d
          <5>1. k # 1 => k - 1 \in 1 .. len - 1 /\ k - 1 < d
            BY <1>1, <1>2, <4>1
          <5> QED BY <1>1, <1>2, <3>1, <4>1, <5>1 DEF Pred
        <4>2. CASE k # d
          <5>1. k # 1 /\ k - 1 \in 1 .. len - 1 /\ ~(k - 1 < d) /\ k + 1 # d + 1 /\ (k - 1) + 1 = k
            BY <1>1, <1>2, <2>2, <4>2
          <5> QED BY <1>1, <1>2, <3>1, <4>2, <5>1 DEF Pred
        <4> QED BY <4>1, <4>2
      <3> QED BY <3>2, <3>3
    <2> QED BY <2>1, <2>2
  <1>11. Sound(b, len - 1)
    BY <1>1, <1>2, <1>5, <1>8, <1>9, <1>10 DEF Sound, Counts
  <1>12. c[d] \in Node
    BY <1>1, <1>2
  <1> QED BY <1>2, <1>3, <1>6, <1>7, <1>11, <1>12 DEF b

----------------------------------------------------------------------------
(* The operations begin.                                                   *)

\* The invariant holds in a state that is that of some chain.
LEMMA InvOf ==
  ASSUME NEW c, NEW len, Chain(c, len), Types',
         Idle(c, len)' \/ Busy(c, len)' \/ Stopping(c, len)'
  PROVE  LInv'
  BY DEF LInv, Chain

\* The kinds of the variables only depend on what is stored.
LEMMA TypesKept ==
  ASSUME Types, UNCHANGED <<list, node, held, lost>>
  PROVE  Types'
  BY DEF Types, list

\* A list that is not written to is the same chain.
LEMMA SoundKept ==
  ASSUME NEW c, NEW len, UNCHANGED <<list, node, lost>>, Sound(c, len)
  PROVE  /\ Sound(c, len)' /\ Data(c, len)' = Data(c, len)
         /\ Chain(c, len) /\ len \in Nat /\ c \in [1 .. len -> Node]
  <1>1. Chain(c, len) /\ len \in Nat /\ c \in [1 .. len -> Node]
    BY SizeType DEF Sound, Chain
  <1>2. Data(c, len)' = Data(c, len)
    BY DEF Data
  <1>3. Filled(c, len)'
    BY DEF Sound, Filled
  <1> QED BY <1>1, <1>2, <1>3 DEF Sound, list, Counts, Chain

\* The walk of a loop over a sound list.
LEMMA SoundWalk ==
  ASSUME NEW c, NEW len, Sound(c, len)
  PROVE  Walked = Nodes(c, len)
  BY WalkChain DEF Sound

\* listnode_add begins an addition.
LEMMA AddStep ==
  ASSUME Types, NEW c, NEW len, Idle(c, len), NEW v \in Items, listnode_add(v)
  PROVE  LInv'
  <1>1. /\ Sound(c, len) /\ Owns(c, len, {}, {}) /\ cursor \in Ptr
        /\ phase = "run" /\ v \notin held /\ held' = held \cup {v}
        /\ UNCHANGED <<head, tail, count, lost, phase, cursor>>
    BY DEF Idle, Cursor, listnode_add, list
  <1>2. PICK n \in Node \ live :
          /\ live' = live \cup {n}
          /\ node' = [node EXCEPT ![n] = Blank]
          /\ todo' = << { Store("prev", n, tail),
                          Store("data", n, v),
                          IF head = NULL THEN Store("head", NULL, n) ELSE Store("next", tail, n),
                          Store("tail", NULL, n),
                          Store("count", NULL, (IF count < 0 THEN 0 ELSE count) + 1) } >>
    BY DEF listnode_add
  <1>3. /\ Chain(c, len) /\ Filled(c, len) /\ Counts(len)
        /\ head = First(c, len) /\ tail = Last(c, len)
        /\ \A k \in 1 .. len : node[c[k]].next = Succ(c, len, k) /\ node[c[k]].prev = Pred(c, k)
        /\ len \in Nat /\ c \in [1 .. len -> Node]
    BY <1>1, SizeType DEF Sound, Chain
  <1>4. n \in Node \ Nodes(c, len) /\ v \in Items \ (lost \cup Data(c, len))
    BY <1>1, <1>2 DEF Owns
  <1> DEFINE E == Adds(c, len, n, v)
  <1>5. todo' = <<E>>
    <2>1. (IF head = NULL THEN Store("head", NULL, n) ELSE Store("next", tail, n)) = AddLink(c, len, n)
      BY <1>3, NullAssumption DEF First, AddLink
    <2>2. (IF count < 0 THEN 0 ELSE count) + 1 = len + 1
      BY <1>3, RobustnessAssumption DEF Counts
    <2> QED BY <1>2, <1>3, <2>1, <2>2 DEF Adds, AddPrev, AddData, AddTail, AddCount
  <1>6. /\ node'[n] = Blank
        /\ \A k \in 1 .. len : node'[c[k]] = node[c[k]]
        /\ node' \in [Node -> [next : Ptr, prev : Ptr, data : Items \cup {NULL}]]
    <2>1. Blank \in [next : Ptr, prev : Ptr, data : Items \cup {NULL}]
      BY DEF Blank, Ptr
    <2>2. \A k \in 1 .. len : c[k] \in Node /\ c[k] # n
      BY <1>3, <1>4 DEF Nodes
    <2> QED BY <1>2, <2>1, <2>2 DEF Types
  <1>7. Filled(c, len)' /\ Data(c, len)' = Data(c, len)
    BY <1>1, <1>3, <1>6, FilledKept
  <1>8. /\ AddPrev(c, len, n) \in E /\ AddData(n, v) \in E /\ AddLink(c, len, n) \in E
        /\ AddTail(n) \in E /\ AddCount(len) \in E
    BY DEF Adds
  <1> HIDE DEF E
  <1>9. Types'
    BY <1>1, <1>6 DEF Types
  <1>10. Owns(c, len, {n}, {v})'
    BY <1>1, <1>2, <1>7 DEF Owns, Nodes
  <1>11. AddState(c, len, n, v, E)'
    BY <1>1, <1>3, <1>4, <1>6, <1>7, <1>8, <1>10 DEF AddState, Chain, Counts, Blank
  <1>12. Adding(c, len)'
    <2>1. E \in SUBSET Adds(c, len, n, v) /\ E # {}
      BY <1>8 DEF E
    <2> QED BY <1>1, <1>4, <1>5, <1>11, <2>1 DEF Adding
  <1> QED BY <1>3, <1>9, <1>12, InvOf DEF Busy

\* When the node cannot be allocated the list stays and the item is lost.
LEMMA AddFailedStep ==
  ASSUME Types, NEW c, NEW len, Idle(c, len), NEW v \in Items, listnode_add_failed(v)
  PROVE  LInv'
  <1>1. /\ Sound(c, len) /\ Owns(c, len, {}, {}) /\ Cursor(c, len, {}) /\ todo = <<>>
        /\ v \notin held /\ held' = held \cup {v} /\ lost' = lost \cup {v}
        /\ UNCHANGED <<head, tail, count, node, live, phase, cursor, todo>>
    BY DEF Idle, listnode_add_failed, list
  <1>2. Chain(c, len) /\ len \in Nat /\ c \in [1 .. len -> Node]
    BY <1>1, SizeType DEF Sound, Chain
  <1>3. v \notin Data(c, len) /\ Data(c, len)' = Data(c, len)
    BY <1>1 DEF Owns, Data
  <1>4. Filled(c, len)'
    BY <1>1, <1>3 DEF Sound, Filled, Data
  <1>5. Sound(c, len)'
    BY <1>1, <1>2, <1>4 DEF Sound, Counts, Chain
  <1>6. Owns(c, len, {}, {})'
    BY <1>1, <1>3 DEF Owns, Nodes
  <1>7. Cursor(c, len, {})' /\ Types'
    BY <1>1 DEF Cursor, Nodes, Types
  <1> QED BY <1>1, <1>2, <1>5, <1>6, <1>7, InvOf DEF Idle

\* list_delete_node leaves the stores, the free and the destruction to do.
LEMMA DeleteNode ==
  ASSUME NEW c, NEW len, Sound(c, len), Owns(c, len, {}, {}), NEW d \in 1 .. len
  PROVE  /\ count = len
         /\ list_delete_node(c[d]) = <<Dels(c, len, d), Free(c[d]), Destroy(node[c[d]].data)>>
         /\ Dels(c, len, d) # {}
         /\ DelState(c, len, d, Dels(c, len, d))
  <1>1. /\ Chain(c, len) /\ len \in Nat /\ d \in Nat /\ c \in [1 .. len -> Node]
        /\ Filled(c, len) /\ Counts(len)
        /\ head = First(c, len) /\ tail = Last(c, len)
        /\ \A k \in 1 .. len : node[c[k]].next = Succ(c, len, k) /\ node[c[k]].prev = Pred(c, k)
    BY SizeType DEF Sound, Chain
  <1>2. count = len
    BY <1>1 DEF Counts
  <1>3. /\ node[c[d]].prev # NULL <=> d # 1
        /\ node[c[d]].next # NULL <=> d # len
        /\ d # 1 => node[c[d]].prev = c[d - 1]
        /\ d # len => node[c[d]].next = c[d + 1]
    BY <1>1, NullAssumption DEF Succ, Pred
  <1> DEFINE L == IF node[c[d]].prev # NULL THEN Store("next", node[c[d]].prev, node[c[d]].next)
                                            ELSE Store("head", NULL, node[c[d]].next)
             B == IF node[c[d]].next # NULL THEN Store("prev", node[c[d]].next, node[c[d]].prev)
                                            ELSE Store("tail", NULL, node[c[d]].prev)
  <1>4. L = DelLink(c, len, d)
    BY <1>1, <1>3 DEF DelLink
  <1>5. B = DelBack(c, len, d)
    BY <1>1, <1>3 DEF DelBack
  <1>6. list_delete_node(c[d]) = << {L, B, Store("count", NULL, count - 1)}, Free(c[d]), Destroy(node[c[d]].data) >>
    BY DEF list_delete_node, Free, Destroy
  <1> HIDE DEF L, B
  <1>7. list_delete_node(c[d]) = <<Dels(c, len, d), Free(c[d]), Destroy(node[c[d]].data)>>
    BY <1>2, <1>4, <1>5, <1>6 DEF Dels, DelCount
  <1>8. /\ DelLink(c, len, d) \in Dels(c, len, d) /\ DelBack(c, len, d) \in Dels(c, len, d)
        /\ DelCount(len) \in Dels(c, len, d)
    BY DEF Dels
  <1>9. DelState(c, len, d, Dels(c, len, d))
    BY <1>1, <1>2, <1>8 DEF DelState
  <1> QED BY <1>2, <1>7, <1>8, <1>9

\* A deletion that is not begun yet stays so while nothing is stored.
LEMMA DelKept ==
  ASSUME NEW c, NEW len, NEW d, NEW E, DelState(c, len, d, E),
         UNCHANGED <<list, node, live, held, lost>>
  PROVE  DelState(c, len, d, E)'
  <1>1. Filled(c, len)' /\ Data(c, len)' = Data(c, len)
    BY DEF DelState, Filled, Data
  <1>2. Owns(c, len, {}, {})'
    BY <1>1 DEF DelState, Owns, Nodes
  <1> QED BY <1>1, <1>2 DEF DelState, list, Chain

\* A deletion with the mark of an empty list after it.
LEMMA FourSteps ==
  ASSUME NEW a, NEW b, NEW c, NEW d
  PROVE  Append(<<a, b, c>>, d) = <<a, b, c, d>>
  <1> DEFINE s == <<a, b, c>>
             u == <<a, b, c, d>>
             S == {a, b, c, d}
             t == Append(s, d)
  <1>1. s \in Seq(S) /\ d \in S /\ Len(s) = 3 /\ s[1] = a /\ s[2] = b /\ s[3] = c
    OBVIOUS
  <1>2. u \in Seq(S) /\ Len(u) = 4 /\ u[1] = a /\ u[2] = b /\ u[3] = c /\ u[4] = d
    OBVIOUS
  <1> HIDE DEF s, u, S
  <1>3. t \in Seq(S) /\ Len(t) = 4 /\ t[4] = d /\ t[1] = a /\ t[2] = b /\ t[3] = c
    <2>1. t \in Seq(S) /\ Len(t) = Len(s) + 1
      BY <1>1, AppendProperties
    <2>2. t[Len(s) + 1] = d
      BY <1>1, AppendProperties
    <2>3. \A i \in 1 .. Len(s) : t[i] = s[i]
      BY <1>1, AppendProperties
    <2> HIDE DEF t
    <2> QED BY <1>1, <2>1, <2>2, <2>3
  <1> HIDE DEF t
  <1>4. \A i \in 1 .. Len(t) : t[i] = u[i]
    BY <1>2, <1>3
  <1>5. t = u
    BY <1>2, <1>3, <1>4, SeqEqual
  <1> QED BY <1>5 DEF s, t, u

\* subscr_unsub begins the deletion of a node.
LEMMA UnsubStep ==
  ASSUME Types, NEW c, NEW len, Idle(c, len), NEW v \in Items, subscr_unsub(v)
  PROVE  LInv'
  <1>1. /\ Sound(c, len) /\ Owns(c, len, {}, {}) /\ cursor \in Ptr /\ phase = "run"
        /\ UNCHANGED <<list, node, live, held, lost, phase, cursor>>
    BY DEF Idle, Cursor, subscr_unsub
  <1>2. PICK x \in Walked :
          todo' = IF count - 1 <= 0
                  THEN Append(list_delete_node(x), { Store("count", NULL, -RobustnessFactor) })
                  ELSE list_delete_node(x)
    BY DEF subscr_unsub
  <1>3. Chain(c, len) /\ len \in Nat /\ x \in Nodes(c, len)
    BY <1>1, <1>2, SizeType, SoundWalk DEF Sound, Chain
  <1>4. PICK d \in 1 .. len : x = c[d]
    BY <1>3 DEF Nodes
  <1> DEFINE E == Dels(c, len, d)
             w == node[x].data
  <1>5. /\ count = len /\ list_delete_node(x) = <<E, Free(x), Destroy(w)>>
        /\ E # {} /\ DelState(c, len, d, E)
    BY <1>1, <1>4, DeleteNode
  <1>6. DelState(c, len, d, E)' /\ Types'
    BY <1>1, <1>5, DelKept, TypesKept
  <1>7. \/ todo' = <<E, Free(x), Destroy(w)>>
        \/ todo' = <<E, Free(x), Destroy(w), Mark>> /\ len - 1 = 0
    <2> HIDE DEF E
    <2>1. CASE count - 1 <= 0
      <3>1. todo' = Append(<<E, Free(x), Destroy(w)>>, Mark)
        BY <1>2, <1>5, <2>1 DEF Mark
      <3>2. todo' = <<E, Free(x), Destroy(w), Mark>>
        BY <3>1, FourSteps
      <3> QED BY <1>3, <1>5, <2>1, <3>2
    <2>2. CASE ~(count - 1 <= 0)
      BY <1>2, <1>5, <2>2
    <2> QED BY <2>1, <2>2
  <1>8. w = node'[c[d]].data /\ Cursor(c, len, {c[d]})' /\ phase' = "run"
    BY <1>1, <1>4 DEF Cursor, Nodes
  <1>9. E \in SUBSET Dels(c, len, d)
    OBVIOUS
  <1> HIDE DEF E, w
  <1>10. Removing(c, len)'
    BY <1>4, <1>5, <1>6, <1>7, <1>8, <1>9 DEF Removing, MayMark
  <1> QED BY <1>3, <1>6, <1>10, InvOf DEF Busy

\* The loop of timeout() begins at the head, skips a node or deletes it, and
\* goes on from the next one, which is another one; then it ends.
LEMMA SweepStep ==
  ASSUME Types, NEW c, NEW len, Idle(c, len),
         BeginSweep \/ EndSweep \/ (\E expired \in BOOLEAN : SweepNode(expired))
  PROVE  LInv'
  <1>1. /\ Sound(c, len) /\ Owns(c, len, {}, {}) /\ Cursor(c, len, {}) /\ todo = <<>>
        /\ UNCHANGED <<list, node, live, held, lost>>
    BY DEF Idle, BeginSweep, EndSweep, SweepNode
  <1>2. /\ Sound(c, len)' /\ Data(c, len)' = Data(c, len)
        /\ Chain(c, len) /\ len \in Nat /\ c \in [1 .. len -> Node]
    BY <1>1, SoundKept
  <1>3. Types' /\ Owns(c, len, {}, {})'
    BY <1>1, <1>2, TypesKept DEF Owns, Nodes
  <1>4. CASE BeginSweep \/ EndSweep
    <2>1. First(c, len) \in Nodes(c, len) \cup {NULL} /\ First(c, len) \in Ptr
      BY <1>2 DEF First, Nodes, Ptr
    <2>2. Cursor(c, len, {})' /\ todo' = <<>>
      BY <1>1, <1>4, <2>1 DEF BeginSweep, EndSweep, Cursor, Sound, Nodes
    <2> QED BY <1>2, <1>3, <2>2, InvOf DEF Idle
  <1>5. ASSUME NEW expired \in BOOLEAN, SweepNode(expired) PROVE LInv'
    <2>1. /\ phase = "sweep" /\ phase' = "sweep" /\ cursor # NULL
          /\ cursor' = node[cursor].next
          /\ todo' = IF expired THEN list_delete_node(cursor) ELSE <<>>
      BY <1>5 DEF SweepNode, SavedNext
    <2>2. PICK d \in 1 .. len : cursor = c[d]
      BY <1>1, <2>1 DEF Cursor, Nodes
    <2>3. cursor' \in (Nodes(c, len) \ {c[d]}) \cup {NULL} /\ cursor' \in Ptr
      <3>1. cursor' = Succ(c, len, d)
        BY <1>1, <2>1, <2>2 DEF Sound
      <3>2. d # len => d + 1 \in 1 .. len /\ c[d + 1] # c[d] /\ c[d + 1] \in Node
        BY <1>2, <2>2 DEF Chain
      <3> QED BY <3>1, <3>2 DEF Succ, Nodes, Ptr
    <2>4. Cursor(c, len, {c[d]})' /\ Cursor(c, len, {})'
      BY <2>1, <2>3 DEF Cursor, Nodes
    <2>5. CASE expired
      <3> DEFINE E == Dels(c, len, d)
      <3>1. /\ list_delete_node(c[d]) = <<E, Free(c[d]), Destroy(node[c[d]].data)>>
            /\ E # {} /\ DelState(c, len, d, E)
        BY <1>1, DeleteNode
      <3>2. DelState(c, len, d, E)'
        BY <1>1, <3>1, DelKept
      <3>3. todo' = <<E, Free(c[d]), Destroy(node'[c[d]].data)>>
        BY <1>1, <2>1, <2>2, <2>5, <3>1
      <3>4. E \in SUBSET Dels(c, len, d)
        OBVIOUS
      <3> HIDE DEF E
      <3>5. Removing(c, len)'
        BY <2>4, <3>1, <3>2, <3>3, <3>4 DEF Removing
      <3> QED BY <1>2, <1>3, <3>5, InvOf DEF Busy
    <2>6. CASE ~expired
      <3>1. todo' = <<>>
        BY <2>1, <2>6
      <3> QED BY <1>2, <1>3, <2>4, <3>1, InvOf DEF Idle
    <2> QED BY <2>5, <2>6
  <1> QED BY <1>4, <1>5

\* What is left at the shutdown only changes by a free or a destruction.
LEMMA StopBegin ==
  ASSUME Types, NEW c, NEW len, Idle(c, len), BeginShutdown
  PROVE  LInv'
  <1>1. /\ Sound(c, len) /\ Owns(c, len, {}, {}) /\ todo' = <<>>
        /\ UNCHANGED <<list, node, live, held, lost>>
        /\ phase' = "stop" /\ cursor' = First(c, len)
    BY DEF Idle, Sound, BeginShutdown
  <1>2. /\ Sound(c, len)' /\ Data(c, len)' = Data(c, len) /\ Types'
        /\ Chain(c, len) /\ len \in Nat /\ c \in [1 .. len -> Node]
    BY <1>1, SoundKept, TypesKept
  <1>3. cursor' = IF 1 = len + 1 THEN NULL ELSE c[1]
    BY <1>1, <1>2 DEF First
  <1>4. StopState(c, len, 1, 1, 1)'
    BY <1>1, <1>2, <1>3 DEF StopState, Sound, Owns, Nodes, Data
  <1>5. 1 \in 1 .. len + 1
    BY <1>2
  <1>6. Stopping(c, len)'
    BY <1>1, <1>4, <1>5 DEF Stopping
  <1> QED BY <1>2, <1>6, InvOf

\* The loop of list_delete_all_node takes the next node, or ends.
LEMMA StopStep ==
  ASSUME Types, NEW c, NEW len, Stopping(c, len), Ready, ShutdownNode \/ ShutdownDone
  PROVE  LInv'
  <1>1. PICK j \in 1 .. len + 1 : StopState(c, len, j, j, j)
    BY DEF Stopping, Ready
  <1>2. /\ Chain(c, len) /\ Filled(c, len) /\ phase = "stop"
        /\ cursor = (IF j = len + 1 THEN NULL ELSE c[j])
        /\ \A k \in 1 .. len : node[c[k]].next = Succ(c, len, k)
        /\ live = {c[k] : k \in j .. len} /\ held = lost \cup {node[c[k]].data : k \in j .. len}
        /\ len \in Nat /\ j \in Nat /\ c \in [1 .. len -> Node]
    BY <1>1, SizeType DEF StopState, Chain
  <1>3. UNCHANGED <<list, node, live, held, lost>> /\ Types'
    BY TypesKept DEF ShutdownNode, ShutdownDone
  <1>4. CASE ShutdownNode
    <2>1. j \in 1 .. len /\ j # len + 1 /\ cursor = c[j] /\ j + 1 \in 1 .. len + 1 /\ (j + 1) - 1 = j
      BY <1>2, <1>4 DEF ShutdownNode
    <2>2. /\ todo' = <<Destroy(node[c[j]].data), Free(c[j])>>
          /\ cursor' = Succ(c, len, j) /\ phase' = "stop"
      BY <1>2, <1>4, <2>1 DEF ShutdownNode, list_delete_all_node, Destroy, Free
    <2>3. cursor' = IF j + 1 = len + 1 THEN NULL ELSE c[j + 1]
      BY <1>2, <2>2 DEF Succ
    <2>4. Filled(c, len)'
      BY <1>2, <1>3, FilledKept
    <2>5. StopState(c, len, j + 1, j, j)'
      BY <1>2, <1>3, <2>2, <2>3, <2>4 DEF StopState, Chain
    <2>6. todo' = <<Destroy(node'[c[j]].data), Free(c[j])>>
      BY <1>3, <2>2
    <2>7. Stopping(c, len)'
      <3> DEFINE i == j + 1
      <3>1. i \in 1 .. len + 1 /\ i > 1 /\ i - 1 = j
        BY <1>2, <2>1
      <3>2. StopState(c, len, i, i - 1, i - 1)' /\ todo' = <<Destroy(node'[c[i - 1]].data), Free(c[i - 1])>>
        BY <2>1, <2>5, <2>6
      <3> HIDE DEF i
      <3> QED BY <3>1, <3>2 DEF Stopping
    <2> QED BY <1>2, <1>3, <2>7, InvOf
  <1>5. CASE ShutdownDone
    <2>1. j = len + 1 /\ cursor = NULL
      BY <1>2, <1>5, NullAssumption DEF ShutdownDone
    <2>2. live = {} /\ held = lost
      BY <1>2, <2>1
    <2>3. todo' = <<Clears>> /\ phase' = "down" /\ cursor' = NULL
      BY <1>5, <2>1 DEF ShutdownDone, Clears
    <2>4. Clears # {} /\ Store("head", NULL, NULL) \in Clears /\ Clears \in SUBSET Clears
      BY DEF Clears
    <2>5. Down'
      BY <1>3, <2>2, <2>3, <2>4 DEF Down
    <2> QED BY <1>3, <2>5 DEF LInv
  <1> QED BY <1>4, <1>5

\* The same in the state after a step.
LEMMA AddDoneNext ==
  ASSUME NEW c, NEW len, NEW n, NEW v
  PROVE  Types' /\ AddState(c, len, n, v, {})'
           => Sound(Longer(c, len, n), len + 1)' /\ Owns(Longer(c, len, n), len + 1, {}, {})'
  <1>1. Types /\ AddState(c, len, n, v, {})
           => Sound(Longer(c, len, n), len + 1) /\ Owns(Longer(c, len, n), len + 1, {}, {})
    BY AddDone
  <1> QED BY <1>1, PTL

\* The same in the state after a step.
LEMMA DelDoneNext ==
  ASSUME NEW c, NEW len, NEW d
  PROVE  Types' /\ DelState(c, len, d, {})'
           => (/\ Sound(Shorter(c, len, d), len - 1)
               /\ Nodes(Shorter(c, len, d), len - 1) = Nodes(c, len) \ {c[d]}
               /\ c[d] \in Node \ Nodes(Shorter(c, len, d), len - 1)
               /\ node[c[d]].data \in Items \ (lost \cup Data(Shorter(c, len, d), len - 1))
               /\ Owns(Shorter(c, len, d), len - 1, {c[d]}, {node[c[d]].data}))'
  <1> DEFINE G == /\ Sound(Shorter(c, len, d), len - 1)
                  /\ Nodes(Shorter(c, len, d), len - 1) = Nodes(c, len) \ {c[d]}
                  /\ c[d] \in Node \ Nodes(Shorter(c, len, d), len - 1)
                  /\ node[c[d]].data \in Items \ (lost \cup Data(Shorter(c, len, d), len - 1))
                  /\ Owns(Shorter(c, len, d), len - 1, {c[d]}, {node[c[d]].data})
  <1>1. Types /\ DelState(c, len, d, {}) => G
    BY DelDone
  <1>2. Types' /\ DelState(c, len, d, {})' => G'
    BY <1>1, PTL
  <1> QED BY <1>2

----------------------------------------------------------------------------
(* The operations go on and end.                                           *)

\* What is left when the first of several groups of stores is done.
LEMMA Tails ==
  ASSUME NEW a, NEW b, NEW c, NEW d
  PROVE  /\ Tail(<<a>>) = <<>> /\ Tail(<<a, b>>) = <<b>>
         /\ Tail(<<a, b, c>>) = <<b, c>> /\ Tail(<<a, b, c, d>>) = <<b, c, d>>
  OBVIOUS

\* A store of an addition.
LEMMA AddingStep ==
  ASSUME Types, NEW c, NEW len, Adding(c, len), NEW e \in Head(todo), Perform(e)
  PROVE  LInv'
  <1>1. PICK n \in Node, v \in Items : \E E \in SUBSET Adds(c, len, n, v) :
          todo = <<E>> /\ phase = "run" /\ cursor \in Ptr /\ AddState(c, len, n, v, E)
    BY DEF Adding
  <1>2. PICK E \in SUBSET Adds(c, len, n, v) :
          todo = <<E>> /\ phase = "run" /\ cursor \in Ptr /\ AddState(c, len, n, v, E)
    BY <1>1
  <1>3. todo[1] = E /\ Head(todo) = E /\ e \in E
    BY <1>2
  <1> DEFINE F == E \ {e}
  <1>4. Types' /\ AddState(c, len, n, v, F)' /\ phase' = "run" /\ cursor' \in Ptr
    BY <1>2, <1>3, AddPerform
  <1>5. Chain(c, len) /\ n \in Node \ Nodes(c, len)
    BY <1>2 DEF AddState
  <1>6. CASE F = {}
    <2>1. todo' = <<>>
      BY <1>2, <1>3, <1>6, PerformTodo
    <2>2. AddState(c, len, n, v, {})'
      BY <1>4, <1>6
    <2>3. Types' /\ AddState(c, len, n, v, {})' => Sound(Longer(c, len, n), len + 1)' /\ Owns(Longer(c, len, n), len + 1, {}, {})'
      BY AddDoneNext
    <2>4. Chain(Longer(c, len, n), len + 1)
      BY <1>5, LongerChain
    <2>5. Idle(Longer(c, len, n), len + 1)'
      BY <1>4, <2>1, <2>2, <2>3 DEF Idle, Cursor
    <2> QED BY <1>4, <2>4, <2>5, InvOf
  <1>7. CASE F # {}
    <2>1. todo' = <<F>>
      <3>1. todo' = [todo EXCEPT ![1] = F]
        BY <1>2, <1>3, <1>7, PerformTodo
      <3> HIDE DEF F
      <3> QED BY <1>2, <3>1
    <2>2. F \in SUBSET Adds(c, len, n, v)
      OBVIOUS
    <2> HIDE DEF F
    <2>3. Adding(c, len)'
      BY <1>4, <1>7, <2>1, <2>2 DEF Adding
    <2> QED BY <1>4, <1>5, <2>3, InvOf DEF Busy
  <1> QED BY <1>6, <1>7

\* A store of a deletion.
LEMMA RemovingStep ==
  ASSUME Types, NEW c, NEW len, Removing(c, len), NEW e \in Head(todo), Perform(e)
  PROVE  LInv'
  <1>1. PICK d \in 1 .. len : \E E \in SUBSET Dels(c, len, d) :
          /\ \/ todo = <<E, Free(c[d]), Destroy(node[c[d]].data)>>
             \/ todo = <<E, Free(c[d]), Destroy(node[c[d]].data), Mark>> /\ MayMark(len - 1)
          /\ Cursor(c, len, {c[d]}) /\ DelState(c, len, d, E)
    BY DEF Removing
  <1>2. PICK E \in SUBSET Dels(c, len, d) :
          /\ \/ todo = <<E, Free(c[d]), Destroy(node[c[d]].data)>>
             \/ todo = <<E, Free(c[d]), Destroy(node[c[d]].data), Mark>> /\ MayMark(len - 1)
          /\ Cursor(c, len, {c[d]}) /\ DelState(c, len, d, E)
    BY <1>1
  <1> DEFINE x == c[d]
             F == E \ {e}
  <1>v. PICK v : v = node[x].data
    OBVIOUS
  <1>3. todo[1] = E /\ Head(todo) = E /\ e \in E
    BY <1>2
  <1>4. /\ Types' /\ DelState(c, len, d, F)' /\ phase' = phase /\ cursor' = cursor
        /\ node'[x].data = v
    BY <1>v, <1>2, <1>3, DelPerform
  <1>5. Chain(c, len)
    BY <1>2 DEF DelState
  <1>6. MayMark(len - 1)' <=> MayMark(len - 1)
    BY <1>4 DEF MayMark
  <1>7. CASE F = {}
    <2> DEFINE b == Shorter(c, len, d)
    <2>1. \/ todo' = <<Free(x), Destroy(v)>>
          \/ todo' = <<Free(x), Destroy(v), Mark>> /\ MayMark(len - 1)
      <3>1. todo' = Tail(todo)
        BY <1>2, <1>3, <1>7, PerformTodo
      <3>2. /\ Tail(<<E, Free(x), Destroy(v)>>) = <<Free(x), Destroy(v)>>
            /\ Tail(<<E, Free(x), Destroy(v), Mark>>) = <<Free(x), Destroy(v), Mark>>
        BY Tails
      <3>3. \/ todo = <<E, Free(x), Destroy(v)>>
            \/ todo = <<E, Free(x), Destroy(v), Mark>> /\ MayMark(len - 1)
        BY <1>v, <1>2
      <3> HIDE DEF x
      <3> QED BY <3>1, <3>2, <3>3, Zenon
    <2>2. DelState(c, len, d, {})'
      BY <1>4, <1>7
    <2>3. /\ Sound(b, len - 1)'
          /\ Nodes(b, len - 1)' = Nodes(c, len)' \ {x}
          /\ x \in Node \ Nodes(b, len - 1)'
          /\ node'[x].data \in Items \ (lost' \cup Data(b, len - 1)')
          /\ Owns(b, len - 1, {x}, {node[x].data})'
      BY <1>4, <2>2, DelDoneNext
    <2>4. Chain(b, len - 1)
      BY <1>1, <1>5, ShorterChain
    <2>5. Cursor(b, len - 1, {})'
      BY <1>2, <1>4, <2>3 DEF Cursor, Nodes
    <2>6. v \in Items \ (lost' \cup Data(b, len - 1)') /\ Owns(b, len - 1, {x}, {v})'
      BY <1>4, <2>3 DEF Owns
    <2>7. Freeing(b, len - 1)'
      <3> HIDE DEF b, x
      <3> QED BY <1>6, <2>1, <2>3, <2>5, <2>6 DEF Freeing
    <2> QED BY <1>4, <2>4, <2>7, InvOf DEF Busy
  <1>8. CASE F # {}
    <2>1. \/ todo' = <<F, Free(x), Destroy(v)>>
          \/ todo' = <<F, Free(x), Destroy(v), Mark>> /\ MayMark(len - 1)
      <3>1. todo' = [todo EXCEPT ![1] = F]
        BY <1>2, <1>3, <1>8, PerformTodo
      <3> HIDE DEF F
      <3> QED BY <1>v, <1>2, <3>1
    <2>2. F \in SUBSET Dels(c, len, d)
      OBVIOUS
    <2>3. Cursor(c, len, {c[d]})'
      BY <1>2, <1>4 DEF Cursor, Nodes
    <2> HIDE DEF F
    <2>4. Removing(c, len)'
      BY <1>4, <1>6, <1>8, <2>1, <2>2, <2>3 DEF Removing
    <2> QED BY <1>4, <1>5, <2>4, InvOf DEF Busy
  <1> QED BY <1>7, <1>8

\* A step of the operation that is left is one of a few, or the only one.
LEMMA Alone ==
  ASSUME NEW e, NEW f, Perform(e), todo # <<>>, Head(todo) = {f}, e \in Head(todo)
  PROVE  e = f /\ todo' = Tail(todo)
  BY DEF Perform

\* The stores that free a node and destroy an item.
LEMMA FreeStores ==
  ASSUME NEW x, NEW v
  PROVE  /\ Store("free", x, NULL).what = "free" /\ Store("free", x, NULL).at = x
         /\ Store("destroy", v, NULL).what = "destroy" /\ Store("destroy", v, NULL).at = v
  BY DEF Store

\* The node is freed: it is no longer one of the list, nor where a sweep
\* goes on.
LEMMA FreeingStep ==
  ASSUME Types, NEW c, NEW len, Freeing(c, len), NEW e \in Head(todo), Perform(e)
  PROVE  LInv'
  <1>1. PICK x \in Node \ Nodes(c, len), v \in Items \ (lost \cup Data(c, len)) :
          /\ \/ todo = <<Free(x), Destroy(v)>>
             \/ todo = <<Free(x), Destroy(v), Mark>> /\ MayMark(len)
          /\ Sound(c, len) /\ Owns(c, len, {x}, {v}) /\ Cursor(c, len, {})
    BY DEF Freeing
  <1>2. e = Store("free", x, NULL) /\ todo' = Tail(todo)
    <2>1. todo # <<>> /\ Head(todo) = {Store("free", x, NULL)}
      BY <1>1 DEF Free
    <2> QED BY <2>1, Alone
  <1>3. e.what = "free" /\ e.at = x /\ Proper(e)
    BY <1>2, FreeStores DEF Proper
  <1>4. /\ Types' /\ UNCHANGED <<list, held, lost, phase, cursor>> /\ live' = live \ {x}
        /\ node' = node
    <2>1. /\ Types' /\ UNCHANGED <<list, held, lost, phase, cursor>> /\ live' = live \ {x}
          /\ \A m \in Node : /\ node'[m].next = node[m].next
                             /\ node'[m].prev = node[m].prev
                             /\ node'[m].data = node[m].data
      BY <1>3, PerformFields DEF list
    <2> QED BY <2>1 DEF Types
  <1>5. Sound(c, len)' /\ Data(c, len)' = Data(c, len) /\ Chain(c, len)
    BY <1>1, <1>4, SoundKept
  <1>6. Owns(c, len, {}, {v})'
    BY <1>1, <1>4, <1>5 DEF Owns, Nodes
  <1>7. Cursor(c, len, {})' /\ (MayMark(len) => MayMark(len)')
    BY <1>1, <1>4 DEF Cursor, Nodes, MayMark
  <1>8. \/ todo' = <<Destroy(v)>>
        \/ todo' = <<Destroy(v), Mark>> /\ MayMark(len)'
    <2>1. /\ Tail(<<Free(x), Destroy(v)>>) = <<Destroy(v)>>
          /\ Tail(<<Free(x), Destroy(v), Mark>>) = <<Destroy(v), Mark>>
      BY Tails
    <2> QED BY <1>1, <1>2, <1>7, <2>1, Zenon
  <1>9. v \in Items \ (lost' \cup Data(c, len)')
    BY <1>1, <1>4, <1>5
  <1>10. Destroying(c, len)'
    BY <1>5, <1>6, <1>7, <1>8, <1>9 DEF Destroying
  <1> QED BY <1>4, <1>5, <1>10, InvOf DEF Busy

\* The item is destroyed: it is no longer listed.
LEMMA DestroyingStep ==
  ASSUME Types, NEW c, NEW len, Destroying(c, len), NEW e \in Head(todo), Perform(e)
  PROVE  LInv'
  <1>1. PICK v \in Items \ (lost \cup Data(c, len)) :
          /\ \/ todo = <<Destroy(v)>>
             \/ todo = <<Destroy(v), Mark>> /\ MayMark(len)
          /\ Sound(c, len) /\ Owns(c, len, {}, {v}) /\ Cursor(c, len, {})
    BY DEF Destroying
  <1>2. e = Store("destroy", v, NULL) /\ todo' = Tail(todo)
    <2>1. todo # <<>> /\ Head(todo) = {Store("destroy", v, NULL)}
      BY <1>1 DEF Destroy
    <2> QED BY <2>1, Alone
  <1>3. e.what = "destroy" /\ e.at = v /\ Proper(e)
    BY <1>1, <1>2, FreeStores DEF Proper
  <1>4. /\ Types' /\ UNCHANGED <<list, live, lost, phase, cursor>> /\ held' = held \ {v}
        /\ node' = node
    <2>1. /\ Types' /\ UNCHANGED <<list, live, lost, phase, cursor>> /\ held' = held \ {v}
          /\ \A m \in Node : /\ node'[m].next = node[m].next
                             /\ node'[m].prev = node[m].prev
                             /\ node'[m].data = node[m].data
      BY <1>3, PerformFields DEF list
    <2> QED BY <2>1 DEF Types
  <1>5. Sound(c, len)' /\ Data(c, len)' = Data(c, len) /\ Chain(c, len)
    BY <1>1, <1>4, SoundKept
  <1>6. Owns(c, len, {}, {})'
    BY <1>1, <1>4, <1>5 DEF Owns, Nodes
  <1>7. Cursor(c, len, {})' /\ (MayMark(len) => MayMark(len)')
    BY <1>1, <1>4 DEF Cursor, Nodes, MayMark
  <1>8. \/ todo' = <<>>
        \/ todo' = <<Mark>> /\ MayMark(len)'
    <2>1. Tail(<<Destroy(v)>>) = <<>> /\ Tail(<<Destroy(v), Mark>>) = <<Mark>>
      BY Tails
    <2> QED BY <1>1, <1>2, <1>7, <2>1, Zenon
  <1>9. Idle(c, len)' \/ Marking(c, len)'
    BY <1>5, <1>6, <1>7, <1>8 DEF Idle, Marking
  <1> QED BY <1>4, <1>5, <1>9, InvOf DEF Busy

\* The list is empty, and its count becomes the mark.
LEMMA MarkingStep ==
  ASSUME Types, NEW c, NEW len, Marking(c, len), NEW e \in Head(todo), Perform(e)
  PROVE  LInv'
  <1>1. /\ todo = <<Mark>> /\ len = 0
        /\ Sound(c, len) /\ Owns(c, len, {}, {}) /\ Cursor(c, len, {})
    BY DEF Marking, MayMark
  <1>2. e = Store("count", NULL, -RobustnessFactor) /\ todo' = <<>>
    <2>1. /\ todo # <<>> /\ Head(todo) = {Store("count", NULL, -RobustnessFactor)}
          /\ Tail(todo) = <<>>
      BY <1>1 DEF Mark
    <2> QED BY <2>1, Alone
  <1>3. e.what = "count" /\ e.val = -RobustnessFactor /\ Proper(e)
    BY <1>2 DEF Proper, Store
  <1>4. /\ Types' /\ UNCHANGED <<head, tail, live, held, lost, phase, cursor>>
        /\ count' = -RobustnessFactor /\ node' = node
    <2>1. /\ Types' /\ UNCHANGED <<head, tail, live, held, lost, phase, cursor>>
          /\ count' = -RobustnessFactor
          /\ \A m \in Node : /\ node'[m].next = node[m].next
                             /\ node'[m].prev = node[m].prev
                             /\ node'[m].data = node[m].data
      BY <1>3, PerformFields
    <2> QED BY <2>1 DEF Types
  <1>5. Chain(c, len)
    BY <1>1 DEF Sound
  <1>6. Filled(c, len)' /\ Data(c, len)' = Data(c, len)
    BY <1>1, <1>4, FilledKept DEF Sound
  <1>7. Sound(c, len)'
    BY <1>1, <1>4, <1>6 DEF Sound, Counts, Chain
  <1>8. Owns(c, len, {}, {})' /\ Cursor(c, len, {})'
    BY <1>1, <1>4, <1>6 DEF Owns, Nodes, Cursor
  <1> QED BY <1>2, <1>4, <1>5, <1>7, <1>8, InvOf DEF Idle

\* At the shutdown the item of a node is destroyed, then the node freed.
LEMMA StoppingStep ==
  ASSUME Types, NEW c, NEW len, Stopping(c, len), todo # <<>>, NEW e \in Head(todo), Perform(e)
  PROVE  LInv'
  <1>1. PICK j \in 1 .. len + 1 :
          /\ j > 1
          /\ \/ todo = <<Destroy(node[c[j - 1]].data), Free(c[j - 1])>> /\ StopState(c, len, j, j - 1, j - 1)
             \/ todo = <<Free(c[j - 1])>> /\ StopState(c, len, j, j - 1, j)
    BY DEF Stopping
  <1>2. Chain(c, len) /\ len \in Nat /\ c \in [1 .. len -> Node]
    BY <1>1, SizeType DEF StopState, Chain
  <1> DEFINE i == j - 1
             x == c[i]
  <1>3. i \in 1 .. len /\ j \in Nat /\ x \in Node /\ (i .. len = {i} \cup (j .. len)) /\ i \notin j .. len
    BY <1>1, <1>2
  <1>4. CASE todo = <<Destroy(node[x].data), Free(x)>> /\ StopState(c, len, j, i, i)
    <2>1. PICK v : v = node[x].data
      OBVIOUS
    <2>2. e = Store("destroy", v, NULL) /\ todo' = <<Free(x)>>
      <3>1. todo # <<>> /\ Head(todo) = {Store("destroy", v, NULL)} /\ Tail(todo) = <<Free(x)>>
        BY <1>4, <2>1 DEF Destroy
      <3> QED BY <3>1, Alone
    <2>3. Filled(c, len) /\ v \in Items \ lost
      BY <1>3, <1>4, <2>1 DEF StopState, Filled
    <2>4. e.what = "destroy" /\ e.at = v /\ Proper(e)
      BY <2>2, <2>3, FreeStores DEF Proper
    <2>5. /\ Types' /\ UNCHANGED <<live, lost, phase, cursor>> /\ held' = held \ {v} /\ node' = node
      <3>1. /\ Types' /\ UNCHANGED <<live, lost, phase, cursor>> /\ held' = held \ {v}
            /\ \A m \in Node : /\ node'[m].next = node[m].next
                               /\ node'[m].prev = node[m].prev
                               /\ node'[m].data = node[m].data
        BY <2>4, PerformFields
      <3> QED BY <3>1 DEF Types
    <2>6. Filled(c, len)'
      BY <2>3, <2>5, FilledKept
    <2>7. held' = lost \cup {node[c[k]].data : k \in j .. len}
      <3>1. held = lost \cup {node[c[k]].data : k \in i .. len}
        BY <1>4 DEF StopState
      <3>2. \A k \in j .. len : node[c[k]].data # v
        BY <1>1, <1>2, <1>3, <2>1, <2>3 DEF Filled
      <3>3. {node[c[k]].data : k \in i .. len} = {v} \cup {node[c[k]].data : k \in j .. len}
        BY <1>3, <2>1
      <3> QED BY <2>3, <2>5, <3>1, <3>2, <3>3
    <2>8. StopState(c, len, j, i, j)'
      BY <1>4, <2>5, <2>6, <2>7 DEF StopState, Chain
    <2>9. Stopping(c, len)'
      <3>1. j > 1 /\ todo' = <<Free(c[j - 1])>> /\ StopState(c, len, j, j - 1, j)'
        BY <1>1, <2>2, <2>8
      <3> QED BY <3>1 DEF Stopping
    <2> QED BY <1>2, <2>5, <2>9, InvOf
  <1>5. CASE todo = <<Free(x)>> /\ StopState(c, len, j, i, j)
    <2>1. e = Store("free", x, NULL) /\ todo' = <<>>
      <3>1. todo # <<>> /\ Head(todo) = {Store("free", x, NULL)} /\ Tail(todo) = <<>>
        BY <1>5 DEF Free
      <3> QED BY <3>1, Alone
    <2>2. e.what = "free" /\ e.at = x /\ Proper(e)
      BY <2>1, FreeStores DEF Proper
    <2>3. /\ Types' /\ UNCHANGED <<held, lost, phase, cursor>> /\ live' = live \ {x} /\ node' = node
      <3>1. /\ Types' /\ UNCHANGED <<held, lost, phase, cursor>> /\ live' = live \ {x}
            /\ \A m \in Node : /\ node'[m].next = node[m].next
                               /\ node'[m].prev = node[m].prev
                               /\ node'[m].data = node[m].data
        BY <2>2, PerformFields
      <3> QED BY <3>1 DEF Types
    <2>4. Filled(c, len)'
      BY <1>5, <2>3, FilledKept DEF StopState
    <2>5. live' = {c[k] : k \in j .. len}
      <3>1. live = {c[k] : k \in i .. len}
        BY <1>5 DEF StopState
      <3>2. \A k \in j .. len : c[k] # x
        BY <1>1, <1>2, <1>3 DEF Chain
      <3>3. {c[k] : k \in i .. len} = {x} \cup {c[k] : k \in j .. len}
        BY <1>3
      <3> QED BY <2>3, <3>1, <3>2, <3>3
    <2>6. StopState(c, len, j, j, j)'
      <3>1. /\ phase' = "stop" /\ cursor' = (IF j = len + 1 THEN NULL ELSE c[j])
            /\ \A k \in 1 .. len : node'[c[k]].next = Succ(c, len, k)
            /\ held' = lost' \cup {node'[c[k]].data : k \in j .. len}
        BY <1>5, <2>3 DEF StopState
      <3> QED BY <1>2, <2>4, <2>5, <3>1 DEF StopState, Chain
    <2>7. Stopping(c, len)'
      BY <1>1, <2>1, <2>6 DEF Stopping
    <2> QED BY <1>2, <2>3, <2>7, InvOf
  <1> QED BY <1>1, <1>4, <1>5

\* The list is cleared at the end of the shutdown.
LEMMA DownStep ==
  ASSUME Types, Down, todo # <<>>, NEW e \in Head(todo), Perform(e)
  PROVE  LInv'
  <1>1. PICK E \in SUBSET Clears :
          E # {} /\ todo = <<E>> /\ (Store("head", NULL, NULL) \notin E => head = NULL)
    BY DEF Down
  <1>2. todo[1] = E /\ Head(todo) = E /\ e \in E /\ e \in Clears
    BY <1>1
  <1> DEFINE h == Store("head", NULL, NULL)
             F == E \ {e}
  <1>3. /\ e.what \in {"head", "tail", "count"}
        /\ e.what \in {"head", "tail"} => e.val = NULL
        /\ e.what = "count" => e.val = 0
        /\ h.what = "head"
    BY <1>2 DEF Clears, Store
  <1>4. Proper(e)
    BY <1>3, SizeType DEF Proper, Ptr
  <1>5. /\ Types' /\ UNCHANGED <<live, held, lost, phase, cursor>>
        /\ head' = (IF e.what = "head" THEN NULL ELSE head)
    BY <1>3, <1>4, PerformFields
  <1>6. h \notin F => head' = NULL
    BY <1>1, <1>3, <1>5
  <1>7. CASE F = {}
    <2>1. todo' = <<>>
      BY <1>1, <1>2, <1>7, PerformTodo
    <2>2. Down'
      BY <1>5, <1>6, <1>7, <2>1 DEF Down
    <2> QED BY <1>5, <2>2 DEF LInv
  <1>8. CASE F # {}
    <2>1. todo' = <<F>>
      <3>1. todo' = [todo EXCEPT ![1] = F]
        BY <1>1, <1>2, <1>8, PerformTodo
      <3> HIDE DEF F
      <3> QED BY <1>1, <3>1
    <2>2. F \in SUBSET Clears
      BY <1>1
    <2> HIDE DEF F
    <2>3. Down'
      BY <1>5, <1>6, <1>8, <2>1, <2>2 DEF Down
    <2> QED BY <1>5, <2>3 DEF LInv
  <1> QED BY <1>7, <1>8

----------------------------------------------------------------------------
(* The invariant is inductive.                                             *)

\* The list is empty at the start.
LEMMA InitInv ==
  ASSUME LinkInit
  PROVE  LInv
  <1>1. PICK c \in [1 .. 0 -> Node] : TRUE
    <2>1. [k \in 1 .. 0 |-> NULL] \in [1 .. 0 -> Node]
      OBVIOUS
    <2> QED BY <2>1
  <1>2. 0 \in 0 .. N /\ Chain(c, 0)
    BY <1>1, SizeType DEF Chain
  <1>3. Types
    <2>1. Blank \in [next : Ptr, prev : Ptr, data : Items \cup {NULL}]
      BY DEF Blank, Ptr
    <2> QED BY <1>2, <2>1 DEF LinkInit, Types, Ptr
  <1>4. Sound(c, 0)
    BY <1>2 DEF LinkInit, Sound, Filled, Counts, First, Last
  <1>5. Owns(c, 0, {}, {}) /\ Cursor(c, 0, {})
    BY DEF LinkInit, Owns, Nodes, Data, Cursor, Ptr
  <1>6. Idle(c, 0)
    BY <1>4, <1>5 DEF Idle, LinkInit
  <1> QED BY <1>1, <1>2, <1>3, <1>6 DEF LInv

\* What the phase and the work left say about the state.
LEMMA Modes ==
  ASSUME NEW c, NEW len
  PROVE  /\ Idle(c, len) => todo = <<>> /\ phase \in {"run", "sweep"}
         /\ Busy(c, len) => todo # <<>> /\ phase \in {"run", "sweep"}
         /\ Stopping(c, len) => phase = "stop"
         /\ Down => phase = "down"
  <1>1. Adding(c, len) => todo # <<>> /\ phase = "run"
    BY DEF Adding
  <1>2. Removing(c, len) => todo # <<>> /\ phase \in {"run", "sweep"}
    <2> SUFFICES ASSUME NEW d, NEW E, Cursor(c, len, {c[d]}),
                        \/ todo = <<E, Free(c[d]), Destroy(node[c[d]].data)>>
                        \/ todo = <<E, Free(c[d]), Destroy(node[c[d]].data), Mark>>
                 PROVE  todo # <<>> /\ phase \in {"run", "sweep"}
      BY DEF Removing
    <2>1. todo # <<>>
      OBVIOUS
    <2> QED BY <2>1 DEF Cursor
  <1>3. Freeing(c, len) => todo # <<>> /\ phase \in {"run", "sweep"}
    BY DEF Freeing, Cursor
  <1>4. Destroying(c, len) => todo # <<>> /\ phase \in {"run", "sweep"}
    BY DEF Destroying, Cursor
  <1>5. Marking(c, len) => todo # <<>> /\ phase \in {"run", "sweep"}
    BY DEF Marking, Cursor
  <1>6. Stopping(c, len) => phase = "stop"
    BY DEF Stopping, StopState
  <1> QED BY <1>1, <1>2, <1>3, <1>4, <1>5, <1>6 DEF Idle, Busy, Cursor, Down

\* A step that changes nothing.
LEMMA StutterInv ==
  ASSUME LInv, UNCHANGED lvars
  PROVE  LInv'
  <1>1. /\ head' = head /\ tail' = tail /\ count' = count /\ node' = node /\ live' = live
        /\ held' = held /\ lost' = lost /\ phase' = phase /\ cursor' = cursor /\ todo' = todo
    BY DEF lvars
  <1>2. Types' /\ Types
    BY <1>1 DEF LInv, Types
  <1>3. CASE Down
    BY <1>1, <1>2, <1>3 DEF LInv, Down
  <1>4. ASSUME NEW len \in 0 .. N, NEW c \in [1 .. len -> Node],
               Idle(c, len) \/ Busy(c, len) \/ Stopping(c, len)
        PROVE  LInv'
    <2>1. /\ Data(c, len)' = Data(c, len) /\ Filled(c, len)' = Filled(c, len)
          /\ Nodes(c, len)' = Nodes(c, len) /\ Counts(len)' = Counts(len)
          /\ Chain(c, len)' = Chain(c, len) /\ MayMark(len)' = MayMark(len)
          /\ MayMark(len - 1)' = MayMark(len - 1)
      BY <1>1 DEF Data, Filled, Nodes, Counts, Chain, MayMark
    <2>2. /\ \A X, V : Owns(c, len, X, V)' = Owns(c, len, X, V)
          /\ \A X : Cursor(c, len, X)' = Cursor(c, len, X)
          /\ Sound(c, len)' = Sound(c, len)
      BY <1>1, <2>1 DEF Owns, Cursor, Sound
    <2>3. CASE Idle(c, len)
      BY <1>1, <1>2, <1>4, <2>1, <2>2, <2>3 DEF LInv, Idle
    <2>4. CASE Adding(c, len)
      <3>1. \A n, v, E : AddState(c, len, n, v, E)' = AddState(c, len, n, v, E)
        BY <1>1, <2>1, <2>2 DEF AddState
      <3>2. Adding(c, len)'
        BY <1>1, <2>4, <3>1 DEF Adding
      <3> QED BY <1>2, <1>4, <3>2 DEF LInv, Busy
    <2>5. CASE Removing(c, len)
      <3>1. Removing(c, len)'
        BY <1>1, <2>1, <2>2, <2>5 DEF Removing, DelState
      <3> QED BY <1>2, <1>4, <3>1 DEF LInv, Busy
    <2>6. CASE Freeing(c, len)
      <3>1. Freeing(c, len)'
        BY <1>1, <2>1, <2>2, <2>6 DEF Freeing
      <3> QED BY <1>2, <1>4, <3>1 DEF LInv, Busy
    <2>7. CASE Destroying(c, len) \/ Marking(c, len)
      <3>1. Destroying(c, len)' \/ Marking(c, len)'
        BY <1>1, <2>1, <2>2, <2>7 DEF Destroying, Marking
      <3> QED BY <1>2, <1>4, <3>1 DEF LInv, Busy
    <2>8. CASE Stopping(c, len)
      <3>1. \A j, a, b : StopState(c, len, j, a, b)' = StopState(c, len, j, a, b)
        BY <1>1, <2>1 DEF StopState
      <3>2. Stopping(c, len)'
        BY <1>1, <2>8, <3>1 DEF Stopping
      <3> QED BY <1>2, <1>4, <3>2 DEF LInv
    <2> QED BY <1>4, <2>3, <2>4, <2>5, <2>6, <2>7, <2>8 DEF Busy
  <1> QED BY <1>3, <1>4 DEF LInv

\* Every step keeps the invariant.
LEMMA NextInv ==
  ASSUME LInv, [LinkNext]_lvars
  PROVE  LInv'
  <1>1. Types
    BY DEF LInv
  <1>2. CASE UNCHANGED lvars
    BY <1>2, StutterInv
  <1>3. CASE Down
    <2>1. phase = "down"
      BY <1>3, Modes
    <2>2. CASE ~Ready /\ \E e \in Head(todo) : Perform(e)
      BY <1>1, <1>3, <2>2, DownStep DEF Ready
    <2>3. CASE Exited
      BY <2>3, StutterInv DEF Exited
    <2> QED BY <1>2, <2>1, <2>2, <2>3 DEF LinkNext, listnode_add, listnode_add_failed, subscr_unsub,
                 BeginSweep, SweepNode, EndSweep, BeginShutdown, ShutdownNode, ShutdownDone
  <1>4. ASSUME NEW len \in 0 .. N, NEW c \in [1 .. len -> Node],
               Idle(c, len) \/ Busy(c, len) \/ Stopping(c, len)
        PROVE  LInv'
    <2>1. CASE ~Ready /\ \E e \in Head(todo) : Perform(e)
      <3>1. PICK e \in Head(todo) : Perform(e)
        BY <2>1
      <3>2. todo # <<>>
        BY <2>1 DEF Ready
      <3> QED BY <1>1, <1>4, <3>1, <3>2, Modes, AddingStep, RemovingStep, FreeingStep, DestroyingStep,
                 MarkingStep, StoppingStep DEF Busy
    <2>2. CASE \E v \in Items : listnode_add(v) \/ listnode_add_failed(v) \/ subscr_unsub(v)
      <3>1. todo = <<>> /\ phase = "run"
        BY <2>2 DEF listnode_add, listnode_add_failed, subscr_unsub, Ready
      <3>2. Idle(c, len)
        BY <1>4, <3>1, Modes
      <3> QED BY <1>1, <2>2, <3>2, AddStep, AddFailedStep, UnsubStep
    <2>3. CASE BeginSweep \/ EndSweep \/ (\E expired \in BOOLEAN : SweepNode(expired))
      <3>1. todo = <<>> /\ phase \in {"run", "sweep"}
        BY <2>3 DEF BeginSweep, EndSweep, SweepNode, Ready
      <3>2. Idle(c, len)
        BY <1>4, <3>1, Modes
      <3> QED BY <1>1, <2>3, <3>2, SweepStep
    <2>4. CASE BeginShutdown
      <3>1. todo = <<>> /\ phase = "run"
        BY <2>4 DEF BeginShutdown, Ready
      <3>2. Idle(c, len)
        BY <1>4, <3>1, Modes
      <3> QED BY <1>1, <2>4, <3>2, StopBegin
    <2>5. CASE ShutdownNode \/ ShutdownDone
      <3>1. Ready /\ phase = "stop"
        BY <2>5 DEF ShutdownNode, ShutdownDone
      <3>2. Stopping(c, len)
        BY <1>4, <3>1, Modes
      <3> QED BY <1>1, <2>5, <3>1, <3>2, StopStep
    <2>6. CASE Exited
      BY <2>6, StutterInv DEF Exited
    <2> QED BY <1>2, <2>1, <2>2, <2>3, <2>4, <2>5, <2>6 DEF LinkNext
  <1> QED BY <1>3, <1>4 DEF LInv

\* The invariant holds in every state the program can be in.
LEMMA Invariance == LinkSpec => []LInv
  <1>1. LinkInit => LInv
    BY InitInv
  <1>2. LInv /\ [LinkNext]_lvars => LInv'
    BY NextInv
  <1> QED BY <1>1, <1>2, PTL DEF LinkSpec

----------------------------------------------------------------------------
(* What a signal handler meets.                                            *)

\* A handler that walks a chain of allocated nodes with whole items.
LEMMA SafeChain ==
  ASSUME NEW c, NEW len, Chain(c, len), head = First(c, len),
         \A k \in 1 .. len : node[c[k]].next = Succ(c, len, k),
         Nodes(c, len) \subseteq live,
         \A k \in 1 .. len : node[c[k]].data \in (held \ lost) \cup {NULL}
  PROVE  HandlerSafe
  <1>1. Walked = Nodes(c, len) /\ At = [k \in 0 .. N + 1 |-> IF k < len THEN c[k + 1] ELSE NULL]
    BY WalkChain
  <1>2. len \in 0 .. N /\ N \in Nat
    BY SizeType DEF Chain
  <1>3. At[N] = NULL
    BY <1>1, <1>2
  <1>4. \A x \in Walked : node[x].data \in (held \ lost) \cup {NULL}
    BY <1>1 DEF Nodes
  <1> QED BY <1>1, <1>3, <1>4 DEF HandlerSafe, N

\* The chain of a list with nothing left to store.
LEMMA SoundSafe ==
  ASSUME NEW c, NEW len, NEW X, NEW V, Sound(c, len), Owns(c, len, X, V)
  PROVE  HandlerSafe
  <1>1. /\ Chain(c, len) /\ head = First(c, len)
        /\ \A k \in 1 .. len : node[c[k]].next = Succ(c, len, k)
        /\ \A k \in 1 .. len : node[c[k]].data \in Items \ lost
    BY DEF Sound, Filled
  <1>2. Nodes(c, len) \subseteq live /\ \A k \in 1 .. len : node[c[k]].data \in held
    BY DEF Owns, Data
  <1> QED BY <1>1, <1>2, SafeChain

\* During an addition the new node is met when it is linked, and it is
\* whole but for its data.
LEMMA AddSafe ==
  ASSUME NEW c, NEW len, NEW n, NEW v, NEW E, AddState(c, len, n, v, E)
  PROVE  HandlerSafe
  <1>1. /\ Chain(c, len) /\ Filled(c, len) /\ n \in Node \ Nodes(c, len)
        /\ v \in Items \ (lost \cup Data(c, len)) /\ Owns(c, len, {n}, {v})
        /\ head = IF AddLink(c, len, n) \notin E /\ len = 0 THEN n ELSE First(c, len)
        /\ \A k \in 1 .. len :
              node[c[k]].next = IF AddLink(c, len, n) \notin E /\ k = len THEN n ELSE Succ(c, len, k)
        /\ node[n].next = NULL
        /\ node[n].data = IF AddData(n, v) \notin E THEN v ELSE NULL
    BY DEF AddState
  <1>2. \A k \in 1 .. len : node[c[k]].data \in held \ lost
    BY <1>1 DEF Filled, Owns, Data
  <1>3. Nodes(c, len) \cup {n} \subseteq live /\ v \in held \ lost
    BY <1>1 DEF Owns
  <1>4. CASE AddLink(c, len, n) \in E
    <2>1. head = First(c, len) /\ \A k \in 1 .. len : node[c[k]].next = Succ(c, len, k)
      BY <1>1, <1>4
    <2> QED BY <1>1, <1>2, <1>3, <2>1, SafeChain
  <1>5. CASE AddLink(c, len, n) \notin E
    <2> DEFINE b == Longer(c, len, n)
    <2>1. /\ Chain(b, len + 1) /\ len \in Nat
          /\ \A k \in 1 .. len : b[k] = c[k]
          /\ b[len + 1] = n /\ Nodes(b, len + 1) = Nodes(c, len) \cup {n}
      BY <1>1, LongerChain
    <2> HIDE DEF b
    <2>2. head = First(b, len + 1)
      BY <1>1, <1>5, <2>1 DEF First
    <2>3. ASSUME NEW k \in 1 .. len + 1
          PROVE  /\ node[b[k]].next = Succ(b, len + 1, k)
                 /\ node[b[k]].data \in (held \ lost) \cup {NULL}
      <3>1. CASE k = len + 1
        BY <1>1, <1>3, <2>1, <3>1 DEF Succ
      <3>2. CASE k # len + 1
        <4>1. k \in 1 .. len /\ b[k] = c[k] /\ (k # len => k + 1 \in 1 .. len)
          BY <2>1, <3>2
        <4> QED BY <1>1, <1>2, <1>5, <2>1, <3>2, <4>1 DEF Succ
      <3> QED BY <3>1, <3>2
    <2> QED BY <1>3, <2>1, <2>2, <2>3, SafeChain
  <1> QED BY <1>4, <1>5

\* During a deletion the node is met until it is unlinked, and it is freed
\* after that.
LEMMA DelSafe ==
  ASSUME NEW c, NEW len, NEW d, NEW E, DelState(c, len, d, E)
  PROVE  HandlerSafe
  <1>1. /\ Chain(c, len) /\ Filled(c, len) /\ d \in 1 .. len /\ Owns(c, len, {}, {})
        /\ head = IF DelLink(c, len, d) \notin E /\ d = 1 THEN Succ(c, len, d) ELSE First(c, len)
        /\ \A k \in 1 .. len :
              node[c[k]].next = IF DelLink(c, len, d) \notin E /\ k = d - 1 THEN Succ(c, len, d)
                                                                          ELSE Succ(c, len, k)
    BY DEF DelState
  <1>2. \A k \in 1 .. len : node[c[k]].data \in held \ lost
    BY <1>1 DEF Filled, Owns, Data
  <1>3. Nodes(c, len) \subseteq live
    BY <1>1 DEF Owns
  <1>4. CASE DelLink(c, len, d) \in E
    <2>1. head = First(c, len) /\ \A k \in 1 .. len : node[c[k]].next = Succ(c, len, k)
      BY <1>1, <1>4
    <2> QED BY <1>1, <1>2, <1>3, <2>1, SafeChain
  <1>5. CASE DelLink(c, len, d) \notin E
    <2> DEFINE b == Shorter(c, len, d)
    <2>1. /\ Chain(b, len - 1)
          /\ len \in Nat /\ len - 1 \in Nat /\ d \in Nat
          /\ \A k \in 1 .. len - 1 : b[k] = IF k < d THEN c[k] ELSE c[k + 1]
          /\ Nodes(b, len - 1) = Nodes(c, len) \ {c[d]}
      BY <1>1, ShorterChain
    <2> HIDE DEF b
    <2>2. head = First(b, len - 1)
      BY <1>1, <1>5, <2>1 DEF First, Succ
    <2>3. ASSUME NEW k \in 1 .. len - 1
          PROVE  /\ node[b[k]].next = Succ(b, len - 1, k)
                 /\ node[b[k]].data \in (held \ lost) \cup {NULL}
      <3>1. CASE k < d /\ k = d - 1
        BY <1>1, <1>2, <1>5, <2>1, <3>1 DEF Succ
      <3>2. CASE k < d /\ k # d - 1
        <4>1. k \in 1 .. len /\ k # len /\ k # len - 1 /\ k + 1 \in 1 .. len - 1 /\ k + 1 < d
          BY <1>1, <2>1, <3>2
        <4> QED BY <1>1, <1>2, <2>1, <3>2, <4>1 DEF Succ
      <3>3. CASE ~(k < d)
        <4>1. k + 1 \in 1 .. len /\ k + 1 # d - 1 /\ b[k] = c[k + 1]
              /\ (k # len - 1 => k + 1 # len /\ k + 1 \in 1 .. len - 1 /\ ~(k + 1 < d))
              /\ (k = len - 1 => k + 1 = len)
          BY <1>1, <2>1, <3>3
        <4> QED BY <1>1, <1>2, <2>1, <4>1 DEF Succ
      <3> QED BY <3>1, <3>2, <3>3
    <2> QED BY <1>3, <2>1, <2>2, <2>3, SafeChain
  <1> QED BY <1>4, <1>5

\* In whatever state the handler interrupts the main program.
LEMMA AlwaysSafe == LInv => HandlerSafe
  <1> SUFFICES ASSUME LInv, Running PROVE HandlerSafe
    BY DEF HandlerSafe
  <1>1. phase \in {"run", "sweep"} /\ Types
    BY DEF Running, LInv
  <1>2. ~Down
    BY <1>1, Modes
  <1>3. PICK len \in 0 .. N : \E c \in [1 .. len -> Node] : Idle(c, len) \/ Busy(c, len) \/ Stopping(c, len)
    BY <1>2 DEF LInv
  <1>4. PICK c \in [1 .. len -> Node] : Idle(c, len) \/ Busy(c, len) \/ Stopping(c, len)
    BY <1>3
  <1>5. Idle(c, len) \/ Busy(c, len)
    BY <1>1, <1>4, Modes
  <1>6. CASE Idle(c, len)
    BY <1>6, SoundSafe DEF Idle
  <1>7. CASE Adding(c, len)
    BY <1>7, AddSafe DEF Adding
  <1>8. CASE Removing(c, len)
    BY <1>8, DelSafe DEF Removing
  <1>9. CASE Freeing(c, len)
    BY <1>9, SoundSafe DEF Freeing
  <1>10. CASE Destroying(c, len)
    BY <1>10, SoundSafe DEF Destroying
  <1>11. CASE Marking(c, len)
    BY <1>11, SoundSafe DEF Marking
  <1> QED BY <1>5, <1>6, <1>7, <1>8, <1>9, <1>10, <1>11 DEF Busy

----------------------------------------------------------------------------
(* What else the invariant says.                                           *)

\* Between operations the list is the chain.
LEMMA AlwaysSound == LInv => ListSound
  <1> SUFFICES ASSUME LInv, Ready, Running PROVE ListSound
    BY DEF ListSound
  <1>1. phase \in {"run", "sweep"} /\ todo = <<>>
    BY DEF Running, Ready
  <1>2. PICK len \in 0 .. N : \E c \in [1 .. len -> Node] : Idle(c, len) \/ Busy(c, len) \/ Stopping(c, len)
    BY <1>1, Modes DEF LInv
  <1>3. PICK c \in [1 .. len -> Node] : Idle(c, len)
    BY <1>1, <1>2, Modes
  <1>4. Sound(c, len) /\ Owns(c, len, {}, {})
    BY <1>3 DEF Idle
  <1>5. /\ Chain(c, len) /\ len \in 0 .. N /\ len \in Nat /\ N \in Nat
        /\ Filled(c, len) /\ Counts(len) /\ head = First(c, len) /\ tail = Last(c, len)
        /\ \A k \in 1 .. len : node[c[k]].next = Succ(c, len, k) /\ node[c[k]].prev = Pred(c, k)
    BY <1>4, SizeType DEF Sound
  <1>6. Walked = Nodes(c, len) /\ At = [k \in 0 .. N + 1 |-> IF k < len THEN c[k + 1] ELSE NULL]
    BY <1>5, WalkChain
  <1>7. Cardinality(Walked) = len
    BY <1>5, <1>6, ChainSize
  <1>8. \A k \in 1 .. len : At[k - 1] = c[k]
    BY <1>5, <1>6
  <1>9. live = Walked /\ held = lost \cup Data(c, len)
    BY <1>4, <1>6 DEF Owns
  <1>10. tail = (IF len = 0 THEN NULL ELSE At[len - 1])
    BY <1>5, <1>8 DEF Last
  <1>11. \A k \in 1 .. len : node[At[k - 1]].prev = (IF k = 1 THEN NULL ELSE At[k - 2])
    <2> TAKE k \in 1 .. len
    <2>1. node[At[k - 1]].prev = Pred(c, k)
      BY <1>5, <1>8
    <2>2. CASE k # 1
      <3>1. k - 1 \in 1 .. len /\ (k - 1) - 1 = k - 2
        BY <1>5, <2>2
      <3>2. At[k - 2] = c[k - 1]
        BY <1>8, <3>1
      <3> QED BY <2>1, <2>2, <3>2 DEF Pred
    <2> QED BY <2>1, <2>2 DEF Pred
  <1>12. \A m1, m2 \in Walked : node[m1].data = node[m2].data => m1 = m2
    BY <1>5, <1>6 DEF Filled, Nodes
  <1>13. {node[m].data : m \in Walked} = held \ lost
    <2>1. {node[m].data : m \in Walked} = Data(c, len)
      BY <1>6 DEF Nodes, Data
    <2>2. \A y \in Data(c, len) : y \notin lost
      BY <1>5 DEF Data, Filled
    <2> QED BY <1>9, <2>1, <2>2
  <1> QED BY <1>5, <1>7, <1>9, <1>10, <1>11, <1>12, <1>13 DEF ListSound, Counts

\* What is left at the shutdown begins at the node where the loop goes on,
\* or at the one before.
LEMMA StopFacts ==
  ASSUME NEW c, NEW len, Stopping(c, len)
  PROVE  \E j \in 1 .. len + 1, a \in 1 .. len + 1 :
            /\ a \in {j, j - 1} /\ phase = "stop" /\ len \in Nat
            /\ cursor = (IF j = len + 1 THEN NULL ELSE c[j])
            /\ live = {c[k] : k \in a .. len}
  <1>1. PICK j \in 1 .. len + 1 :
          \/ todo = <<>> /\ StopState(c, len, j, j, j)
          \/ j > 1 /\ todo = <<Destroy(node[c[j - 1]].data), Free(c[j - 1])>> /\ StopState(c, len, j, j - 1, j - 1)
          \/ j > 1 /\ todo = <<Free(c[j - 1])>> /\ StopState(c, len, j, j - 1, j)
    BY DEF Stopping
  <1>2. phase = "stop" /\ cursor = (IF j = len + 1 THEN NULL ELSE c[j]) /\ len \in Nat
    BY <1>1, SizeType DEF StopState, Chain
  <1>3. \/ live = {c[k] : k \in j .. len}
        \/ j > 1 /\ live = {c[k] : k \in j - 1 .. len}
    BY <1>1 DEF StopState
  <1>4. j > 1 => j - 1 \in 1 .. len + 1
    BY <1>2
  <1>5. CASE live = {c[k] : k \in j .. len}
    BY <1>2, <1>5
  <1>6. CASE j > 1 /\ live = {c[k] : k \in j - 1 .. len}
    BY <1>2, <1>4, <1>6
  <1> QED BY <1>3, <1>5, <1>6

\* A loop that deletes goes on from an allocated node.
LEMMA AlwaysCursor == LInv => CursorValid
  <1> SUFFICES ASSUME LInv, phase # "run" PROVE cursor \in live \cup {NULL}
    BY DEF CursorValid
  <1>1. CASE Down
    BY <1>1 DEF Down
  <1>2. ASSUME NEW len \in 0 .. N, NEW c \in [1 .. len -> Node],
               Idle(c, len) \/ Busy(c, len) \/ Stopping(c, len)
        PROVE  cursor \in live \cup {NULL}
    <2>1. ASSUME NEW X, NEW Y, NEW V, Cursor(c, len, X), Owns(c, len, Y, V)
          PROVE  cursor \in live \cup {NULL}
      BY <2>1 DEF Cursor, Owns
    <2>2. CASE Idle(c, len)
      BY <2>1, <2>2 DEF Idle
    <2>3. CASE Adding(c, len)
      BY <2>3 DEF Adding
    <2>4. CASE Removing(c, len)
      BY <2>1, <2>4 DEF Removing, DelState
    <2>5. CASE Freeing(c, len)
      BY <2>1, <2>5 DEF Freeing
    <2>6. CASE Destroying(c, len)
      BY <2>1, <2>6 DEF Destroying
    <2>7. CASE Marking(c, len)
      BY <2>1, <2>7 DEF Marking
    <2>8. CASE Stopping(c, len)
      <3>1. PICK j \in 1 .. len + 1, a \in 1 .. len + 1 :
               /\ a \in {j, j - 1} /\ cursor = (IF j = len + 1 THEN NULL ELSE c[j])
               /\ live = {c[k] : k \in a .. len} /\ len \in Nat
        BY <2>8, StopFacts
      <3>2. j # len + 1 => j \in a .. len
        BY <3>1
      <3> QED BY <3>1, <3>2
    <2> QED BY <1>2, <2>2, <2>3, <2>4, <2>5, <2>6, <2>7, <2>8 DEF Busy
  <1> QED BY <1>1, <1>2 DEF LInv

\* The stores of an operation free nothing.
LEMMA NoFree ==
  ASSUME NEW c, NEW len, NEW E
  PROVE  /\ \A n, v : E \subseteq Adds(c, len, n, v) => \A e \in E : e.what # "free" /\ e.what # "destroy"
         /\ \A d : E \subseteq Dels(c, len, d) => \A e \in E : e.what # "free" /\ e.what # "destroy"
         /\ E \subseteq Clears => \A e \in E : e.what # "free" /\ e.what # "destroy"
  <1>1. ASSUME NEW n, NEW v, NEW e \in Adds(c, len, n, v) PROVE e.what # "free" /\ e.what # "destroy"
    BY AddStores DEF Adds
  <1>2. ASSUME NEW d, NEW e \in Dels(c, len, d) PROVE e.what # "free" /\ e.what # "destroy"
    BY DelStores DEF Dels
  <1>3. ASSUME NEW e \in Clears PROVE e.what # "free" /\ e.what # "destroy"
    BY DEF Clears, Store
  <1> QED BY <1>1, <1>2, <1>3

\* Memory is freed while it is allocated, and a store is one of Effects.
Fit(e) ==
    /\ e \in Effects
    /\ e.what = "free" => e.at \in live
    /\ e.what = "destroy" => e.at \in held

\* The groups of stores that are left.
LEMMA Groups ==
  ASSUME NEW a, NEW b, NEW c, NEW d
  PROVE  /\ \A k \in DOMAIN <<a>> : <<a>>[k] \in {a}
         /\ \A k \in DOMAIN <<a, b>> : <<a, b>>[k] \in {a, b}
         /\ \A k \in DOMAIN <<a, b, c>> : <<a, b, c>>[k] \in {a, b, c}
         /\ \A k \in DOMAIN <<a, b, c, d>> : <<a, b, c, d>>[k] \in {a, b, c, d}
  OBVIOUS

\* A record made by Store is one of Effects if its parts are of their kinds.
LEMMA EffectStore ==
  ASSUME NEW w \in {"head", "tail", "count", "next", "prev", "data", "free", "destroy"},
         NEW x \in Ptr \cup Items, NEW y \in Ptr \cup Items \cup Int
  PROVE  Store(w, x, y) \in Effects
  BY DEF Store, Effects

\* The stores of an addition.
LEMMA AddEffects ==
  ASSUME NEW c, NEW len, Chain(c, len), NEW n \in Node, NEW v \in Items
  PROVE  Adds(c, len, n, v) \subseteq Effects
  <1>1. len \in Nat /\ c \in [1 .. len -> Node] /\ NULL \in Ptr /\ n \in Ptr
    BY SizeType DEF Chain, Ptr
  <1>2. Last(c, len) \in Ptr
    BY <1>1 DEF Last, Ptr
  <1>3. AddPrev(c, len, n) \in Effects /\ AddData(n, v) \in Effects /\ AddTail(n) \in Effects
    BY <1>1, <1>2, EffectStore DEF AddPrev, AddData, AddTail
  <1>4. AddLink(c, len, n) \in Effects /\ AddCount(len) \in Effects
    BY <1>1, <1>2, EffectStore DEF AddLink, AddCount
  <1> QED BY <1>3, <1>4 DEF Adds

\* The stores of a deletion.
LEMMA DelEffects ==
  ASSUME NEW c, NEW len, Chain(c, len), NEW d \in 1 .. len
  PROVE  Dels(c, len, d) \subseteq Effects
  <1>1. len \in Nat /\ c \in [1 .. len -> Node] /\ NULL \in Ptr /\ len - 1 \in Int
    BY SizeType DEF Chain, Ptr
  <1>2. Succ(c, len, d) \in Ptr /\ Pred(c, d) \in Ptr
    BY <1>1 DEF Succ, Pred, Ptr
  <1>3. (d # 1 => c[d - 1] \in Ptr) /\ (d # len => c[d + 1] \in Ptr)
    BY <1>1 DEF Ptr
  <1>4. DelLink(c, len, d) \in Effects
    BY <1>1, <1>2, <1>3, EffectStore DEF DelLink
  <1>5. DelBack(c, len, d) \in Effects
    BY <1>1, <1>2, <1>3, EffectStore DEF DelBack
  <1>6. DelCount(len) \in Effects
    BY <1>1, EffectStore DEF DelCount
  <1> QED BY <1>4, <1>5, <1>6 DEF Dels

\* A node that is allocated can be freed, an item destroyed, and an empty
\* list marked.
LEMMA OtherFit ==
  /\ \A x \in Node \cap live : \A e \in Free(x) : Fit(e)
  /\ \A v \in Items \cap held : \A e \in Destroy(v) : Fit(e)
  /\ \A e \in Mark : Fit(e)
  <1>1. NULL \in Ptr /\ -RobustnessFactor \in Int
    BY RobustnessAssumption DEF Ptr
  <1>2. ASSUME NEW x \in Node \cap live PROVE Fit(Store("free", x, NULL))
    <2>1. Store("free", x, NULL) \in Effects
      BY <1>1, EffectStore DEF Ptr
    <2> QED BY <2>1, FreeStores DEF Fit
  <1>3. ASSUME NEW v \in Items \cap held PROVE Fit(Store("destroy", v, NULL))
    <2>1. Store("destroy", v, NULL) \in Effects
      BY <1>1, EffectStore
    <2> QED BY <2>1, FreeStores DEF Fit
  <1>4. Fit(Store("count", NULL, -RobustnessFactor))
    <2>1. Store("count", NULL, -RobustnessFactor) \in Effects
      BY <1>1, EffectStore
    <2> QED BY <2>1 DEF Fit, Store
  <1> QED BY <1>2, <1>3, <1>4 DEF Free, Destroy, Mark

\* The stores that clear the list.
LEMMA ClearEffects == Clears \subseteq Effects
  <1>1. NULL \in Ptr /\ 0 \in Int
    BY DEF Ptr
  <1> QED BY <1>1, EffectStore DEF Clears

\* Every effect that is left fits.
LEMMA AlwaysFit ==
  ASSUME LInv
  PROVE  \A k \in DOMAIN todo : \A e \in todo[k] : Fit(e)
  <1> DEFINE Goal == \A k \in DOMAIN todo : \A e \in todo[k] : Fit(e)
  <1>1. CASE todo = <<>>
    <2>1. DOMAIN todo = {}
      BY <1>1
    <2> QED BY <2>1
  <1>2. CASE Down /\ todo # <<>>
    <2>1. PICK E \in SUBSET Clears : todo = <<E>>
      BY <1>2 DEF Down
    <2>2. \A k \in DOMAIN todo : todo[k] = E
      BY <2>1
    <2>3. \A e \in E : e \in Effects /\ e.what # "free" /\ e.what # "destroy"
      BY ClearEffects, NoFree
    <2> QED BY <2>2, <2>3 DEF Fit
  <1>3. ASSUME NEW len \in 0 .. N, NEW c \in [1 .. len -> Node], todo # <<>>,
               Idle(c, len) \/ Busy(c, len) \/ Stopping(c, len)
        PROVE  Goal
    <2>1. CASE Adding(c, len)
      <3>1. PICK n \in Node, v \in Items : \E E \in SUBSET Adds(c, len, n, v) :
              todo = <<E>> /\ AddState(c, len, n, v, E)
        BY <2>1 DEF Adding
      <3>2. PICK E \in SUBSET Adds(c, len, n, v) : todo = <<E>> /\ Chain(c, len)
        BY <3>1 DEF AddState
      <3>3. \A k \in DOMAIN todo : todo[k] = E
        BY <3>2
      <3>4. \A e \in E : e \in Effects /\ e.what # "free" /\ e.what # "destroy"
        <4>1. E \subseteq Effects
          BY <3>2, AddEffects
        <4> QED BY <4>1, NoFree
      <3> QED BY <3>3, <3>4 DEF Fit
    <2>2. CASE Removing(c, len)
      <3>1. PICK d \in 1 .. len : \E E \in SUBSET Dels(c, len, d) :
              /\ \/ todo = <<E, Free(c[d]), Destroy(node[c[d]].data)>>
                 \/ todo = <<E, Free(c[d]), Destroy(node[c[d]].data), Mark>>
              /\ DelState(c, len, d, E)
        BY <2>2 DEF Removing
      <3>2. PICK E \in SUBSET Dels(c, len, d) :
              /\ \/ todo = <<E, Free(c[d]), Destroy(node[c[d]].data)>>
                 \/ todo = <<E, Free(c[d]), Destroy(node[c[d]].data), Mark>>
              /\ Chain(c, len) /\ Filled(c, len) /\ Owns(c, len, {}, {})
        BY <3>1 DEF DelState
      <3>3. PICK v : v = node[c[d]].data
        OBVIOUS
      <3>4. v \in Items /\ v \in held /\ c[d] \in Node /\ c[d] \in live
        BY <3>2, <3>3 DEF Filled, Owns, Nodes, Data
      <3>5. \A k \in DOMAIN todo : todo[k] \in {E, Free(c[d]), Destroy(v), Mark}
        <4>1. CASE todo = <<E, Free(c[d]), Destroy(v)>>
          BY <4>1, Groups
        <4>2. CASE todo = <<E, Free(c[d]), Destroy(v), Mark>>
          BY <4>2, Groups
        <4> QED BY <3>2, <3>3, <4>1, <4>2
      <3>6. \A e \in E : Fit(e)
        <4>1. E \subseteq Effects
          BY <3>2, DelEffects
        <4> QED BY <4>1, NoFree DEF Fit
      <3>7. \A e \in Free(c[d]) \cup Destroy(v) \cup Mark : Fit(e)
        BY <3>4, OtherFit
      <3> QED BY <3>5, <3>6, <3>7
    <2>3. CASE Freeing(c, len)
      <3>1. PICK x \in Node, v \in Items :
              /\ \/ todo = <<Free(x), Destroy(v)>>
                 \/ todo = <<Free(x), Destroy(v), Mark>>
              /\ Owns(c, len, {x}, {v})
        BY <2>3 DEF Freeing
      <3>2. v \in held /\ x \in live
        BY <3>1 DEF Owns
      <3>3. \A k \in DOMAIN todo : todo[k] \in {Free(x), Destroy(v), Mark}
        <4>1. CASE todo = <<Free(x), Destroy(v)>>
          BY <4>1, Groups
        <4>2. CASE todo = <<Free(x), Destroy(v), Mark>>
          BY <4>2, Groups
        <4> QED BY <3>1, <4>1, <4>2
      <3>4. \A e \in Free(x) \cup Destroy(v) \cup Mark : Fit(e)
        BY <3>2, OtherFit
      <3> QED BY <3>3, <3>4
    <2>4. CASE Destroying(c, len)
      <3>1. PICK v \in Items :
              /\ todo = <<Destroy(v)>> \/ todo = <<Destroy(v), Mark>>
              /\ Owns(c, len, {}, {v})
        BY <2>4 DEF Destroying
      <3>2. v \in held
        BY <3>1 DEF Owns
      <3>3. \A k \in DOMAIN todo : todo[k] \in {Destroy(v), Mark}
        BY <3>1, Groups
      <3>4. \A e \in Destroy(v) \cup Mark : Fit(e)
        BY <3>2, OtherFit
      <3> QED BY <3>3, <3>4
    <2>5. CASE Marking(c, len)
      <3>1. \A k \in DOMAIN todo : todo[k] = Mark
        BY <2>5 DEF Marking
      <3>2. \A e \in Mark : Fit(e)
        BY OtherFit
      <3> QED BY <3>1, <3>2
    <2>6. CASE Stopping(c, len)
      <3>1. PICK j \in 1 .. len + 1 :
              /\ j > 1
              /\ \/ todo = <<Destroy(node[c[j - 1]].data), Free(c[j - 1])>> /\ StopState(c, len, j, j - 1, j - 1)
                 \/ todo = <<Free(c[j - 1])>> /\ StopState(c, len, j, j - 1, j)
        BY <1>3, <2>6 DEF Stopping
      <3> DEFINE i == j - 1
                 x == c[i]
      <3>2. i \in 1 .. len /\ i \in i .. len /\ x \in Node
        BY <3>1, SizeType
      <3>3. PICK v : v = node[x].data
        OBVIOUS
      <3>4. Filled(c, len) /\ v \in Items /\ live = {c[k] : k \in i .. len}
        BY <3>1, <3>2, <3>3 DEF StopState, Filled
      <3>5. x \in live
        BY <3>2, <3>4
      <3>6. \A e \in Free(x) : Fit(e)
        BY <3>2, <3>5, OtherFit
      <3>7. CASE todo = <<Destroy(node[x].data), Free(x)>> /\ StopState(c, len, j, i, i)
        <4>1. held = lost \cup {node[c[k]].data : k \in i .. len}
          BY <3>7 DEF StopState
        <4>2. v \in held
          BY <3>2, <3>3, <4>1
        <4>3. \A e \in Destroy(v) : Fit(e)
          BY <3>4, <4>2, OtherFit
        <4>4. \A k \in DOMAIN todo : todo[k] \in {Destroy(v), Free(x)}
          BY <3>3, <3>7, Groups
        <4> QED BY <3>6, <4>3, <4>4
      <3>8. CASE todo = <<Free(x)>>
        <4>1. \A k \in DOMAIN todo : todo[k] = Free(x)
          BY <3>8
        <4> QED BY <3>6, <4>1
      <3> QED BY <3>1, <3>7, <3>8
    <2> QED BY <1>3, <2>1, <2>2, <2>3, <2>4, <2>5, <2>6 DEF Busy, Idle
  <1> QED BY <1>1, <1>2, <1>3 DEF LInv

\* Everything that was listed is gone when the shutdown is done.
LEMMA AlwaysFreed == LInv => AllFreed
  <1> SUFFICES ASSUME LInv, phase = "down", todo = <<>> PROVE live = {} /\ held = lost /\ head = NULL
    BY DEF AllFreed, Ready
  <1>1. Down
    BY Modes DEF LInv
  <1> QED BY <1>1 DEF Down

\* The kinds of all variables.
LEMMA AlwaysTyped == LInv => TypeOK
  <1> SUFFICES ASSUME LInv PROVE TypeOK
    OBVIOUS
  <1>1. Types
    BY DEF LInv
  <1>2. \A k \in DOMAIN todo : todo[k] \subseteq Effects
    BY AlwaysFit DEF Fit
  <1>3. live \subseteq Node /\ phase \in {"run", "sweep", "stop", "down"} /\ cursor \in Ptr
    <2>1. CASE Down
      BY <2>1 DEF Down, Ptr
    <2>2. ASSUME NEW len \in 0 .. N, NEW c \in [1 .. len -> Node],
                 Idle(c, len) \/ Busy(c, len) \/ Stopping(c, len)
          PROVE  live \subseteq Node /\ phase \in {"run", "sweep", "stop", "down"} /\ cursor \in Ptr
      <3>1. Nodes(c, len) \subseteq Node
        BY DEF Nodes
      <3>2. CASE Idle(c, len)
        BY <3>1, <3>2 DEF Idle, Owns, Cursor
      <3>3. CASE Adding(c, len)
        BY <3>1, <3>3 DEF Adding, AddState, Owns
      <3>4. CASE Removing(c, len)
        BY <3>1, <3>4 DEF Removing, DelState, Owns, Cursor
      <3>5. CASE Freeing(c, len)
        BY <3>1, <3>5 DEF Freeing, Owns, Cursor
      <3>6. CASE Destroying(c, len) \/ Marking(c, len)
        BY <3>1, <3>6 DEF Destroying, Marking, Owns, Cursor
      <3>7. CASE Stopping(c, len)
        <4>1. PICK j \in 1 .. len + 1, a \in 1 .. len + 1 :
                 /\ phase = "stop" /\ cursor = (IF j = len + 1 THEN NULL ELSE c[j])
                 /\ live = {c[k] : k \in a .. len} /\ len \in Nat
          BY <3>7, StopFacts
        <4>2. (j # len + 1 => j \in 1 .. len) /\ \A k \in a .. len : k \in 1 .. len
          BY <4>1
        <4> QED BY <4>1, <4>2 DEF Ptr
      <3> QED BY <2>2, <3>2, <3>3, <3>4, <3>5, <3>6, <3>7 DEF Busy
    <2> QED BY <2>1, <2>2 DEF LInv
  <1> QED BY <1>1, <1>2, <1>3 DEF TypeOK, Types, N

----------------------------------------------------------------------------
(* The theorems, for any number of nodes and of items.                     *)

\* The variables of list.c's lists keep their kinds, and the count stays
\* between 0 and the number of nodes, or is the mark of an empty list.
THEOREM ListTypeCorrect == LinkSpec => []TypeOK
  BY Invariance, AlwaysTyped, PTL

\* A signal handler that walks a list between any two stores of
\* listnode_add, list_delete_node or the sweep of timeout() meets allocated
\* nodes only, gets to the end, and finds no item that is destroyed.
THEOREM HandlersAlwaysSafe == LinkSpec => []HandlerSafe
  BY Invariance, AlwaysSafe, PTL

\* Between operations next, prev, head, tail and count agree, and the items
\* that could be listed are listed once.
THEOREM ListAlwaysSound == LinkSpec => []ListSound
  BY Invariance, AlwaysSound, PTL

\* LIST_LOOP2 and list_delete_all_node go on from a node that still exists.
THEOREM CursorAlwaysValid == LinkSpec => []CursorValid
  BY Invariance, AlwaysCursor, PTL

\* No node is freed twice and no item destroyed twice.
THEOREM NeverFreedTwice == LinkSpec => []FreedOnce
  <1>1. LInv => FreedOnce
    BY AlwaysFit DEF Fit, FreedOnce
  <1> QED BY <1>1, Invariance, PTL

\* The shutdown leaves no node and no listed item behind.
THEOREM ShutdownFreesAll == LinkSpec => []AllFreed
  BY Invariance, AlwaysFreed, PTL
=============================================================================
