------------------------------ MODULE LinkList -----------------------------
(***************************************************************************)
(* The doubly linked lists of ecmh (groups, interfaces of a group,         *)
(* subscriptions) at the level of single stores, with the two operations   *)
(* that change them, the sweep of timeout() that deletes while it walks,   *)
(* the emptying at shutdown, and the signal handlers (SIGUSR1 writes the   *)
(* statistics, SIGUSR2 reports to the upstream) that walk the same list    *)
(* between any two stores.                                                 *)
(*                                                                         *)
(* Nothing orders the stores of one operation for a handler that           *)
(* interrupts it, so they happen in any order; the calls of calloc and     *)
(* free are not moved.  An item stands for a group, an interface of a      *)
(* group or a subscription together with everything below it; it is        *)
(* complete before it is added and dies as a whole when it is destroyed.   *)
(***************************************************************************)
EXTENDS Integers, FiniteSets, Sequences

CONSTANTS
    Node,    \* memory for list nodes, used again after a free
    Items,   \* the items that can be listed
    NULL,
    RobustnessFactor

ASSUME RobustnessAssumption == RobustnessFactor \in Nat \ {0}

ASSUME MemoryAssumption == IsFiniteSet(Node)

ASSUME NullAssumption == NULL \notin Node \cup Items

VARIABLES
    head, tail, count,   \* struct list
    node,                \* struct listnode: next, prev, data
    live,                \* the nodes that are allocated
    held,                \* the items that are allocated
    lost,                \* the items whose node could not be allocated
    phase,               \* what the main program is doing
    cursor,              \* the saved next node of a loop that deletes
    todo                 \* what is left of the running operation

list == <<head, tail, count>>
lvars == <<head, tail, count, node, live, held, lost, phase, cursor, todo>>

Ptr == Node \cup {NULL}

Blank == [next |-> NULL, prev |-> NULL, data |-> NULL]

\* A store, or the free of a node or an item.
Store(what, at, val) == [what |-> what, at |-> at, val |-> val]
Effects == [what : {"head", "tail", "count", "next", "prev", "data", "free", "destroy"},
            at : Ptr \cup Items, val : Ptr \cup Items \cup Int]

TypeOK ==
    /\ head \in Ptr /\ tail \in Ptr /\ count \in {-RobustnessFactor} \cup (0 .. Cardinality(Node))
    /\ node \in [Node -> [next : Ptr, prev : Ptr, data : Items \cup {NULL}]]
    /\ live \subseteq Node /\ held \subseteq Items /\ lost \subseteq held
    /\ phase \in {"run", "sweep", "stop", "down"}
    /\ cursor \in Ptr
    /\ \A k \in DOMAIN todo : todo[k] \subseteq Effects

----------------------------------------------------------------------------
(* Walking.                                                                *)

\* Where a loop that starts at head is after k steps.
At == LET p[k \in 0 .. Cardinality(Node) + 1] ==
             IF k = 0 THEN head
             ELSE IF p[k - 1] = NULL THEN NULL ELSE node[p[k - 1]].next
      IN p

Walked == {At[k] : k \in DOMAIN At} \ {NULL}

\* LIST_LOOP: the data of the nodes in turn; a node without data is skipped.
Visible_unskipped == [k \in 1 .. Cardinality(Walked) |-> node[At[k - 1]].data]
Visible ==
    LET ps == [k \in 1 .. Cardinality(Walked) |-> node[At[k - 1]].data]
    IN SelectSeq(ps, LAMBDA v : v # NULL)

----------------------------------------------------------------------------
(* The operations.  Each reads what it needs and leaves its stores to do.  *)

Ready == todo = <<>>

\* The node is allocated and cleared before anything is stored in it.
listnode_add(v) ==
    /\ Ready /\ phase = "run" /\ v \notin held
    /\ held' = held \cup {v}
    /\ \E n \in Node \ live :
          /\ live' = live \cup {n}
          /\ node' = [node EXCEPT ![n] = Blank]
          /\ todo' = << { Store("prev", n, tail),
                          Store("data", n, v),
                          IF head = NULL THEN Store("head", NULL, n) ELSE Store("next", tail, n),
                          Store("tail", NULL, n),
                          Store("count", NULL, (IF count < 0 THEN 0 ELSE count) + 1) } >>
    /\ UNCHANGED <<list, lost, phase, cursor>>

\* Out of memory: listnode_add returns without a word, and the caller goes
\* on with an item that is on no list.
listnode_add_failed(v) ==
    /\ Ready /\ phase = "run" /\ v \notin held
    /\ held' = held \cup {v} /\ lost' = lost \cup {v}
    /\ UNCHANGED <<list, node, live, phase, cursor, todo>>

\* The stores of list_delete_node, then the free of the node, then the
\* caller destroys the data.
list_delete_node_freefirst(n) ==
    << { Store("free", n, NULL) },
       { IF node[n].prev # NULL THEN Store("next", node[n].prev, node[n].next)
                                ELSE Store("head", NULL, node[n].next),
         IF node[n].next # NULL THEN Store("prev", node[n].next, node[n].prev)
                                ELSE Store("tail", NULL, node[n].prev),
         Store("count", NULL, count - 1) },
       { Store("destroy", node[n].data, NULL) } >>
list_delete_node_countedtwice(n) ==
    << { IF node[n].prev # NULL THEN Store("next", node[n].prev, node[n].next)
                                ELSE Store("head", NULL, node[n].next),
         IF node[n].next # NULL THEN Store("prev", node[n].next, node[n].prev)
                                ELSE Store("tail", NULL, node[n].prev),
         Store("count", NULL, count - 2) },
       { Store("free", n, NULL) },
       { Store("destroy", node[n].data, NULL) } >>
list_delete_node_keeptail(n) ==
    << { IF node[n].prev # NULL THEN Store("next", node[n].prev, node[n].next)
                                ELSE Store("head", NULL, node[n].next),
         Store("count", NULL, count - 1) },
       { Store("free", n, NULL) },
       { Store("destroy", node[n].data, NULL) } >>
list_delete_node(n) ==
    << { IF node[n].prev # NULL THEN Store("next", node[n].prev, node[n].next)
                                ELSE Store("head", NULL, node[n].next),
         IF node[n].next # NULL THEN Store("prev", node[n].next, node[n].prev)
                                ELSE Store("tail", NULL, node[n].prev),
         Store("count", NULL, count - 1) },
       { Store("free", n, NULL) },
       { Store("destroy", node[n].data, NULL) } >>

\* A listener leaves: its subscription is looked up, deleted and destroyed,
\* and the count of a list that is empty then is turned into the mark that
\* the next timeout looks for.
subscr_unsub(v) ==
    /\ Ready /\ phase = "run"
    /\ \E n \in Walked :
          /\ node[n].data = v
          /\ todo' = IF count - 1 <= 0
                     THEN Append(list_delete_node(n), { Store("count", NULL, -RobustnessFactor) })
                     ELSE list_delete_node(n)
    /\ UNCHANGED <<list, node, live, held, lost, phase, cursor>>

\* timeout() walks with LIST_LOOP2, which saves the next node before the
\* body may delete the current one.
BeginSweep ==
    /\ Ready /\ phase = "run"
    /\ phase' = "sweep" /\ cursor' = head
    /\ UNCHANGED <<list, node, live, held, lost, todo>>

SavedNext_late(n) == IF todo' = <<>> THEN node[n].next ELSE n
SavedNext(n) == node[n].next

SweepNode(expired) ==
    /\ Ready /\ phase = "sweep" /\ cursor # NULL
    /\ todo' = IF expired THEN list_delete_node(cursor) ELSE <<>>
    /\ cursor' = SavedNext(cursor)
    /\ UNCHANGED <<list, node, live, held, lost, phase>>

EndSweep ==
    /\ Ready /\ phase = "sweep" /\ cursor = NULL
    /\ phase' = "run"
    /\ UNCHANGED <<list, node, live, held, lost, cursor, todo>>

\* Shutdown empties the list: list_delete_all_node destroys the data and
\* frees the node, one after the other, and clears the list at the end.
BeginShutdown ==
    /\ Ready /\ phase = "run"
    /\ phase' = "stop" /\ cursor' = head
    /\ UNCHANGED <<list, node, live, held, lost, todo>>

list_delete_all_node_again(n) ==
    << { Store("destroy", node[n].data, NULL) }, { Store("free", n, NULL) },
       { Store("destroy", node[n].data, NULL) } >>
list_delete_all_node_leaky(n) == << { Store("destroy", node[n].data, NULL) } >>
list_delete_all_node(n) == << { Store("destroy", node[n].data, NULL) }, { Store("free", n, NULL) } >>

ShutdownNode ==
    /\ Ready /\ phase = "stop" /\ cursor # NULL
    /\ todo' = list_delete_all_node(cursor)
    /\ cursor' = node[cursor].next
    /\ UNCHANGED <<list, node, live, held, lost, phase>>

ShutdownDone ==
    /\ Ready /\ phase = "stop" /\ cursor = NULL
    /\ todo' = << { Store("head", NULL, NULL), Store("tail", NULL, NULL), Store("count", NULL, 0) } >>
    /\ phase' = "down"
    /\ UNCHANGED <<list, node, live, held, lost, cursor>>

\* One store of the running operation takes place.
Perform(e) ==
    /\ head' = IF e.what = "head" THEN e.val ELSE head
    /\ tail' = IF e.what = "tail" THEN e.val ELSE tail
    /\ count' = IF e.what = "count" THEN e.val ELSE count
    /\ node' = [n \in Node |->
                  [next |-> IF e.what = "next" /\ e.at = n THEN e.val ELSE node[n].next,
                   prev |-> IF e.what = "prev" /\ e.at = n THEN e.val ELSE node[n].prev,
                   data |-> IF e.what = "data" /\ e.at = n THEN e.val ELSE node[n].data]]
    /\ live' = IF e.what = "free" THEN live \ {e.at} ELSE live
    /\ held' = IF e.what = "destroy" THEN held \ {e.at} ELSE held
    /\ todo' = IF Head(todo) = {e} THEN Tail(todo) ELSE [todo EXCEPT ![1] = @ \ {e}]
    /\ UNCHANGED <<lost, phase, cursor>>

\* After the shutdown the process ends.
Exited == phase = "down" /\ Ready /\ UNCHANGED lvars

LinkInit ==
    /\ head = NULL /\ tail = NULL /\ count = 0
    /\ node = [n \in Node |-> Blank] /\ live = {}
    /\ held = {} /\ lost = {}
    /\ phase = "run" /\ cursor = NULL /\ todo = <<>>

LinkNext ==
    \/ \E v \in Items : listnode_add(v) \/ listnode_add_failed(v) \/ subscr_unsub(v)
    \/ BeginSweep
    \/ \E expired \in BOOLEAN : SweepNode(expired)
    \/ EndSweep
    \/ BeginShutdown
    \/ ShutdownNode
    \/ ShutdownDone
    \/ ~Ready /\ \E e \in Head(todo) : Perform(e)
    \/ Exited

LinkSpec == LinkInit /\ [][LinkNext]_lvars

----------------------------------------------------------------------------
(* Properties.                                                             *)

Running == phase \in {"run", "sweep"}

\* A signal handler that interrupts the main program between any two stores
\* of an addition, a deletion or a sweep only touches memory that is
\* allocated, comes to an end, and never meets an item that is destroyed or
\* half made.  (During the shutdown this is not so: the handlers are still
\* installed while list_delete_all_node leaves head on a freed node.)
HandlerSafe ==
    Running =>
        /\ Walked \subseteq live
        /\ At[Cardinality(Node)] = NULL
        /\ \A n \in Walked : node[n].data \in (held \ lost) \cup {NULL}

\* Between operations the list is sound: the walks along next and prev
\* agree, tail and count are exact (or the count is the mark of an empty
\* list), each item that could be linked is listed
\* once, and no node is leaked or lost.
ListSound ==
    Ready /\ Running =>
        LET n == Cardinality(Walked)
        IN /\ live = Walked
           /\ count = n \/ (n = 0 /\ count = -RobustnessFactor)
           /\ tail = (IF n = 0 THEN NULL ELSE At[n - 1])
           /\ \A k \in 1 .. n : node[At[k - 1]].prev = (IF k = 1 THEN NULL ELSE At[k - 2])
           /\ \A m1, m2 \in Walked : node[m1].data = node[m2].data => m1 = m2
           /\ {node[m].data : m \in Walked} = held \ lost

\* The loops that delete go on from a node that still exists.
CursorValid == phase # "run" => cursor \in live \cup {NULL}

\* Memory is freed once, and an item is destroyed once.
FreedOnce ==
    \A k \in DOMAIN todo : \A e \in todo[k] :
        /\ e.what = "free" => e.at \in live
        /\ e.what = "destroy" => e.at \in held

\* The shutdown frees every node and destroys every item that was listed.
AllFreed == phase = "down" /\ Ready => live = {} /\ held = lost /\ head = NULL

A == INSTANCE AtomicList WITH entries <- Visible

\* What a handler sees of the list changes by whole items only: an addition
\* or a deletion, whatever the order of its stores, shows in a single step.
AtomicToHandlers == A!LInit /\ [][Running /\ Running' => A!LNext]_Visible
=============================================================================
