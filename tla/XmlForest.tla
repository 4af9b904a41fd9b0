----------------------------- MODULE XmlForest -----------------------------
(***************************************************************************)
(* What a caller of mxml-node.c means by a tree: which node is under which *)
(* and which sibling comes before which.  XmlNode keeps this value beside  *)
(* the pointers and shows that they represent it.                          *)
(***************************************************************************)
CONSTANTS Node,   \* the addresses a node may have
          NULL    \* no node
ASSUME NullIsNoNode == NULL \notin Node

Link == [Node -> Node \cup {NULL}]
NoLink == [n \in Node |-> NULL]

(* A forest: the node each one is under, and the pairs of siblings in      *)
(* order.                                                                  *)
EmptyForest == [up |-> NoLink, before |-> {}]
KidsOf(f, p) == {n \in Node : f.up[n] = p}
Precedes(f, a, b) == <<a, b>> \in f.before

Detached(f, n) ==
  [up |-> [f.up EXCEPT ![n] = NULL],
   before |-> {e \in f.before : e[1] # n /\ e[2] # n}]

(* n goes under p, behind the children in early and in front of the rest.  *)
Placed(f, p, n, early) ==
  [up |-> [f.up EXCEPT ![n] = p],
   before |-> f.before \cup {<<m, n>> : m \in early}
                       \cup {<<n, m>> : m \in KidsOf(f, p) \ early}]

(* Siblings are in a strict total order, and only siblings are.            *)
ForestType(f) ==
  /\ f.up \in Link
  /\ f.before \subseteq Node \X Node
Ordered(f) ==
  /\ \A a, b \in Node : Precedes(f, a, b) => f.up[a] = f.up[b] /\ f.up[a] # NULL
  /\ \A a, b \in Node : Precedes(f, a, b) => ~Precedes(f, b, a)
  /\ \A a, b, c \in Node : Precedes(f, a, b) /\ Precedes(f, b, c) => Precedes(f, a, c)
  /\ \A a, b \in Node :
       f.up[a] = f.up[b] /\ f.up[a] # NULL /\ a # b => Precedes(f, a, b) \/ Precedes(f, b, a)
=============================================================================
