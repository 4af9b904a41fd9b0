----------------------------- MODULE XmlQuery -----------------------------
(***************************************************************************)
(* What the callers of mxml-search.c rely on, said of the forest they      *)
(* asked for: the pointers XmlData has changed lead a walk or a search     *)
(* through it in document order.                                           *)
(***************************************************************************)
EXTENDS XmlData, FiniteSets

CONSTANTS Star,        \* the name "*" of a path
          Paths        \* paths searched for

INSTANCE XmlIndex      \* and with it XmlSearch

(* A path ends with a name, and between two names is at most one Star.     *)
(* The names are texts, never NULL.                                        *)
ASSUME PathsAssumption ==
  \A p \in Paths : /\ p \in Seq((Names \ {NULL}) \cup {Star}) /\ p # <<>> /\ p[Len(p)] # Star
                   /\ \A i \in 1 .. Len(p) - 1 : p[i] = Star => p[i + 1] # Star

(***************************************************************************)
(* Document order: a node before all that is under it, and all that is     *)
(* under a node before all that is under the siblings that follow.         *)
(***************************************************************************)
(* The node itself, the one it is under, and so on.                        *)
Over[n \in Node] == {n} \cup IF forest.up[n] = NULL THEN {} ELSE Over[forest.up[n]]
Under(top) == {n \in Node : top \in Over[n]}
Earlier(a, b) ==
  /\ a # b
  /\ a \in Over[b] \/ \E x \in Over[a], y \in Over[b] : Precedes(forest, x, y)
DocOrder == {e \in Node \X Node : Earlier(e[1], e[2])}

IsFirst(order, n, S) ==
  IF S = {} THEN n = NULL ELSE n \in S /\ \A m \in S \ {n} : <<n, m>> \in order
IsLast(order, n, S) ==
  IF S = {} THEN n = NULL ELSE n \in S /\ \A m \in S \ {n} : <<m, n>> \in order

(* mxmlWalkNext leads from every node under the top to the one that        *)
(* follows it in the document, and stops at the last although the tree     *)
(* goes on; mxmlWalkPrev leads back the same way, and stops short of the   *)
(* top.                                                                    *)
WalkInOrder ==
  Idle =>
    LET order == DocOrder
    IN \A top \in LiveNodes :
         LET below == Under(top)
         IN \A n \in below :
              /\ IsFirst(order, WalkNext(Tree, n, top, "all"), {m \in below : <<n, m>> \in order})
              /\ IsLast(order, WalkPrev(Tree, n, top, "all"),
                        {m \in below \ {top} : <<m, n>> \in order})

(* Where a path leads: each name to the first element of that name in the  *)
(* document, among the children of the one the names before led to, or,    *)
(* behind a Star, among all that is below it, its children too.            *)
Named(n, nm) == IsElement(n) /\ name[n] = nm
Nearer(top, path, i) ==
  IF i > 1 /\ path[i - 1] = Star THEN Under(top) \ {top} ELSE KidsOf(forest, top)
LeadsTo(order, top, path) ==
  LET led[i \in 0 .. Len(path)] ==
        IF i = 0 THEN top
        ELSE IF path[i] = Star \/ led[i - 1] = NULL THEN led[i - 1]
        ELSE LET fits == {n \in Nearer(led[i - 1], path, i) : Named(n, path[i])}
             IN CHOOSE n \in Node \cup {NULL} : IsFirst(order, n, fits)
  IN led[Len(path)]
(* The answer is the first child of that element if it is a value.         *)
PathFits(order, top, path) ==
  LET n == LeadsTo(order, top, path)
      f == FindPath(Tree, top, path)
  IN IF n = NULL THEN f = NULL
     ELSE \E first \in Node \cup {NULL} :
            /\ IsFirst(order, first, KidsOf(forest, n))
            /\ f = IF first # NULL /\ ~IsElement(first) THEN first ELSE n

(* mxmlFindElement finds the first match below its start in document       *)
(* order, among the children, or among the siblings that follow; and       *)
(* mxmlFindPath follows a path the same way, name by name, and finds NULL  *)
(* only where a name has no element below the one found for the names      *)
(* before it.                                                              *)
SearchFinds ==
  Idle =>
    LET order == DocOrder
    IN \A top \in LiveNodes :
         LET below == Under(top) \ {top}
             kids == KidsOf(forest, top)
         IN /\ \A nm \in Names \cup {NULL}, a \in AttrNames \cup {NULL} :
                 \A v \in IF a = NULL THEN {NULL} ELSE Values \cup {NULL} :
                   LET fits == {n \in below : Matches(Tree, n, nm, a, v)}
                   IN /\ IsFirst(order, FindElement(Tree, top, top, nm, a, v, "all"), fits)
                      /\ IsFirst(order, FindElement(Tree, top, top, nm, a, v, "first"), fits \cap kids)
                      /\ \A k \in kids :
                           IsFirst(order, FindElement(Tree, k, top, nm, a, v, "none"),
                                   {m \in fits \cap kids : Precedes(forest, k, m)})
            /\ \A path \in Paths : PathFits(order, top, path)
=============================================================================
