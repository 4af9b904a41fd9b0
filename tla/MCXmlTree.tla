----------------------------- MODULE MCXmlTree -----------------------------
(***************************************************************************)
(* Six nodes.  The trees to start from: an empty heap on which trees      *)
(* grow; chains, fans and mixed trees of elements, to be changed; and      *)
(* documents with many names and values, to be searched and indexed.       *)
(***************************************************************************)
EXTENDS XmlTree

CONSTANT SomeNode

MCNode == 1 .. 6
MCPaths == {<<1>>, <<1, 2>>, <<SomeNode, 2>>, <<1, SomeNode, 2>>}

(* A document: node i lies under up[i] (0 for none), siblings in order. *)
KidsIn(up, p) == SetToSortSeq({i \in DOMAIN up : up[i] = p}, <)
Neighbour(up, n, step) ==
  IF n \notin DOMAIN up \/ up[n] = 0 THEN 0
  ELSE LET kids == KidsIn(up, up[n])
           at == CHOOSE i \in 1 .. Len(kids) : kids[i] = n
       IN IF at + step \in 1 .. Len(kids) THEN kids[at + step] ELSE 0
Document(up, kinds, names, atts, allowed, searched) ==
  LET parent == [n \in Node |-> IF n \in DOMAIN up THEN up[n] ELSE 0]
      kids(n) == KidsIn(up, n)
  IN [kind |-> [n \in Node |-> IF n \in DOMAIN up THEN kinds[n] ELSE "free"],
      links |-> [parent |-> parent,
                 child |-> [n \in Node |-> IF kids(n) = <<>> THEN 0 ELSE Head(kids(n))],
                 last_child |-> [n \in Node |-> IF kids(n) = <<>> THEN 0 ELSE Last(kids(n))],
                 prev |-> [n \in Node |-> Neighbour(up, n, -1)],
                 next |-> [n \in Node |-> Neighbour(up, n, 1)]],
      forest |-> [up |-> parent,
                  before |-> {e \in Node \X Node :
                                e[1] < e[2] /\ parent[e[1]] = parent[e[2]] /\ parent[e[1]] # 0}],
      name |-> [n \in Node |-> IF n \in DOMAIN up /\ kinds[n] = "element" THEN names[n] ELSE 0],
      attrs |-> [n \in Node |-> IF n \in DOMAIN up THEN atts[n] ELSE <<>>],
      budget |-> [changes |-> allowed, indices |-> searched]]

X(v) == <<[n |-> 1, v |-> v]>>
XY(v, w) == <<[n |-> 1, v |-> v], [n |-> 2, v |-> w]>>
E(n) == [i \in 1 .. n |-> "element"]
Empty == Document(<<>>, <<>>, <<>>, <<>>, 4, 0)
Grown ==
  {Document(<<0, 1, 2, 2, 1>>, E(5), <<1, 2, 1, 2, 1>>, <<<<>>, XY(1, 2), X(2), <<>>, X(1)>>, 1, 0),
   Document(<<0, 1, 1, 1, 0>>, <<"element", "text", "element", "element", "element">>,
            <<1, 0, 2, 2, 1>>, <<<<>>, <<>>, XY(2, 1), X(1), <<>>>>, 2, 0),
   Document(<<0, 1, 2, 3, 4>>, E(5), <<1, 1, 2, 2, 1>>, <<X(1), <<>>, X(1), XY(1, 1), <<>>>>, 1, 0)}
(* Every way to put labels, or some of them, on the elements below a root. *)
Labels == {<<1, X(1)>>, <<1, X(2)>>, <<2, X(1)>>, <<2, X(2)>>}
Labelled(up, labels) ==
  LET k == Len(up)
  IN {Document(up, E(k), [i \in 1 .. k |-> IF i = 1 THEN 1 ELSE l[i - 1][1]],
               [i \in 1 .. k |-> IF i = 1 THEN <<>> ELSE l[i - 1][2]], 0, 1) :
        l \in [1 .. k - 1 -> labels]}
Searched ==
  Labelled(<<0, 1, 1, 1>>, Labels) \cup
  Labelled(<<0, 1, 2, 1, 4>>, {<<1, X(1)>>, <<2, X(2)>>}) \cup
  Labelled(<<0, 1, 1, 1, 1, 1>>, {<<2, X(1)>>, <<1, X(2)>>})
Reindexed == Document(<<0, 1, 1>>, E(3), <<1, 2, 1>>, <<<<>>, X(2), X(1)>>, 1, 2)
MCStarts == {Empty, Reindexed} \cup Grown \cup Searched
=============================================================================
