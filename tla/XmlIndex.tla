------------------------------ MODULE XmlIndex ------------------------------
(***************************************************************************)
(* mxml/mxml-index.c: an index is an array of nodes sorted by the name of  *)
(* the element and the value of an attribute, and a cursor, which is 0     *)
(* until the first answer of a search.                                     *)
(*                                                                         *)
(* strcmp is the order of the numbers names and values are.                *)
(***************************************************************************)
EXTENDS XmlSearch, Integers

(* index_compare and index_find: below, at or above 0. *)
Compare(t, attr, a, b) ==
  IF t.name[a] # t.name[b] THEN t.name[a] - t.name[b]
  ELSE IF attr = NULL THEN 0
  ELSE GetAttr(t, a, attr) - GetAttr(t, b, attr)
CompareWith(t, ind, element, value, node) ==
  IF element # NULL /\ element # t.name[node] THEN element - t.name[node]
  ELSE IF value = NULL THEN 0
  ELSE value - GetAttr(t, node, ind.attr)

(***************************************************************************)
(* index_sort, on array positions 1 .. Len.                                *)
(***************************************************************************)
(* The partition around the first node: templ goes up to a node that is    *)
(* greater, tempr down to one that is not, and the two change places.      *)
(* Each round but the first brings them nearer to each other, so that      *)
(* there are no more rounds than nodes.                                    *)
Swapped(s, i, j) == [s EXCEPT ![i] = s[j], ![j] = s[i]]
Greater(t, attr, s, left, right, from) ==
  Min({i \in from .. right : i = right \/ Compare(t, attr, s[i], s[left]) > 0})
NotGreater(t, attr, s, left, to) ==
  Max({i \in left .. to : i = left \/ Compare(t, attr, s[i], s[left]) <= 0})
Round(t, attr, left, right, p) ==
  LET l == Greater(t, attr, p.s, left, right, p.templ)
      r == NotGreater(t, attr, p.s, left, p.tempr)
  IN [s |-> IF l < r THEN Swapped(p.s, l, r) ELSE p.s, templ |-> l, tempr |-> r]
Partitioned(t, attr, s, left, right) ==
  LET after[k \in 0 .. right - left + 1] ==
        IF k = 0 THEN [s |-> s, templ |-> left, tempr |-> right]
        ELSE LET p == after[k - 1]
             IN IF p.templ < p.tempr THEN Round(t, attr, left, right, p) ELSE p
  IN after[right - left + 1]
PivotPlaced(t, attr, s, left, at) ==
  IF Compare(t, attr, s[left], s[at]) > 0 THEN Swapped(s, left, at) ELSE s

(* index_sort calls itself for the part left of the pivot and then goes on *)
(* with the right one: of the parts still to be sorted the leftmost comes  *)
(* first.  Each step settles a pivot.                                      *)
Leftmost(parts) == CHOOSE p \in parts : \A q \in parts : p[1] <= q[1]
SortStep(t, attr, w) ==
  LET part == Leftmost(w.todo)
      left == part[1]
      right == part[2]
      p == Partitioned(t, attr, w.s, left, right)
      at == p.tempr
  IN [s |-> PivotPlaced(t, attr, p.s, left, at),
      todo |-> (w.todo \ {part}) \cup
                 {q \in {<<left, at - 1>>, <<at + 1, right>>} : q[1] < q[2]}]
Sorted(t, attr, s) ==
  LET after[k \in 0 .. Len(s)] ==
        IF k = 0 THEN [s |-> s, todo |-> {<<1, Len(s)>>}]
        ELSE LET w == after[k - 1]
             IN IF w.todo = {} THEN w ELSE SortStep(t, attr, w)
  IN after[Len(s)].s

(***************************************************************************)
(* mxmlIndexNew: the node itself is in the index only when neither a name  *)
(* nor an attribute is asked for.                                          *)
(***************************************************************************)
CollectFrom(t, top, first, element, attr) ==
  LET from[n \in DOMAIN t.kind \cup {NULL}] ==
        IF n = NULL THEN <<>>
        ELSE <<n>> \o from[FindElement(t, n, top, element, attr, NULL, "all")]
  IN from[first]
IndexOver(t, top, element, attr) ==
  LET first == IF element = NULL /\ attr = NULL THEN top
               ELSE FindElement(t, top, top, element, attr, NULL, "all")
      nodes == CollectFrom(t, top, first, element, attr)
  IN [attr |-> attr, cur |-> 0,
      nodes |-> IF Len(nodes) > 1 THEN Sorted(t, attr, nodes) ELSE nodes]

(***************************************************************************)
(* Answers: the node and where the cursor is left.                         *)
(***************************************************************************)
Answer(node, cur) == [node |-> node, cur |-> cur]
NodeNo(ind, i) == ind.nodes[i + 1]
Enum(ind) ==
  IF ind.cur < Len(ind.nodes) THEN Answer(NodeNo(ind, ind.cur), ind.cur + 1)
  ELSE Answer(NULL, ind.cur)

(* The binary search stops at a match or with two candidates left; each    *)
(* round leaves fewer.                                                     *)
Candidates(t, ind, element, value) ==
  LET after[k \in 0 .. Len(ind.nodes)] ==
        IF k = 0 THEN [first |-> 0, last |-> Len(ind.nodes) - 1]
        ELSE LET c == after[k - 1]
                 current == (c.first + c.last) \div 2
                 diff == CompareWith(t, ind, element, value, NodeNo(ind, current))
             IN IF c.last - c.first <= 1 THEN c
                ELSE IF diff = 0 THEN [first |-> current, last |-> current]
                ELSE IF diff < 0 THEN [c EXCEPT !.last = current]
                ELSE [c EXCEPT !.first = current]
  IN after[Len(ind.nodes)]
(* A match is taken back to the first of its neighbours that match.        *)
(* (Stays: a mutant that returns the match as it is.)                      *)
FirstOfStays(t, ind, element, value, i) == i
FirstOf(t, ind, element, value, i) ==
  Min({j \in 0 .. i : \A k \in j .. i : CompareWith(t, ind, element, value, NodeNo(ind, k)) = 0})
FindFirst(t, ind, element, value) ==
  LET c == Candidates(t, ind, element, value)
      hits == {i \in c.first .. c.last : CompareWith(t, ind, element, value, NodeNo(ind, i)) = 0}
      at == IF c.first = c.last THEN FirstOf(t, ind, element, value, c.first) ELSE Min(hits)
  IN IF hits = {} THEN Answer(NULL, Len(ind.nodes)) ELSE Answer(NodeNo(ind, at), at + 1)
Find(t, ind, element, value) ==
  IF ind.attr = NULL /\ value # NULL THEN Answer(NULL, ind.cur)
  ELSE IF element = NULL /\ value = NULL THEN Enum(ind)
  ELSE IF ind.nodes = <<>> THEN Answer(NULL, ind.cur)
  ELSE IF ind.cur = 0 THEN FindFirst(t, ind, element, value)
  ELSE IF ind.cur < Len(ind.nodes)
          /\ CompareWith(t, ind, element, value, NodeNo(ind, ind.cur)) = 0
  THEN Answer(NodeNo(ind, ind.cur), ind.cur + 1)
  ELSE Answer(NULL, Len(ind.nodes))
=============================================================================
