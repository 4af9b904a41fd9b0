------------------------------ MODULE XmlNode ------------------------------
(***************************************************************************)
(* mxml/mxml-node.c: the trees the configuration is read from, as nodes    *)
(* with five pointers each.  mxmlDelete frees a subtree one node at a      *)
(* time; "doomed" is the stack of its recursive calls.                     *)
(*                                                                         *)
(* The caller passes nodes it has not deleted, and never a node as its own *)
(* neighbour.                                                              *)
(***************************************************************************)
EXTENDS XmlForest, Naturals, Integers, Sequences

CONSTANTS Kinds,      \* the types of nodes that are created
          MaxRefs     \* bound: the highest ref_count
ASSUME FreeIsNoKind == "free" \notin Kinds

VARIABLES
  kind,      \* the type of each node, "free" when it is not allocated
  links,     \* its pointers: parent, child, last_child, prev and next
  refs,      \* its ref_count
  doomed,    \* the nodes mxmlDelete is at work on, the innermost first
  forest,    \* history: the forest the calls asked for
  victims    \* history: what the last call of mxmlDelete should free
nodeVars == <<kind, links, refs, doomed, forest, victims>>

Live(n) == kind[n] # "free"
Idle == doomed = <<>>
Links == [parent : Link, child : Link, last_child : Link, prev : Link, next : Link]
NoLinks == [parent |-> NoLink, child |-> NoLink, last_child |-> NoLink,
            prev |-> NoLink, next |-> NoLink]

NodeInit ==
  /\ kind = [n \in Node |-> "free"] /\ links = NoLinks
  /\ refs = [n \in Node |-> 0] /\ doomed = <<>>
  /\ forest = EmptyForest /\ victims = {}

(***************************************************************************)
(* mxmlRemove.  A neighbour that is missing is the end of the parent's     *)
(* list, whose head or tail changes instead.                               *)
(***************************************************************************)
Removed(t, n) ==
  LET p == t.parent[n]
      before == t.prev[n]
      after == t.next[n]
  IN IF p = NULL THEN t
     ELSE [parent |-> [t.parent EXCEPT ![n] = NULL],
           child |-> IF before = NULL THEN [t.child EXCEPT ![p] = after] ELSE t.child,
           last_child |-> IF after = NULL THEN [t.last_child EXCEPT ![p] = before] ELSE t.last_child,
           prev |-> [x \in Node |-> IF x = n THEN NULL ELSE IF x = after THEN before ELSE t.prev[x]],
           next |-> [x \in Node |-> IF x = n THEN NULL ELSE IF x = before THEN after ELSE t.next[x]]]

(***************************************************************************)
(* mxmlAdd: its four ways of linking a node that has no parent, siblings   *)
(* or neighbours left.                                                     *)
(***************************************************************************)
LinkedFirst(t, p, n) ==
  LET head == t.child[p]
  IN [parent |-> [t.parent EXCEPT ![n] = p],
      child |-> [t.child EXCEPT ![p] = n],
      last_child |-> IF head = NULL THEN [t.last_child EXCEPT ![p] = n] ELSE t.last_child,
      prev |-> [x \in Node |-> IF x = head THEN n ELSE t.prev[x]],
      next |-> [t.next EXCEPT ![n] = head]]
LinkedBefore(t, p, c, n) ==
  LET left == t.prev[c]
  IN [parent |-> [t.parent EXCEPT ![n] = p],
      child |-> IF left = NULL THEN [t.child EXCEPT ![p] = n] ELSE t.child,
      last_child |-> t.last_child,
      prev |-> [x \in Node |-> IF x = n THEN left ELSE IF x = c THEN n ELSE t.prev[x]],
      next |-> [x \in Node |-> IF x = n THEN c ELSE IF x = left THEN n ELSE t.next[x]]]
LinkedLast(t, p, n) ==
  LET tail == t.last_child[p]
  IN [parent |-> [t.parent EXCEPT ![n] = p],
      child |-> IF tail = NULL THEN [t.child EXCEPT ![p] = n] ELSE t.child,
      last_child |-> [t.last_child EXCEPT ![p] = n],
      prev |-> [t.prev EXCEPT ![n] = tail],
      next |-> [x \in Node |-> IF x = tail THEN n ELSE t.next[x]]]
(* (OneWay: a mutant that forgets the neighbour's pointer back.)           *)
LinkedAfterOneWay(t, p, c, n) ==
  [t EXCEPT !.parent[n] = p, !.prev[n] = c,
            !.next = [x \in Node |-> IF x = n THEN t.next[c] ELSE IF x = c THEN n ELSE t.next[x]]]
LinkedAfter(t, p, c, n) ==
  LET right == t.next[c]
  IN [parent |-> [t.parent EXCEPT ![n] = p],
      child |-> t.child,
      last_child |-> IF right = NULL THEN [t.last_child EXCEPT ![p] = n] ELSE t.last_child,
      prev |-> [x \in Node |-> IF x = n THEN c ELSE IF x = right THEN n ELSE t.prev[x]],
      next |-> [x \in Node |-> IF x = n THEN right ELSE IF x = c THEN n ELSE t.next[x]]]

(* Whether the child given as the place decides it: it is not NULL, not    *)
(* the end itself, and a child of p once n has left its old place.         *)
IsPlace(t, p, c, end) == c # NULL /\ c # end /\ t.parent[c] = p
LinkedAt(t, p, where, c, n) ==
  IF where = "before"
  THEN IF IsPlace(t, p, c, t.child[p]) THEN LinkedBefore(t, p, c, n) ELSE LinkedFirst(t, p, n)
  ELSE IF IsPlace(t, p, c, t.last_child[p]) THEN LinkedAfter(t, p, c, n) ELSE LinkedLast(t, p, n)

(* What the caller asked for: before or behind c when c is one of p's      *)
(* children, at the beginning or the end otherwise.                        *)
EarlyAt(f, p, where, c) ==
  LET kids == KidsOf(f, p)
  IN IF c \in kids
     THEN {m \in kids : Precedes(f, m, c) \/ (where = "after" /\ m = c)}
     ELSE IF where = "before" THEN {} ELSE kids

(***************************************************************************)
(* The calls.                                                              *)
(***************************************************************************)
(* mxml_new: calloc, a count of one, and the end of the parent's list.     *)
New(p, k, n) ==
  /\ Idle
  /\ ~Live(n) /\ k \in Kinds
  /\ p # NULL => Live(p)
  /\ kind' = [kind EXCEPT ![n] = k]
  /\ refs' = [refs EXCEPT ![n] = 1]
  /\ links' = IF p = NULL THEN links ELSE LinkedAt(links, p, "after", NULL, n)
  /\ forest' = IF p = NULL THEN forest ELSE Placed(forest, p, n, KidsOf(forest, p))
  /\ victims' = {}
  /\ UNCHANGED doomed

Add(p, where, c, n) ==
  /\ Idle
  /\ Live(p) /\ Live(n) /\ c # n /\ p # n
  /\ c # NULL => Live(c)
  /\ LET t == Removed(links, n)
         f == Detached(forest, n)
     IN /\ links' = LinkedAt(t, p, where, c, n)
        /\ forest' = Placed(f, p, n, EarlyAt(f, p, where, c))
  /\ UNCHANGED <<kind, refs, doomed, victims>>

RemoveNode(n) ==
  /\ Idle /\ Live(n)
  /\ links' = Removed(links, n)
  /\ forest' = Detached(forest, n)
  /\ UNCHANGED <<kind, refs, doomed, victims>>

Retain(n) ==
  /\ Idle /\ Live(n) /\ refs[n] < MaxRefs
  /\ refs' = [refs EXCEPT ![n] = @ + 1]
  /\ UNCHANGED <<kind, links, doomed, forest, victims>>

(* What is under n, n included: the least set closed under children. *)
Subtree(n) ==
  {m \in Node : \A S \in SUBSET Node :
     n \in S /\ (\A x \in Node : forest.up[x] \in S => x \in S) => m \in S}

(* mxmlDelete leaves the list of its parent and calls itself for its first *)
(* child as long as there is one.  It does not look at any ref_count.      *)
(* (StillLinked: a mutant that leaves the list only in name.)              *)
EnterStillLinked(n) ==
  /\ forest' = Detached(forest, n)
  /\ doomed' = <<n>> \o doomed
  /\ UNCHANGED links
Enter(n) ==
  /\ links' = Removed(links, n)
  /\ forest' = Detached(forest, n)
  /\ doomed' = <<n>> \o doomed
Delete(n) ==
  /\ Idle /\ Live(n)
  /\ Enter(n)
  /\ victims' = Subtree(n)
  /\ UNCHANGED <<kind, refs>>
(* (Sparing: a mutant that only removes a child somebody holds.)           *)
DeleteChildSparing ==
  /\ ~Idle /\ links.child[Head(doomed)] # NULL
  /\ IF refs[links.child[Head(doomed)]] > 1
     THEN /\ links' = Removed(links, links.child[Head(doomed)])
          /\ forest' = Detached(forest, links.child[Head(doomed)])
          /\ UNCHANGED doomed
     ELSE Enter(links.child[Head(doomed)])
  /\ UNCHANGED <<kind, refs, victims>>
DeleteChild ==
  /\ ~Idle /\ links.child[Head(doomed)] # NULL
  /\ Enter(links.child[Head(doomed)])
  /\ UNCHANGED <<kind, refs, victims>>
(* (Unheld: a mutant that waits for the ref_count to fall.)                *)
FreeUnheld ==
  /\ ~Idle /\ links.child[Head(doomed)] = NULL /\ refs[Head(doomed)] <= 1
  /\ kind' = [kind EXCEPT ![Head(doomed)] = "free"]
  /\ doomed' = Tail(doomed)
  /\ UNCHANGED <<links, refs, forest, victims>>
Free ==
  /\ ~Idle /\ links.child[Head(doomed)] = NULL
  /\ kind' = [kind EXCEPT ![Head(doomed)] = "free"]
  /\ doomed' = Tail(doomed)
  /\ UNCHANGED <<links, refs, forest, victims>>

(* mxmlRelease deletes at a count of zero. *)
Release(n) ==
  /\ Idle /\ Live(n)
  /\ refs' = [refs EXCEPT ![n] = @ - 1]
  /\ IF refs'[n] <= 0
     THEN Enter(n) /\ victims' = Subtree(n)
     ELSE UNCHANGED <<links, doomed, forest, victims>>
  /\ UNCHANGED kind

Deleting == DeleteChild \/ Free
NodeNext ==
  \/ \E n \in Node, p \in Node \cup {NULL}, k \in Kinds : New(p, k, n)
  \/ \E n, p \in Node, c \in Node \cup {NULL}, where \in {"before", "after"} : Add(p, where, c, n)
  \/ \E n \in Node : RemoveNode(n) \/ Retain(n) \/ Delete(n) \/ Release(n)
  \/ Deleting
NodeSpec == NodeInit /\ [][NodeNext]_nodeVars

(***************************************************************************)
(* Properties.                                                             *)
(***************************************************************************)
NodeTypeOK ==
  /\ kind \in [Node -> Kinds \cup {"free"}]
  /\ links \in Links
  /\ refs \in [Node -> Int]
  /\ doomed \in Seq(Node)
  /\ ForestType(forest)
  /\ victims \in SUBSET Node

(* The pointers say what the forest says. *)
SidesAgree(t, f) ==
  /\ \A n \in Node : t.next[n] # NULL =>
       /\ t.prev[t.next[n]] = n
       /\ Precedes(f, n, t.next[n])
       /\ \A k \in Node : ~(Precedes(f, n, k) /\ Precedes(f, k, t.next[n]))
  /\ \A n \in Node : t.prev[n] # NULL => t.next[t.prev[n]] = n
  /\ \A n \in Node : t.next[n] = NULL => \A k \in Node : ~Precedes(f, n, k)
  /\ \A n \in Node : t.prev[n] = NULL => \A k \in Node : ~Precedes(f, k, n)
EndsAgree(t, f) ==
  /\ \A p \in Node : t.child[p] # NULL => f.up[t.child[p]] = p /\ t.prev[t.child[p]] = NULL
  /\ \A p \in Node : t.last_child[p] # NULL => f.up[t.last_child[p]] = p /\ t.next[t.last_child[p]] = NULL
  /\ \A p \in Node : t.child[p] = NULL \/ t.last_child[p] = NULL => KidsOf(f, p) = {}
Represents(t, f) == t.parent = f.up /\ SidesAgree(t, f) /\ EndsAgree(t, f)

(* After every call, and between the steps of a deletion, the pointers     *)
(* represent the tree the calls asked for: mxmlAdd and mxmlRemove repair   *)
(* the lists of both parents and of both neighbours in every case.         *)
PointersRepresent == Ordered(forest) /\ Represents(links, forest)

(* No pointer of a node that is alive, and no call of mxmlDelete under     *)
(* way, leads to a node that was freed, and no node is freed twice.        *)
NothingDangles ==
  /\ \A n \in Node : Live(n) =>
       \A m \in {links.parent[n], links.child[n], links.last_child[n], links.prev[n], links.next[n]} :
         m # NULL => Live(m)
  /\ \A i \in 1 .. Len(doomed) : Live(doomed[i])
  /\ \A i, j \in 1 .. Len(doomed) : doomed[i] = doomed[j] => i = j

(* mxmlDelete frees the node and all that was under it when it was called, *)
(* nothing else, and all of it by the time it returns.                     *)
DeletesSubtree ==
  [][/\ \A n \in Node : Live(n) /\ kind'[n] = "free" => n \in victims
     /\ ~Idle /\ doomed' = <<>> => \A n \in victims : kind'[n] = "free"]_nodeVars
=============================================================================
