-------------------------- MODULE XmlQuery_proofs --------------------------
(***************************************************************************)
(* For any set of nodes, names, attributes and values, whatever became of  *)
(* the trees in between: mxml-node.c keeps the pointers of all nodes       *)
(* consistent with the forest its callers asked for and never leaves one   *)
(* that leads to freed memory, mxml-attr.c keeps every attribute as it was *)
(* given last, mxml-set.c and mxml-get.c write and read the node their     *)
(* caller means, mxml-search.c leads through the trees in document order,  *)
(* and mxml-index.c finds all that match, each once.                       *)
(***************************************************************************)
EXTENDS XmlIndexed, FiniteSetTheorems, SequenceTheorems, WellFoundedInduction, TLAPS

(***************************************************************************)
(* The pointers of mxml-node.c.                                            *)
(***************************************************************************)
(* A pair of pointers and forest as every call finds it. *)
Good(t, f) == t \in Links /\ ForestType(f) /\ Ordered(f) /\ Represents(t, f)

(* mxmlRemove takes the node out of the forest and leaves the rest. *)
LEMMA RemovedType ==
  ASSUME NEW t \in Links, NEW n \in Node
  PROVE  Removed(t, n) \in Links
BY NullIsNoNode DEF Removed, Links, Link

LEMMA DetachedOrdered ==
  ASSUME NEW f, NEW n \in Node, ForestType(f), Ordered(f)
  PROVE  ForestType(Detached(f, n)) /\ Ordered(Detached(f, n))
BY NullIsNoNode DEF Detached, ForestType, Ordered, Precedes, Link

LEMMA DetachedRoot ==
  ASSUME NEW f, NEW n \in Node, ForestType(f), Ordered(f), f.up[n] = NULL
  PROVE  /\ Detached(f, n).up = f.up
         /\ \A a, b \in Node : Precedes(Detached(f, n), a, b) <=> Precedes(f, a, b)
BY NullIsNoNode DEF Detached, ForestType, Ordered, Precedes, Link

LEMMA RemovedRepresents ==
  ASSUME NEW t, NEW f, NEW n \in Node, Good(t, f)
  PROVE  Good(Removed(t, n), Detached(f, n))
<1> DEFINE u == Removed(t, n)
           g == Detached(f, n)
<1>1. u \in Links /\ ForestType(g) /\ Ordered(g)
  BY RemovedType, DetachedOrdered DEF Good
<1>2. CASE t.parent[n] = NULL
  <2>1. u = t
    BY <1>2 DEF Removed
  <2>2. g.up = f.up /\ \A a, b \in Node : Precedes(g, a, b) <=> Precedes(f, a, b)
    BY <1>2, DetachedRoot DEF Good, Represents
  <2>3. Represents(t, g)
    BY <2>2, NullIsNoNode DEF Good, Represents, SidesAgree, EndsAgree, KidsOf, Links, Link
  <2> QED BY <1>1, <2>1, <2>3 DEF Good
<1>3. CASE t.parent[n] # NULL
  <2>1. \A a, b \in Node : Precedes(g, a, b) <=> Precedes(f, a, b) /\ a # n /\ b # n
    BY DEF Detached, Precedes, Good, ForestType
  <2>2. u.parent = g.up
    BY <1>3 DEF Removed, Detached, Good, Represents
  <2> DEFINE p == t.parent[n]
             left == t.prev[n]
             right == t.next[n]
  <2>3. p \in Node /\ left \in Node \cup {NULL} /\ right \in Node \cup {NULL}
    BY <1>3 DEF Good, Links, Link
  <2>4. /\ \A x \in Node : u.next[x] = IF x = n THEN NULL ELSE IF x = left THEN right ELSE t.next[x]
        /\ \A x \in Node : u.prev[x] = IF x = n THEN NULL ELSE IF x = right THEN left ELSE t.prev[x]
        /\ \A q \in Node : u.child[q] = IF q = p /\ left = NULL THEN right ELSE t.child[q]
        /\ \A q \in Node : u.last_child[q] = IF q = p /\ right = NULL THEN left ELSE t.last_child[q]
    BY <1>3, <2>3 DEF Removed, Good, Links, Link
  <2>5. \A x \in Node : g.up[x] = IF x = n THEN NULL ELSE f.up[x]
    BY DEF Detached, Good, ForestType, Link
  <2>6. /\ t.next \in Link /\ t.prev \in Link /\ t.child \in Link /\ t.last_child \in Link
        /\ t.parent = f.up /\ Ordered(f) /\ SidesAgree(t, f) /\ EndsAgree(t, f)
    BY DEF Good, Represents, Links
  <2> HIDE DEF u, g, p, left, right
  <2>7. SidesAgree(u, g)
    <3>1. \A x \in Node : u.next[x] # NULL => u.prev[u.next[x]] = x
      BY <2>3, <2>4, <2>6, NullIsNoNode DEF SidesAgree, Link, left, right
    <3>2. \A x \in Node : u.next[x] # NULL => Precedes(g, x, u.next[x])
      BY <2>1, <2>3, <2>4, <2>6, NullIsNoNode DEF SidesAgree, Link, left, right, Ordered
    <3>3. \A x, k \in Node : u.next[x] # NULL => ~(Precedes(g, x, k) /\ Precedes(g, k, u.next[x]))
      BY <2>1, <2>3, <2>4, <2>6, NullIsNoNode DEF SidesAgree, Link, left, right, Ordered
    <3>4. \A x \in Node : u.prev[x] # NULL => u.next[u.prev[x]] = x
      BY <2>3, <2>4, <2>6, NullIsNoNode DEF SidesAgree, Link, left, right
    <3>5. \A x, k \in Node : u.next[x] = NULL => ~Precedes(g, x, k)
      BY <2>1, <2>3, <2>4, <2>6, NullIsNoNode DEF SidesAgree, Link, left, right, Ordered
    <3>6. \A x, k \in Node : u.prev[x] = NULL => ~Precedes(g, k, x)
      BY <2>1, <2>3, <2>4, <2>6, NullIsNoNode DEF SidesAgree, Link, left, right, Ordered
    <3> QED BY <3>1, <3>2, <3>3, <3>4, <3>5, <3>6 DEF SidesAgree
  <2>8. EndsAgree(u, g)
    <3>1. \A q \in Node : u.child[q] # NULL => g.up[u.child[q]] = q /\ u.prev[u.child[q]] = NULL
      BY <2>1, <2>3, <2>4, <2>5, <2>6, NullIsNoNode DEF SidesAgree, EndsAgree, Link, left, right, p, Ordered
    <3>2. \A q \in Node : u.last_child[q] # NULL => g.up[u.last_child[q]] = q /\ u.next[u.last_child[q]] = NULL
      BY <2>1, <2>3, <2>4, <2>5, <2>6, NullIsNoNode DEF SidesAgree, EndsAgree, Link, left, right, p, Ordered
    <3>3. \A q \in Node : u.child[q] = NULL \/ u.last_child[q] = NULL => KidsOf(g, q) = {}
      <4> SUFFICES ASSUME NEW q \in Node, NEW x \in Node, g.up[x] = q,
                          u.child[q] = NULL \/ u.last_child[q] = NULL
                   PROVE  FALSE
        BY DEF KidsOf
      <4>1. x # n /\ f.up[x] = q
        BY <2>5, NullIsNoNode
      <4>2. t.child[q] # NULL /\ t.last_child[q] # NULL
        BY <4>1, <2>6 DEF EndsAgree, KidsOf
      <4>3. q = p /\ left = NULL /\ right = NULL
        BY <4>2, <2>4
      <4>4. Precedes(f, x, n) \/ Precedes(f, n, x)
        BY <4>1, <4>3, <2>6, NullIsNoNode DEF Ordered, p
      <4> QED BY <4>3, <4>4, <2>6 DEF SidesAgree, left, right
    <3> QED BY <3>1, <3>2, <3>3 DEF EndsAgree
  <2> QED BY <1>1, <2>2, <2>7, <2>8 DEF Good, Represents, u, g
<1> QED BY <1>2, <1>3

(***************************************************************************)
(* mxmlAdd.  early is a possible place: with a child, all those before it. *)
(***************************************************************************)
Closed(f, p, early) ==
  /\ early \subseteq KidsOf(f, p)
  /\ \A a, b \in Node : b \in early /\ Precedes(f, a, b) => a \in early

(* A node without parent, with its neighbours cut off, and where it goes. *)
Place(t, f, p, n, early) ==
  Good(t, f) /\ p \in Node /\ n \in Node /\ p # n /\ f.up[n] = NULL /\ Closed(f, p, early)

LEMMA PlacedOrdered ==
  ASSUME NEW t, NEW f, NEW p, NEW n, NEW early, Place(t, f, p, n, early)
  PROVE  ForestType(Placed(f, p, n, early)) /\ Ordered(Placed(f, p, n, early))
<1> DEFINE g == Placed(f, p, n, early)
<1>1. /\ ForestType(f) /\ Ordered(f) /\ p \in Node /\ n \in Node /\ p # n /\ f.up[n] = NULL
      /\ Closed(f, p, early)
  BY DEF Place, Good
<1>2. ForestType(g)
  BY <1>1 DEF Placed, ForestType, Closed, KidsOf, Link
<1>3. /\ \A a, b \in Node : Precedes(g, a, b) <=>
           \/ Precedes(f, a, b)
           \/ b = n /\ a \in early
           \/ a = n /\ f.up[b] = p /\ b \notin early
      /\ \A x \in Node : g.up[x] = IF x = n THEN p ELSE f.up[x]
  BY <1>1 DEF Placed, Precedes, KidsOf, ForestType, Link
<1>4. \A a \in early : a \in Node /\ f.up[a] = p /\ a # n
  <2>1. \A a \in early : a \in KidsOf(f, p)
    BY <1>1 DEF Closed
  <2>2. \A a \in KidsOf(f, p) : a \in Node /\ f.up[a] = p
    BY DEF KidsOf
  <2> QED BY <1>1, <2>1, <2>2, NullIsNoNode
<1> HIDE DEF g
<1>5. \A a, b \in Node : Precedes(g, a, b) => g.up[a] = g.up[b] /\ g.up[a] # NULL
  BY <1>1, <1>3, <1>4, NullIsNoNode DEF Ordered
<1>6. \A a, b \in Node : Precedes(g, a, b) => ~Precedes(g, b, a)
  BY <1>1, <1>3, <1>4, NullIsNoNode DEF Ordered
<1>7. \A a, b, c \in Node : Precedes(g, a, b) /\ Precedes(g, b, c) => Precedes(g, a, c)
  <2> SUFFICES ASSUME NEW a \in Node, NEW b \in Node, NEW c \in Node,
                      Precedes(g, a, b), Precedes(g, b, c)
               PROVE  Precedes(g, a, c)
    OBVIOUS
  <2>1. \A x \in Node : ~Precedes(f, x, n) /\ ~Precedes(f, n, x)
    BY <1>1 DEF Ordered
  <2>2. CASE Precedes(f, a, b) /\ Precedes(f, b, c)
    BY <2>2, <1>1, <1>3 DEF Ordered
  <2>3. CASE Precedes(f, a, b) /\ c = n /\ b \in early
    BY <2>3, <1>1, <1>3 DEF Closed
  <2>4. CASE b = n /\ a \in early /\ f.up[c] = p /\ c \notin early
    <3>1. Precedes(f, a, c) \/ Precedes(f, c, a)
      BY <2>4, <1>1, <1>4, NullIsNoNode DEF Ordered
    <3> QED BY <3>1, <2>4, <1>1, <1>3 DEF Closed
  <2>5. CASE a = n /\ f.up[b] = p /\ b \notin early /\ Precedes(f, b, c)
    <3>1. f.up[c] = p /\ c \notin early
      BY <2>5, <1>1 DEF Ordered, Closed
    <3> QED BY <3>1, <2>5, <1>3
  <2> QED BY <1>1, <1>3, <1>4, <2>1, <2>2, <2>3, <2>4, <2>5, NullIsNoNode
<1>8. \A a, b \in Node :
        g.up[a] = g.up[b] /\ g.up[a] # NULL /\ a # b => Precedes(g, a, b) \/ Precedes(g, b, a)
  BY <1>1, <1>3, <1>4, NullIsNoNode DEF Ordered
<1> QED BY <1>2, <1>5, <1>6, <1>7, <1>8 DEF Ordered, g

(* What is known of the place and of the node that goes there. *)
LEMMA PlaceFacts ==
  ASSUME NEW t, NEW f, NEW p, NEW n, NEW early, Place(t, f, p, n, early)
  PROVE  /\ t.parent \in Link /\ t.next \in Link /\ t.prev \in Link
         /\ t.child \in Link /\ t.last_child \in Link
         /\ t.parent = f.up /\ Ordered(f) /\ SidesAgree(t, f) /\ EndsAgree(t, f)
         /\ p \in Node /\ n \in Node /\ p # n /\ f.up[n] = NULL
         /\ t.next[n] = NULL /\ t.prev[n] = NULL
         /\ \A x \in Node : ~Precedes(f, x, n) /\ ~Precedes(f, n, x)
         /\ \A x \in Node : t.next[x] # n /\ t.prev[x] # n /\ t.child[x] # n /\ t.last_child[x] # n
<1>1. /\ t.parent \in Link /\ t.next \in Link /\ t.prev \in Link
      /\ t.child \in Link /\ t.last_child \in Link
      /\ t.parent = f.up /\ Ordered(f) /\ SidesAgree(t, f) /\ EndsAgree(t, f)
      /\ p \in Node /\ n \in Node /\ p # n /\ f.up[n] = NULL
  BY DEF Place, Good, Represents, Links
<1>2. \A x \in Node : ~Precedes(f, x, n) /\ ~Precedes(f, n, x)
  BY <1>1 DEF Ordered
<1>3. t.next[n] = NULL /\ t.prev[n] = NULL
  BY <1>1, <1>2, NullIsNoNode DEF SidesAgree, Link
<1>4. \A x \in Node : t.next[x] # n /\ t.prev[x] # n /\ t.child[x] # n /\ t.last_child[x] # n
  BY <1>1, <1>3, NullIsNoNode DEF SidesAgree, EndsAgree
<1> QED BY <1>1, <1>2, <1>3, <1>4

LEMMA FirstRepresents ==
  ASSUME NEW t, NEW f, NEW p, NEW n, Place(t, f, p, n, {})
  PROVE  Good(LinkedFirst(t, p, n), Placed(f, p, n, {}))
<1> DEFINE u == LinkedFirst(t, p, n)
           g == Placed(f, p, n, {})
           head == t.child[p]
<1>1. /\ t.parent \in Link /\ t.next \in Link /\ t.prev \in Link
      /\ t.child \in Link /\ t.last_child \in Link
      /\ t.parent = f.up /\ Ordered(f) /\ SidesAgree(t, f) /\ EndsAgree(t, f)
      /\ p \in Node /\ n \in Node /\ p # n /\ f.up[n] = NULL
      /\ t.next[n] = NULL /\ t.prev[n] = NULL
      /\ \A x \in Node : ~Precedes(f, x, n) /\ ~Precedes(f, n, x)
      /\ \A x \in Node : t.next[x] # n /\ t.prev[x] # n /\ t.child[x] # n /\ t.last_child[x] # n
  BY PlaceFacts
<1>2. ForestType(g) /\ Ordered(g)
  BY PlacedOrdered
<1>3. u \in Links /\ u.parent = g.up
  BY <1>1 DEF LinkedFirst, Links, Link, Placed
<1>4. /\ \A x \in Node : u.next[x] = IF x = n THEN head ELSE t.next[x]
      /\ \A x \in Node : u.prev[x] = IF x = head THEN n ELSE t.prev[x]
      /\ \A q \in Node : u.child[q] = IF q = p THEN n ELSE t.child[q]
      /\ \A q \in Node : u.last_child[q] = IF q = p /\ head = NULL THEN n ELSE t.last_child[q]
  BY <1>1 DEF LinkedFirst, Link
<1>5. /\ \A x \in Node : g.up[x] = IF x = n THEN p ELSE f.up[x]
      /\ \A a, b \in Node : Precedes(g, a, b) <=> Precedes(f, a, b) \/ (a = n /\ f.up[b] = p)
  BY <1>1 DEF Placed, Link, Precedes, KidsOf
<1>6. /\ head \in Node \cup {NULL} /\ head # n
      /\ head # NULL => f.up[head] = p /\ t.prev[head] = NULL
      /\ \A x \in Node : f.up[x] = p => head # NULL /\ (x = head \/ Precedes(f, head, x))
  BY <1>1, NullIsNoNode DEF EndsAgree, SidesAgree, Ordered, Link, KidsOf
<1> HIDE DEF u, g, head
<1>7. SidesAgree(u, g)
  <2>1. \A x \in Node : u.next[x] # NULL => u.prev[u.next[x]] = x
    BY <1>1, <1>4, <1>6, NullIsNoNode DEF SidesAgree, Link
  <2>2. \A x \in Node : u.next[x] # NULL => Precedes(g, x, u.next[x])
    BY <1>1, <1>4, <1>5, <1>6, NullIsNoNode DEF SidesAgree, Link
  <2>3. \A x, k \in Node : u.next[x] # NULL => ~(Precedes(g, x, k) /\ Precedes(g, k, u.next[x]))
    BY <1>1, <1>4, <1>5, <1>6, NullIsNoNode DEF SidesAgree, Link
  <2>4. \A x \in Node : u.prev[x] # NULL => u.next[u.prev[x]] = x
    BY <1>1, <1>4, <1>6, NullIsNoNode DEF SidesAgree, Link
  <2>5. \A x, k \in Node : u.next[x] = NULL => ~Precedes(g, x, k)
    BY <1>1, <1>4, <1>5, <1>6, NullIsNoNode DEF SidesAgree, Link
  <2>6. \A x, k \in Node : u.prev[x] = NULL => ~Precedes(g, k, x)
    BY <1>1, <1>4, <1>5, <1>6, NullIsNoNode DEF SidesAgree, Link
  <2> QED BY <2>1, <2>2, <2>3, <2>4, <2>5, <2>6 DEF SidesAgree
<1>8. EndsAgree(u, g)
  <2>1. \A q \in Node : u.child[q] # NULL => g.up[u.child[q]] = q /\ u.prev[u.child[q]] = NULL
    BY <1>1, <1>4, <1>5, <1>6, NullIsNoNode DEF EndsAgree, Link
  <2>2. \A q \in Node : u.last_child[q] # NULL => g.up[u.last_child[q]] = q /\ u.next[u.last_child[q]] = NULL
    BY <1>1, <1>4, <1>5, <1>6, NullIsNoNode DEF EndsAgree, Link
  <2>3. \A q, x \in Node : u.child[q] = NULL \/ u.last_child[q] = NULL => g.up[x] # q
    BY <1>1, <1>4, <1>5, <1>6, NullIsNoNode DEF EndsAgree, Link, KidsOf
  <2> QED BY <2>1, <2>2, <2>3 DEF EndsAgree, KidsOf
<1> QED BY <1>2, <1>3, <1>7, <1>8 DEF Good, Represents, u, g

LEMMA LastRepresents ==
  ASSUME NEW t, NEW f, NEW p, NEW n, Place(t, f, p, n, KidsOf(f, p))
  PROVE  Good(LinkedLast(t, p, n), Placed(f, p, n, KidsOf(f, p)))
<1> DEFINE u == LinkedLast(t, p, n)
           g == Placed(f, p, n, KidsOf(f, p))
           end == t.last_child[p]
<1>1. /\ t.parent \in Link /\ t.next \in Link /\ t.prev \in Link
      /\ t.child \in Link /\ t.last_child \in Link
      /\ t.parent = f.up /\ Ordered(f) /\ SidesAgree(t, f) /\ EndsAgree(t, f)
      /\ p \in Node /\ n \in Node /\ p # n /\ f.up[n] = NULL
      /\ t.next[n] = NULL /\ t.prev[n] = NULL
      /\ \A x \in Node : ~Precedes(f, x, n) /\ ~Precedes(f, n, x)
      /\ \A x \in Node : t.next[x] # n /\ t.prev[x] # n /\ t.child[x] # n /\ t.last_child[x] # n
  BY PlaceFacts
<1>2. ForestType(g) /\ Ordered(g)
  BY PlacedOrdered
<1>3. u \in Links /\ u.parent = g.up
  BY <1>1 DEF LinkedLast, Links, Link, Placed
<1>4. /\ \A x \in Node : u.next[x] = IF x = end THEN n ELSE t.next[x]
      /\ \A x \in Node : u.prev[x] = IF x = n THEN end ELSE t.prev[x]
      /\ \A q \in Node : u.child[q] = IF q = p /\ end = NULL THEN n ELSE t.child[q]
      /\ \A q \in Node : u.last_child[q] = IF q = p THEN n ELSE t.last_child[q]
  BY <1>1 DEF LinkedLast, Link
<1>5. /\ \A x \in Node : g.up[x] = IF x = n THEN p ELSE f.up[x]
      /\ \A a, b \in Node : Precedes(g, a, b) <=> Precedes(f, a, b) \/ (b = n /\ f.up[a] = p)
  BY <1>1 DEF Placed, Link, Precedes, KidsOf
<1>6. /\ end \in Node \cup {NULL} /\ end # n
      /\ end # NULL => f.up[end] = p /\ t.next[end] = NULL
      /\ \A x \in Node : f.up[x] = p => end # NULL /\ (x = end \/ Precedes(f, x, end))
  BY <1>1, NullIsNoNode DEF EndsAgree, SidesAgree, Ordered, Link, KidsOf
<1> HIDE DEF u, g, end
<1>7. SidesAgree(u, g)
  <2>1. \A x \in Node : u.next[x] # NULL => u.prev[u.next[x]] = x
    BY <1>1, <1>4, <1>6, NullIsNoNode DEF SidesAgree, Link
  <2>2. \A x \in Node : u.next[x] # NULL => Precedes(g, x, u.next[x])
    BY <1>1, <1>4, <1>5, <1>6, NullIsNoNode DEF SidesAgree, Link
  <2>3. \A x, k \in Node : u.next[x] # NULL => ~(Precedes(g, x, k) /\ Precedes(g, k, u.next[x]))
    BY <1>1, <1>4, <1>5, <1>6, NullIsNoNode DEF SidesAgree, Link
  <2>4. \A x \in Node : u.prev[x] # NULL => u.next[u.prev[x]] = x
    BY <1>1, <1>4, <1>6, NullIsNoNode DEF SidesAgree, Link
  <2>5. \A x, k \in Node : u.next[x] = NULL => ~Precedes(g, x, k)
    BY <1>1, <1>4, <1>5, <1>6, NullIsNoNode DEF SidesAgree, Link
  <2>6. \A x, k \in Node : u.prev[x] = NULL => ~Precedes(g, k, x)
    BY <1>1, <1>4, <1>5, <1>6, NullIsNoNode DEF SidesAgree, Link
  <2> QED BY <2>1, <2>2, <2>3, <2>4, <2>5, <2>6 DEF SidesAgree
<1>8. EndsAgree(u, g)
  <2>1. \A q \in Node : u.child[q] # NULL => g.up[u.child[q]] = q /\ u.prev[u.child[q]] = NULL
    BY <1>1, <1>4, <1>5, <1>6, NullIsNoNode DEF EndsAgree, Link
  <2>2. \A q \in Node : u.last_child[q] # NULL => g.up[u.last_child[q]] = q /\ u.next[u.last_child[q]] = NULL
    BY <1>1, <1>4, <1>5, <1>6, NullIsNoNode DEF EndsAgree, Link
  <2>3. \A q, x \in Node : u.child[q] = NULL \/ u.last_child[q] = NULL => g.up[x] # q
    BY <1>1, <1>4, <1>5, <1>6, NullIsNoNode DEF EndsAgree, Link, KidsOf
  <2> QED BY <2>1, <2>2, <2>3 DEF EndsAgree, KidsOf
<1> QED BY <1>2, <1>3, <1>7, <1>8 DEF Good, Represents, u, g

LEMMA BeforeRepresents ==
  ASSUME NEW t, NEW f, NEW p, NEW n, NEW c \in Node, NEW early,
         Place(t, f, p, n, early), f.up[c] = p,
         \A m \in Node : m \in early <=> Precedes(f, m, c)
  PROVE  Good(LinkedBefore(t, p, c, n), Placed(f, p, n, early))
<1> DEFINE u == LinkedBefore(t, p, c, n)
           g == Placed(f, p, n, early)
           left == t.prev[c]
<1>1. /\ t.parent \in Link /\ t.next \in Link /\ t.prev \in Link
      /\ t.child \in Link /\ t.last_child \in Link
      /\ t.parent = f.up /\ Ordered(f) /\ SidesAgree(t, f) /\ EndsAgree(t, f)
      /\ p \in Node /\ n \in Node /\ p # n /\ f.up[n] = NULL
      /\ t.next[n] = NULL /\ t.prev[n] = NULL
      /\ \A x \in Node : ~Precedes(f, x, n) /\ ~Precedes(f, n, x)
      /\ \A x \in Node : t.next[x] # n /\ t.prev[x] # n /\ t.child[x] # n /\ t.last_child[x] # n
  BY PlaceFacts
<1>2. ForestType(g) /\ Ordered(g)
  BY PlacedOrdered
<1>3. u \in Links /\ u.parent = g.up
  BY <1>1 DEF LinkedBefore, Links, Link, Placed
<1>4. /\ \A x \in Node : u.next[x] = IF x = n THEN c ELSE IF x = left THEN n ELSE t.next[x]
      /\ \A x \in Node : u.prev[x] = IF x = n THEN left ELSE IF x = c THEN n ELSE t.prev[x]
      /\ \A q \in Node : u.child[q] = IF q = p /\ left = NULL THEN n ELSE t.child[q]
      /\ \A q \in Node : u.last_child[q] = t.last_child[q]
  BY <1>1 DEF LinkedBefore, Link
<1>5. /\ \A x \in Node : g.up[x] = IF x = n THEN p ELSE f.up[x]
      /\ \A a, b \in Node : Precedes(g, a, b) <=>
           \/ Precedes(f, a, b)
           \/ b = n /\ Precedes(f, a, c)
           \/ a = n /\ f.up[b] = p /\ ~Precedes(f, b, c)
  BY <1>1 DEF Placed, Link, Precedes, KidsOf, Place, Closed
<1>6. /\ c \in Node /\ c # n /\ f.up[c] = p /\ left = t.prev[c]
      /\ left \in Node \cup {NULL} /\ left # n /\ left # c
      /\ left # NULL => f.up[left] = p /\ t.next[left] = c
      /\ \A x \in Node : Precedes(f, x, c) => left # NULL /\ (x = left \/ Precedes(f, x, left))
      /\ left # NULL => Precedes(f, left, c)
      /\ \A x \in Node : f.up[x] = p /\ ~Precedes(f, x, c) => x = c \/ Precedes(f, c, x)
  <2>1. c # n /\ left \in Node \cup {NULL} /\ left # n
    BY <1>1, NullIsNoNode DEF Link
  <2>2. left # NULL => t.next[left] = c /\ Precedes(f, left, c) /\ f.up[left] = p /\ left # c
    BY <1>1, NullIsNoNode DEF Link, SidesAgree, Ordered
  <2>3. ASSUME NEW x \in Node, Precedes(f, x, c)
        PROVE  left # NULL /\ (x = left \/ Precedes(f, x, left))
    <3>1. left # NULL
      BY <1>1, <2>3 DEF SidesAgree
    <3>2. f.up[x] = p
      BY <1>1, <2>3 DEF Ordered
    <3>3. x = left \/ Precedes(f, x, left) \/ Precedes(f, left, x)
      BY <1>1, <2>1, <2>2, <3>1, <3>2, NullIsNoNode DEF Ordered
    <3>4. ~Precedes(f, left, x)
      BY <1>1, <2>1, <2>2, <2>3, <3>1, NullIsNoNode DEF SidesAgree
    <3> QED BY <3>1, <3>3, <3>4
  <2>4. \A x \in Node : f.up[x] = p /\ ~Precedes(f, x, c) => x = c \/ Precedes(f, c, x)
    BY <1>1, NullIsNoNode DEF Ordered
  <2> QED BY <2>1, <2>2, <2>3, <2>4, <1>1, NullIsNoNode
<1> HIDE DEF u, g, left
<1>7. SidesAgree(u, g)
  <2>1. \A x \in Node : u.next[x] # NULL => u.prev[u.next[x]] = x
    BY <1>1, <1>4, <1>6, NullIsNoNode DEF SidesAgree, Link
  <2>2. \A x \in Node : u.next[x] # NULL => Precedes(g, x, u.next[x])
    BY <1>1, <1>4, <1>5, <1>6, NullIsNoNode DEF SidesAgree, Link
  <2>3. \A x, k \in Node : u.next[x] # NULL => ~(Precedes(g, x, k) /\ Precedes(g, k, u.next[x]))
    BY <1>1, <1>4, <1>5, <1>6, NullIsNoNode DEF SidesAgree, Link
  <2>4. \A x \in Node : u.prev[x] # NULL => u.next[u.prev[x]] = x
    BY <1>1, <1>4, <1>6, NullIsNoNode DEF SidesAgree, Link
  <2>5. \A x, k \in Node : u.next[x] = NULL => ~Precedes(g, x, k)
    BY <1>1, <1>4, <1>5, <1>6, NullIsNoNode DEF SidesAgree, Link
  <2>6. \A x, k \in Node : u.prev[x] = NULL => ~Precedes(g, k, x)
    BY <1>1, <1>4, <1>5, <1>6, NullIsNoNode DEF SidesAgree, Link
  <2> QED BY <2>1, <2>2, <2>3, <2>4, <2>5, <2>6 DEF SidesAgree
<1>8. EndsAgree(u, g)
  <2>1. \A q \in Node : u.child[q] # NULL => g.up[u.child[q]] = q /\ u.prev[u.child[q]] = NULL
    BY <1>1, <1>4, <1>5, <1>6, NullIsNoNode DEF EndsAgree, Link
  <2>2. \A q \in Node : u.last_child[q] # NULL => g.up[u.last_child[q]] = q /\ u.next[u.last_child[q]] = NULL
    BY <1>1, <1>4, <1>5, <1>6, NullIsNoNode DEF EndsAgree, Link
  <2>3. \A q, x \in Node : u.child[q] = NULL \/ u.last_child[q] = NULL => g.up[x] # q
    BY <1>1, <1>4, <1>5, <1>6, NullIsNoNode DEF EndsAgree, Link, KidsOf
  <2> QED BY <2>1, <2>2, <2>3 DEF EndsAgree, KidsOf
<1> QED BY <1>2, <1>3, <1>7, <1>8 DEF Good, Represents, u, g

LEMMA AfterRepresents ==
  ASSUME NEW t, NEW f, NEW p, NEW n, NEW c \in Node, NEW early,
         Place(t, f, p, n, early), f.up[c] = p,
         \A m \in Node : m \in early <=> m = c \/ Precedes(f, m, c)
  PROVE  Good(LinkedAfter(t, p, c, n), Placed(f, p, n, early))
<1> DEFINE u == LinkedAfter(t, p, c, n)
           g == Placed(f, p, n, early)
           right == t.next[c]
<1>1. /\ t.parent \in Link /\ t.next \in Link /\ t.prev \in Link
      /\ t.child \in Link /\ t.last_child \in Link
      /\ t.parent = f.up /\ Ordered(f) /\ SidesAgree(t, f) /\ EndsAgree(t, f)
      /\ p \in Node /\ n \in Node /\ p # n /\ f.up[n] = NULL
      /\ t.next[n] = NULL /\ t.prev[n] = NULL
      /\ \A x \in Node : ~Precedes(f, x, n) /\ ~Precedes(f, n, x)
      /\ \A x \in Node : t.next[x] # n /\ t.prev[x] # n /\ t.child[x] # n /\ t.last_child[x] # n
  BY PlaceFacts
<1>2. ForestType(g) /\ Ordered(g)
  BY PlacedOrdered
<1>3. u \in Links /\ u.parent = g.up
  BY <1>1 DEF LinkedAfter, Links, Link, Placed
<1>4. /\ \A x \in Node : u.next[x] = IF x = n THEN right ELSE IF x = c THEN n ELSE t.next[x]
      /\ \A x \in Node : u.prev[x] = IF x = n THEN c ELSE IF x = right THEN n ELSE t.prev[x]
      /\ \A q \in Node : u.child[q] = t.child[q]
      /\ \A q \in Node : u.last_child[q] = IF q = p /\ right = NULL THEN n ELSE t.last_child[q]
  BY <1>1 DEF LinkedAfter, Link
<1>5. /\ \A x \in Node : g.up[x] = IF x = n THEN p ELSE f.up[x]
      /\ \A a, b \in Node : Precedes(g, a, b) <=>
           \/ Precedes(f, a, b)
           \/ b = n /\ (a = c \/ Precedes(f, a, c))
           \/ a = n /\ f.up[b] = p /\ b # c /\ ~Precedes(f, b, c)
  BY <1>1 DEF Placed, Link, Precedes, KidsOf, Place, Closed
<1>6. /\ c \in Node /\ c # n /\ f.up[c] = p /\ right = t.next[c]
      /\ right \in Node \cup {NULL} /\ right # n /\ right # c
      /\ right # NULL => f.up[right] = p /\ t.prev[right] = c /\ Precedes(f, c, right)
      /\ \A x \in Node : Precedes(f, c, x) => right # NULL /\ (x = right \/ Precedes(f, right, x))
      /\ \A x \in Node : f.up[x] = p => x = c \/ Precedes(f, x, c) \/ Precedes(f, c, x)
      /\ \A x \in Node : Precedes(f, c, x) => x # c /\ ~Precedes(f, x, c)
  <2>1. c # n /\ right \in Node \cup {NULL} /\ right # n
    BY <1>1, NullIsNoNode DEF Link
  <2>2. right # NULL => t.prev[right] = c /\ Precedes(f, c, right) /\ f.up[right] = p /\ right # c
    BY <1>1, <2>1, NullIsNoNode DEF Link, SidesAgree, Ordered
  <2>3. ASSUME NEW x \in Node, Precedes(f, c, x)
        PROVE  right # NULL /\ (x = right \/ Precedes(f, right, x))
    <3>1. right # NULL
      BY <1>1, <2>3 DEF SidesAgree
    <3>2. f.up[x] = p
      BY <1>1, <2>3 DEF Ordered
    <3>3. x = right \/ Precedes(f, x, right) \/ Precedes(f, right, x)
      BY <1>1, <2>1, <2>2, <3>1, <3>2, NullIsNoNode DEF Ordered
    <3>4. ~Precedes(f, x, right)
      BY <1>1, <2>1, <2>2, <2>3, <3>1, NullIsNoNode DEF SidesAgree
    <3> QED BY <3>1, <3>3, <3>4
  <2>4. \A x \in Node : f.up[x] = p => x = c \/ Precedes(f, x, c) \/ Precedes(f, c, x)
    BY <1>1, NullIsNoNode DEF Ordered
  <2>5. \A x \in Node : Precedes(f, c, x) => x # c /\ ~Precedes(f, x, c)
    BY <1>1 DEF Ordered
  <2> QED BY <2>1, <2>2, <2>3, <2>4, <2>5, <1>1, NullIsNoNode
<1> HIDE DEF u, g, right
<1>7. SidesAgree(u, g)
  <2>1. \A x \in Node : u.next[x] # NULL => u.prev[u.next[x]] = x
    BY <1>1, <1>4, <1>6, NullIsNoNode DEF SidesAgree, Link
  <2>2. \A x \in Node : u.next[x] # NULL => Precedes(g, x, u.next[x])
    BY <1>1, <1>4, <1>5, <1>6, NullIsNoNode DEF SidesAgree, Link
  <2>3. \A x, k \in Node : u.next[x] # NULL => ~(Precedes(g, x, k) /\ Precedes(g, k, u.next[x]))
    BY <1>1, <1>4, <1>5, <1>6, NullIsNoNode DEF SidesAgree, Link
  <2>4. \A x \in Node : u.prev[x] # NULL => u.next[u.prev[x]] = x
    BY <1>1, <1>4, <1>6, NullIsNoNode DEF SidesAgree, Link
  <2>5. \A x, k \in Node : u.next[x] = NULL => ~Precedes(g, x, k)
    BY <1>1, <1>4, <1>5, <1>6, NullIsNoNode DEF SidesAgree, Link
  <2>6. \A x, k \in Node : u.prev[x] = NULL => ~Precedes(g, k, x)
    BY <1>1, <1>4, <1>5, <1>6, NullIsNoNode DEF SidesAgree, Link
  <2> QED BY <2>1, <2>2, <2>3, <2>4, <2>5, <2>6 DEF SidesAgree
<1>8. EndsAgree(u, g)
  <2>1. \A q \in Node : u.child[q] # NULL => g.up[u.child[q]] = q /\ u.prev[u.child[q]] = NULL
    BY <1>1, <1>4, <1>5, <1>6, NullIsNoNode DEF EndsAgree, Link
  <2>2. \A q \in Node : u.last_child[q] # NULL => g.up[u.last_child[q]] = q /\ u.next[u.last_child[q]] = NULL
    BY <1>1, <1>4, <1>5, <1>6, NullIsNoNode DEF EndsAgree, Link
  <2>3. \A q, x \in Node : u.child[q] = NULL \/ u.last_child[q] = NULL => g.up[x] # q
    BY <1>1, <1>4, <1>5, <1>6, NullIsNoNode DEF EndsAgree, Link, KidsOf
  <2> QED BY <2>1, <2>2, <2>3 DEF EndsAgree, KidsOf
<1> QED BY <1>2, <1>3, <1>7, <1>8 DEF Good, Represents, u, g

LEMMA EarlyClosed ==
  ASSUME NEW f, NEW p \in Node, NEW c, NEW where, ForestType(f), Ordered(f)
  PROVE  Closed(f, p, EarlyAt(f, p, where, c))
<1>1. EarlyAt(f, p, where, c) \subseteq KidsOf(f, p)
  BY DEF EarlyAt
<1>2. ASSUME NEW a \in Node, NEW b \in Node, b \in EarlyAt(f, p, where, c), Precedes(f, a, b)
      PROVE  a \in EarlyAt(f, p, where, c)
  <2>1. b \in KidsOf(f, p) /\ a \in KidsOf(f, p)
    BY <1>1, <1>2 DEF KidsOf, Ordered
  <2>2. CASE c \in KidsOf(f, p)
    <3>1. Precedes(f, b, c) \/ (where = "after" /\ b = c)
      BY <1>2, <2>2 DEF EarlyAt
    <3>2. Precedes(f, a, c)
      BY <1>2, <2>1, <2>2, <3>1 DEF Ordered, KidsOf
    <3> QED BY <2>1, <2>2, <3>2 DEF EarlyAt
  <2>3. CASE c \notin KidsOf(f, p)
    BY <1>2, <2>1, <2>3 DEF EarlyAt
  <2> QED BY <2>2, <2>3
<1> QED BY <1>1, <1>2 DEF Closed

(* Whichever of its four ways mxmlAdd takes, the node is where the caller  *)
(* asked for it.                                                           *)
LEMMA LinkedAtRepresents ==
  ASSUME NEW t, NEW f, NEW p \in Node, NEW n \in Node, NEW c \in Node \cup {NULL},
         NEW where \in {"before", "after"},
         Good(t, f), p # n, c # n, f.up[n] = NULL
  PROVE  Good(LinkedAt(t, p, where, c, n), Placed(f, p, n, EarlyAt(f, p, where, c)))
<1> DEFINE early == EarlyAt(f, p, where, c)
<1>1. Place(t, f, p, n, early)
  BY EarlyClosed DEF Place, Good
<1>2. /\ t.parent = f.up /\ SidesAgree(t, f) /\ EndsAgree(t, f) /\ Ordered(f)
      /\ t.child \in Link /\ t.last_child \in Link
  BY DEF Good, Represents, Links
<1>3. c \in KidsOf(f, p) <=> c # NULL /\ t.parent[c] = p
  BY <1>2, NullIsNoNode DEF KidsOf
<1>4. CASE where = "before" /\ IsPlace(t, p, c, t.child[p])
  <2>1. c \in Node /\ f.up[c] = p /\ c \in KidsOf(f, p)
    BY <1>2, <1>3, <1>4 DEF IsPlace
  <2>2. \A m \in Node : m \in early <=> Precedes(f, m, c)
    BY <1>2, <1>4, <2>1 DEF EarlyAt, KidsOf, Ordered
  <2> HIDE DEF early
  <2> QED BY <1>1, <1>4, <2>1, <2>2, BeforeRepresents DEF LinkedAt, early
<1>5. CASE where = "before" /\ ~IsPlace(t, p, c, t.child[p])
  <2>1. early = {}
    <3>1. CASE c \in KidsOf(f, p)
      <4>1. c = t.child[p] /\ c # NULL
        BY <1>3, <1>5, <3>1 DEF IsPlace
      <4>2. \A k \in Node : ~Precedes(f, k, c)
        BY <1>2, <4>1, NullIsNoNode DEF EndsAgree, SidesAgree
      <4> QED BY <1>5, <3>1, <4>2 DEF EarlyAt, KidsOf
    <3>2. CASE c \notin KidsOf(f, p)
      BY <1>5, <3>2 DEF EarlyAt
    <3> QED BY <3>1, <3>2
  <2> HIDE DEF early
  <2> QED BY <1>1, <1>5, <2>1, FirstRepresents DEF LinkedAt, early
<1>6. CASE where = "after" /\ IsPlace(t, p, c, t.last_child[p])
  <2>1. c \in Node /\ f.up[c] = p /\ c \in KidsOf(f, p)
    BY <1>2, <1>3, <1>6 DEF IsPlace
  <2>2. \A m \in Node : m \in early <=> m = c \/ Precedes(f, m, c)
    BY <1>2, <1>6, <2>1 DEF EarlyAt, KidsOf, Ordered
  <2> HIDE DEF early
  <2> QED BY <1>1, <1>6, <2>1, <2>2, AfterRepresents DEF LinkedAt, early
<1>7. CASE where = "after" /\ ~IsPlace(t, p, c, t.last_child[p])
  <2>1. early = KidsOf(f, p)
    <3>1. CASE c \in KidsOf(f, p)
      <4>1. c = t.last_child[p] /\ c # NULL /\ c \in Node /\ f.up[c] = p
        BY <1>3, <1>7, <3>1 DEF IsPlace, KidsOf
      <4>2. \A k \in Node : ~Precedes(f, c, k)
        BY <1>2, <4>1, NullIsNoNode DEF EndsAgree, SidesAgree
      <4>3. \A m \in KidsOf(f, p) : Precedes(f, m, c) \/ m = c
        BY <1>2, <4>1, <4>2, NullIsNoNode DEF KidsOf, Ordered
      <4> QED BY <1>7, <3>1, <4>3 DEF EarlyAt
    <3>2. CASE c \notin KidsOf(f, p)
      BY <1>7, <3>2 DEF EarlyAt
    <3> QED BY <3>1, <3>2
  <2> HIDE DEF early
  <2> QED BY <1>1, <1>7, <2>1, LastRepresents DEF LinkedAt, early
<1> QED BY <1>4, <1>5, <1>6, <1>7

(***************************************************************************)
(* The inductive invariant: the pointers represent the forest, only nodes  *)
(* that are alive are in it, and the nodes being deleted are alive, out of *)
(* it, and each on the stack once.                                         *)
(***************************************************************************)
DoomedOnce ==
  /\ \A i \in 1 .. Len(doomed) : Live(doomed[i]) /\ forest.up[doomed[i]] = NULL
  /\ \A i, j \in 1 .. Len(doomed) : doomed[i] = doomed[j] => i = j
ForestAlive == \A n \in Node : forest.up[n] # NULL => Live(n) /\ Live(forest.up[n])
NodeInv == NodeTypeOK /\ PointersRepresent /\ ForestAlive /\ DoomedOnce

LEMMA InvGood == NodeInv => Good(links, forest)
BY DEF NodeInv, NodeTypeOK, PointersRepresent, Good

LEMMA InvInit == NodeInit => NodeInv
<1> SUFFICES ASSUME NodeInit PROVE NodeInv
  OBVIOUS
<1>1. NodeTypeOK
  BY FreeIsNoKind DEF NodeInit, NodeTypeOK, ForestType, EmptyForest, NoLinks, NoLink, Links, Link
<1>2. PointersRepresent
  <2>1. /\ \A n \in Node : /\ forest.up[n] = NULL
                          /\ links.child[n] = NULL /\ links.last_child[n] = NULL
                          /\ links.prev[n] = NULL /\ links.next[n] = NULL
        /\ links.parent = forest.up /\ forest.before = {}
    BY DEF NodeInit, EmptyForest, NoLinks, NoLink
  <2>2. \A p \in Node : KidsOf(forest, p) = {}
    BY <2>1, NullIsNoNode DEF KidsOf
  <2> QED BY <2>1, <2>2 DEF PointersRepresent, Ordered, Represents, SidesAgree, EndsAgree, Precedes
<1>3. ForestAlive /\ DoomedOnce
  BY DEF NodeInit, ForestAlive, DoomedOnce, EmptyForest, NoLink
<1> QED BY <1>1, <1>2, <1>3 DEF NodeInv

(* mxmlDelete and each of its recursive calls start in the same way. *)
LEMMA EnterKeeps ==
  ASSUME NodeInv, NEW n \in Node, Live(n), Enter(n), UNCHANGED kind,
         \A i \in 1 .. Len(doomed) : doomed[i] # n
  PROVE  links' \in Links /\ ForestType(forest') /\ PointersRepresent' /\ ForestAlive'
         /\ DoomedOnce' /\ doomed' \in Seq(Node)
<1>1. Good(links', forest')
  BY InvGood, RemovedRepresents DEF Enter
<1>2. \A x \in Node : forest'.up[x] = IF x = n THEN NULL ELSE forest.up[x]
  BY DEF Enter, Detached, NodeInv, NodeTypeOK, ForestType, Link
<1>3. ForestAlive'
  BY <1>2 DEF NodeInv, ForestAlive, Live
<1>4. doomed \in Seq(Node) /\ doomed' = <<n>> \o doomed
  BY DEF NodeInv, NodeTypeOK, Enter
<1>5. /\ doomed' \in Seq(Node) /\ Len(doomed') = Len(doomed) + 1
      /\ doomed'[1] = n
      /\ \A i \in 1 .. Len(doomed) : doomed'[i + 1] = doomed[i]
      /\ \A i \in 1 .. Len(doomed') : i = 1 \/ (i - 1 \in 1 .. Len(doomed) /\ doomed'[i] = doomed[i - 1])
  BY <1>4
<1>6. DoomedOnce'
  <2>1. \A i \in 1 .. Len(doomed) : doomed[i] \in Node
    BY <1>4
  <2>2. \A i \in 1 .. Len(doomed') : kind'[doomed'[i]] # "free" /\ forest'.up[doomed'[i]] = NULL
    <3> SUFFICES ASSUME NEW i \in 1 .. Len(doomed')
                 PROVE  kind[doomed'[i]] # "free" /\ forest'.up[doomed'[i]] = NULL
      OBVIOUS
    <3>1. CASE i = 1
      BY <1>2, <1>5, <3>1 DEF Live
    <3>2. CASE i # 1
      <4>1. i - 1 \in 1 .. Len(doomed) /\ doomed'[i] = doomed[i - 1]
        BY <1>5, <3>2
      <4>2. Live(doomed[i - 1]) /\ forest.up[doomed[i - 1]] = NULL
        BY <4>1 DEF NodeInv, DoomedOnce
      <4> QED BY <1>2, <2>1, <4>1, <4>2 DEF Live
    <3> QED BY <3>1, <3>2
  <2>3. ASSUME NEW i \in 1 .. Len(doomed'), NEW j \in 1 .. Len(doomed'), doomed'[i] = doomed'[j]
        PROVE  i = j
    <3>1. CASE i = 1 \/ j = 1
      BY <1>5, <2>3, <3>1
    <3>2. CASE i # 1 /\ j # 1
      <4>1. i - 1 = j - 1
        BY <1>5, <2>3, <3>2 DEF NodeInv, DoomedOnce
      <4> QED BY <4>1
    <3> QED BY <3>1, <3>2
  <2> QED BY <2>2, <2>3 DEF DoomedOnce, Live
<1> QED BY <1>1, <1>3, <1>5, <1>6 DEF Good, PointersRepresent

LEMMA NewKeeps ==
  ASSUME NodeInv, NEW n \in Node, NEW p \in Node \cup {NULL}, NEW k \in Kinds, New(p, k, n)
  PROVE  NodeInv'
<1>1. CASE p = NULL
  <2>1. links' = links /\ forest' = forest /\ doomed' = doomed
    BY <1>1 DEF New
  <2>2. NodeTypeOK'
    BY <2>1 DEF New, NodeInv, NodeTypeOK
  <2>3. ForestAlive' /\ DoomedOnce'
    BY <2>1, FreeIsNoKind DEF New, NodeInv, NodeTypeOK, ForestAlive, DoomedOnce, Live, Idle
  <2> QED BY <2>1, <2>2, <2>3 DEF NodeInv, PointersRepresent
<1>2. CASE p # NULL
  <2>1. p \in Node /\ p # n /\ forest.up[n] = NULL
    BY <1>2 DEF New, NodeInv, ForestAlive
  <2>2. EarlyAt(forest, p, "after", NULL) = KidsOf(forest, p)
    BY NullIsNoNode DEF EarlyAt, KidsOf
  <2>3. Good(links', forest')
    <3>1. /\ links' = LinkedAt(links, p, "after", NULL, n)
          /\ forest' = Placed(forest, p, n, EarlyAt(forest, p, "after", NULL))
      BY <1>2, <2>2 DEF New
    <3>2. Good(LinkedAt(links, p, "after", NULL, n),
               Placed(forest, p, n, EarlyAt(forest, p, "after", NULL)))
      BY <2>1, InvGood, LinkedAtRepresents, NullIsNoNode
    <3> QED BY <3>1, <3>2
  <2>4. \A x \in Node : forest'.up[x] = IF x = n THEN p ELSE forest.up[x]
    BY <1>2, <2>1 DEF New, Placed, NodeInv, NodeTypeOK, ForestType, Link
  <2>5. ForestAlive' /\ DoomedOnce'
    BY <1>2, <2>1, <2>4, FreeIsNoKind DEF New, NodeInv, NodeTypeOK, ForestAlive, DoomedOnce, Live, Idle
  <2>6. NodeTypeOK'
    BY <2>3 DEF New, NodeInv, NodeTypeOK, Good
  <2> QED BY <2>3, <2>5, <2>6 DEF NodeInv, PointersRepresent, Good
<1> QED BY <1>1, <1>2

LEMMA AddKeeps ==
  ASSUME NodeInv, NEW n \in Node, NEW p \in Node, NEW c \in Node \cup {NULL},
         NEW where \in {"before", "after"}, Add(p, where, c, n)
  PROVE  NodeInv'
<1> DEFINE t == Removed(links, n)
           f == Detached(forest, n)
<1>1. Good(t, f) /\ f.up[n] = NULL
  <2>1. Good(t, f)
    BY InvGood, RemovedRepresents
  <2>2. f.up[n] = NULL
    BY DEF Detached, NodeInv, NodeTypeOK, ForestType, Link
  <2> QED BY <2>1, <2>2
<1>2. links' = LinkedAt(t, p, where, c, n) /\ forest' = Placed(f, p, n, EarlyAt(f, p, where, c))
  BY DEF Add
<1>3. Good(links', forest')
  <2> HIDE DEF t, f
  <2> QED BY <1>1, <1>2, LinkedAtRepresents DEF Add
<1>4. \A x \in Node : forest'.up[x] = IF x = n THEN p ELSE forest.up[x]
  BY DEF Add, Placed, Detached, NodeInv, NodeTypeOK, ForestType, Link
<1>5. ForestAlive' /\ DoomedOnce'
  BY <1>4 DEF Add, NodeInv, NodeTypeOK, ForestAlive, DoomedOnce, Live, Idle
<1>6. NodeTypeOK'
  BY <1>3 DEF Add, NodeInv, NodeTypeOK, Good
<1> QED BY <1>3, <1>5, <1>6 DEF NodeInv, PointersRepresent, Good

LEMMA RemoveKeeps ==
  ASSUME NodeInv, NEW n \in Node, RemoveNode(n)
  PROVE  NodeInv'
<1>1. Good(links', forest')
  BY InvGood, RemovedRepresents DEF RemoveNode
<1>2. \A x \in Node : forest'.up[x] = IF x = n THEN NULL ELSE forest.up[x]
  BY DEF RemoveNode, Detached, NodeInv, NodeTypeOK, ForestType, Link
<1>3. ForestAlive' /\ DoomedOnce'
  BY <1>2 DEF RemoveNode, NodeInv, NodeTypeOK, ForestAlive, DoomedOnce, Live, Idle
<1>4. NodeTypeOK'
  BY <1>1 DEF RemoveNode, NodeInv, NodeTypeOK, Good
<1> QED BY <1>1, <1>3, <1>4 DEF NodeInv, PointersRepresent, Good

LEMMA DeleteKeeps ==
  ASSUME NodeInv, NEW n \in Node, Delete(n)
  PROVE  NodeInv'
<1>1. \A i \in 1 .. Len(doomed) : doomed[i] # n
  BY DEF Delete, Idle
<1>2. Live(n) /\ Enter(n) /\ UNCHANGED kind /\ UNCHANGED refs /\ victims' \in SUBSET Node
  BY DEF Delete, Subtree
<1>3. links' \in Links /\ ForestType(forest') /\ PointersRepresent' /\ ForestAlive'
      /\ DoomedOnce' /\ doomed' \in Seq(Node)
  BY <1>1, <1>2, EnterKeeps
<1> QED BY <1>2, <1>3 DEF NodeInv, NodeTypeOK

LEMMA ReleaseKeeps ==
  ASSUME NodeInv, NEW n \in Node, Release(n)
  PROVE  NodeInv'
<1>1. refs' \in [Node -> Int] /\ UNCHANGED kind
  BY DEF Release, NodeInv, NodeTypeOK
<1>2. CASE refs'[n] <= 0
  <2>1. \A i \in 1 .. Len(doomed) : doomed[i] # n
    BY DEF Release, Idle
  <2>2. Live(n) /\ Enter(n) /\ victims' \in SUBSET Node
    BY <1>2 DEF Release, Subtree
  <2>3. links' \in Links /\ ForestType(forest') /\ PointersRepresent' /\ ForestAlive'
        /\ DoomedOnce' /\ doomed' \in Seq(Node)
    BY <1>1, <2>1, <2>2, EnterKeeps
  <2> QED BY <1>1, <2>2, <2>3 DEF NodeInv, NodeTypeOK
<1>3. CASE ~(refs'[n] <= 0)
  BY <1>1, <1>3 DEF Release, NodeInv, NodeTypeOK, PointersRepresent, ForestAlive, DoomedOnce, Live
<1> QED BY <1>2, <1>3

LEMMA DeleteChildKeeps ==
  ASSUME NodeInv, DeleteChild
  PROVE  NodeInv'
<1> DEFINE c == links.child[Head(doomed)]
<1>1. doomed \in Seq(Node) /\ doomed # <<>> /\ Head(doomed) \in Node
  BY DEF DeleteChild, Idle, NodeInv, NodeTypeOK
<1>2. c \in Node /\ forest.up[c] = Head(doomed)
  BY <1>1 DEF DeleteChild, NodeInv, NodeTypeOK, PointersRepresent, Represents, EndsAgree, Links, Link
<1>3. Live(c) /\ \A i \in 1 .. Len(doomed) : doomed[i] # c
  BY <1>1, <1>2, NullIsNoNode DEF NodeInv, ForestAlive, DoomedOnce
<1>4. Enter(c) /\ UNCHANGED <<kind, refs, victims>>
  BY DEF DeleteChild
<1> HIDE DEF c
<1>5. links' \in Links /\ ForestType(forest') /\ PointersRepresent' /\ ForestAlive'
      /\ DoomedOnce' /\ doomed' \in Seq(Node)
  BY <1>2, <1>3, <1>4, EnterKeeps
<1> QED BY <1>4, <1>5 DEF NodeInv, NodeTypeOK

(* When a node is freed nothing is under it any more. *)
LEMMA FreeKeeps ==
  ASSUME NodeInv, Free
  PROVE  NodeInv'
<1> DEFINE h == Head(doomed)
<1>1. /\ doomed \in Seq(Node) /\ doomed # <<>> /\ h \in Node /\ h = doomed[1] /\ Len(doomed) >= 1
      /\ doomed' = Tail(doomed)
  BY DEF Free, Idle, NodeInv, NodeTypeOK
<1>2. /\ doomed' \in Seq(Node) /\ Len(doomed') = Len(doomed) - 1
      /\ \A i \in 1 .. Len(doomed') : i + 1 \in 1 .. Len(doomed) /\ doomed'[i] = doomed[i + 1]
  BY <1>1
<1>3. links' = links /\ forest' = forest /\ refs' = refs /\ victims' = victims
  BY DEF Free
<1>4. \A x \in Node : kind'[x] = IF x = h THEN "free" ELSE kind[x]
  BY <1>1 DEF Free, NodeInv, NodeTypeOK
<1>5. forest.up[h] = NULL /\ \A x \in Node : forest.up[x] # h
  <2>1. forest.up[h] = NULL
    BY <1>1 DEF NodeInv, DoomedOnce
  <2>2. KidsOf(forest, h) = {}
    BY <1>1 DEF Free, NodeInv, PointersRepresent, Represents, EndsAgree
  <2> QED BY <2>1, <2>2 DEF KidsOf
<1>6. NodeTypeOK'
  BY <1>2, <1>3 DEF Free, NodeInv, NodeTypeOK
<1> HIDE DEF h
<1>7. ForestAlive'
  <2>1. forest.up \in Link
    BY DEF NodeInv, NodeTypeOK, ForestType
  <2> QED BY <1>3, <1>4, <1>5, <2>1 DEF NodeInv, ForestAlive, Live, Link
<1>8. DoomedOnce'
  <2>1. \A i \in 1 .. Len(doomed') : doomed'[i] \in Node /\ doomed'[i] # h
    <3>1. \A i \in 1 .. Len(doomed) : doomed[i] \in Node /\ (doomed[i] = h => i = 1)
      BY <1>1 DEF NodeInv, DoomedOnce
    <3> QED BY <1>1, <1>2, <3>1
  <2>2. \A i \in 1 .. Len(doomed') : kind'[doomed'[i]] # "free" /\ forest'.up[doomed'[i]] = NULL
    BY <1>2, <1>3, <1>4, <2>1 DEF NodeInv, DoomedOnce, Live
  <2>3. ASSUME NEW i \in 1 .. Len(doomed'), NEW j \in 1 .. Len(doomed'), doomed'[i] = doomed'[j]
        PROVE  i = j
    <3>1. i + 1 = j + 1
      BY <1>2, <2>3 DEF NodeInv, DoomedOnce
    <3> QED BY <3>1
  <2> QED BY <2>2, <2>3 DEF DoomedOnce, Live
<1> QED BY <1>3, <1>6, <1>7, <1>8 DEF NodeInv, PointersRepresent

LEMMA NextKeeps ==
  ASSUME NodeInv, [NodeNext]_nodeVars
  PROVE  NodeInv'
<1>1. ASSUME NEW n \in Node, NEW p \in Node \cup {NULL}, NEW k \in Kinds, New(p, k, n)
      PROVE  NodeInv'
  BY <1>1, NewKeeps
<1>2. ASSUME NEW n \in Node, NEW p \in Node, NEW c \in Node \cup {NULL},
             NEW where \in {"before", "after"}, Add(p, where, c, n)
      PROVE  NodeInv'
  BY <1>2, AddKeeps
<1>3. ASSUME NEW n \in Node, RemoveNode(n) PROVE NodeInv'
  BY <1>3, RemoveKeeps
<1>4. ASSUME NEW n \in Node, Retain(n) PROVE NodeInv'
  BY <1>4 DEF Retain, NodeInv, NodeTypeOK, PointersRepresent, ForestAlive, DoomedOnce, Live
<1>5. ASSUME NEW n \in Node, Delete(n) PROVE NodeInv'
  BY <1>5, DeleteKeeps
<1>6. ASSUME NEW n \in Node, Release(n) PROVE NodeInv'
  BY <1>6, ReleaseKeeps
<1>7. CASE Deleting
  BY <1>7, DeleteChildKeeps, FreeKeeps DEF Deleting
<1>8. CASE UNCHANGED nodeVars
  BY <1>8 DEF nodeVars, NodeInv, NodeTypeOK, PointersRepresent, ForestAlive, DoomedOnce, Live
<1> QED BY <1>1, <1>2, <1>3, <1>4, <1>5, <1>6, <1>7, <1>8 DEF NodeNext

THEOREM NodeInvariant == NodeSpec => []NodeInv
<1>1. NodeInit => NodeInv
  BY InvInit
<1>2. NodeInv /\ [NodeNext]_nodeVars => NodeInv'
  BY NextKeeps
<1> QED BY <1>1, <1>2, PTL DEF NodeSpec

(* Every pointer field holds a node or NULL, whatever the calls. *)
THEOREM NodesTyped == NodeSpec => []NodeTypeOK
<1>1. NodeInv => NodeTypeOK
  BY DEF NodeInv
<1> QED BY <1>1, NodeInvariant, PTL

(* mxmlAdd, mxmlRemove and mxmlDelete keep the lists of children, in both  *)
(* directions and at both ends, what the calls asked for: for any number   *)
(* of nodes, at every step of a deletion.                                  *)
THEOREM PointersAlwaysRepresent == NodeSpec => []PointersRepresent
<1>1. NodeInv => PointersRepresent
  BY DEF NodeInv
<1> QED BY <1>1, NodeInvariant, PTL

(* No node that is alive, and no call of mxmlDelete, leads to a freed node.*)
THEOREM NothingEverDangles == NodeSpec => []NothingDangles
<1>1. NodeInv => NothingDangles
  <2> SUFFICES ASSUME NodeInv PROVE NothingDangles
    OBVIOUS
  <2>1. ForestAlive /\ DoomedOnce /\ SidesAgree(links, forest) /\ EndsAgree(links, forest)
        /\ links.parent = forest.up /\ Ordered(forest)
    BY DEF NodeInv, PointersRepresent, Represents
  <2>2. links.parent \in Link /\ links.child \in Link /\ links.last_child \in Link
        /\ links.prev \in Link /\ links.next \in Link
    BY DEF NodeInv, NodeTypeOK, Links
  <2>3. ASSUME NEW n \in Node PROVE links.parent[n] # NULL => Live(links.parent[n])
    BY <2>1 DEF ForestAlive
  <2>4. ASSUME NEW n \in Node
        PROVE  /\ links.child[n] # NULL => Live(links.child[n])
               /\ links.last_child[n] # NULL => Live(links.last_child[n])
    BY <2>1, <2>2, NullIsNoNode DEF ForestAlive, EndsAgree, Link
  <2>5. ASSUME NEW n \in Node, links.next[n] # NULL
        PROVE  Live(n) /\ Live(links.next[n])
    BY <2>1, <2>2, <2>5, NullIsNoNode DEF ForestAlive, SidesAgree, Ordered, Link
  <2>6. ASSUME NEW n \in Node, links.prev[n] # NULL
        PROVE  Live(links.prev[n])
    <3>1. links.prev[n] \in Node /\ links.next[links.prev[n]] = n
      BY <2>1, <2>2, <2>6 DEF SidesAgree, Link
    <3> QED BY <3>1, <2>5, NullIsNoNode
  <2> QED BY <2>1, <2>3, <2>4, <2>5, <2>6 DEF NothingDangles, DoomedOnce
<1> QED BY <1>1, NodeInvariant, PTL

(***************************************************************************)
(* What a deletion frees.  While one is under way the doomed nodes are     *)
(* victims, all below a victim is a victim, and the victims that are still *)
(* alive are those on the stack and below them: they are in every set that *)
(* holds the stack and is closed under children.                           *)
(***************************************************************************)
ClosedBelow(f, S) == \A x \in Node : f.up[x] \in S => x \in S
Holds(S) == \A i \in 1 .. Len(doomed) : doomed[i] \in S
VictimsBelow ==
  doomed # <<>> =>
    /\ Holds(victims) /\ ClosedBelow(forest, victims)
    /\ \A S \in SUBSET Node :
         Holds(S) /\ ClosedBelow(forest, S) => \A x \in victims : Live(x) => x \in S

LEMMA SubtreeStarts ==
  ASSUME NodeInv, NEW n \in Node, Idle, Enter(n), UNCHANGED kind, victims' = Subtree(n)
  PROVE  VictimsBelow'
<1>1. \A x \in Node : forest'.up[x] = IF x = n THEN NULL ELSE forest.up[x]
  BY DEF Enter, Detached, NodeInv, NodeTypeOK, ForestType, Link
<1>2. doomed' = <<n>>
  BY DEF Enter, Idle
<1>3. Len(doomed') = 1 /\ doomed'[1] = n
  BY <1>2
<1>4. n \in Subtree(n) /\ \A x \in Node : forest.up[x] \in Subtree(n) => x \in Subtree(n)
  BY DEF Subtree
<1>5. Holds(victims)' /\ ClosedBelow(forest, victims)'
  <2>1. Subtree(n) \subseteq Node
    BY DEF Subtree
  <2> QED BY <1>1, <1>3, <1>4, <2>1, NullIsNoNode DEF Holds, ClosedBelow
<1>6. ASSUME NEW S \in SUBSET Node, n \in S, ClosedBelow(forest', S)
      PROVE  Subtree(n) \subseteq S
  <2>1. \A x \in Node : forest.up[x] \in S => x \in S
    BY <1>1, <1>6 DEF ClosedBelow
  <2> QED BY <1>6, <2>1 DEF Subtree
<1>7. \A S \in SUBSET Node :
        (\A i \in 1 .. Len(doomed') : doomed'[i] \in S) /\ ClosedBelow(forest', S)
          => \A x \in victims' : x \in S
  <2> SUFFICES ASSUME NEW S \in SUBSET Node, \A i \in 1 .. Len(doomed') : doomed'[i] \in S,
                      ClosedBelow(forest', S)
               PROVE  Subtree(n) \subseteq S
    OBVIOUS
  <2>1. n \in S
    BY <1>3
  <2> QED BY <2>1, <1>6
<1> QED BY <1>5, <1>7 DEF VictimsBelow, Holds, ClosedBelow

LEMMA ChildKeepsVictims ==
  ASSUME NodeInv, VictimsBelow, DeleteChild
  PROVE  VictimsBelow'
<1> DEFINE c == links.child[Head(doomed)]
<1>1. doomed \in Seq(Node) /\ doomed # <<>> /\ Head(doomed) = doomed[1] /\ Len(doomed) >= 1
  BY DEF DeleteChild, Idle, NodeInv, NodeTypeOK
<1>2. c \in Node /\ forest.up[c] = Head(doomed)
  BY <1>1 DEF DeleteChild, NodeInv, NodeTypeOK, PointersRepresent, Represents, EndsAgree, Links, Link
<1>3. doomed' = <<c>> \o doomed /\ UNCHANGED <<kind, victims>>
  BY DEF DeleteChild, Enter
<1>4. \A x \in Node : forest'.up[x] = IF x = c THEN NULL ELSE forest.up[x]
  BY <1>2 DEF DeleteChild, Enter, Detached, NodeInv, NodeTypeOK, ForestType, Link
<1> HIDE DEF c
<1>5. /\ Len(doomed') = Len(doomed) + 1 /\ doomed'[1] = c
      /\ \A i \in 1 .. Len(doomed) : i + 1 \in 1 .. Len(doomed') /\ doomed'[i + 1] = doomed[i]
      /\ \A i \in 1 .. Len(doomed') : i = 1 \/ (i - 1 \in 1 .. Len(doomed) /\ doomed'[i] = doomed[i - 1])
  BY <1>1, <1>2, <1>3
<1>6. Holds(victims) /\ ClosedBelow(forest, victims)
  BY <1>1 DEF VictimsBelow
<1>7. victims \in SUBSET Node
  BY DEF NodeInv, NodeTypeOK
<1>8. c \in victims
  BY <1>1, <1>2, <1>6 DEF Holds, ClosedBelow
<1>9. Holds(victims)'
  BY <1>3, <1>5, <1>6, <1>8 DEF Holds
<1>10. ClosedBelow(forest, victims)'
  BY <1>3, <1>4, <1>6, <1>7, NullIsNoNode DEF ClosedBelow
<1>11. ASSUME NEW S \in SUBSET Node, \A i \in 1 .. Len(doomed') : doomed'[i] \in S,
              ClosedBelow(forest', S), NEW x \in victims, Live(x)
       PROVE  x \in S
  <2>1. Holds(S)
    BY <1>5, <1>11 DEF Holds
  <2>2. c \in S
    BY <1>1, <1>5, <1>11
  <2>3. ClosedBelow(forest, S)
    BY <1>4, <1>11, <2>2 DEF ClosedBelow
  <2> QED BY <1>1, <1>11, <2>1, <2>3 DEF VictimsBelow
<1> QED BY <1>3, <1>9, <1>10, <1>11 DEF VictimsBelow, Holds, ClosedBelow, Live

LEMMA FreeKeepsVictims ==
  ASSUME NodeInv, VictimsBelow, Free
  PROVE  /\ VictimsBelow'
         /\ Head(doomed) \in victims
         /\ doomed' = <<>> => \A x \in victims : kind'[x] = "free"
<1> DEFINE h == Head(doomed)
<1>1. /\ doomed \in Seq(Node) /\ doomed # <<>> /\ h \in Node /\ h = doomed[1] /\ Len(doomed) >= 1
      /\ doomed' = Tail(doomed)
  BY DEF Free, Idle, NodeInv, NodeTypeOK
<1>2. /\ Len(doomed') = Len(doomed) - 1
      /\ \A i \in 1 .. Len(doomed') : i + 1 \in 1 .. Len(doomed) /\ doomed'[i] = doomed[i + 1]
      /\ \A i \in 1 .. Len(doomed) : i = 1 \/ (i - 1 \in 1 .. Len(doomed') /\ doomed[i] = doomed'[i - 1])
  BY <1>1
<1>3. forest' = forest /\ victims' = victims /\ victims \in SUBSET Node
  BY DEF Free, NodeInv, NodeTypeOK
<1>4. \A x \in Node : kind'[x] = IF x = h THEN "free" ELSE kind[x]
  BY <1>1 DEF Free, NodeInv, NodeTypeOK
<1>5. \A x \in Node : forest.up[x] # h
  <2>1. KidsOf(forest, h) = {}
    BY <1>1 DEF Free, NodeInv, PointersRepresent, Represents, EndsAgree
  <2> QED BY <2>1 DEF KidsOf
<1> HIDE DEF h
<1>6. Holds(victims) /\ ClosedBelow(forest, victims) /\ h \in victims
  BY <1>1 DEF VictimsBelow, Holds
<1>7. ASSUME NEW S \in SUBSET Node, \A i \in 1 .. Len(doomed') : doomed'[i] \in S,
             ClosedBelow(forest, S), NEW x \in victims, Live(x)
      PROVE  x = h \/ x \in S
  <2> DEFINE R == S \cup {h}
  <2>1. R \in SUBSET Node
    BY <1>1
  <2>2. Holds(R)
    BY <1>1, <1>2, <1>7 DEF Holds
  <2>3. ClosedBelow(forest, R)
    BY <1>5, <1>7 DEF ClosedBelow
  <2> HIDE DEF R
  <2>4. x \in R
    BY <1>1, <1>7, <2>1, <2>2, <2>3 DEF VictimsBelow
  <2> QED BY <2>4 DEF R
<1>8. VictimsBelow'
  <2>1. Holds(victims)' /\ ClosedBelow(forest, victims)'
    BY <1>2, <1>3, <1>6 DEF Holds, ClosedBelow
  <2>2. ASSUME NEW S \in SUBSET Node, \A i \in 1 .. Len(doomed') : doomed'[i] \in S,
               ClosedBelow(forest', S), NEW x \in victims', kind'[x] # "free"
        PROVE  x \in S
    <3>1. x \in victims /\ x # h /\ Live(x)
      BY <1>3, <1>4, <2>2 DEF Live
    <3> QED BY <3>1, <1>3, <1>7, <2>2
  <2> QED BY <2>1, <2>2 DEF VictimsBelow, Holds, ClosedBelow, Live
<1>9. ASSUME doomed' = <<>>, NEW x \in victims
      PROVE  kind'[x] = "free"
  <2>1. Len(doomed') = 0
    BY <1>9
  <2>2. {} \in SUBSET Node /\ ClosedBelow(forest, {})
    BY DEF ClosedBelow
  <2>3. Live(x) => x = h
    BY <1>7, <2>1, <2>2
  <2> QED BY <1>3, <1>4, <2>3 DEF Live
<1> QED BY <1>6, <1>8, <1>9 DEF h

(* mxmlDelete frees the node, all that was under it, and nothing else.     *)
THEOREM DeletionExact == NodeSpec => DeletesSubtree
<1> DEFINE Step == /\ \A n \in Node : Live(n) /\ kind'[n] = "free" => n \in victims
                   /\ ~Idle /\ doomed' = <<>> => \A n \in victims : kind'[n] = "free"
<1>1. NodeInit => VictimsBelow
  BY DEF NodeInit, VictimsBelow
<1>2. ASSUME NodeInv, VictimsBelow, [NodeNext]_nodeVars
      PROVE  VictimsBelow' /\ Step
  <2>1. ASSUME NEW n \in Node, NEW p \in Node \cup {NULL}, NEW k \in Kinds, New(p, k, n)
        PROVE  VictimsBelow' /\ Step
    BY <2>1, FreeIsNoKind DEF New, Idle, VictimsBelow, Live, NodeInv, NodeTypeOK
  <2>2. ASSUME NEW n \in Node, NEW p \in Node, NEW c \in Node \cup {NULL},
               NEW where \in {"before", "after"}, Add(p, where, c, n)
        PROVE  VictimsBelow' /\ Step
    BY <2>2 DEF Add, Idle, VictimsBelow, Live
  <2>3. ASSUME NEW n \in Node, RemoveNode(n) \/ Retain(n) PROVE VictimsBelow' /\ Step
    BY <2>3 DEF RemoveNode, Retain, Idle, VictimsBelow, Live
  <2>4. ASSUME NEW n \in Node, Delete(n) PROVE VictimsBelow' /\ Step
    <3>1. VictimsBelow'
      BY <1>2, <2>4, SubtreeStarts DEF Delete
    <3> QED BY <2>4, <3>1 DEF Delete, Live
  <2>5. ASSUME NEW n \in Node, Release(n) PROVE VictimsBelow' /\ Step
    <3>1. VictimsBelow'
      <4>1. CASE refs'[n] <= 0
        BY <1>2, <2>5, <4>1, SubtreeStarts DEF Release
      <4>2. CASE ~(refs'[n] <= 0)
        BY <2>5, <4>2 DEF Release, Idle, VictimsBelow
      <4> QED BY <4>1, <4>2
    <3> QED BY <2>5, <3>1 DEF Release, Live
  <2>6. CASE DeleteChild
    <3>1. VictimsBelow'
      BY <1>2, <2>6, ChildKeepsVictims
    <3>2. doomed' # <<>>
      <4>1. doomed \in Seq(Node) /\ doomed # <<>> /\ links.child[Head(doomed)] \in Node
        BY <1>2, <2>6 DEF DeleteChild, Idle, NodeInv, NodeTypeOK, Links, Link
      <4> QED BY <2>6, <4>1 DEF DeleteChild, Enter
    <3> QED BY <2>6, <3>1, <3>2 DEF DeleteChild, Live
  <2>7. CASE Free
    <3>1. /\ VictimsBelow' /\ Head(doomed) \in victims
          /\ doomed' = <<>> => \A x \in victims : kind'[x] = "free"
      BY <1>2, <2>7, FreeKeepsVictims
    <3>2. \A x \in Node : Live(x) /\ kind'[x] = "free" => x = Head(doomed)
      BY <1>2, <2>7 DEF Free, NodeInv, NodeTypeOK, Live
    <3> QED BY <3>1, <3>2
  <2>8. CASE UNCHANGED nodeVars
    BY <1>2, <2>8 DEF nodeVars, VictimsBelow, Holds, ClosedBelow, Live, Idle
  <2> QED BY <1>2, <2>1, <2>2, <2>3, <2>4, <2>5, <2>6, <2>7, <2>8 DEF NodeNext, Deleting
<1>3. ASSUME NodeInv, VictimsBelow, [NodeNext]_nodeVars PROVE VictimsBelow' /\ [Step]_nodeVars
  BY <1>2, <1>3
<1> QED BY <1>1, <1>3, NodeInvariant, PTL DEF NodeSpec, DeletesSubtree

(***************************************************************************)
(* What mxmlDelete has left to do: each live node is freed once, and those *)
(* it is not yet at work on are entered once.                              *)
(***************************************************************************)
Alive == {n \in Node : Live(n)}
Entered == {n \in Node : \E i \in 1 .. Len(doomed) : doomed[i] = n}
WorkLeft == Cardinality(Alive) + Cardinality(Alive \ Entered)


(* mxmlDelete ends, for any finite number of nodes: its recursive calls    *)
(* and its calls of free are never more than two for each live node, for   *)
(* every one of them leaves one less to do.                                *)
THEOREM DeletionNearsEnd ==
  ASSUME IsFiniteSet(Node)
  PROVE  NodeSpec => [][Deleting => WorkLeft \in Nat /\ WorkLeft' \in Nat /\ WorkLeft' < WorkLeft]_nodeVars
<1> DEFINE Less == WorkLeft \in Nat /\ WorkLeft' \in Nat /\ WorkLeft' < WorkLeft
<1>1. ASSUME NEW S \in SUBSET Node
      PROVE  IsFiniteSet(S) /\ Cardinality(S) \in Nat
  BY FS_Subset, FS_CardinalityType
<1>2. Alive \in SUBSET Node /\ Alive' \in SUBSET Node
  BY DEF Alive
<1>3. WorkLeft \in Nat /\ WorkLeft' \in Nat
  <2>1. Alive \ Entered \in SUBSET Node /\ Alive' \ Entered' \in SUBSET Node
    BY <1>2
  <2> QED
    BY <1>1, <1>2, <2>1 DEF WorkLeft
<1>4. ASSUME NodeInv, DeleteChild
      PROVE  Less
  <2> DEFINE c == links.child[Head(doomed)]
  <2>1. doomed \in Seq(Node) /\ doomed # <<>> /\ Head(doomed) = doomed[1] /\ Len(doomed) >= 1
    BY <1>4 DEF DeleteChild, Idle, NodeInv, NodeTypeOK
  <2>2. c \in Node /\ forest.up[c] = Head(doomed)
    BY <1>4, <2>1 DEF DeleteChild, NodeInv, NodeTypeOK, PointersRepresent, Represents, EndsAgree,
                      Links, Link
  <2>3. doomed' = <<c>> \o doomed /\ UNCHANGED kind
    BY <1>4 DEF DeleteChild, Enter
  <2> HIDE DEF c
  <2>4. c \in Alive /\ c \notin Entered
    BY <1>4, <2>1, <2>2, NullIsNoNode DEF NodeInv, ForestAlive, DoomedOnce, Alive, Entered
  <2>5. /\ Len(doomed') = Len(doomed) + 1 /\ doomed'[1] = c
        /\ \A i \in 1 .. Len(doomed) : i + 1 \in 1 .. Len(doomed') /\ doomed'[i + 1] = doomed[i]
        /\ \A i \in 1 .. Len(doomed') : i = 1 \/ (i - 1 \in 1 .. Len(doomed) /\ doomed'[i] = doomed[i - 1])
    BY <2>1, <2>2, <2>3
  <2>6. Entered' = Entered \cup {c}
    <3>1. c \in Entered'
      <4>1. 1 \in 1 .. Len(doomed')
        BY <2>5
      <4> QED BY <2>2, <2>5, <4>1 DEF Entered
    <3>2. \A x \in Entered : x \in Entered'
      BY <2>5 DEF Entered
    <3>3. \A x \in Entered' : x \in Entered \cup {c}
      BY <2>5 DEF Entered
    <3> QED BY <3>1, <3>2, <3>3
  <2>7. Alive' = Alive /\ Alive' \ Entered' = (Alive \ Entered) \ {c}
    BY <2>3, <2>6 DEF Alive, Live
  <2>8. Cardinality((Alive \ Entered) \ {c}) = Cardinality(Alive \ Entered) - 1
    <3>1. Alive \ Entered \in SUBSET Node /\ c \in Alive \ Entered
      BY <1>2, <2>4
    <3> QED
      BY <1>1, <3>1, FS_RemoveElement
  <2>9. Cardinality(Alive) \in Nat /\ Cardinality(Alive \ Entered) \in Nat
    <3>1. Alive \ Entered \in SUBSET Node
      BY <1>2
    <3> QED
      BY <1>1, <1>2, <3>1
  <2>10. /\ WorkLeft = Cardinality(Alive) + Cardinality(Alive \ Entered)
         /\ WorkLeft' = Cardinality(Alive') + Cardinality(Alive' \ Entered')
    BY DEF WorkLeft
  <2>11. WorkLeft' = WorkLeft - 1
    <3>1. /\ Cardinality(Alive') = Cardinality(Alive)
          /\ Cardinality(Alive' \ Entered') = Cardinality(Alive \ Entered) - 1
      BY <2>7, <2>8
    <3> QED
      BY <2>9, <2>10, <3>1
  <2> QED
    BY <1>3, <2>11
<1>5. ASSUME NodeInv, Free
      PROVE  Less
  <2> DEFINE h == Head(doomed)
  <2>1. /\ doomed \in Seq(Node) /\ doomed # <<>> /\ h \in Node /\ h = doomed[1] /\ Len(doomed) >= 1
        /\ doomed' = Tail(doomed)
    BY <1>5 DEF Free, Idle, NodeInv, NodeTypeOK
  <2>2. /\ Len(doomed') = Len(doomed) - 1
        /\ \A i \in 1 .. Len(doomed') : i + 1 \in 1 .. Len(doomed) /\ doomed'[i] = doomed[i + 1]
        /\ \A i \in 1 .. Len(doomed) : i = 1 \/ (i - 1 \in 1 .. Len(doomed') /\ doomed[i] = doomed'[i - 1])
    BY <2>1
  <2>3. \A x \in Node : kind'[x] = IF x = h THEN "free" ELSE kind[x]
    BY <1>5, <2>1 DEF Free, NodeInv, NodeTypeOK
  <2>4. Live(h)
    BY <1>5, <2>1 DEF NodeInv, DoomedOnce
  <2> HIDE DEF h
  <2>5. h \in Entered /\ \A x \in Node : x # h => (x \in Entered' <=> x \in Entered)
    BY <2>1, <2>2 DEF Entered
  <2>6. Alive' = Alive \ {h} /\ h \in Alive
    BY <2>1, <2>3, <2>4 DEF Alive, Live
  <2>7. Alive' \ Entered' = Alive \ Entered
    BY <1>2, <2>5, <2>6
  <2>8. Cardinality(Alive \ {h}) = Cardinality(Alive) - 1
    BY <1>1, <1>2, <2>6, FS_RemoveElement
  <2>9. Cardinality(Alive) \in Nat /\ Cardinality(Alive \ Entered) \in Nat
    <3>1. Alive \ Entered \in SUBSET Node
      BY <1>2
    <3> QED
      BY <1>1, <1>2, <3>1
  <2>10. /\ WorkLeft = Cardinality(Alive) + Cardinality(Alive \ Entered)
         /\ WorkLeft' = Cardinality(Alive') + Cardinality(Alive' \ Entered')
    BY DEF WorkLeft
  <2>11. WorkLeft' = WorkLeft - 1
    BY <2>6, <2>7, <2>8, <2>9, <2>10
  <2> QED
    BY <1>3, <2>11
<1>6. ASSUME NodeInv, [NodeNext]_nodeVars
      PROVE  [Deleting => Less]_nodeVars
  BY <1>4, <1>5, <1>6 DEF Deleting
<1> QED
  BY <1>6, NodeInvariant, PTL DEF NodeSpec

(***************************************************************************)
(* What is kept in the nodes.                                              *)
(***************************************************************************)
Attribute == [n : AttrNames, v : Values \cup {NULL}]
(* No name twice: mxml_set_attr replaces where it finds one. *)
Distinct(s) == \A i, j \in 1 .. Len(s) : s[i].n = s[j].n => i = j

(***************************************************************************)
(* The attributes of one element.                                          *)
(***************************************************************************)
LEMMA InPlace ==
  ASSUME NEW s \in Seq(Attribute), Distinct(s), NEW i \in 1 .. Len(s)
  PROVE  Attr!AttrAt(s, s[i].n) = i /\ Attr!AttrIn(s, s[i].n) = s[i].v
<1> DEFINE places == {k \in 1 .. Len(s) : s[k].n = s[i].n}
<1>1. places = {i}
  BY DEF Distinct
<1>2. Attr!Min(places) = i
  BY <1>1 DEF Attr!Min
<1>3. Attr!AttrAt(s, s[i].n) = i
  BY <1>1, <1>2 DEF Attr!AttrAt
<1>4. i # 0
  OBVIOUS
<1> QED BY <1>3, <1>4 DEF Attr!AttrIn

LEMMA Missing ==
  ASSUME NEW s \in Seq(Attribute), NEW a, \A i \in 1 .. Len(s) : s[i].n # a
  PROVE  Attr!AttrAt(s, a) = 0 /\ Attr!AttrIn(s, a) = NULL
BY DEF Attr!AttrAt, Attr!AttrIn

LEMMA EmptyHasNone ==
  /\ <<>> \in Seq(Attribute) /\ Distinct(<<>>)
  /\ \A a : Attr!AttrIn(<<>>, a) = NULL
<1>1. <<>> \in Seq(Attribute) /\ Distinct(<<>>)
  BY DEF Distinct
<1>2. \A a : Attr!AttrIn(<<>>, a) = NULL
  <2> TAKE a
  <2>1. \A i \in 1 .. Len(<<>>) : <<>>[i].n # a
    OBVIOUS
  <2> QED BY <1>1, <2>1, Missing
<1> QED BY <1>1, <1>2

(* mxml_set_attr changes one attribute and no other. *)
LEMMA WithAttrFacts ==
  ASSUME NEW s \in Seq(Attribute), Distinct(s), NEW a \in AttrNames, NEW v \in Values \cup {NULL}
  PROVE  LET u == Attr!WithAttr(s, a, v)
         IN /\ u \in Seq(Attribute) /\ Distinct(u)
            /\ \A b \in AttrNames : Attr!AttrIn(u, b) = IF b = a THEN v ELSE Attr!AttrIn(s, b)
<1> DEFINE new == [n |-> a, v |-> v]
           u == Attr!WithAttr(s, a, v)
<1>1. new \in Attribute /\ new.n = a /\ new.v = v
  BY DEF Attribute
<1> HIDE DEF new
<1>2. CASE \E i \in 1 .. Len(s) : s[i].n = a
  <2>1. PICK i \in 1 .. Len(s) : s[i].n = a
    BY <1>2
  <2>2. u = [s EXCEPT ![i] = new]
    <3>1. Attr!AttrAt(s, a) = i /\ i # 0
      BY <2>1, InPlace
    <3> QED BY <3>1 DEF Attr!WithAttr, new
  <2> HIDE DEF u
  <2>3. u \in Seq(Attribute) /\ Len(u) = Len(s) /\ u[i] = new
    BY <1>1, <2>2
  <2>4. \A k \in 1 .. Len(s) : u[k].n = s[k].n /\ (k # i => u[k].v = s[k].v)
    BY <1>1, <2>1, <2>2
  <2>5. Distinct(u)
    BY <2>3, <2>4 DEF Distinct
  <2>6. ASSUME NEW b \in AttrNames PROVE Attr!AttrIn(u, b) = IF b = a THEN v ELSE Attr!AttrIn(s, b)
    <3>1. CASE b = a
      BY <1>1, <2>3, <2>5, <3>1, InPlace
    <3>2. CASE b # a /\ \E k \in 1 .. Len(s) : s[k].n = b
      <4>1. PICK k \in 1 .. Len(s) : s[k].n = b
        BY <3>2
      <4>2. k # i
        BY <2>1, <3>2, <4>1
      <4>3. Attr!AttrIn(s, b) = s[k].v
        BY <4>1, InPlace
      <4>4. u[k].n = b /\ u[k].v = s[k].v /\ k \in 1 .. Len(u)
        BY <2>3, <2>4, <4>1, <4>2
      <4>5. Attr!AttrIn(u, b) = u[k].v
        BY <2>3, <2>5, <4>4, InPlace
      <4> QED BY <3>2, <4>3, <4>4, <4>5
    <3>3. CASE b # a /\ \A k \in 1 .. Len(s) : s[k].n # b
      <4>1. \A k \in 1 .. Len(u) : u[k].n # b
        BY <2>3, <2>4, <3>3
      <4> QED BY <2>3, <3>3, <4>1, Missing
    <3> QED BY <3>1, <3>2, <3>3
  <2> QED BY <2>3, <2>5, <2>6 DEF u
<1>3. CASE \A i \in 1 .. Len(s) : s[i].n # a
  <2>1. u = Append(s, new)
    BY <1>3, Missing DEF Attr!WithAttr, new
  <2> HIDE DEF u
  <2>2. /\ u \in Seq(Attribute) /\ Len(u) = Len(s) + 1
        /\ \A k \in 1 .. Len(s) : u[k] = s[k]
        /\ u[Len(s) + 1] = new
    BY <1>1, <2>1
  <2>3. Distinct(u)
    <3> SUFFICES ASSUME NEW i \in 1 .. Len(u), NEW j \in 1 .. Len(u), u[i].n = u[j].n PROVE i = j
      BY DEF Distinct
    <3>1. i \in 1 .. Len(s) \/ i = Len(s) + 1
      BY <2>2
    <3>2. j \in 1 .. Len(s) \/ j = Len(s) + 1
      BY <2>2
    <3> QED BY <1>1, <1>3, <2>2, <3>1, <3>2 DEF Distinct
  <2>4. ASSUME NEW b \in AttrNames PROVE Attr!AttrIn(u, b) = IF b = a THEN v ELSE Attr!AttrIn(s, b)
    <3>1. CASE b = a
      <4>1. Len(s) + 1 \in 1 .. Len(u)
        BY <2>2
      <4> QED BY <1>1, <2>2, <2>3, <3>1, <4>1, InPlace
    <3>2. CASE b # a /\ \E k \in 1 .. Len(s) : s[k].n = b
      <4>1. PICK k \in 1 .. Len(s) : s[k].n = b
        BY <3>2
      <4>2. Attr!AttrIn(s, b) = s[k].v
        BY <4>1, InPlace
      <4>3. k \in 1 .. Len(u) /\ u[k] = s[k]
        BY <2>2
      <4>4. Attr!AttrIn(u, b) = u[k].v
        BY <2>2, <2>3, <4>1, <4>3, InPlace
      <4> QED BY <3>2, <4>2, <4>3, <4>4
    <3>3. CASE b # a /\ \A k \in 1 .. Len(s) : s[k].n # b
      <4>1. \A k \in 1 .. Len(u) : u[k].n # b
        BY <1>1, <2>2, <3>3
      <4> QED BY <2>2, <3>3, <4>1, Missing
    <3> QED BY <3>1, <3>2, <3>3
  <2> QED BY <2>2, <2>3, <2>4 DEF u
<1> QED BY <1>2, <1>3

(* mxmlElementDeleteAttr takes one attribute out and keeps the others. *)
LEMMA WithoutAttrFacts ==
  ASSUME NEW s \in Seq(Attribute), Distinct(s), NEW a \in AttrNames
  PROVE  LET u == Attr!WithoutAttr(s, a)
         IN /\ u \in Seq(Attribute) /\ Distinct(u)
            /\ \A b \in AttrNames : Attr!AttrIn(u, b) = IF b = a THEN NULL ELSE Attr!AttrIn(s, b)
<1> DEFINE u == Attr!WithoutAttr(s, a)
<1>1. CASE \E i \in 1 .. Len(s) : s[i].n = a
  <2>1. PICK i \in 1 .. Len(s) : s[i].n = a
    BY <1>1
  <2>2. u = SubSeq(s, 1, i - 1) \o SubSeq(s, i + 1, Len(s))
    <3>1. Attr!AttrAt(s, a) = i /\ i # 0
      BY <2>1, InPlace
    <3> QED BY <3>1 DEF Attr!WithoutAttr, Attr!RemoveAt
  <2> HIDE DEF u
  <2>3. /\ SubSeq(s, 1, i - 1) \in Seq(Attribute) /\ Len(SubSeq(s, 1, i - 1)) = i - 1
        /\ \A k \in 1 .. i - 1 : SubSeq(s, 1, i - 1)[k] = s[k]
    OBVIOUS
  <2>4. /\ SubSeq(s, i + 1, Len(s)) \in Seq(Attribute) /\ Len(SubSeq(s, i + 1, Len(s))) = Len(s) - i
        /\ \A k \in 1 .. Len(s) - i : SubSeq(s, i + 1, Len(s))[k] = s[k + i]
    OBVIOUS
  <2>5. /\ u \in Seq(Attribute) /\ Len(u) = Len(s) - 1
        /\ \A k \in 1 .. Len(s) - 1 : u[k] = IF k < i THEN s[k] ELSE s[k + 1]
    <3> DEFINE l == SubSeq(s, 1, i - 1)
               r == SubSeq(s, i + 1, Len(s))
    <3>1. i \in 1 .. Len(s) /\ Len(s) \in Nat
      OBVIOUS
    <3>2. u = l \o r /\ l \in Seq(Attribute) /\ r \in Seq(Attribute) /\ Len(l) = i - 1 /\ Len(r) = Len(s) - i
      BY <2>2, <2>3, <2>4
    <3>3. (\A k \in 1 .. i - 1 : l[k] = s[k]) /\ (\A k \in 1 .. Len(s) - i : r[k] = s[k + i])
      BY <2>3, <2>4
    <3> HIDE DEF l, r
    <3>4. u \in Seq(Attribute) /\ Len(u) = Len(s) - 1
      <4>1. u \in Seq(Attribute) /\ Len(u) = Len(l) + Len(r)
        BY <3>2, ConcatProperties
      <4> QED BY <3>1, <3>2, <4>1
    <3>5. ASSUME NEW k \in 1 .. Len(s) - 1 PROVE u[k] = IF k < i THEN s[k] ELSE s[k + 1]
      <4>1. CASE k < i
        <5>1. u[k] = l[k] /\ k \in 1 .. i - 1
          BY <3>1, <3>2, <4>1
        <5> QED BY <3>3, <4>1, <5>1
      <4>2. CASE ~(k < i)
        <5>1. k - (i - 1) \in 1 .. Len(s) - i /\ (k - (i - 1)) + i = k + 1
          BY <3>1, <4>2
        <5>2. u[k] = r[k - (i - 1)]
          BY <3>1, <3>2, <4>2
        <5> QED BY <3>3, <4>2, <5>1, <5>2
      <4> QED BY <4>1, <4>2
    <3> QED BY <3>4, <3>5
  <2>6. Distinct(u)
    BY <2>5 DEF Distinct
  <2>7. ASSUME NEW b \in AttrNames PROVE Attr!AttrIn(u, b) = IF b = a THEN NULL ELSE Attr!AttrIn(s, b)
    <3>1. CASE b = a
      <4>1. \A k \in 1 .. Len(u) : u[k].n # b
        BY <2>1, <2>5, <3>1 DEF Distinct
      <4> QED BY <2>5, <3>1, <4>1, Missing
    <3>2. CASE b # a /\ \E k \in 1 .. Len(s) : s[k].n = b
      <4>1. PICK k \in 1 .. Len(s) : s[k].n = b
        BY <3>2
      <4>2. Attr!AttrIn(s, b) = s[k].v
        BY <4>1, InPlace
      <4>3. k # i
        BY <2>1, <3>2, <4>1
      <4>4. PICK m \in 1 .. Len(u) : u[m] = s[k]
        <5>1. CASE k < i
          BY <2>5, <5>1
        <5>2. CASE k > i
          <6>1. k - 1 \in 1 .. Len(u) /\ ~(k - 1 < i) /\ (k - 1) + 1 = k
            BY <2>5, <5>2
          <6> QED BY <2>5, <6>1
        <5> QED BY <4>3, <5>1, <5>2
      <4>5. Attr!AttrIn(u, b) = u[m].v
        BY <2>5, <2>6, <4>1, <4>4, InPlace
      <4> QED BY <3>2, <4>2, <4>4, <4>5
    <3>3. CASE b # a /\ \A k \in 1 .. Len(s) : s[k].n # b
      <4>1. \A k \in 1 .. Len(u) : u[k].n # b
        BY <2>5, <3>3
      <4> QED BY <2>5, <3>3, <4>1, Missing
    <3> QED BY <3>1, <3>2, <3>3
  <2> QED BY <2>5, <2>6, <2>7 DEF u
<1>2. CASE \A i \in 1 .. Len(s) : s[i].n # a
  <2>1. u = s
    BY <1>2, Missing DEF Attr!WithoutAttr
  <2>2. Attr!AttrIn(s, a) = NULL
    BY <1>2, Missing
  <2> QED BY <2>1, <2>2
<1> QED BY <1>1, <1>2

(***************************************************************************)
(* The node a value is in.                                                 *)
(***************************************************************************)
(* The first child by the pointers is the first in the forest. *)
LEMMA HolderIsHeld ==
  ASSUME PointersRepresent, links \in Links, NEW n \in Node, NEW k
  PROVE  /\ Holder(n, k) \in Node \cup {NULL}
         /\ Held(n, k) = IF Holder(n, k) = NULL THEN {} ELSE {Holder(n, k)}
<1>1. CASE Is(n, k)
  BY <1>1, NullIsNoNode DEF Holder, Held
<1>2. CASE ~Is(n, k) /\ ~(k # "element" /\ IsElement(n))
  BY <1>2 DEF Holder, Held
<1>3. CASE ~Is(n, k) /\ k # "element" /\ IsElement(n)
  <2> DEFINE c == links.child[n]
  <2>1. c \in Node \cup {NULL}
    BY DEF Links, Link
  <2>2. /\ c # NULL => forest.up[c] = n /\ links.prev[c] = NULL
        /\ c = NULL => \A m \in Node : forest.up[m] # n
    BY DEF PointersRepresent, Represents, EndsAgree, KidsOf
  <2>3. c # NULL => \A x \in Node : ~Precedes(forest, x, c)
    BY <2>1, <2>2 DEF PointersRepresent, Represents, SidesAgree
  <2>4. \A m \in Node : c # NULL /\ forest.up[m] = n /\ m # c => Precedes(forest, c, m)
    BY <2>1, <2>2, <2>3, NullIsNoNode DEF PointersRepresent, Ordered
  <2>5. Holder(n, k) = IF c # NULL /\ Is(c, k) THEN c ELSE NULL
    BY <1>3 DEF Holder
  <2>6. Held(n, k) = {m \in Node : Is(m, k) /\ forest.up[m] = n /\ \A x \in Node : ~Precedes(forest, x, m)}
    BY <1>3 DEF Held
  <2> HIDE DEF c
  <2>7. CASE c = NULL
    BY <2>2, <2>5, <2>6, <2>7
  <2>8. CASE c # NULL
    BY <2>1, <2>2, <2>3, <2>4, <2>5, <2>6, <2>8, NullIsNoNode
  <2> QED BY <2>7, <2>8
<1> QED BY <1>1, <1>2, <1>3

(***************************************************************************)
(* The invariant: beside that of the pointers, no element has two          *)
(* attributes of one name, and what the nodes hold is what was given but   *)
(* for the texts mxmlSetTextf has written.                                 *)
(***************************************************************************)
DataTypeOK ==
  /\ name \in [Node -> Names \cup Values \cup {NULL}]
  /\ worth \in [Node -> Names \cup Values \cup {NULL}]
  /\ attrs \in [Node -> Seq(Attribute)]
  /\ given \in [Node -> [AttrNames -> Values \cup {NULL}]]
AttrsKept ==
  \A n \in Node :
    /\ Distinct(attrs[n])
    /\ \A a \in AttrNames : Attr!AttrIn(attrs[n], a) = given[n][a]
ValuesKept == \A n \in Node \ formatted : worth[n] = name[n]
DataInv == NodeInv /\ DataTypeOK /\ AttrsKept /\ ValuesKept

LEMMA DataInvInit == DataInit => DataInv
<1> SUFFICES ASSUME DataInit PROVE DataInv
  OBVIOUS
<1>1. NodeInv
  BY InvInit DEF DataInit
<1>2. DataTypeOK
  BY EmptyHasNone DEF DataInit, DataTypeOK
<1>3. AttrsKept
  <2> SUFFICES ASSUME NEW n \in Node
               PROVE  Distinct(attrs[n]) /\ \A a \in AttrNames : Attr!AttrIn(attrs[n], a) = given[n][a]
    BY DEF AttrsKept
  <2>1. attrs[n] = <<>> /\ \A a \in AttrNames : given[n][a] = NULL
    BY DEF DataInit
  <2> QED BY <2>1, EmptyHasNone
<1>4. ValuesKept
  BY DEF DataInit, ValuesKept
<1> QED BY <1>1, <1>2, <1>3, <1>4 DEF DataInv

(* What is done to the data is done between calls, or with a call of       *)
(* mxml-node.c.                                                            *)
LEMMA DataNextIsNodeNext ==
  ASSUME [DataNext]_<<nodeVars, dataVars>>
  PROVE  [NodeNext]_nodeVars
<1>1. ASSUME NEW n \in Node, Create(n) PROVE NodeNext
  <2>1. \E p \in Node \cup {NULL} : \E k : New(p, k, n)
    BY <1>1 DEF Create, NewElement, NewValue, Made
  <2> QED BY <2>1 DEF NodeNext, New
<1>2. CASE Rearrange
  BY <1>2 DEF Rearrange, Move, Detach, NodeNext
<1>3. CASE Edit
  BY <1>3 DEF Edit, SetAttr, DeleteAttr, SetValue, SetCDATA, SetTextf, Store
<1>4. CASE Deletion
  BY <1>4 DEF Deletion, NodeNext
<1>5. CASE UNCHANGED <<nodeVars, dataVars>>
  BY <1>5
<1> QED BY <1>1, <1>2, <1>3, <1>4, <1>5 DEF DataNext

LEMMA MadeKeepsData ==
  ASSUME DataInv, NEW n \in Node, NEW p, NEW k, NEW v \in Names \cup Values, Made(p, k, v, n)
  PROVE  DataTypeOK' /\ AttrsKept' /\ ValuesKept'
<1>1. DataTypeOK'
  BY EmptyHasNone DEF DataInv, DataTypeOK, Made
<1>2. AttrsKept'
  <2> SUFFICES ASSUME NEW m \in Node
               PROVE  /\ Distinct(attrs'[m])
                      /\ \A a \in AttrNames : Attr!AttrIn(attrs'[m], a) = given'[m][a]
    BY DEF AttrsKept
  <2>1. CASE m = n
    <3>1. attrs'[m] = <<>> /\ \A a \in AttrNames : given'[m][a] = NULL
      BY <2>1 DEF Made, DataInv, DataTypeOK
    <3> QED BY <3>1, EmptyHasNone
  <2>2. CASE m # n
    <3>1. attrs'[m] = attrs[m] /\ given'[m] = given[m]
      BY <2>2 DEF Made, DataInv, DataTypeOK
    <3> QED BY <3>1 DEF DataInv, AttrsKept
  <2> QED BY <2>1, <2>2
<1>3. ValuesKept'
  BY DEF DataInv, DataTypeOK, Made, ValuesKept
<1> QED BY <1>1, <1>2, <1>3

LEMMA AttrsKeepData ==
  ASSUME DataInv, NEW n \in Node, NEW a \in AttrNames, NEW v \in Values \cup {NULL},
         SetAttr(n, a, v) \/ (DeleteAttr(n, a) /\ v = NULL)
  PROVE  DataTypeOK' /\ AttrsKept' /\ ValuesKept'
<1>1. PICK u : /\ attrs' = [attrs EXCEPT ![n] = u]
               /\ u \in Seq(Attribute) /\ Distinct(u)
               /\ \A b \in AttrNames : Attr!AttrIn(u, b) = IF b = a THEN v ELSE Attr!AttrIn(attrs[n], b)
  <2>1. attrs[n] \in Seq(Attribute) /\ Distinct(attrs[n])
    BY DEF DataInv, DataTypeOK, AttrsKept
  <2>2. CASE SetAttr(n, a, v)
    <3> DEFINE w == Attr!WithAttr(attrs[n], a, v)
    <3>1. /\ w \in Seq(Attribute) /\ Distinct(w)
          /\ \A b \in AttrNames : Attr!AttrIn(w, b) = IF b = a THEN v ELSE Attr!AttrIn(attrs[n], b)
      BY <2>1, WithAttrFacts
    <3>2. attrs' = [attrs EXCEPT ![n] = w]
      BY <2>2 DEF SetAttr
    <3> HIDE DEF w
    <3> QED BY <3>1, <3>2
  <2>3. CASE DeleteAttr(n, a) /\ v = NULL
    <3> DEFINE w == Attr!WithoutAttr(attrs[n], a)
    <3>1. /\ w \in Seq(Attribute) /\ Distinct(w)
          /\ \A b \in AttrNames : Attr!AttrIn(w, b) = IF b = a THEN v ELSE Attr!AttrIn(attrs[n], b)
      BY <2>1, <2>3, WithoutAttrFacts
    <3>2. attrs' = [attrs EXCEPT ![n] = w]
      BY <2>3 DEF DeleteAttr
    <3> HIDE DEF w
    <3> QED BY <3>1, <3>2
  <2> QED BY <2>2, <2>3
<1>2. /\ given' = [given EXCEPT ![n][a] = v]
      /\ name' = name /\ worth' = worth /\ formatted' = formatted
  BY DEF SetAttr, DeleteAttr
<1>3. DataTypeOK'
  BY <1>1, <1>2 DEF DataInv, DataTypeOK
<1>4. AttrsKept'
  <2> SUFFICES ASSUME NEW m \in Node
               PROVE  /\ Distinct(attrs'[m])
                      /\ \A b \in AttrNames : Attr!AttrIn(attrs'[m], b) = given'[m][b]
    BY DEF AttrsKept
  <2>1. CASE m = n
    <3>1. attrs'[m] = u
      BY <1>1, <2>1 DEF DataInv, DataTypeOK
    <3>2. \A b \in AttrNames : given'[m][b] = IF b = a THEN v ELSE given[m][b]
      BY <1>2, <2>1 DEF DataInv, DataTypeOK
    <3>3. \A b \in AttrNames : Attr!AttrIn(attrs[m], b) = given[m][b]
      BY DEF DataInv, AttrsKept
    <3> QED BY <1>1, <2>1, <3>1, <3>2, <3>3
  <2>2. CASE m # n
    <3>1. attrs'[m] = attrs[m] /\ given'[m] = given[m]
      BY <1>1, <1>2, <2>2 DEF DataInv, DataTypeOK
    <3> QED BY <3>1 DEF DataInv, AttrsKept
  <2> QED BY <2>1, <2>2
<1>5. ValuesKept'
  BY <1>2 DEF DataInv, ValuesKept
<1> QED BY <1>3, <1>4, <1>5

(* mxmlSet* writes where mxmlGet* will read. *)
LEMMA StoreKeepsData ==
  ASSUME DataInv, NEW n \in Node, NEW k, NEW v \in Names \cup Values, NEW stored \in Names \cup Values,
         Store(n, k, v, stored)
  PROVE  /\ DataTypeOK' /\ AttrsKept' /\ Held(n, k) \subseteq Node
         /\ \A m \in Node : m \notin Held(n, k) => worth'[m] = worth[m] /\ name'[m] = name[m]
         /\ \A m \in Held(n, k) : worth'[m] = v /\ name'[m] = stored
<1> DEFINE h == Holder(n, k)
           H == Held(n, k)
           V == Names \cup Values \cup {NULL}
<1>1. h \in Node \cup {NULL} /\ H = IF h = NULL THEN {} ELSE {h}
  BY HolderIsHeld DEF DataInv, NodeInv, NodeTypeOK
<1>2. /\ name' = IF h = NULL THEN name ELSE [name EXCEPT ![h] = stored]
      /\ worth' = [m \in Node |-> IF m \in H THEN v ELSE worth[m]]
      /\ attrs' = attrs /\ given' = given
  BY DEF Store
<1>3. name \in [Node -> V] /\ worth \in [Node -> V] /\ v \in V /\ stored \in V
  BY DEF DataInv, DataTypeOK
<1> HIDE DEF h, H, V
<1>4. /\ \A m \in Node : m \notin H => worth'[m] = worth[m] /\ name'[m] = name[m]
      /\ \A m \in H : worth'[m] = v /\ name'[m] = stored
  BY <1>1, <1>2, <1>3, NullIsNoNode
<1>5. name' \in [Node -> V] /\ worth' \in [Node -> V] /\ H \subseteq Node
  BY <1>1, <1>2, <1>3
<1>6. DataTypeOK' /\ AttrsKept'
  BY <1>2, <1>5 DEF DataInv, DataTypeOK, AttrsKept, V
<1> QED BY <1>4, <1>5, <1>6 DEF H

LEMMA ValueKeepsData ==
  ASSUME DataInv, NEW n \in Node, NEW k, NEW v \in Names \cup Values, SetValue(n, k, v)
  PROVE  DataTypeOK' /\ AttrsKept' /\ ValuesKept'
<1> DEFINE H == Held(n, k)
<1>1. Store(n, k, v, v) /\ formatted' = formatted \ H
  BY DEF SetValue
<1>2. /\ DataTypeOK' /\ AttrsKept' /\ H \subseteq Node
      /\ \A m \in Node : m \notin H => worth'[m] = worth[m] /\ name'[m] = name[m]
      /\ \A m \in H : worth'[m] = v /\ name'[m] = v
  BY <1>1, StoreKeepsData
<1> HIDE DEF H
<1>3. ValuesKept'
  BY <1>1, <1>2 DEF DataInv, ValuesKept
<1> QED BY <1>2, <1>3

(* What mxmlSetTextf writes no other node is read for. *)
LEMMA TextfKeepsData ==
  ASSUME DataInv, NEW n \in Node, NEW v \in Values, SetTextf(n, v)
  PROVE  DataTypeOK' /\ AttrsKept' /\ ValuesKept'
<1> DEFINE H == Held(n, "text")
<1>1. PICK stored \in Values : Store(n, "text", v, stored)
  BY DEF SetTextf
<1>2. formatted' = formatted \cup H
  BY DEF SetTextf
<1>3. /\ DataTypeOK' /\ AttrsKept'
      /\ \A m \in Node : m \notin H => worth'[m] = worth[m] /\ name'[m] = name[m]
  BY <1>1, StoreKeepsData
<1> HIDE DEF H
<1>4. ValuesKept'
  BY <1>2, <1>3 DEF DataInv, ValuesKept
<1> QED BY <1>3, <1>4

LEMMA DataNextKeeps ==
  ASSUME DataInv, [DataNext]_<<nodeVars, dataVars>>
  PROVE  DataInv'
<1>1. NodeInv'
  BY DataNextIsNodeNext, NextKeeps DEF DataInv
<1>2. ASSUME UNCHANGED dataVars PROVE DataTypeOK' /\ AttrsKept' /\ ValuesKept'
  BY <1>2 DEF dataVars, DataInv, DataTypeOK, AttrsKept, ValuesKept
<1>3. ASSUME NEW n \in Node, Create(n) PROVE DataTypeOK' /\ AttrsKept' /\ ValuesKept'
  BY <1>3, MadeKeepsData DEF Create, NewElement, NewValue
<1>4. CASE Rearrange
  <2>1. UNCHANGED dataVars
    BY <1>4 DEF Rearrange, Move, Detach
  <2> QED BY <1>1, <1>2, <2>1 DEF DataInv
<1>5. CASE Edit
  <2>1. ASSUME NEW n \in Node, NEW a \in AttrNames, DeleteAttr(n, a)
        PROVE  DataTypeOK' /\ AttrsKept' /\ ValuesKept'
    BY <2>1, AttrsKeepData
  <2>2. ASSUME NEW n \in Node, NEW a \in AttrNames, NEW v \in Values \cup {NULL}, SetAttr(n, a, v)
        PROVE  DataTypeOK' /\ AttrsKept' /\ ValuesKept'
    BY <2>2, AttrsKeepData
  <2>3. ASSUME NEW n \in Node, NEW k, NEW v \in Names \cup Values, SetValue(n, k, v)
        PROVE  DataTypeOK' /\ AttrsKept' /\ ValuesKept'
    BY <2>3, ValueKeepsData
  <2>4. ASSUME NEW n \in Node, NEW v \in CDATA, SetCDATA(n, v)
        PROVE  DataTypeOK' /\ AttrsKept' /\ ValuesKept'
    BY <2>3, <2>4, CDATAAssumption DEF SetCDATA
  <2>5. ASSUME NEW n \in Node, NEW v \in Values, SetTextf(n, v)
        PROVE  DataTypeOK' /\ AttrsKept' /\ ValuesKept'
    BY <2>5, TextfKeepsData
  <2> QED BY <1>1, <1>5, <2>1, <2>2, <2>3, <2>4, <2>5 DEF Edit, DataInv
<1>6. CASE Deletion \/ UNCHANGED <<nodeVars, dataVars>>
  <2>1. UNCHANGED dataVars
    BY <1>6 DEF Deletion
  <2> QED BY <1>1, <1>2, <2>1 DEF DataInv
<1> QED BY <1>1, <1>3, <1>4, <1>5, <1>6 DEF DataNext, DataInv

THEOREM DataInvAlways == DataSpec => []DataInv
<1>1. DataInv /\ [DataNext]_<<nodeVars, dataVars>> => DataInv'
  BY DataNextKeeps
<1> QED BY <1>1, DataInvInit, PTL DEF DataSpec

(* mxmlElementGetAttr gives the value that mxmlElementSetAttr was given    *)
(* last for that name, NULL after mxmlElementDeleteAttr, and mxmlGet* what *)
(* was last put into the node it reads, by any call but mxmlSetTextf, for  *)
(* any number of nodes, and while nodes are moved, counted and deleted.    *)
THEOREM DataAlwaysKept == DataSpec => []DataKept
<1>1. DataInv => DataKept
  <2> SUFFICES ASSUME DataInv, NEW n \in LiveNodes
               PROVE  /\ IsElement(n) =>
                           \A a \in AttrNames : Attr!GetAttr(Tree, n, a) = given[n][a]
                      /\ \A k \in Kinds : Reads(n, k)
    BY DEF DataKept
  <2>1. n \in Node
    BY DEF LiveNodes
  <2>2. ASSUME IsElement(n), NEW a \in AttrNames PROVE Attr!GetAttr(Tree, n, a) = given[n][a]
    <3>1. Tree.kind[n] = "element" /\ Tree.attrs[n] = attrs[n]
      BY <2>2 DEF Tree, IsElement
    <3>2. Attr!GetAttr(Tree, n, a) = Attr!AttrIn(attrs[n], a)
      BY <3>1 DEF Attr!GetAttr
    <3> QED BY <2>1, <3>2 DEF DataInv, AttrsKept
  <2>3. ASSUME NEW k \in Kinds PROVE Reads(n, k)
    <3>1. Holder(n, k) \in Node \cup {NULL} /\ Held(n, k) = IF Holder(n, k) = NULL THEN {} ELSE {Holder(n, k)}
      BY <2>1, HolderIsHeld DEF DataInv, NodeInv, NodeTypeOK
    <3>2. \A m \in Node \ formatted : worth[m] = name[m]
      BY DEF DataInv, ValuesKept
    <3> QED BY <3>1, <3>2 DEF Get, Reads
  <2> QED BY <2>2, <2>3
<1> QED BY <1>1, DataInvAlways, PTL

(***************************************************************************)
(* Functions defined by recursion along a chain that ends: no set of       *)
(* points is one the chain never leaves.                                   *)
(***************************************************************************)
Ends(D, Stop, succ) == \A S \in SUBSET (D \ Stop) : S # {} => \E x \in S : succ[x] \notin S
Recursive(F, D, Stop, succ, base, step) ==
  \A x \in D : F[x] = IF x \in Stop THEN base[x] ELSE step[<<x, F[succ[x]]>>]

LEMMA Recursion ==
  ASSUME NEW D, NEW Stop, NEW V, NEW succ, Ends(D, Stop, succ),
         \A x \in D \ Stop : succ[x] \in D,
         NEW base \in [D -> V], NEW step \in [D \X V -> V]
  PROVE  \E F \in [D -> V] : Recursive(F, D, Stop, succ, base, step)
(* The least relation that has the pairs of the definition is a function.  *)
<1> DEFINE Closed_(Q) == \A x \in D : /\ x \in Stop => <<x, base[x]>> \in Q
                                      /\ x \notin Stop => \A v \in V :
                                           <<succ[x], v>> \in Q => <<x, step[<<x, v>>]>> \in Q
           R == {e \in D \X V : \A Q \in SUBSET (D \X V) : Closed_(Q) => e \in Q}
           Only(x, v) == v \in V /\ <<x, v>> \in R /\ \A w \in V : <<x, w>> \in R => w = v
           Bad == {x \in D : ~ \E v \in V : Only(x, v)}
<1>1. R \in SUBSET (D \X V) /\ \A Q \in SUBSET (D \X V) : Closed_(Q) => R \subseteq Q
  OBVIOUS
<1>2. Closed_(R)
  <2> SUFFICES ASSUME NEW x \in D
               PROVE  /\ x \in Stop => <<x, base[x]>> \in R
                      /\ x \notin Stop => \A v \in V : <<succ[x], v>> \in R => <<x, step[<<x, v>>]>> \in R
    OBVIOUS
  <2>1. ASSUME x \in Stop PROVE <<x, base[x]>> \in R
    BY <2>1
  <2>2. ASSUME x \notin Stop, NEW v \in V, <<succ[x], v>> \in R PROVE <<x, step[<<x, v>>]>> \in R
    <3>1. <<x, step[<<x, v>>]>> \in D \X V
      OBVIOUS
    <3>2. ASSUME NEW Q \in SUBSET (D \X V), Closed_(Q) PROVE <<x, step[<<x, v>>]>> \in Q
      <4>1. <<succ[x], v>> \in Q
        BY <2>2, <3>2
      <4> QED BY <2>2, <3>2, <4>1
    <3> QED BY <3>1, <3>2
  <2> QED BY <2>1, <2>2
(* Whatever is not needed at one point can be left out. *)
<1>3. ASSUME NEW x \in D, NEW v \in V, <<x, v>> \in R,
             x \in Stop => v = base[x],
             x \notin Stop => \A u \in V : <<succ[x], u>> \in R => step[<<x, u>>] = v
      PROVE  Only(x, v)
  <2> DEFINE Q == {e \in R : e[1] = x => e[2] = v}
  <2>1. Q \in SUBSET (D \X V)
    BY <1>1
  <2>2. ASSUME NEW y \in D
        PROVE  /\ y \in Stop => <<y, base[y]>> \in Q
               /\ y \notin Stop => \A u \in V : <<succ[y], u>> \in Q => <<y, step[<<y, u>>]>> \in Q
    <3>1. ASSUME y \in Stop PROVE <<y, base[y]>> \in Q
      BY <1>2, <1>3, <3>1
    <3>2. ASSUME y \notin Stop, NEW u \in V, <<succ[y], u>> \in Q PROVE <<y, step[<<y, u>>]>> \in Q
      <4>1. <<succ[y], u>> \in R
        BY <3>2
      <4>2. <<y, step[<<y, u>>]>> \in R
        BY <1>2, <3>2, <4>1
      <4>3. y = x => step[<<y, u>>] = v
        BY <1>3, <3>2, <4>1
      <4> QED BY <4>2, <4>3
    <3> QED BY <3>1, <3>2
  <2>3. R \subseteq Q
    BY <1>1, <2>1, <2>2
  <2> QED BY <1>3, <2>3
<1> HIDE DEF R
<1>4. Bad = {}
  <2> SUFFICES ASSUME Bad # {} PROVE FALSE
    OBVIOUS
  <2>1. \A x \in Bad : x \notin Stop
    BY <1>2, <1>3
  <2>2. PICK x \in Bad : succ[x] \notin Bad
    BY <2>1 DEF Ends
  <2>3. x \in D /\ x \notin Stop /\ succ[x] \in D
    BY <2>1
  <2>4. PICK u \in V : Only(succ[x], u)
    BY <2>2, <2>3
  <2>5. step[<<x, u>>] \in V /\ <<x, step[<<x, u>>]>> \in R
    BY <1>2, <2>3, <2>4
  <2>6. \A w \in V : <<succ[x], w>> \in R => step[<<x, w>>] = step[<<x, u>>]
    BY <2>4
  <2>7. Only(x, step[<<x, u>>])
    <3> DEFINE s == step[<<x, u>>]
    <3>1. s \in V /\ <<x, s>> \in R /\ \A w \in V : <<succ[x], w>> \in R => step[<<x, w>>] = s
      BY <2>5, <2>6
    <3> HIDE DEF s
    <3>2. Only(x, s)
      BY <1>3, <2>3, <3>1
    <3> QED BY <3>2 DEF s
  <2> QED BY <2>5, <2>7
<1> DEFINE F == [x \in D |-> CHOOSE v \in V : Only(x, v)]
<1>5. \A x \in D : F[x] \in V /\ Only(x, F[x])
  BY <1>4
<1>6. F \in [D -> V]
  BY <1>5
<1> HIDE DEF F
<1>7. ASSUME NEW x \in D PROVE F[x] = IF x \in Stop THEN base[x] ELSE step[<<x, F[succ[x]]>>]
  <2>1. CASE x \in Stop
    BY <1>2, <1>5, <2>1
  <2>2. CASE x \notin Stop
    <3>1. succ[x] \in D /\ F[succ[x]] \in V /\ <<succ[x], F[succ[x]]>> \in R
      BY <1>5, <2>2
    <3>2. <<x, step[<<x, F[succ[x]]>>]>> \in R /\ step[<<x, F[succ[x]]>>] \in V
      BY <1>2, <2>2, <3>1
    <3> QED BY <1>5, <2>2, <3>2
  <2> QED BY <2>1, <2>2
<1> QED BY <1>6, <1>7 DEF Recursive

(***************************************************************************)
(* What a node is under.  No node is under itself: a set of nodes that     *)
(* are all under nodes of the set would be a circle.                       *)
(***************************************************************************)
Grounded(f) == \A S \in SUBSET Node : S # {} => \E x \in S : f.up[x] \notin S
Tidy == ForestType(forest) /\ Ordered(forest) /\ Grounded(forest)

LEMMA OverFacts ==
  ASSUME Tidy, NEW n \in Node
  PROVE  /\ Over[n] \in SUBSET Node
         /\ forest.up[n] \in Node \cup {NULL}
         /\ Over[n] = {n} \cup IF forest.up[n] = NULL THEN {} ELSE Over[forest.up[n]]
<1> DEFINE V == SUBSET Node
           Stop == {x \in Node : forest.up[x] = NULL}
           base == [x \in Node |-> {x}]
           step == [p \in Node \X V |-> {p[1]} \cup p[2]]
<1>1. \A x \in Node : forest.up[x] \in Node \cup {NULL}
  BY DEF Tidy, ForestType, Link
<1>2. Ends(Node, Stop, forest.up)
  BY DEF Tidy, Grounded, Ends
<1>3. \A x \in Node \ Stop : forest.up[x] \in Node
  BY <1>1
<1>4. base \in [Node -> V] /\ step \in [Node \X V -> V]
  OBVIOUS
<1>5. \A x \in Node, v \in V : base[x] = {x} /\ step[<<x, v>>] = {x} \cup v
  OBVIOUS
<1> HIDE DEF base, step, V
<1>6. PICK F \in [Node -> V] : Recursive(F, Node, Stop, forest.up, base, step)
  BY <1>2, <1>3, <1>4, Recursion
<1>7. ASSUME NEW x \in Node
      PROVE  F[x] = {x} \cup IF forest.up[x] = NULL THEN {} ELSE F[forest.up[x]]
  BY <1>3, <1>5, <1>6 DEF Recursive
<1>8. F = [x \in Node |-> {x} \cup IF forest.up[x] = NULL THEN {} ELSE F[forest.up[x]]]
  BY <1>7
<1>9. Over = [x \in Node |-> {x} \cup IF forest.up[x] = NULL THEN {} ELSE Over[forest.up[x]]]
  BY <1>8 DEF Over
<1>10. ASSUME NEW x \in Node
       PROVE  Over[x] = {x} \cup IF forest.up[x] = NULL THEN {} ELSE Over[forest.up[x]]
  BY <1>9
<1>11. ASSUME NEW x \in Node PROVE Over[x] = F[x]
  <2> DEFINE Bad == {y \in Node : Over[y] # F[y]}
  <2> SUFFICES ASSUME Bad # {} PROVE FALSE
    OBVIOUS
  <2>1. PICK y \in Bad : forest.up[y] \notin Bad
    BY DEF Tidy, Grounded
  <2> QED BY <1>1, <1>7, <1>10, <2>1
<1>12. Over[n] = F[n] /\ F[n] \in SUBSET Node
  BY <1>11 DEF V
<1> QED BY <1>1, <1>10, <1>12

OverLaws ==
  /\ \A a \in Node : Over[a] \in SUBSET Node /\ a \in Over[a]
  /\ \A a, b \in Node : forest.up[b] = a => a \in Over[b] /\ b \notin Over[a] /\ a # b
  /\ \A a, b \in Node : a \in Over[b] /\ a # b => forest.up[b] \in Node /\ a \in Over[forest.up[b]]
  /\ \A a, b, c \in Node : a \in Over[b] /\ b \in Over[c] => a \in Over[c]
  /\ \A a, b \in Node : a \in Over[b] /\ b \in Over[a] => a = b
  /\ \A a, b, c \in Node : a \in Over[c] /\ b \in Over[c] => a \in Over[b] \/ b \in Over[a]

LEMMA OverIsOrder == Tidy => OverLaws
<1> SUFFICES ASSUME Tidy PROVE OverLaws
  OBVIOUS
<1>1. \A a \in Node : Over[a] \in SUBSET Node /\ a \in Over[a] /\ forest.up[a] \in Node \cup {NULL}
  BY OverFacts
<1>2. \A a, b \in Node : a \in Over[b] /\ a # b => forest.up[b] \in Node /\ a \in Over[forest.up[b]]
  BY OverFacts
<1>3. \A a, b \in Node : a \in Node /\ forest.up[b] = a => Over[a] \subseteq Over[b]
  BY OverFacts, NullIsNoNode
<1>4. \A a, b, c \in Node : a \in Over[b] /\ b \in Over[c] => a \in Over[c]
  <2> DEFINE Bad == {c \in Node : \E a, b \in Node : a \in Over[b] /\ b \in Over[c] /\ a \notin Over[c]}
  <2> SUFFICES ASSUME Bad # {} PROVE FALSE
    OBVIOUS
  <2>1. PICK c \in Bad : forest.up[c] \notin Bad
    BY DEF Tidy, Grounded
  <2>2. PICK a \in Node, b \in Node : a \in Over[b] /\ b \in Over[c] /\ a \notin Over[c]
    BY <2>1
  <2>3. c \in Node /\ b # c
    BY <2>2
  <2>4. forest.up[c] \in Node /\ b \in Over[forest.up[c]]
    BY <1>2, <2>2, <2>3
  <2>5. a \in Over[forest.up[c]]
    BY <2>1, <2>2, <2>4
  <2> QED BY <1>3, <2>2, <2>3, <2>4, <2>5
<1>5. \A a, b \in Node : a \in Over[b] /\ b \in Over[a] => a = b
  <2> SUFFICES ASSUME NEW a \in Node, NEW b \in Node, a \in Over[b], b \in Over[a], a # b PROVE FALSE
    OBVIOUS
  <2> DEFINE C == {x \in Node : a \in Over[x] /\ x \in Over[a]}
  <2>1. a \in C
    BY <1>1
  <2>2. PICK x \in C : forest.up[x] \notin C
    BY <2>1 DEF Tidy, Grounded
  <2>3. forest.up[x] \in Node /\ a \in Over[forest.up[x]]
    <3>1. CASE x # a
      BY <1>2, <2>2, <3>1
    <3>2. CASE x = a
      <4>1. forest.up[a] \in Node /\ b \in Over[forest.up[a]]
        BY <1>2
      <4> QED BY <1>4, <3>2, <4>1
    <3> QED BY <3>1, <3>2
  <2>4. forest.up[x] \in Over[x]
    BY <1>1, <1>3, <2>2, <2>3
  <2>5. forest.up[x] \in Over[a]
    BY <1>4, <2>2, <2>3, <2>4
  <2> QED BY <2>2, <2>3, <2>5
<1>6. \A a, b \in Node : forest.up[b] = a => a \in Over[b] /\ b \notin Over[a] /\ a # b
  <2> SUFFICES ASSUME NEW a \in Node, NEW b \in Node, forest.up[b] = a
               PROVE  a \in Over[b] /\ b \notin Over[a] /\ a # b
    OBVIOUS
  <2>1. a # b
    <3> SUFFICES ASSUME a = b PROVE FALSE
      OBVIOUS
    <3>1. {b} \in SUBSET Node /\ {b} # {} /\ \A x \in {b} : forest.up[x] \in {b}
      OBVIOUS
    <3> QED BY <3>1 DEF Tidy, Grounded
  <2>2. a \in Over[b]
    BY <1>1, <1>3
  <2> QED BY <1>5, <2>1, <2>2
<1>7. \A a, b, c \in Node : a \in Over[c] /\ b \in Over[c] => a \in Over[b] \/ b \in Over[a]
  <2> DEFINE Bad == {c \in Node : \E a, b \in Node : /\ a \in Over[c] /\ b \in Over[c]
                                                   /\ a \notin Over[b] /\ b \notin Over[a]}
  <2> SUFFICES ASSUME Bad # {} PROVE FALSE
    OBVIOUS
  <2>1. PICK c \in Bad : forest.up[c] \notin Bad
    BY DEF Tidy, Grounded
  <2>2. PICK a \in Node, b \in Node : a \in Over[c] /\ b \in Over[c] /\ a \notin Over[b] /\ b \notin Over[a]
    BY <2>1
  <2>3. a # c /\ b # c /\ c \in Node
    BY <2>2
  <2> QED BY <1>2, <2>1, <2>2, <2>3
<1> HIDE DEF Tidy
<1> QED BY <1>1, <1>2, <1>4, <1>5, <1>6, <1>7 DEF OverLaws

(***************************************************************************)
(* Document order is one: two nodes of which one is under a sibling of     *)
(* what the other is under are not under each other.                       *)
(***************************************************************************)
Beside(a, b) == \E x \in Over[a], y \in Over[b] : Precedes(forest, x, y)

LEMMA SiblingsApart ==
  ASSUME Tidy, NEW x, NEW y, Precedes(forest, x, y)
  PROVE  /\ x \in Node /\ y \in Node /\ forest.up[x] = forest.up[y] /\ forest.up[x] \in Node
         /\ \A c \in Node : ~(x \in Over[c] /\ y \in Over[c])
         /\ \A c \in Node : c \in Over[x] /\ c # x => c \in Over[y]
         /\ \A c \in Node : c \in Over[y] /\ c # y => c \in Over[x]
<1>1. OverLaws
  BY OverIsOrder
<1>2. x \in Node /\ y \in Node
  BY DEF Tidy, ForestType, Precedes
<1>3. forest.up[x] = forest.up[y] /\ forest.up[x] # NULL
  BY <1>2 DEF Tidy, Ordered
<1>4. forest.up[x] \in Node
  BY <1>2, <1>3 DEF Tidy, ForestType, Link
<1>5. x # y
  BY <1>2 DEF Tidy, Ordered
<1> HIDE DEF Tidy
<1>6. forest.up[x] \in Over[x] /\ forest.up[y] \in Over[y]
  BY <1>1, <1>2, <1>3, <1>4 DEF OverLaws
<1>7. ASSUME NEW c \in Node, c \in Over[x], c # x PROVE c \in Over[y]
  <2>1. c \in Over[forest.up[x]]
    BY <1>1, <1>2, <1>7 DEF OverLaws
  <2> QED BY <1>1, <1>2, <1>3, <1>4, <1>6, <2>1 DEF OverLaws
<1>8. ASSUME NEW c \in Node, c \in Over[y], c # y PROVE c \in Over[x]
  <2>1. c \in Over[forest.up[y]]
    BY <1>1, <1>2, <1>8 DEF OverLaws
  <2> QED BY <1>1, <1>2, <1>3, <1>4, <1>6, <2>1 DEF OverLaws
<1>9. x \notin Over[y] /\ y \notin Over[x]
  <2>1. x \notin Over[forest.up[y]] /\ y \notin Over[forest.up[x]]
    BY <1>1, <1>2, <1>3, <1>4 DEF OverLaws
  <2> QED BY <1>1, <1>2, <1>5, <2>1 DEF OverLaws
<1>10. \A c \in Node : ~(x \in Over[c] /\ y \in Over[c])
  BY <1>1, <1>2, <1>9 DEF OverLaws
<1> QED BY <1>2, <1>3, <1>4, <1>7, <1>8, <1>10

LEMMA BesideFacts ==
  ASSUME Tidy, NEW a \in Node, NEW b \in Node, Beside(a, b)
  PROVE  /\ a # b
         /\ \A c \in Node : b \in Over[c] => Beside(a, c)
         /\ \A c \in Node : a \in Over[c] => Beside(c, b)
<1>1. OverLaws
  BY OverIsOrder
<1>2. PICK x \in Over[a], y \in Over[b] : Precedes(forest, x, y)
  BY DEF Beside
<1>3. x \in Node /\ y \in Node
  BY <1>2, SiblingsApart
<1>4. a # b
  BY <1>2, SiblingsApart
<1>5. ASSUME NEW c \in Node, b \in Over[c] PROVE Beside(a, c)
  <2>1. y \in Over[c]
    BY <1>1, <1>3, <1>5 DEF OverLaws
  <2> QED BY <1>2, <2>1 DEF Beside
<1>6. ASSUME NEW c \in Node, a \in Over[c] PROVE Beside(c, b)
  <2>1. x \in Over[c]
    BY <1>1, <1>3, <1>6 DEF OverLaws
  <2> QED BY <1>2, <2>1 DEF Beside
<1> QED BY <1>4, <1>5, <1>6

LEMMA EarlierIsOrder ==
  ASSUME Tidy, NEW a \in Node, NEW b \in Node, NEW c \in Node, Earlier(a, b), Earlier(b, c)
  PROVE  Earlier(a, c)
<1>1. OverLaws
  BY OverIsOrder
<1>2. a # b /\ b # c /\ (a \in Over[b] \/ Beside(a, b)) /\ (b \in Over[c] \/ Beside(b, c))
  BY DEF Earlier, Beside
<1>3. Beside(a, c) => Earlier(a, c)
  BY BesideFacts DEF Earlier, Beside
<1>4. CASE a \in Over[b] /\ b \in Over[c]
  <2>1. a \in Over[c]
    BY <1>1, <1>4 DEF OverLaws
  <2>2. a # c
    BY <1>1, <1>2, <1>4 DEF OverLaws
  <2> QED BY <2>1, <2>2 DEF Earlier
<1>5. CASE Beside(a, b) /\ b \in Over[c]
  BY <1>3, <1>5, BesideFacts
<1>6. CASE a \in Over[b] /\ Beside(b, c)
  <2>1. PICK x \in Over[b], y \in Over[c] : Precedes(forest, x, y)
    BY <1>6 DEF Beside
  <2>2. /\ x \in Node /\ y \in Node
        /\ ~(x \in Over[b] /\ y \in Over[b])
        /\ a \in Over[x] /\ a # x => a \in Over[y]
    BY <2>1, SiblingsApart
  <2>3. CASE x \in Over[a]
    BY <1>3, <2>1, <2>3 DEF Beside
  <2>4. CASE x \notin Over[a]
    <3>1. a \in Over[x] /\ a # x
      BY <1>1, <1>6, <2>1, <2>2, <2>4 DEF OverLaws
    <3>2. a \in Over[y]
      BY <2>2, <3>1
    <3>3. a \in Over[c]
      BY <1>1, <2>1, <2>2, <3>2 DEF OverLaws
    <3>4. a # c
      <4> SUFFICES ASSUME a = c PROVE FALSE
        OBVIOUS
      <4>1. y \in Over[b]
        BY <1>1, <1>6, <2>1, <2>2 DEF OverLaws
      <4> QED BY <2>1, <2>2, <4>1
    <3> QED BY <3>3, <3>4 DEF Earlier
  <2> QED BY <2>3, <2>4
<1>7. CASE Beside(a, b) /\ Beside(b, c)
  <2>1. PICK x \in Over[a], y \in Over[b] : Precedes(forest, x, y)
    BY <1>7 DEF Beside
  <2>2. PICK z \in Over[b], w \in Over[c] : Precedes(forest, z, w)
    BY <1>7 DEF Beside
  <2>3. x \in Node /\ y \in Node /\ z \in Node /\ w \in Node
    BY <2>1, <2>2, SiblingsApart
  <2>4. CASE y = z
    <3>1. Precedes(forest, x, w)
      BY <2>1, <2>2, <2>3, <2>4 DEF Tidy, Ordered
    <3> QED BY <1>3, <2>1, <2>2, <3>1 DEF Beside
  <2>5. CASE y # z /\ y \in Over[z]
    <3>1. y \in Over[w]
      BY <2>2, <2>3, <2>5, SiblingsApart
    <3>2. y \in Over[c]
      BY <1>1, <2>2, <2>3, <3>1 DEF OverLaws
    <3> QED BY <1>3, <2>1, <3>2 DEF Beside
  <2>6. CASE y # z /\ z \in Over[y]
    <3>1. z \in Over[x]
      BY <2>1, <2>3, <2>6, SiblingsApart
    <3>2. z \in Over[a]
      BY <1>1, <2>1, <2>3, <3>1 DEF OverLaws
    <3> QED BY <1>3, <2>2, <3>2 DEF Beside
  <2>7. y \in Over[z] \/ z \in Over[y]
    BY <1>1, <2>1, <2>2, <2>3 DEF OverLaws
  <2> QED BY <2>4, <2>5, <2>6, <2>7
<1> QED BY <1>2, <1>4, <1>5, <1>6, <1>7

(* A chain that only goes on in document order ends.                       *)
LEMMA LeastElement ==
  ASSUME NEW S \in SUBSET Nat, S # {}
  PROVE  \E i \in S : \A y \in S : i <= y
<1>1. IsWellFoundedOn(OpToRel(<, Nat), Nat)
  BY NatLessThanWellFounded
<1>2. PICK i \in S : \A y \in S : <<y, i>> \notin OpToRel(<, Nat)
  BY <1>1, WFMin
<1>3. \A y \in S : ~(y < i)
  BY <1>2 DEF OpToRel
<1> QED BY <1>3

LEMMA OnwardEnds ==
  ASSUME Tidy, IsFiniteSet(Node), NEW D, NEW Stop, D \ Stop \subseteq Node, NEW succ,
         \A x \in D \ Stop : succ[x] \in Node => Earlier(x, succ[x])
  PROVE  Ends(D, Stop, succ)
<1> SUFFICES ASSUME NEW S \in SUBSET (D \ Stop), S # {}, \A x \in S : succ[x] \in S PROVE FALSE
  BY DEF Ends
<1> DEFINE After(x) == {m \in Node : Earlier(x, m)}
           sizes == {Cardinality(After(x)) : x \in S}
<1>1. ASSUME NEW x \in S PROVE IsFiniteSet(After(x)) /\ Cardinality(After(x)) \in Nat
  BY FS_Subset, FS_CardinalityType
<1>2. sizes \in SUBSET Nat /\ sizes # {}
  BY <1>1
<1>3. PICK x \in S : \A y \in S : Cardinality(After(x)) <= Cardinality(After(y))
  <2> HIDE DEF After
  <2>1. PICK i \in sizes : \A k \in sizes : i <= k
    <3> HIDE DEF sizes
    <3> QED BY <1>2, LeastElement
  <2>2. PICK x \in S : i = Cardinality(After(x))
    OBVIOUS
  <2> QED BY <2>1, <2>2
<1> DEFINE y == succ[x]
<1>4. y \in S /\ x \in Node /\ y \in Node /\ Earlier(x, y)
  OBVIOUS
<1>5. After(y) \subseteq After(x)
  BY <1>4, EarlierIsOrder
<1>6. y \in After(x) /\ y \notin After(y)
  BY <1>4 DEF Earlier
<1> DEFINE A == After(x)
           B == After(y)
<1>7. IsFiniteSet(A) /\ B \in SUBSET A /\ A # B /\ Cardinality(A) \in Nat /\ Cardinality(B) \in Nat
      /\ Cardinality(A) <= Cardinality(B)
  BY <1>1, <1>3, <1>4, <1>5, <1>6
<1> HIDE DEF A, B
<1>8. Cardinality(B) <= Cardinality(A) /\ Cardinality(A) # Cardinality(B)
  BY <1>7, FS_Subset
<1> QED BY <1>7, <1>8

(***************************************************************************)
(* The pointers, as the walks use them.                                    *)
(***************************************************************************)
Ready == Tidy /\ links \in Links /\ Represents(links, forest) /\ DOMAIN kind = Node

(* b is the sibling that follows a, c the first and d the last under p.    *)
NextIs(a, b) ==
  IF b = NULL THEN \A m \in Node : ~Precedes(forest, a, m)
  ELSE /\ b \in Node /\ Precedes(forest, a, b)
       /\ \A m \in Node : Precedes(forest, a, m) => m = b \/ Precedes(forest, b, m)
PrevIs(a, b) ==
  IF b = NULL THEN \A m \in Node : ~Precedes(forest, m, a)
  ELSE /\ b \in Node /\ Precedes(forest, b, a)
       /\ \A m \in Node : Precedes(forest, m, a) => m = b \/ Precedes(forest, m, b)
FirstIs(p, c) ==
  IF c = NULL THEN \A m \in Node : forest.up[m] # p
  ELSE /\ c \in Node /\ forest.up[c] = p
       /\ \A m \in Node : forest.up[m] = p => m = c \/ Precedes(forest, c, m)
LastIs(p, d) ==
  IF d = NULL THEN \A m \in Node : forest.up[m] # p
  ELSE /\ d \in Node /\ forest.up[d] = p
       /\ \A m \in Node : forest.up[m] = p => m = d \/ Precedes(forest, m, d)

LEMMA PointersLead ==
  ASSUME Ready, NEW n \in Node
  PROVE  /\ NextIs(n, links.next[n]) /\ PrevIs(n, links.prev[n])
         /\ FirstIs(n, links.child[n]) /\ LastIs(n, links.last_child[n])
         /\ links.parent[n] = forest.up[n]
         /\ \A q \in {links.next[n], links.prev[n], links.child[n], links.last_child[n], forest.up[n]} :
              q \in Node \cup {NULL}
<1>1. /\ links.parent = forest.up /\ SidesAgree(links, forest) /\ EndsAgree(links, forest)
      /\ Ordered(forest) /\ forest.up \in Link
  BY DEF Ready, Represents, Tidy, ForestType
<1>2. /\ links.next \in Link /\ links.prev \in Link /\ links.child \in Link /\ links.last_child \in Link
  BY DEF Ready, Links
<1>3. \A q \in {links.next[n], links.prev[n], links.child[n], links.last_child[n], forest.up[n]} :
        q \in Node \cup {NULL}
  BY <1>1, <1>2 DEF Link
<1>4. \A a, b \in Node : Precedes(forest, a, b) => a # b
  BY <1>1 DEF Ordered
<1>5. NextIs(n, links.next[n])
  <2>1. CASE links.next[n] = NULL
    BY <1>1, <2>1 DEF SidesAgree, NextIs
  <2>2. CASE links.next[n] # NULL
    <3> DEFINE b == links.next[n]
    <3>1. /\ b \in Node /\ Precedes(forest, n, b)
          /\ \A k \in Node : ~(Precedes(forest, n, k) /\ Precedes(forest, k, b))
      BY <1>1, <1>3, <2>2 DEF SidesAgree
    <3> HIDE DEF b
    <3>2. \A m \in Node : Precedes(forest, n, m) => m = b \/ Precedes(forest, b, m)
      BY <1>1, <3>1 DEF Ordered
    <3>3. NextIs(n, b)
      BY <3>1, <3>2, NullIsNoNode DEF NextIs
    <3> QED BY <3>3 DEF b
  <2> QED BY <2>1, <2>2
<1>6. PrevIs(n, links.prev[n])
  <2>1. CASE links.prev[n] = NULL
    BY <1>1, <2>1 DEF SidesAgree, PrevIs
  <2>2. CASE links.prev[n] # NULL
    <3> DEFINE b == links.prev[n]
    <3>1. b \in Node /\ links.next[b] = n
      BY <1>1, <1>3, <2>2 DEF SidesAgree
    <3>2. /\ Precedes(forest, b, n)
          /\ \A k \in Node : ~(Precedes(forest, b, k) /\ Precedes(forest, k, n))
      BY <1>1, <3>1, NullIsNoNode DEF SidesAgree
    <3> HIDE DEF b
    <3>3. \A m \in Node : Precedes(forest, m, n) => m = b \/ Precedes(forest, m, b)
      BY <1>1, <3>1, <3>2 DEF Ordered
    <3>4. PrevIs(n, b)
      BY <3>1, <3>2, <3>3, NullIsNoNode DEF PrevIs
    <3> QED BY <3>4 DEF b
  <2> QED BY <2>1, <2>2
<1>7. FirstIs(n, links.child[n])
  <2>1. CASE links.child[n] = NULL
    BY <1>1, <2>1 DEF EndsAgree, KidsOf, FirstIs
  <2>2. CASE links.child[n] # NULL
    <3> DEFINE c == links.child[n]
    <3>1. c \in Node /\ forest.up[c] = n /\ links.prev[c] = NULL
      BY <1>1, <1>3, <2>2 DEF EndsAgree
    <3>2. \A k \in Node : ~Precedes(forest, k, c)
      BY <1>1, <3>1 DEF SidesAgree
    <3> HIDE DEF c
    <3>3. \A m \in Node : forest.up[m] = n => m = c \/ Precedes(forest, c, m)
      BY <1>1, <3>1, <3>2, NullIsNoNode DEF Ordered
    <3>4. FirstIs(n, c)
      BY <3>1, <3>3, NullIsNoNode DEF FirstIs
    <3> QED BY <3>4 DEF c
  <2> QED BY <2>1, <2>2
<1>8. LastIs(n, links.last_child[n])
  <2>1. CASE links.last_child[n] = NULL
    BY <1>1, <2>1 DEF EndsAgree, KidsOf, LastIs
  <2>2. CASE links.last_child[n] # NULL
    <3> DEFINE c == links.last_child[n]
    <3>1. c \in Node /\ forest.up[c] = n /\ links.next[c] = NULL
      BY <1>1, <1>3, <2>2 DEF EndsAgree
    <3>2. \A k \in Node : ~Precedes(forest, c, k)
      BY <1>1, <3>1 DEF SidesAgree
    <3> HIDE DEF c
    <3>3. \A m \in Node : forest.up[m] = n => m = c \/ Precedes(forest, m, c)
      BY <1>1, <3>1, <3>2, NullIsNoNode DEF Ordered
    <3>4. LastIs(n, c)
      BY <3>1, <3>3, NullIsNoNode DEF LastIs
    <3> QED BY <3>4 DEF c
  <2> QED BY <2>1, <2>2
<1> QED BY <1>1, <1>3, <1>5, <1>6, <1>7, <1>8

(***************************************************************************)
(* Walking on.                                                             *)
(***************************************************************************)
(* The loop that climbs ends, for no node is under itself. *)
LEMMA NextAboveFacts ==
  ASSUME Ready, NEW top, NEW n \in Node
  PROVE  /\ NextAbove(Tree, n, top) \in Node \cup {NULL}
         /\ NextAbove(Tree, n, top) =
              IF links.next[n] # NULL THEN links.next[n]
              ELSE IF forest.up[n] \in {top, NULL} THEN NULL
              ELSE NextAbove(Tree, forest.up[n], top)
<1> DEFINE V == Node \cup {NULL}
           Stop == {x \in Node : links.next[x] # NULL \/ forest.up[x] \in {top, NULL}}
           step == [p \in Node \X V |-> p[2]]
<1>1. \A x \in Node : forest.up[x] \in V
  BY PointersLead
<1>2. Ends(Node, Stop, forest.up)
  BY DEF Ready, Tidy, Grounded, Ends
<1>3. \A x \in Node \ Stop : forest.up[x] \in Node
  BY <1>1
<1>4. links.next \in [Node -> V] /\ step \in [Node \X V -> V]
  BY DEF Ready, Links, Link
<1>5. \A x \in Node, v \in V : step[<<x, v>>] = v
  OBVIOUS
<1>6. Tree.links = links /\ Tree.kind = kind /\ links.parent = forest.up /\ DOMAIN kind = Node
  BY DEF Tree, Ready, Represents
<1> HIDE DEF step, V
<1>7. PICK F \in [Node -> V] : Recursive(F, Node, Stop, forest.up, links.next, step)
  BY <1>2, <1>3, <1>4, Recursion
<1>8. ASSUME NEW x \in Node
      PROVE  F[x] = IF links.next[x] # NULL THEN links.next[x]
                    ELSE IF forest.up[x] \in {top, NULL} THEN NULL ELSE F[forest.up[x]]
  BY <1>3, <1>5, <1>7 DEF Recursive
<1>9. F = [x \in Node |->
             IF links.next[x] # NULL THEN links.next[x]
             ELSE IF forest.up[x] \in {top, NULL} THEN NULL ELSE F[forest.up[x]]]
  BY <1>8
<1> DEFINE above == CHOOSE g : g = [x \in Node |->
             IF links.next[x] # NULL THEN links.next[x]
             ELSE IF forest.up[x] \in {top, NULL} THEN NULL ELSE g[forest.up[x]]]
<1>10. above = [x \in Node |->
             IF links.next[x] # NULL THEN links.next[x]
             ELSE IF forest.up[x] \in {top, NULL} THEN NULL ELSE above[forest.up[x]]]
  BY <1>9
<1>11. \A x : NextAbove(Tree, x, top) = above[x]
  BY <1>6 DEF NextAbove
<1> HIDE DEF above
<1>12. ASSUME NEW x \in Node
       PROVE  above[x] = IF links.next[x] # NULL THEN links.next[x]
                         ELSE IF forest.up[x] \in {top, NULL} THEN NULL ELSE above[forest.up[x]]
  BY <1>10
<1>13. ASSUME NEW x \in Node PROVE above[x] = F[x]
  <2> DEFINE Bad == {y \in Node : above[y] # F[y]}
  <2> SUFFICES ASSUME Bad # {} PROVE FALSE
    OBVIOUS
  <2>1. PICK y \in Bad : forest.up[y] \notin Bad
    BY DEF Ready, Tidy, Grounded
  <2> QED BY <1>1, <1>8, <1>12, <2>1 DEF V
<1> QED BY <1>11, <1>12, <1>13 DEF V

LEMMA ClimbsOnward ==
  ASSUME Ready, NEW top, NEW n \in Node, NextAbove(Tree, n, top) # NULL
  PROVE  Beside(n, NextAbove(Tree, n, top))
<1> DEFINE r(x) == NextAbove(Tree, x, top)
           Bad == {x \in Node : r(x) # NULL /\ ~Beside(x, r(x))}
<1> SUFFICES ASSUME Bad # {} PROVE FALSE
  OBVIOUS
<1>1. Tidy /\ OverLaws
  BY OverIsOrder DEF Ready
<1>2. PICK x \in Bad : forest.up[x] \notin Bad
  BY <1>1 DEF Tidy, Grounded
<1>3. x \in Node /\ r(x) # NULL /\ r(x) \in Node /\ ~Beside(x, r(x))
  BY <1>2, NextAboveFacts
<1>4. r(x) = IF links.next[x] # NULL THEN links.next[x]
             ELSE IF forest.up[x] \in {top, NULL} THEN NULL ELSE r(forest.up[x])
  BY <1>3, NextAboveFacts
<1>5. NextIs(x, links.next[x]) /\ forest.up[x] \in Node \cup {NULL}
  BY <1>3, PointersLead
<1> HIDE DEF r
<1>6. CASE links.next[x] # NULL
  <2>1. Precedes(forest, x, r(x))
    BY <1>4, <1>5, <1>6 DEF NextIs
  <2> QED BY <1>1, <1>3, <2>1 DEF Beside, OverLaws
<1>7. CASE links.next[x] = NULL
  <2>1. forest.up[x] \in Node /\ r(x) = r(forest.up[x])
    BY <1>3, <1>4, <1>5, <1>7
  <2>2. Beside(forest.up[x], r(x))
    BY <1>2, <1>3, <2>1
  <2>3. forest.up[x] \in Over[x]
    BY <1>1, <1>3, <2>1 DEF OverLaws
  <2> QED BY <1>1, <1>3, <2>1, <2>2, <2>3, BesideFacts
<1> QED BY <1>6, <1>7

(* From a node below the top it leads to the first of those beside it.     *)
LEMMA ClimbsToFirst ==
  ASSUME Ready, NEW top \in Node, NEW n \in Under(top), n # top
  PROVE  IsFirst(DocOrder, NextAbove(Tree, n, top), {m \in Under(top) : Beside(n, m)})
<1> DEFINE r(x) == NextAbove(Tree, x, top)
           Rest(x) == {m \in Under(top) : Beside(x, m)}
           Bad == {x \in Under(top) \ {top} : ~IsFirst(DocOrder, r(x), Rest(x))}
<1> SUFFICES ASSUME Bad # {} PROVE FALSE
  OBVIOUS
<1>1. Tidy /\ OverLaws
  BY OverIsOrder DEF Ready
<1>2. PICK x \in Bad : forest.up[x] \notin Bad
  BY <1>1 DEF Tidy, Grounded, Under
<1>3. x \in Node /\ top \in Over[x] /\ x # top /\ ~IsFirst(DocOrder, r(x), Rest(x))
  BY <1>2 DEF Under
<1>4. r(x) = IF links.next[x] # NULL THEN links.next[x]
             ELSE IF forest.up[x] \in {top, NULL} THEN NULL ELSE r(forest.up[x])
  BY <1>3, NextAboveFacts
<1>5. NextIs(x, links.next[x])
  BY <1>3, PointersLead
<1>6. forest.up[x] \in Node /\ top \in Over[forest.up[x]] /\ forest.up[x] \in Over[x]
  BY <1>1, <1>3 DEF OverLaws
<1> DEFINE p == forest.up[x]
<1> HIDE DEF r
<1>7. CASE links.next[x] # NULL
  <2> DEFINE b == links.next[x]
  <2>1. /\ b \in Node /\ Precedes(forest, x, b) /\ r(x) = b
        /\ \A m \in Node : Precedes(forest, x, m) => m = b \/ Precedes(forest, b, m)
    BY <1>4, <1>5, <1>7 DEF NextIs
  <2> HIDE DEF b
  <2>2. top \in Over[b] /\ b \in Over[b] /\ x \in Over[x]
    BY <1>1, <1>3, <2>1, SiblingsApart DEF OverLaws
  <2>3. b \in Rest(x)
    BY <2>1, <2>2 DEF Under, Beside
  <2>4. ASSUME NEW m \in Rest(x), m # b PROVE <<b, m>> \in DocOrder
    <3>1. m \in Node /\ Beside(x, m)
      BY DEF Under
    <3>2. PICK u \in Over[x], v \in Over[m] : Precedes(forest, u, v)
      BY <3>1 DEF Beside
    <3>3. u \in Node /\ v \in Node
      BY <1>1, <3>2, SiblingsApart
    <3>4. b \in Over[m] \/ Beside(b, m)
      <4>1. CASE u = x /\ v = b
        BY <4>1
      <4>2. CASE u = x /\ v # b
        <5>1. Precedes(forest, b, v)
          BY <2>1, <3>2, <3>3, <4>2
        <5> QED BY <2>2, <3>2, <5>1 DEF Beside
      <4>3. CASE u # x
        <5>1. u \in Over[b]
          BY <1>1, <2>1, <3>2, <3>3, <4>3, SiblingsApart
        <5> QED BY <3>2, <5>1 DEF Beside
      <4> QED BY <4>1, <4>2, <4>3
    <3> QED BY <2>1, <2>4, <3>1, <3>4 DEF DocOrder, Earlier, Beside
  <2> QED BY <1>3, <2>1, <2>3, <2>4 DEF IsFirst
<1>8. CASE links.next[x] = NULL
  <2>1. \A m \in Node : ~Precedes(forest, x, m)
    BY <1>5, <1>8 DEF NextIs
  <2>2. ASSUME NEW m \in Node PROVE Beside(x, m) <=> Beside(p, m)
    <3>1. ASSUME Beside(x, m) PROVE Beside(p, m)
      <4>1. PICK u \in Over[x], v \in Over[m] : Precedes(forest, u, v)
        BY <3>1 DEF Beside
      <4>2. u \in Node /\ v \in Node /\ u # x
        BY <1>1, <2>1, <4>1, SiblingsApart
      <4>3. u \in Over[p]
        BY <1>1, <1>3, <4>2 DEF OverLaws
      <4> QED BY <4>1, <4>3 DEF Beside
    <3>2. ASSUME Beside(p, m) PROVE Beside(x, m)
      BY <1>1, <1>3, <1>6, <3>2, BesideFacts
    <3> QED BY <3>1, <3>2
  <2>3. Rest(x) = Rest(p)
    BY <2>2 DEF Under
  <2>4. CASE p = top
    <3>1. r(x) = NULL
      BY <1>4, <1>8, <2>4
    <3>2. Rest(top) = {}
      <4> SUFFICES ASSUME NEW m \in Node, top \in Over[m], Beside(top, m) PROVE FALSE
        BY DEF Under
      <4>1. Beside(m, m)
        BY <1>1, BesideFacts
      <4> QED BY <1>1, <4>1, BesideFacts
    <3>3. Rest(x) = {}
      BY <2>3, <2>4, <3>2
    <3> QED BY <1>3, <3>1, <3>3 DEF IsFirst
  <2>5. CASE p # top
    <3>1. r(x) = r(p)
      BY <1>4, <1>6, <1>8, <2>5, NullIsNoNode
    <3>2. p \in Under(top) \ {top}
      BY <1>6, <2>5 DEF Under
    <3>3. IsFirst(DocOrder, r(p), Rest(p))
      BY <1>2, <3>2
    <3> QED BY <1>3, <2>3, <3>1, <3>3
  <2> QED BY <2>4, <2>5
<1> QED BY <1>7, <1>8

(* A node that is under another is under one of its children. *)
LEMMA ChildToward ==
  ASSUME Tidy, NEW n \in Node, NEW k \in Node, n \in Over[k], n # k
  PROVE  \E c \in Node : forest.up[c] = n /\ c \in Over[k]
<1> DEFINE Bad == {x \in Node : n \in Over[x] /\ n # x /\ ~ \E c \in Node : forest.up[c] = n /\ c \in Over[x]}
<1> SUFFICES ASSUME Bad # {} PROVE FALSE
  OBVIOUS
<1>1. OverLaws
  BY OverIsOrder
<1>2. PICK x \in Bad : forest.up[x] \notin Bad
  BY DEF Tidy, Grounded
<1>3. x \in Node /\ forest.up[x] \in Node /\ n \in Over[forest.up[x]] /\ x \in Over[x]
      /\ forest.up[x] \in Over[x]
  BY <1>1, <1>2 DEF OverLaws
<1>4. CASE forest.up[x] = n
  BY <1>2, <1>3, <1>4
<1>5. CASE forest.up[x] # n
  <2>1. PICK c \in Node : forest.up[c] = n /\ c \in Over[forest.up[x]]
    BY <1>2, <1>3, <1>5
  <2>2. c \in Over[x]
    BY <1>1, <1>3, <2>1 DEF OverLaws
  <2> QED BY <1>2, <2>1, <2>2
<1> QED BY <1>4, <1>5

(* mxmlWalkNext: the first of what follows in the document, below the top. *)
LEMMA WalksOn ==
  ASSUME Ready, NEW top \in Node, NEW n \in Under(top)
  PROVE  IsFirst(DocOrder, WalkNext(Tree, n, top, "all"), {m \in Under(top) : <<n, m>> \in DocOrder})
<1> DEFINE Rest == {m \in Under(top) : <<n, m>> \in DocOrder}
           c == links.child[n]
           w == WalkNext(Tree, n, top, "all")
<1>1. Tidy /\ OverLaws
  BY OverIsOrder DEF Ready
<1>2. n \in Node /\ top \in Over[n] /\ n # NULL
  BY NullIsNoNode DEF Under
<1>3. FirstIs(n, c)
  BY <1>2, PointersLead
<1>4. w = IF c # NULL THEN c ELSE IF n = top THEN NULL ELSE NextAbove(Tree, n, top)
  <2>1. Tree.links = links /\ links.parent = forest.up
    BY DEF Tree, Ready, Represents
  <2>2. NextAbove(Tree, n, top) = IF links.next[n] # NULL THEN links.next[n]
                                  ELSE IF forest.up[n] \in {top, NULL} THEN NULL
                                  ELSE NextAbove(Tree, forest.up[n], top)
    BY <1>2, NextAboveFacts
  <2> QED BY <1>2, <2>1, <2>2 DEF WalkNext
<1>5. \A m \in Node : <<n, m>> \in DocOrder <=> n # m /\ (n \in Over[m] \/ Beside(n, m))
  BY <1>2 DEF DocOrder, Earlier, Beside
<1> HIDE DEF w
<1>6. CASE c # NULL
  <2>1. /\ c \in Node /\ forest.up[c] = n
        /\ \A m \in Node : forest.up[m] = n => m = c \/ Precedes(forest, c, m)
    BY <1>3, <1>6 DEF FirstIs
  <2> HIDE DEF c
  <2>2. n \in Over[c] /\ n # c /\ c \in Over[c]
    BY <1>1, <1>2, <2>1 DEF OverLaws
  <2>3. top \in Over[c]
    BY <1>1, <1>2, <2>1, <2>2 DEF OverLaws
  <2>4. c \in Rest
    BY <1>5, <2>1, <2>2, <2>3 DEF Under
  <2>5. ASSUME NEW m \in Rest, m # c PROVE <<c, m>> \in DocOrder
    <3>1. m \in Node /\ n # m /\ (n \in Over[m] \/ Beside(n, m))
      BY <1>5 DEF Under
    <3>2. c \in Over[m] \/ Beside(c, m)
      <4>1. CASE Beside(n, m)
        BY <1>1, <1>2, <2>1, <2>2, <3>1, <4>1, BesideFacts
      <4>2. CASE n \in Over[m]
        <5>1. PICK k \in Node : forest.up[k] = n /\ k \in Over[m]
          BY <1>1, <1>2, <3>1, <4>2, ChildToward
        <5>2. k = c \/ Precedes(forest, c, k)
          BY <2>1, <5>1
        <5> QED BY <2>2, <5>1, <5>2 DEF Beside
      <4> QED BY <3>1, <4>1, <4>2
    <3> QED BY <2>1, <2>5, <3>1, <3>2 DEF DocOrder, Earlier, Beside
  <2> QED BY <1>4, <1>6, <2>4, <2>5 DEF IsFirst, w, c
<1>7. CASE c = NULL
  <2>1. \A m \in Node : forest.up[m] # n
    BY <1>3, <1>7 DEF FirstIs
  <2>2. \A m \in Node : n \in Over[m] => n = m
    BY <1>1, <1>2, <2>1, ChildToward
  <2>3. Rest = {m \in Under(top) : Beside(n, m)}
    <3>1. \A m \in Node : Beside(n, m) => n # m
      BY <1>1, <1>2, BesideFacts
    <3> QED BY <1>5, <2>2, <3>1 DEF Under
  <2>4. CASE n = top
    <3>1. Rest = {}
      BY <1>5, <2>2, <2>4 DEF Under
    <3> QED BY <1>4, <1>7, <2>4, <3>1 DEF IsFirst, w
  <2>5. CASE n # top
    <3>1. w = NextAbove(Tree, n, top)
      BY <1>4, <1>7, <2>5
    <3> QED BY <2>3, <2>5, <3>1, ClimbsToFirst DEF w
  <2> QED BY <2>4, <2>5
<1> QED BY <1>6, <1>7

LEMMA WalksOnward ==
  ASSUME Ready, NEW top, NEW n \in Node
  PROVE  /\ WalkNext(Tree, n, top, "all") \in Node \cup {NULL}
         /\ WalkNext(Tree, n, top, "all") # NULL => Earlier(n, WalkNext(Tree, n, top, "all"))
<1> DEFINE c == links.child[n]
           a == NextAbove(Tree, n, top)
           w == WalkNext(Tree, n, top, "all")
<1>1. Tidy /\ OverLaws
  BY OverIsOrder DEF Ready
<1>2. w \in {c, NULL, a}
  <2>1. Tree.links = links /\ links.parent = forest.up
    BY DEF Tree, Ready, Represents
  <2>2. a = IF links.next[n] # NULL THEN links.next[n]
            ELSE IF forest.up[n] \in {top, NULL} THEN NULL
            ELSE NextAbove(Tree, forest.up[n], top)
    BY NextAboveFacts
  <2> QED BY <2>1, <2>2, NullIsNoNode DEF WalkNext
<1>3. c \in Node \cup {NULL} /\ a \in Node \cup {NULL}
  BY PointersLead, NextAboveFacts
<1>4. c # NULL => Earlier(n, c)
  <2>1. c # NULL => c \in Node /\ forest.up[c] = n
    BY PointersLead DEF FirstIs
  <2> QED BY <1>1, <2>1 DEF Earlier, OverLaws
<1>5. a # NULL => Earlier(n, a)
  <2>1. a # NULL => Beside(n, a)
    BY ClimbsOnward
  <2> HIDE DEF a
  <2> QED BY <1>1, <1>3, <2>1, BesideFacts DEF Earlier, Beside
<1> HIDE DEF a, c, w
<1>6. w \in Node \cup {NULL} /\ (w # NULL => Earlier(n, w))
  BY <1>2, <1>3, <1>4, <1>5
<1> QED BY <1>6 DEF w

(***************************************************************************)
(* Walking back.                                                           *)
(***************************************************************************)
LEMMA DescentEnds ==
  ASSUME Ready, IsFiniteSet(Node)
  PROVE  Ends(Node, {x \in Node : links.last_child[x] = NULL}, links.last_child)
<1>1. Tidy /\ OverLaws
  BY OverIsOrder DEF Ready
<1>2. ASSUME NEW x \in Node, links.last_child[x] \in Node PROVE Earlier(x, links.last_child[x])
  <2> DEFINE d == links.last_child[x]
  <2>1. d \in Node /\ forest.up[d] = x
    BY <1>2, PointersLead, NullIsNoNode DEF LastIs
  <2> HIDE DEF d
  <2>2. Earlier(x, d)
    BY <1>1, <2>1 DEF Earlier, OverLaws
  <2> QED BY <2>2 DEF d
<1> DEFINE Stop == {x \in Node : links.last_child[x] = NULL}
<1>3. Node \ Stop \subseteq Node
  OBVIOUS
<1>4. \A x \in Node \ Stop : links.last_child[x] \in Node => Earlier(x, links.last_child[x])
  BY <1>2
<1> HIDE DEF Stop
<1>5. Ends(Node, Stop, links.last_child)
  BY <1>1, <1>3, <1>4, OnwardEnds
<1> QED BY <1>5 DEF Stop

LEMMA LastBelowFacts ==
  ASSUME Ready, IsFiniteSet(Node), NEW n \in Node
  PROVE  /\ LastBelow(Tree, n) \in Node
         /\ LastBelow(Tree, n) = IF links.last_child[n] = NULL THEN n
                                 ELSE LastBelow(Tree, links.last_child[n])
<1> DEFINE Stop == {x \in Node : links.last_child[x] = NULL}
           base == [x \in Node |-> x]
           step == [p \in Node \X Node |-> p[2]]
<1>1. \A x \in Node : links.last_child[x] \in Node \cup {NULL}
  BY PointersLead
<1>2. Ends(Node, Stop, links.last_child)
  BY DescentEnds
<1>3. \A x \in Node \ Stop : links.last_child[x] \in Node
  BY <1>1
<1>4. base \in [Node -> Node] /\ step \in [Node \X Node -> Node]
  OBVIOUS
<1>5. \A x \in Node, v \in Node : base[x] = x /\ step[<<x, v>>] = v
  OBVIOUS
<1>6. Tree.links = links /\ Tree.kind = kind /\ DOMAIN kind = Node
  BY DEF Tree, Ready
<1> HIDE DEF step, base
<1>7. PICK F \in [Node -> Node] : Recursive(F, Node, Stop, links.last_child, base, step)
  BY <1>2, <1>3, <1>4, Recursion
<1>8. ASSUME NEW x \in Node
      PROVE  F[x] = IF links.last_child[x] = NULL THEN x ELSE F[links.last_child[x]]
  BY <1>3, <1>5, <1>7 DEF Recursive
<1>9. F = [x \in Node |-> IF links.last_child[x] = NULL THEN x ELSE F[links.last_child[x]]]
  BY <1>8
<1> DEFINE last == CHOOSE g : g = [x \in Node |-> IF links.last_child[x] = NULL THEN x ELSE g[links.last_child[x]]]
<1>10. last = [x \in Node |-> IF links.last_child[x] = NULL THEN x ELSE last[links.last_child[x]]]
  BY <1>9
<1>11. \A x : LastBelow(Tree, x) = last[x]
  BY <1>6 DEF LastBelow
<1> HIDE DEF last
<1>12. ASSUME NEW x \in Node
       PROVE  last[x] = IF links.last_child[x] = NULL THEN x ELSE last[links.last_child[x]]
  BY <1>10
<1>13. ASSUME NEW x \in Node PROVE last[x] = F[x]
  <2> DEFINE Bad == {y \in Node : last[y] # F[y]}
  <2> SUFFICES ASSUME Bad # {} PROVE FALSE
    OBVIOUS
  <2>1. Bad \in SUBSET (Node \ Stop)
    BY <1>8, <1>12
  <2>2. PICK y \in Bad : links.last_child[y] \notin Bad
    BY <1>2, <2>1 DEF Ends
  <2> QED BY <1>1, <1>8, <1>12, <2>1, <2>2
<1>14. last[n] = F[n] /\ F[n] \in Node
  BY <1>13
<1> QED BY <1>11, <1>12, <1>14

(* The last node under n is the one that mxmlWalkPrev goes down to. *)
LEMMA DescendsToLast ==
  ASSUME Ready, IsFiniteSet(Node), NEW n \in Node
  PROVE  /\ n \in Over[LastBelow(Tree, n)]
         /\ \A m \in Under(n) : m # LastBelow(Tree, n) => Earlier(m, LastBelow(Tree, n))
<1> DEFINE l(x) == LastBelow(Tree, x)
           Right(x) == x \in Over[l(x)] /\ \A m \in Under(x) : m # l(x) => Earlier(m, l(x))
           Bad == {x \in Node : ~Right(x)}
<1> SUFFICES ASSUME Bad # {} PROVE FALSE
  OBVIOUS
<1>1. Tidy /\ OverLaws
  BY OverIsOrder DEF Ready
<1>2. \A x \in Node : l(x) \in Node /\ l(x) = IF links.last_child[x] = NULL THEN x ELSE l(links.last_child[x])
  BY LastBelowFacts
<1>3. \A x \in Node : LastIs(x, links.last_child[x])
  BY PointersLead
<1> HIDE DEF l
<1>4. ASSUME NEW x \in Node, links.last_child[x] = NULL PROVE Right(x)
  <2>1. l(x) = x /\ x \in Over[x] /\ \A m \in Node : forest.up[m] # x
    BY <1>1, <1>2, <1>3, <1>4 DEF LastIs, OverLaws
  <2>2. \A m \in Under(x) : m = x
    BY <1>1, <2>1, ChildToward DEF Under
  <2> QED BY <2>1, <2>2
<1>5. Bad \in SUBSET (Node \ {x \in Node : links.last_child[x] = NULL})
  BY <1>4
<1>6. PICK x \in Bad : links.last_child[x] \notin Bad
  BY <1>5, DescentEnds DEF Ends
<1> DEFINE d == links.last_child[x]
<1>7. /\ x \in Node /\ d \in Node /\ forest.up[d] = x /\ l(x) = l(d) /\ l(d) \in Node
      /\ \A m \in Node : forest.up[m] = x => m = d \/ Precedes(forest, m, d)
  BY <1>2, <1>3, <1>5, <1>6 DEF LastIs
<1>8. Right(d)
  BY <1>6, <1>7
<1> HIDE DEF d
<1>9. x \in Over[d] /\ x \in Over[l(d)]
  BY <1>1, <1>7, <1>8 DEF OverLaws
<1>10. ASSUME NEW m \in Under(x), m # l(d) PROVE Earlier(m, l(d))
  <2>1. m \in Node /\ x \in Over[m] /\ m \in Over[m]
    BY <1>1 DEF Under, OverLaws
  <2>2. CASE m = x
    BY <1>9, <1>10, <2>2 DEF Earlier
  <2>3. CASE m # x
    <3>1. PICK c \in Node : forest.up[c] = x /\ c \in Over[m]
      BY <1>1, <1>7, <2>1, <2>3, ChildToward
    <3>2. CASE c = d
      BY <1>8, <1>10, <2>1, <3>1, <3>2 DEF Under
    <3>3. CASE c # d
      <4>1. Precedes(forest, c, d) /\ d \in Over[l(d)]
        BY <1>7, <1>8, <3>1, <3>3
      <4> QED BY <1>10, <3>1, <4>1 DEF Earlier
    <3> QED BY <3>2, <3>3
  <2> QED BY <2>2, <2>3
<1> QED BY <1>6, <1>7, <1>9, <1>10

(* mxmlWalkPrev: the last of what comes before, below the top. *)
LEMMA WalksBack ==
  ASSUME Ready, IsFiniteSet(Node), NEW top \in Node, NEW n \in Under(top)
  PROVE  IsLast(DocOrder, WalkPrev(Tree, n, top, "all"),
                {m \in Under(top) \ {top} : <<m, n>> \in DocOrder})
<1> DEFINE Rest == {m \in Under(top) \ {top} : <<m, n>> \in DocOrder}
           b == links.prev[n]
           p == forest.up[n]
           w == WalkPrev(Tree, n, top, "all")
<1>1. Tidy /\ OverLaws
  BY OverIsOrder DEF Ready
<1>2. n \in Node /\ top \in Over[n] /\ n # NULL /\ n \in Over[n]
  BY <1>1, NullIsNoNode DEF Under, OverLaws
<1>3. PrevIs(n, b)
  BY <1>2, PointersLead
<1>4. w = IF n = top THEN NULL
          ELSE IF b # NULL THEN LastBelow(Tree, b)
          ELSE IF p # top THEN p ELSE NULL
  BY <1>2 DEF Tree, Ready, Represents, WalkPrev
<1>5. \A m \in Node : <<m, n>> \in DocOrder <=> m # n /\ (m \in Over[n] \/ Beside(m, n))
  BY <1>2 DEF DocOrder, Earlier, Beside
(* Nothing below the top comes before it. *)
<1>6. \A m \in Node : top \in Over[m] /\ m # top => ~(m \in Over[top]) /\ ~Beside(m, top)
  <2> SUFFICES ASSUME NEW m \in Node, top \in Over[m], m # top PROVE m \notin Over[top] /\ ~Beside(m, top)
    OBVIOUS
  <2>1. m \notin Over[top]
    BY <1>1 DEF OverLaws
  <2>2. ~Beside(m, top)
    <3>1. Beside(m, top) => Beside(m, m)
      BY <1>1, BesideFacts
    <3>2. ~Beside(m, m)
      BY <1>1, BesideFacts
    <3> QED BY <3>1, <3>2
  <2> QED BY <2>1, <2>2
<1> HIDE DEF w
<1>7. CASE n = top
  <2>1. Rest = {}
    BY <1>5, <1>6, <1>7 DEF Under
  <2> QED BY <1>4, <1>7, <2>1 DEF IsLast, w
<1>8. CASE n # top
  <2>1. p \in Node /\ top \in Over[p] /\ p \in Over[n]
    BY <1>1, <1>2, <1>8 DEF OverLaws
  <2>2. ASSUME NEW m \in Node PROVE m \in Over[n] /\ m # n => m \in Over[p]
    BY <1>1, <1>2 DEF OverLaws
  <2> HIDE DEF p
  <2>3. CASE b # NULL
    <3> DEFINE l == LastBelow(Tree, b)
    <3>1. /\ b \in Node /\ Precedes(forest, b, n)
          /\ \A m \in Node : Precedes(forest, m, n) => m = b \/ Precedes(forest, m, b)
      BY <1>3, <2>3 DEF PrevIs
    <3>2. l \in Node /\ b \in Over[l] /\ \A m \in Under(b) : m # l => Earlier(m, l)
      BY <3>1, LastBelowFacts, DescendsToLast
    <3> HIDE DEF l, b
    <3>3. \A m \in Node : m \in Over[n] /\ m # n => m \in Over[l]
      <4>1. \A m \in Node : m \in Over[n] /\ m # n => m \in Over[b]
        BY <1>1, <3>1, SiblingsApart
      <4> QED BY <1>1, <3>1, <3>2, <4>1 DEF OverLaws
    <3>4. Beside(l, n)
      BY <1>2, <3>1, <3>2 DEF Beside
    <3>5. top \in Over[l]
      BY <1>2, <1>8, <3>3
    <3>6. l \in Rest
      <4>1. l # n
        BY <1>1, <1>2, <3>2, <3>4, BesideFacts
      <4>2. l # top
        BY <1>1, <1>2, <3>2, <3>4, BesideFacts
      <4> QED BY <1>5, <3>2, <3>4, <3>5, <4>1, <4>2 DEF Under
    <3>7. ASSUME NEW m \in Rest, m # l PROVE <<m, l>> \in DocOrder
      <4>1. m \in Node /\ m # n /\ (m \in Over[n] \/ Beside(m, n))
        BY <1>5 DEF Under
      <4>2. CASE m \in Over[n]
        BY <3>2, <3>3, <3>7, <4>1, <4>2 DEF DocOrder, Earlier
      <4>3. CASE Beside(m, n)
        <5>1. PICK u \in Over[m], v \in Over[n] : Precedes(forest, u, v)
          BY <4>3 DEF Beside
        <5>2. u \in Node /\ v \in Node
          BY <1>1, <5>1, SiblingsApart
        <5>3. CASE v # n
          <6>1. v \in Over[l]
            BY <3>3, <5>1, <5>2, <5>3
          <6> QED BY <3>2, <3>7, <4>1, <5>1, <6>1 DEF DocOrder, Earlier
        <5>4. CASE v = n /\ u = b
          <6>1. m \in Under(b)
            BY <4>1, <5>1, <5>4 DEF Under
          <6> QED BY <3>2, <3>7, <4>1, <6>1 DEF DocOrder
        <5>5. CASE v = n /\ u # b
          <6>1. Precedes(forest, u, b)
            BY <3>1, <5>1, <5>2, <5>5
          <6> QED BY <3>2, <3>7, <4>1, <5>1, <6>1 DEF DocOrder, Earlier
        <5> QED BY <5>3, <5>4, <5>5
      <4> QED BY <4>1, <4>2, <4>3
    <3> QED BY <1>4, <1>8, <2>3, <3>6, <3>7 DEF IsLast, w, l, b
  <2>4. CASE b = NULL
    <3>1. \A m \in Node : ~Precedes(forest, m, n)
      BY <1>3, <2>4 DEF PrevIs
    <3>2. ASSUME NEW m \in Node PROVE Beside(m, n) => Beside(m, p)
      <4> SUFFICES ASSUME Beside(m, n) PROVE Beside(m, p)
        OBVIOUS
      <4>1. PICK u \in Over[m], v \in Over[n] : Precedes(forest, u, v)
        BY DEF Beside
      <4>2. u \in Node /\ v \in Node
        BY <1>1, <4>1, SiblingsApart
      <4>3. v \in Over[p]
        BY <2>2, <3>1, <4>1, <4>2
      <4> QED BY <4>1, <4>3 DEF Beside
    <3>3. CASE p = top
      <4>1. Rest = {}
        BY <1>5, <1>6, <2>2, <3>2, <3>3 DEF Under
      <4> QED BY <1>4, <1>8, <2>4, <3>3, <4>1 DEF IsLast, w, p
    <3>4. CASE p # top
      <4>1. n \notin Over[p] /\ p # n
        BY <1>1, <1>2, <2>1 DEF OverLaws, p
      <4>2. p \in Rest
        BY <1>5, <2>1, <3>4, <4>1 DEF Under
      <4>3. ASSUME NEW m \in Rest, m # p PROVE <<m, p>> \in DocOrder
        <5>1. m \in Node /\ m # n /\ (m \in Over[n] \/ Beside(m, n))
          BY <1>5 DEF Under
        <5>2. m \in Over[p] \/ Beside(m, p)
          BY <2>2, <3>2, <5>1
        <5> QED BY <2>1, <4>3, <5>1, <5>2 DEF DocOrder, Earlier, Beside
      <4> QED BY <1>4, <1>8, <2>4, <3>4, <4>2, <4>3 DEF IsLast, w, p
    <3> QED BY <3>3, <3>4
  <2> QED BY <2>3, <2>4
<1> QED BY <1>7, <1>8

(***************************************************************************)
(* Searching.                                                              *)
(***************************************************************************)
(* Along a chain that takes the nodes ahead in order, the first hit is the *)
(* first of all hits ahead.                                                *)
LEMMA FirstAlong ==
  ASSUME NEW C \in SUBSET Node, NEW Hit, NEW succ, NEW Ahead,
         Ends(C, Hit, succ),
         \A n \in C : /\ Ahead[n] \subseteq C
                      /\ IsFirst(DocOrder, succ[n], Ahead[n])
                      /\ \A m \in Ahead[n] : <<n, m>> \in DocOrder
                      /\ succ[n] # NULL => Ahead[n] = {succ[n]} \cup Ahead[succ[n]],
         NEW F, F[NULL] = NULL,
         \A n \in C : F[n] = IF n \in Hit THEN n ELSE F[succ[n]]
  PROVE  \A n \in C : /\ IsFirst(DocOrder, F[n], ({n} \cup Ahead[n]) \cap Hit)
                      /\ IsFirst(DocOrder, F[succ[n]], Ahead[n] \cap Hit)
<1> DEFINE Right(n) == IsFirst(DocOrder, F[n], ({n} \cup Ahead[n]) \cap Hit)
           Bad == {n \in C : ~Right(n)}
<1>1. ASSUME NEW n \in C, n \in Hit PROVE Right(n)
  BY <1>1 DEF IsFirst
<1>2. ASSUME NEW n \in C, succ[n] # NULL PROVE succ[n] \in C /\ Ahead[n] = {succ[n]} \cup Ahead[succ[n]]
  BY <1>2 DEF IsFirst
<1>3. ASSUME NEW n \in C, succ[n] = NULL PROVE Ahead[n] = {}
  BY <1>3, NullIsNoNode DEF IsFirst
<1>4. ASSUME NEW n \in C, succ[n] # NULL => Right(succ[n])
      PROVE  IsFirst(DocOrder, F[succ[n]], Ahead[n] \cap Hit)
  <2>1. CASE succ[n] = NULL
    BY <1>3, <2>1 DEF IsFirst
  <2>2. CASE succ[n] # NULL
    BY <1>2, <1>4, <2>2
  <2> QED BY <2>1, <2>2
<1> HIDE DEF Right
<1>5. ASSUME NEW n \in C PROVE Right(n)
  <2> SUFFICES ASSUME Bad # {} PROVE FALSE
    OBVIOUS
  <2>1. Bad \in SUBSET (C \ Hit)
    BY <1>1
  <2>2. PICK m \in Bad : succ[m] \notin Bad
    BY <2>1 DEF Ends
  <2>3. m \in C /\ m \notin Hit /\ (succ[m] # NULL => Right(succ[m]))
    BY <1>2, <2>1, <2>2
  <2>4. IsFirst(DocOrder, F[succ[m]], Ahead[m] \cap Hit)
    BY <1>4, <2>3
  <2>5. F[m] = F[succ[m]] /\ ({m} \cup Ahead[m]) \cap Hit = Ahead[m] \cap Hit
    BY <2>3
  <2>6. Right(m)
    BY <2>4, <2>5 DEF Right
  <2> QED BY <2>2, <2>6
<1>6. ASSUME NEW n \in C PROVE IsFirst(DocOrder, F[succ[n]], Ahead[n] \cap Hit)
  BY <1>2, <1>4, <1>5, <1>6
<1> QED BY <1>5, <1>6 DEF Right

(* The loop of mxmlFindElement: it stops at the first match.               *)
From(n, top, descend) == IF descend = "all" THEN WalkNext(Tree, n, top, "all") ELSE links.next[n]
HitsFor(nm, a, v) == {n \in Node : Matches(Tree, n, nm, a, v)}

LEMMA FromOnward ==
  ASSUME Ready, NEW top, NEW descend, NEW n \in Node
  PROVE  /\ From(n, top, descend) \in Node \cup {NULL}
         /\ From(n, top, descend) # NULL => Earlier(n, From(n, top, descend))
<1>1. CASE descend = "all"
  BY <1>1, WalksOnward DEF From
<1>2. CASE descend # "all"
  <2> DEFINE b == links.next[n]
  <2>1. Tidy /\ OverLaws /\ b \in Node \cup {NULL} /\ (b # NULL => Precedes(forest, n, b))
    BY OverIsOrder, PointersLead DEF Ready, NextIs
  <2> HIDE DEF b
  <2>2. b # NULL => Earlier(n, b)
    <3>1. ASSUME b # NULL PROVE Beside(n, b)
      BY <2>1, <3>1 DEF Beside, OverLaws
    <3> QED BY <2>1, <3>1, BesideFacts DEF Earlier, Beside
  <2> QED BY <1>2, <2>1, <2>2 DEF From, b
<1> QED BY <1>1, <1>2

LEMMA FirstMatchFacts ==
  ASSUME Ready, IsFiniteSet(Node), NEW top, NEW nm, NEW a, NEW v, NEW descend
  PROVE  /\ FirstMatch(Tree, NULL, top, nm, a, v, descend) = NULL
         /\ \A n \in Node :
              FirstMatch(Tree, n, top, nm, a, v, descend) =
                IF n \in HitsFor(nm, a, v) THEN n
                ELSE FirstMatch(Tree, From(n, top, descend), top, nm, a, v, descend)
<1> DEFINE D == Node \cup {NULL}
           Hit == HitsFor(nm, a, v)
           Stop == {NULL} \cup Hit
           succ == [n \in Node |-> From(n, top, descend)]
           base == [n \in D |-> n]
           step == [p \in D \X D |-> p[2]]
<1>1. \A n \in Node : succ[n] \in D /\ (succ[n] # NULL => Earlier(n, succ[n]))
  BY FromOnward
<1> HIDE DEF succ
<1>2. Ends(D, Stop, succ)
  <2> HIDE DEF Hit
  <2>1. D \ Stop \subseteq Node
    OBVIOUS
  <2>2. \A n \in D \ Stop : succ[n] \in Node => Earlier(n, succ[n])
    BY <1>1, <2>1, NullIsNoNode
  <2> HIDE DEF D, Stop
  <2>3. Tidy
    BY DEF Ready
  <2> QED BY <2>1, <2>2, <2>3, OnwardEnds
<1>3. \A n \in D \ Stop : succ[n] \in D
  BY <1>1
<1>4. base \in [D -> D] /\ step \in [D \X D -> D]
  OBVIOUS
<1>5. \A n \in D, m \in D : base[n] = n /\ step[<<n, m>>] = m
  OBVIOUS
<1> HIDE DEF base, step
<1>6. PICK F \in [D -> D] : Recursive(F, D, Stop, succ, base, step)
  BY <1>2, <1>3, <1>4, Recursion
<1>7. F[NULL] = NULL /\ \A n \in Node : F[n] = IF n \in Hit THEN n ELSE F[From(n, top, descend)]
  <2>1. F[NULL] = NULL
    BY <1>5, <1>6 DEF Recursive
  <2>2. ASSUME NEW n \in Node, n \in Hit PROVE F[n] = n
    BY <1>5, <1>6, <2>2 DEF Recursive
  <2>3. ASSUME NEW n \in Node, n \notin Hit PROVE F[n] = F[From(n, top, descend)]
    <3>1. n \in D /\ n \notin Stop /\ succ[n] \in D /\ succ[n] = From(n, top, descend)
      BY <1>1, <2>3, NullIsNoNode DEF succ
    <3>2. F[n] = step[<<n, F[succ[n]]>>] /\ F[succ[n]] \in D
      BY <1>6, <3>1 DEF Recursive
    <3> QED BY <1>5, <3>1, <3>2
  <2> QED BY <2>1, <2>2, <2>3
<1> DEFINE Body(g, n) == IF IF n = NULL THEN TRUE ELSE Matches(Tree, n, nm, a, v) THEN n
                         ELSE g[IF descend = "all" THEN WalkNext(Tree, n, top, "all") ELSE Tree.links.next[n]]
           from == CHOOSE g : g = [n \in DOMAIN Tree.kind \cup {NULL} |-> Body(g, n)]
<1>8. DOMAIN Tree.kind \cup {NULL} = D /\ Tree.links = links
  BY DEF Tree, Ready
<1>9. ASSUME NEW g, NEW n \in D
      PROVE  Body(g, n) = IF n = NULL THEN NULL ELSE IF n \in Hit THEN n ELSE g[From(n, top, descend)]
  BY <1>8, NullIsNoNode DEF From, HitsFor
<1>10. \A n : FirstMatch(Tree, n, top, nm, a, v, descend) = from[n]
  BY DEF FirstMatch
<1> HIDE DEF Body
<1>11. F = [n \in DOMAIN Tree.kind \cup {NULL} |-> Body(F, n)]
  <2>1. \A n \in D : F[n] = Body(F, n)
    BY <1>7, <1>9
  <2> HIDE DEF D
  <2> QED BY <1>8, <2>1
<1>12. from = [n \in DOMAIN Tree.kind \cup {NULL} |-> Body(from, n)]
  BY <1>11
<1> HIDE DEF from
<1>13. \A n \in D : from[n] = Body(from, n)
  <2> HIDE DEF D
  <2> QED BY <1>8, <1>12
<1>14. from[NULL] = NULL /\ \A n \in Node : from[n] = IF n \in Hit THEN n ELSE from[From(n, top, descend)]
  BY <1>9, <1>13, NullIsNoNode
<1> QED BY <1>10, <1>14

(* The first match as a function of where the search starts.               *)
Firsts(F, top, nm, a, v) ==
  /\ F[NULL] = NULL
  /\ \A x \in Node : /\ F[x] = FirstMatch(Tree, x, top, nm, a, v, "all")
                     /\ F[x] = IF x \in HitsFor(nm, a, v) THEN x ELSE F[WalkNext(Tree, x, top, "all")]

LEMMA FirstsOf ==
  ASSUME Ready, IsFiniteSet(Node), NEW top, NEW nm, NEW a, NEW v
  PROVE  \E F : Firsts(F, top, nm, a, v)
<1> DEFINE Hit == HitsFor(nm, a, v)
           succ == [x \in Node |-> WalkNext(Tree, x, top, "all")]
           F == [x \in Node \cup {NULL} |-> FirstMatch(Tree, x, top, nm, a, v, "all")]
<1>2. \A x \in Node : /\ succ[x] = WalkNext(Tree, x, top, "all")
                      /\ succ[x] \in Node \cup {NULL}
                      /\ succ[x] # NULL => Earlier(x, succ[x])
  BY WalksOnward
<1>5. \A x \in Node \cup {NULL} : F[x] = FirstMatch(Tree, x, top, nm, a, v, "all")
  OBVIOUS
<1>6. F[NULL] = NULL /\ \A x \in Node : F[x] = IF x \in Hit THEN x ELSE F[succ[x]]
  <2> DEFINE all == "all"
             answer(x) == FirstMatch(Tree, x, top, nm, a, v, all)
  <2>1. \A x \in Node : From(x, top, all) = succ[x]
    BY <1>2 DEF From
  <2>2. \A x \in Node \cup {NULL} : F[x] = answer(x)
    BY <1>5
  <2> HIDE DEF all, succ, F, Hit
  <2>3. answer(NULL) = NULL /\ \A x \in Node : answer(x) = IF x \in Hit THEN x ELSE answer(From(x, top, all))
    BY FirstMatchFacts DEF Hit
  <2> HIDE DEF answer
  <2> QED BY <1>2, <2>1, <2>2, <2>3
<1> HIDE DEF F, Hit, succ
<1>7. Firsts(F, top, nm, a, v)
  BY <1>2, <1>5, <1>6 DEF Firsts, Hit
<1> QED BY <1>7

(* Among the nodes below the top, in document order.                       *)
LEMMA FirstBelow ==
  ASSUME Ready, IsFiniteSet(Node), NEW top \in Node, NEW nm, NEW a, NEW v, NEW n \in Under(top)
  PROVE  IsFirst(DocOrder, FirstMatch(Tree, WalkNext(Tree, n, top, "all"), top, nm, a, v, "all"),
                 {m \in Under(top) : <<n, m>> \in DocOrder} \cap HitsFor(nm, a, v))
<1> DEFINE C == Under(top)
           Hit == HitsFor(nm, a, v)
           succ == [x \in Node |-> WalkNext(Tree, x, top, "all")]
           Ahead == [x \in Node |-> {m \in C : <<x, m>> \in DocOrder}]
<1>1. Tidy /\ C \in SUBSET Node
  BY DEF Ready, Under
<1>2. \A x \in Node : /\ succ[x] = WalkNext(Tree, x, top, "all")
                      /\ succ[x] \in Node \cup {NULL}
                      /\ succ[x] # NULL => Earlier(x, succ[x])
  BY WalksOnward
<1>3. \A x \in Node : Ahead[x] = {m \in C : <<x, m>> \in DocOrder}
  OBVIOUS
<1>4. \A x \in C : IsFirst(DocOrder, succ[x], Ahead[x])
  BY <1>1, <1>2, <1>3, WalksOn
<1>5. PICK F : Firsts(F, top, nm, a, v)
  BY FirstsOf
<1>6. F[NULL] = NULL /\ \A x \in Node : F[x] = IF x \in Hit THEN x ELSE F[succ[x]]
  BY <1>2, <1>5 DEF Firsts
<1> HIDE DEF C, Hit, succ, Ahead
<1>7. Ends(C, Hit, succ)
  <2>1. C \ Hit \subseteq Node
    BY <1>1
  <2>2. \A x \in C \ Hit : succ[x] \in Node => Earlier(x, succ[x])
    BY <1>1, <1>2, NullIsNoNode
  <2> QED BY <1>1, <2>1, <2>2, OnwardEnds
<1>8. ASSUME NEW x \in C
      PROVE  /\ Ahead[x] \subseteq C
             /\ \A m \in Ahead[x] : <<x, m>> \in DocOrder
             /\ succ[x] # NULL => Ahead[x] = {succ[x]} \cup Ahead[succ[x]]
  <2>1. x \in Node /\ Ahead[x] \subseteq C /\ \A m \in Ahead[x] : <<x, m>> \in DocOrder
    BY <1>1, <1>3
  <2>2. ASSUME succ[x] # NULL PROVE Ahead[x] = {succ[x]} \cup Ahead[succ[x]]
    <3> DEFINE s == succ[x]
    <3>1. s \in Node /\ s \in Ahead[x] /\ Earlier(x, s) /\ \A m \in Ahead[x] \ {s} : <<s, m>> \in DocOrder
      BY <1>2, <1>4, <2>1, <2>2 DEF IsFirst
    <3> HIDE DEF s
    <3>2. ASSUME NEW m \in C, Earlier(s, m) PROVE Earlier(x, m)
      BY <1>1, <2>1, <3>1, <3>2, EarlierIsOrder
    <3>3. Ahead[s] \subseteq Ahead[x]
      <4>1. \A m \in C : <<s, m>> \in DocOrder => <<x, m>> \in DocOrder
        BY <1>1, <2>1, <3>1, <3>2 DEF DocOrder
      <4> QED BY <1>3, <2>1, <3>1, <4>1
    <3>4. Ahead[x] \subseteq {s} \cup Ahead[s]
      BY <1>3, <2>1, <3>1
    <3>5. Ahead[x] = {s} \cup Ahead[s]
      BY <3>1, <3>3, <3>4
    <3> QED BY <3>5 DEF s
  <2> QED BY <2>1, <2>2
<1>9. \A x \in C : F[x] = IF x \in Hit THEN x ELSE F[succ[x]]
  BY <1>1, <1>6
<1>10. n \in C /\ n \in Node
  BY <1>1 DEF C
<1>11. IsFirst(DocOrder, F[succ[n]], Ahead[n] \cap Hit)
  BY <1>1, <1>4, <1>6, <1>7, <1>8, <1>9, <1>10, FirstAlong
<1>12. F[succ[n]] = FirstMatch(Tree, WalkNext(Tree, n, top, "all"), top, nm, a, v, "all")
  <2>1. succ[n] = NULL => F[succ[n]] = FirstMatch(Tree, succ[n], top, nm, a, v, "all")
    BY <1>6, FirstMatchFacts
  <2>2. succ[n] # NULL => F[succ[n]] = FirstMatch(Tree, succ[n], top, nm, a, v, "all")
    BY <1>2, <1>5, <1>10 DEF Firsts
  <2> QED BY <1>2, <1>10, <2>1, <2>2
<1>13. Ahead[n] = {m \in Under(top) : <<n, m>> \in DocOrder}
  BY <1>3, <1>10 DEF C
<1> QED BY <1>11, <1>12, <1>13 DEF Hit

(* Among the siblings that follow, and among a node and those.             *)
Behind(n) == {m \in Node : Precedes(forest, n, m)}
LEMMA FirstBeside ==
  ASSUME Ready, IsFiniteSet(Node), NEW top, NEW nm, NEW a, NEW v, NEW descend, descend # "all",
         NEW n \in Node
  PROVE  /\ IsFirst(DocOrder, FirstMatch(Tree, n, top, nm, a, v, descend),
                    ({n} \cup Behind(n)) \cap HitsFor(nm, a, v))
         /\ IsFirst(DocOrder, FirstMatch(Tree, links.next[n], top, nm, a, v, descend),
                    Behind(n) \cap HitsFor(nm, a, v))
<1> DEFINE Hit == HitsFor(nm, a, v)
           Ahead == [x \in Node |-> {m \in Node : Precedes(forest, x, m)}]
           F == [x \in Node \cup {NULL} |-> FirstMatch(Tree, x, top, nm, a, v, descend)]
<1>1. Tidy /\ OverLaws
  BY OverIsOrder DEF Ready
<1>2. \A x \in Node : /\ links.next[x] \in Node \cup {NULL}
                      /\ links.next[x] # NULL => Earlier(x, links.next[x])
                      /\ NextIs(x, links.next[x])
  <2> TAKE x \in Node
  <2>1. From(x, top, descend) = links.next[x]
    BY DEF From
  <2>2. From(x, top, descend) # NULL => Earlier(x, From(x, top, descend))
    BY FromOnward
  <2> QED BY <2>1, <2>2, PointersLead
<1>3. \A x \in Node : Ahead[x] = {m \in Node : Precedes(forest, x, m)}
  OBVIOUS
<1>4. \A x, m \in Node : Precedes(forest, x, m) => <<x, m>> \in DocOrder
  <2> SUFFICES ASSUME NEW x \in Node, NEW m \in Node, Precedes(forest, x, m) PROVE <<x, m>> \in DocOrder
    OBVIOUS
  <2>1. Beside(x, m)
    BY <1>1 DEF Beside, OverLaws
  <2> QED BY <1>1, <2>1, BesideFacts DEF DocOrder, Earlier, Beside
<1>5. \A x \in Node \cup {NULL} : F[x] = FirstMatch(Tree, x, top, nm, a, v, descend)
  OBVIOUS
<1>6. F[NULL] = NULL /\ \A x \in Node : F[x] = IF x \in Hit THEN x ELSE F[links.next[x]]
  <2> DEFINE answer(x) == FirstMatch(Tree, x, top, nm, a, v, descend)
  <2>1. \A x \in Node : From(x, top, descend) = links.next[x]
    BY DEF From
  <2>2. \A x \in Node \cup {NULL} : F[x] = answer(x)
    BY <1>5
  <2> HIDE DEF F, Hit
  <2>3. answer(NULL) = NULL
    BY FirstMatchFacts
  <2>4. \A x \in Node : answer(x) = IF x \in Hit THEN x ELSE answer(From(x, top, descend))
    BY FirstMatchFacts DEF Hit
  <2> HIDE DEF answer
  <2> QED BY <1>2, <2>1, <2>2, <2>3, <2>4
<1> HIDE DEF Hit, Ahead, F
<1>7. Ends(Node, Hit, links.next)
  <2>1. Node \ Hit \subseteq Node
    OBVIOUS
  <2>2. \A x \in Node \ Hit : links.next[x] \in Node => Earlier(x, links.next[x])
    BY <1>2, NullIsNoNode
  <2> QED BY <1>1, <2>1, <2>2, OnwardEnds
<1>8. ASSUME NEW x \in Node
      PROVE  /\ Ahead[x] \subseteq Node
             /\ IsFirst(DocOrder, links.next[x], Ahead[x])
             /\ \A m \in Ahead[x] : <<x, m>> \in DocOrder
             /\ links.next[x] # NULL => Ahead[x] = {links.next[x]} \cup Ahead[links.next[x]]
  <2> DEFINE s == links.next[x]
  <2>1. Ahead[x] \subseteq Node /\ \A m \in Ahead[x] : <<x, m>> \in DocOrder
    BY <1>3, <1>4
  <2>2. NextIs(x, s)
    BY <1>2
  <2> HIDE DEF s
  <2>3. s = NULL => Ahead[x] = {}
    BY <1>3, <2>2 DEF NextIs
  <2>4. s # NULL => /\ s \in Node /\ s \in Ahead[x]
                    /\ \A m \in Ahead[x] : m = s \/ Precedes(forest, s, m)
    BY <1>3, <2>2 DEF NextIs
  <2>5. s # NULL => Ahead[x] = {s} \cup Ahead[s]
    <3>1. \A m \in Node : s \in Node /\ Precedes(forest, x, s) /\ Precedes(forest, s, m) => Precedes(forest, x, m)
      BY <1>1 DEF Tidy, Ordered
    <3> QED BY <1>3, <2>4, <3>1
  <2>6. IsFirst(DocOrder, s, Ahead[x])
    BY <1>4, <2>1, <2>3, <2>4 DEF IsFirst
  <2> QED BY <2>1, <2>5, <2>6 DEF s
<1>9. /\ IsFirst(DocOrder, F[n], ({n} \cup Ahead[n]) \cap Hit)
      /\ IsFirst(DocOrder, F[links.next[n]], Ahead[n] \cap Hit)
  <2> DEFINE succ == links.next
             C == Node
  <2>1. C \in SUBSET Node /\ n \in C /\ Ends(C, Hit, succ)
    BY <1>7
  <2>2. \A x \in C : /\ Ahead[x] \subseteq C
                     /\ IsFirst(DocOrder, succ[x], Ahead[x])
                     /\ \A m \in Ahead[x] : <<x, m>> \in DocOrder
                     /\ succ[x] # NULL => Ahead[x] = {succ[x]} \cup Ahead[succ[x]]
    BY <1>8
  <2>3. F[NULL] = NULL /\ \A x \in C : F[x] = IF x \in Hit THEN x ELSE F[succ[x]]
    BY <1>6
  <2>4. succ[n] = links.next[n]
    OBVIOUS
  <2> HIDE DEF succ, C
  <2>5. \A x \in C : /\ IsFirst(DocOrder, F[x], ({x} \cup Ahead[x]) \cap Hit)
                     /\ IsFirst(DocOrder, F[succ[x]], Ahead[x] \cap Hit)
    BY <2>1, <2>2, <2>3, FirstAlong
  <2> QED BY <2>1, <2>4, <2>5
<1>10. F[links.next[n]] = FirstMatch(Tree, links.next[n], top, nm, a, v, descend)
       /\ F[n] = FirstMatch(Tree, n, top, nm, a, v, descend)
  BY <1>2, <1>5
<1>11. Ahead[n] = Behind(n)
  BY <1>3 DEF Behind
<1> QED BY <1>9, <1>10, <1>11 DEF Hit

(* mxmlFindElement, as it is called.                                       *)
LEMMA FindsBelow ==
  ASSUME Ready, IsFiniteSet(Node), NEW top \in Node, NEW nm, NEW a, NEW v, a # NULL \/ v = NULL
  PROVE  IsFirst(DocOrder, FindElement(Tree, top, top, nm, a, v, "all"),
                 (Under(top) \ {top}) \cap HitsFor(nm, a, v))
<1>1. Tidy /\ OverLaws /\ top # NULL
  BY OverIsOrder, NullIsNoNode DEF Ready
<1>2. top \in Under(top)
  BY <1>1 DEF Under, OverLaws
<1>3. {m \in Under(top) : <<top, m>> \in DocOrder} = Under(top) \ {top}
  BY DEF DocOrder, Earlier, Under
<1>4. FindElement(Tree, top, top, nm, a, v, "all") =
        FirstMatch(Tree, WalkNext(Tree, top, top, "all"), top, nm, a, v, "all")
  BY <1>1 DEF FindElement
<1> QED BY <1>2, <1>3, <1>4, FirstBelow

LEMMA FindsChild ==
  ASSUME Ready, IsFiniteSet(Node), NEW top \in Node, NEW nm, NEW a, NEW v, a # NULL \/ v = NULL
  PROVE  IsFirst(DocOrder, FindElement(Tree, top, top, nm, a, v, "first"),
                 KidsOf(forest, top) \cap HitsFor(nm, a, v))
<1> DEFINE c == links.child[top]
           way == "first"
           r == FindElement(Tree, top, top, nm, a, v, way)
<1>1. Tidy /\ top # NULL
  BY NullIsNoNode DEF Ready
<1>2. FirstIs(top, c)
  BY PointersLead
<1>3. r = FirstMatch(Tree, c, top, nm, a, v, way) /\ way # "all"
  <2>1. WalkNext(Tree, top, top, way) = c
    BY <1>1 DEF WalkNext, Tree
  <2> QED BY <1>1, <2>1 DEF FindElement
<1> HIDE DEF c, r, way
<1>4. CASE c = NULL
  <2>1. KidsOf(forest, top) = {}
    BY <1>2, <1>4 DEF FirstIs, KidsOf
  <2>2. r = NULL
    BY <1>3, <1>4, FirstMatchFacts
  <2> QED BY <2>1, <2>2 DEF IsFirst, r, way
<1>5. CASE c # NULL
  <2>1. /\ c \in Node /\ forest.up[c] = top
        /\ \A m \in Node : forest.up[m] = top => m = c \/ Precedes(forest, c, m)
    BY <1>2, <1>5 DEF FirstIs
  <2>2. \A m \in Node : Precedes(forest, c, m) => forest.up[m] = top
    BY <1>1, <2>1 DEF Tidy, Ordered
  <2>3. {c} \cup Behind(c) = KidsOf(forest, top)
    BY <2>1, <2>2 DEF KidsOf, Behind
  <2>4. IsFirst(DocOrder, r, ({c} \cup Behind(c)) \cap HitsFor(nm, a, v))
    <3>1. c \in Node /\ way # "all"
      BY <1>3, <2>1
    <3>2. IsFirst(DocOrder, FirstMatch(Tree, c, top, nm, a, v, way), ({c} \cup Behind(c)) \cap HitsFor(nm, a, v))
      BY <3>1, FirstBeside
    <3> QED BY <1>3, <3>2
  <2> QED BY <2>3, <2>4 DEF r, way
<1> QED BY <1>4, <1>5

LEMMA FindsNext ==
  ASSUME Ready, IsFiniteSet(Node), NEW top \in Node, NEW k \in Node, forest.up[k] = top,
         NEW nm, NEW a, NEW v, a # NULL \/ v = NULL
  PROVE  IsFirst(DocOrder, FindElement(Tree, k, top, nm, a, v, "none"),
                 Behind(k) \cap HitsFor(nm, a, v))
<1>1. Tidy /\ OverLaws /\ top # NULL /\ k # NULL
  BY OverIsOrder, NullIsNoNode DEF Ready
<1>2. k # top
  BY <1>1 DEF OverLaws
<1> DEFINE way == "none"
           r == FindElement(Tree, k, top, nm, a, v, way)
<1>3. WalkNext(Tree, k, top, way) = links.next[k] /\ way # "all"
  BY <1>1, <1>2 DEF WalkNext, Tree, Ready, Represents
<1>4. r = FirstMatch(Tree, links.next[k], top, nm, a, v, way)
  BY <1>1, <1>3 DEF FindElement
<1> HIDE DEF way, r
<1>5. IsFirst(DocOrder, FirstMatch(Tree, links.next[k], top, nm, a, v, way),
              Behind(k) \cap HitsFor(nm, a, v))
  <2>1. way # "all"
    BY <1>3
  <2> QED BY <2>1, FirstBeside
<1> QED BY <1>4, <1>5 DEF r, way

(***************************************************************************)
(* A path.  Each name takes what mxmlFindElement finds first, and that is  *)
(* where the path leads to.                                                *)
(***************************************************************************)
FoundBelow(n, nm) == FindElement(Tree, n, n, nm, NULL, NULL, "all")
FoundKid(n, nm) == FindElement(Tree, n, n, nm, NULL, NULL, "first")

LEMMA OneIsFirst ==
  ASSUME Tidy, NEW S \in SUBSET Node, NEW x, IsFirst(DocOrder, x, S), NEW y, IsFirst(DocOrder, y, S)
  PROVE  x = y
<1>1. ASSUME NEW a \in Node, NEW b \in Node, Earlier(a, b), Earlier(b, a) PROVE FALSE
  <2>1. Earlier(a, a)
    BY <1>1, EarlierIsOrder
  <2> QED BY <2>1 DEF Earlier
<1>2. \A a, b \in Node : ~(<<a, b>> \in DocOrder /\ <<b, a>> \in DocOrder)
  BY <1>1 DEF DocOrder
<1>3. CASE S = {}
  BY <1>3 DEF IsFirst
<1>4. CASE S # {}
  BY <1>2, <1>4 DEF IsFirst
<1> QED BY <1>3, <1>4

LEMMA FindsNamed ==
  ASSUME Ready, IsFiniteSet(Node), NEW n \in Node, NEW nm, nm # NULL
  PROVE  /\ FoundBelow(n, nm) \in Node \cup {NULL} /\ FoundKid(n, nm) \in Node \cup {NULL}
         /\ IsFirst(DocOrder, FoundBelow(n, nm), {m \in Under(n) \ {n} : Named(m, nm)})
         /\ IsFirst(DocOrder, FoundKid(n, nm), {m \in KidsOf(forest, n) : Named(m, nm)})
<1> DEFINE Hit == HitsFor(nm, NULL, NULL)
           Below == {m \in Under(n) \ {n} : Named(m, nm)}
           Kids == {m \in KidsOf(forest, n) : Named(m, nm)}
<1>1. \A m \in Node : m \in Hit <=> Named(m, nm)
  BY DEF HitsFor, Matches, Tree, Named, IsElement
<1>2. Hit \in SUBSET Node
  BY DEF HitsFor
<1>3. (Under(n) \ {n}) \cap Hit = Below /\ KidsOf(forest, n) \cap Hit = Kids
  BY <1>1, <1>2 DEF Under, KidsOf
<1>4. IsFirst(DocOrder, FoundBelow(n, nm), (Under(n) \ {n}) \cap Hit)
  BY FindsBelow DEF FoundBelow
<1>5. IsFirst(DocOrder, FoundKid(n, nm), KidsOf(forest, n) \cap Hit)
  BY FindsChild DEF FoundKid
<1>6. Below \subseteq Node /\ Kids \subseteq Node
  BY DEF Under, KidsOf
<1> HIDE DEF Hit, Below, Kids
<1>7. IsFirst(DocOrder, FoundBelow(n, nm), Below) /\ IsFirst(DocOrder, FoundKid(n, nm), Kids)
  BY <1>3, <1>4, <1>5
<1>8. FoundBelow(n, nm) \in Node \cup {NULL} /\ FoundKid(n, nm) \in Node \cup {NULL}
  BY <1>6, <1>7 DEF IsFirst
<1> QED BY <1>7, <1>8 DEF Below, Kids

(* What one name of a path finds is what it is led to. *)
FoundFor(top, path, i) ==
  IF i > 1 /\ path[i - 1] = Star THEN FoundBelow(top, path[i]) ELSE FoundKid(top, path[i])
FitFor(top, path, i) == {n \in Nearer(top, path, i) : Named(n, path[i])}
LEMMA FoundForLeads ==
  ASSUME Ready, IsFiniteSet(Node), NEW path, NEW i, path[i] # NULL, NEW n \in Node
  PROVE  /\ FoundFor(n, path, i) \in Node \cup {NULL}
         /\ (CHOOSE x \in Node \cup {NULL} : IsFirst(DocOrder, x, FitFor(n, path, i))) = FoundFor(n, path, i)
<1> DEFINE nm == path[i]
           S == FitFor(n, path, i)
           a == FoundFor(n, path, i)
<1>1. /\ FoundBelow(n, nm) \in Node \cup {NULL} /\ FoundKid(n, nm) \in Node \cup {NULL}
      /\ IsFirst(DocOrder, FoundBelow(n, nm), {m \in Under(n) \ {n} : Named(m, nm)})
      /\ IsFirst(DocOrder, FoundKid(n, nm), {m \in KidsOf(forest, n) : Named(m, nm)})
  BY FindsNamed
<1>2. a \in Node \cup {NULL} /\ IsFirst(DocOrder, a, S)
  <2>1. CASE i > 1 /\ path[i - 1] = Star
    <3>1. a = FoundBelow(n, nm) /\ S = {m \in Under(n) \ {n} : Named(m, nm)}
      BY <2>1 DEF FoundFor, FitFor, Nearer
    <3> QED BY <1>1, <3>1
  <2>2. CASE ~(i > 1 /\ path[i - 1] = Star)
    <3>1. a = FoundKid(n, nm) /\ S = {m \in KidsOf(forest, n) : Named(m, nm)}
      BY <2>2 DEF FoundFor, FitFor, Nearer
    <3> QED BY <1>1, <3>1
  <2> QED BY <2>1, <2>2
<1>3. S \in SUBSET Node /\ Tidy
  BY DEF FitFor, Nearer, Under, KidsOf, Ready
<1> HIDE DEF S, a
<1>4. \A x \in Node \cup {NULL} : IsFirst(DocOrder, x, S) => x = a
  BY <1>2, <1>3, OneIsFirst
<1>5. (CHOOSE x \in Node \cup {NULL} : IsFirst(DocOrder, x, S)) = a
  BY <1>2, <1>4
<1> QED BY <1>2, <1>5 DEF S, a

LEMMA CountsDown ==
  ASSUME NEW L \in Nat
  PROVE  Ends(0 .. L, {0}, [i \in 0 .. L |-> i - 1])
<1> SUFFICES ASSUME NEW S \in SUBSET ((0 .. L) \ {0}), S # {}
             PROVE  \E x \in S : [i \in 0 .. L |-> i - 1][x] \notin S
  BY DEF Ends
<1>1. S \in SUBSET Nat
  OBVIOUS
<1>2. PICK x \in S : \A y \in S : x <= y
  BY <1>1, LeastElement
<1> QED BY <1>1, <1>2

(* Where the first i names of a path lead. *)
Leads(d, top, path) ==
  /\ d[0] = top
  /\ \A i \in 1 .. Len(path) :
       /\ d[i - 1] \in Node \cup {NULL}
       /\ d[i] = IF path[i] = Star \/ d[i - 1] = NULL THEN d[i - 1] ELSE FoundFor(d[i - 1], path, i)

LEMMA LeadFacts ==
  ASSUME Ready, IsFiniteSet(Node), NEW top \in Node, NEW path \in Paths
  PROVE  \E d : Leads(d, top, path) /\ LeadsTo(DocOrder, top, path) = d[Len(path)]
<1> DEFINE L == Len(path)
           D == 0 .. L
           V == Node \cup {NULL}
           Stop == {0}
           succ == [i \in D |-> i - 1]
           base == [i \in D |-> top]
           More(i, n) == IF path[i] = Star \/ n = NULL THEN n ELSE FoundFor(n, path, i)
           step == [p \in D \X V |-> IF p[1] = 0 THEN p[2] ELSE More(p[1], p[2])]
           Body(g, i) == IF i = 0 THEN top
                         ELSE IF path[i] = Star \/ g[i - 1] = NULL THEN g[i - 1]
                         ELSE LET fits == {n \in Nearer(g[i - 1], path, i) : Named(n, path[i])}
                              IN CHOOSE n \in Node \cup {NULL} : IsFirst(DocOrder, n, fits)
           led == CHOOSE g : g = [i \in 0 .. Len(path) |-> Body(g, i)]
<1>1. L \in Nat /\ \A i \in 1 .. L : path[i] # Star => path[i] # NULL
  BY PathsAssumption
<1> HIDE DEF L
<1>2. Ends(D, Stop, succ)
  BY <1>1, CountsDown
<1>3. \A i \in D \ Stop : succ[i] = i - 1 /\ succ[i] \in D /\ i \in 1 .. L
  BY <1>1
<1>4. \A i \in D \ Stop, n \in V : More(i, n) \in V
  <2> SUFFICES ASSUME NEW i \in D \ Stop, NEW n \in V, path[i] # Star, n # NULL
               PROVE  FoundFor(n, path, i) \in V
    OBVIOUS
  <2>1. path[i] # NULL /\ n \in Node
    BY <1>1, <1>3
  <2> QED BY <2>1, FoundForLeads
<1>5. \A i \in D \ Stop, n \in V :
        path[i] # Star /\ n # NULL =>
          (CHOOSE x \in Node \cup {NULL} : IsFirst(DocOrder, x, FitFor(n, path, i))) = FoundFor(n, path, i)
  <2> SUFFICES ASSUME NEW i \in D \ Stop, NEW n \in V, path[i] # Star, n # NULL
               PROVE  (CHOOSE x \in Node \cup {NULL} : IsFirst(DocOrder, x, FitFor(n, path, i))) = FoundFor(n, path, i)
    OBVIOUS
  <2>1. path[i] # NULL /\ n \in Node
    BY <1>1, <1>3
  <2> QED BY <2>1, FoundForLeads
<1> HIDE DEF More
<1>6. base \in [D -> V] /\ step \in [D \X V -> V]
  BY <1>4
<1>7. /\ \A i \in D : base[i] = top
      /\ \A i \in D \ Stop, n \in V : step[<<i, n>>] = More(i, n)
  OBVIOUS
<1> HIDE DEF base, step, V, succ
<1>8. PICK F \in [D -> V] : Recursive(F, D, Stop, succ, base, step)
  BY <1>2, <1>3, <1>6, Recursion
<1>9. F[0] = top /\ \A i \in D \ {0} : F[i] = More(i, F[i - 1]) /\ F[i - 1] \in V
  <2>1. 0 \in D
    BY <1>1
  <2>2. \A i \in D \ {0} : F[i] = step[<<i, F[succ[i]]>>]
    BY <1>8 DEF Recursive
  <2>3. F[0] = base[0]
    BY <1>8, <2>1 DEF Recursive
  <2>4. \A i \in D : F[i] \in V
    BY <1>8
  <2>5. \A i \in D \ Stop : succ[i] = i - 1 /\ i - 1 \in D
    BY <1>3
  <2> QED BY <1>7, <2>1, <2>2, <2>3, <2>4, <2>5
<1>10. \A g : \A i \in D \ {0} : g[i - 1] \in V => Body(g, i) = More(i, g[i - 1])
  <2> SUFFICES ASSUME NEW g, NEW i \in D \ {0}, g[i - 1] \in V PROVE Body(g, i) = More(i, g[i - 1])
    OBVIOUS
  <2>1. CASE path[i] = Star \/ g[i - 1] = NULL
    BY <2>1 DEF More
  <2>2. CASE ~(path[i] = Star \/ g[i - 1] = NULL)
    <3>1. Body(g, i) = CHOOSE n \in Node \cup {NULL} : IsFirst(DocOrder, n, FitFor(g[i - 1], path, i))
      BY <2>2 DEF FitFor
    <3>2. More(i, g[i - 1]) = FoundFor(g[i - 1], path, i)
      BY <2>2 DEF More
    <3> HIDE DEF Body, D
    <3> QED BY <1>5, <2>2, <3>1, <3>2
  <2> QED BY <2>1, <2>2
<1>11. LeadsTo(DocOrder, top, path) = led[Len(path)]
  BY DEF LeadsTo
<1>12. \A g : Body(g, 0) = top
  OBVIOUS
<1> HIDE DEF Body
<1>13. F = [i \in 0 .. Len(path) |-> Body(F, i)]
  <2>1. \A i \in D : F[i] = Body(F, i)
    BY <1>9, <1>10, <1>12
  <2> QED BY <2>1 DEF L
<1>14. led = [i \in 0 .. Len(path) |-> Body(led, i)]
  BY <1>13
<1> HIDE DEF led
<1>15. \A i \in D : led[i] = Body(led, i)
  <2> HIDE DEF D
  <2>1. D = 0 .. Len(path)
    BY DEF L, D
  <2> QED BY <1>14, <2>1
<1>16. led[0] = top
  BY <1>1, <1>12, <1>15
<1>17. \A i \in D : led[i] \in V
  <2> DEFINE Bad == {i \in D : led[i] \notin V}
  <2> SUFFICES ASSUME Bad # {} PROVE FALSE
    OBVIOUS
  <2>1. PICK i \in Bad : \A y \in Bad : i <= y
    <3>1. Bad \in SUBSET Nat
      BY <1>1
    <3> HIDE DEF Bad
    <3> QED BY <3>1, LeastElement
  <2>2. i # 0
    BY <1>16 DEF V
  <2>3. i - 1 \in D /\ i - 1 \notin Bad
    <3>1. i - 1 \in D /\ ~(i <= i - 1)
      BY <1>1, <2>2
    <3> HIDE DEF Bad
    <3> QED BY <2>1, <3>1
  <2>4. led[i] = More(i, led[i - 1]) /\ led[i - 1] \in V
    BY <1>10, <1>15, <2>2, <2>3
  <2> QED BY <1>4, <2>2, <2>4
<1>18. \A i \in 1 .. L : led[i - 1] \in V /\ led[i] = More(i, led[i - 1])
  <2>1. \A i \in 1 .. L : i \in D \ {0} /\ i - 1 \in D
    BY <1>1
  <2> HIDE DEF D
  <2> QED BY <1>10, <1>15, <1>17, <2>1
<1>19. Leads(led, top, path)
  BY <1>16, <1>18 DEF Leads, More, L, V
<1> QED BY <1>11, <1>19

(* One step of mxmlFindPath: the names left after it, and the node found.  *)
Onward(path, left, n) ==
  LET here == Len(path) - left + 1
  IN IF path[here] = Star /\ left > 1 THEN <<left - 2, FoundBelow(n, path[here + 1])>>
     ELSE <<left - 1, FoundKid(n, path[here])>>

(* Where it is: a path leads from no name to a Star, and never ends there. *)
LEMMA OnwardFacts ==
  ASSUME Ready, IsFiniteSet(Node), NEW path \in Paths, NEW n \in Node, NEW left \in 1 .. Len(path)
  PROVE  LET here == Len(path) - left + 1
         IN \/ /\ path[here] = Star /\ left > 1
               /\ Onward(path, left, n) = <<left - 2, FoundBelow(n, path[here + 1])>>
               /\ path[here + 1] # NULL /\ path[here + 1] # Star
               /\ FoundBelow(n, path[here + 1]) \in Node \cup {NULL}
            \/ /\ path[here] # Star /\ path[here] # NULL
               /\ Onward(path, left, n) = <<left - 1, FoundKid(n, path[here])>>
               /\ FoundKid(n, path[here]) \in Node \cup {NULL}
<1> DEFINE L == Len(path)
           here == L - left + 1
<1>1. /\ path \in Seq((Names \ {NULL}) \cup {Star}) /\ L \in Nat /\ path[L] # Star
      /\ \A i \in 1 .. L - 1 : path[i] = Star => path[i + 1] # Star
  BY PathsAssumption
<1>2. here \in 1 .. L /\ (left > 1 => here \in 1 .. L - 1) /\ (left = 1 => here = L)
  BY <1>1
<1> HIDE DEF L, here
<1>3. CASE path[here] = Star
  <2>1. left > 1 /\ here \in 1 .. L - 1
    BY <1>1, <1>2, <1>3
  <2>2. path[here + 1] # Star /\ here + 1 \in 1 .. L
    BY <1>1, <1>3, <2>1
  <2>3. path[here + 1] # NULL
    BY <1>1, <2>2 DEF L
  <2>4. FoundBelow(n, path[here + 1]) \in Node \cup {NULL}
    <3> DEFINE nm == path[here + 1]
    <3>1. nm # NULL
      BY <2>3
    <3> HIDE DEF nm
    <3>2. FoundBelow(n, nm) \in Node \cup {NULL}
      BY <3>1, FindsNamed
    <3> QED BY <3>2 DEF nm
  <2>5. Onward(path, left, n) = <<left - 2, FoundBelow(n, path[here + 1])>>
    BY <1>3, <2>1 DEF Onward, here, L
  <2> QED BY <1>3, <2>1, <2>2, <2>3, <2>4, <2>5 DEF here, L
<1>4. CASE path[here] # Star
  <2>1. path[here] # NULL
    BY <1>1, <1>2, <1>4 DEF L
  <2>2. FoundKid(n, path[here]) \in Node \cup {NULL}
    <3> DEFINE nm == path[here]
    <3>1. nm # NULL
      BY <2>1
    <3> HIDE DEF nm
    <3>2. FoundKid(n, nm) \in Node \cup {NULL}
      BY <3>1, FindsNamed
    <3> QED BY <3>2 DEF nm
  <2>3. Onward(path, left, n) = <<left - 1, FoundKid(n, path[here])>>
    BY <1>4 DEF Onward, here, L
  <2> QED BY <1>4, <2>1, <2>2, <2>3 DEF here, L
<1> QED BY <1>3, <1>4

Unfolds(F, path) ==
  \A left \in 0 .. Len(path), n \in Node \cup {NULL} :
    F[<<left, n>>] = IF left = 0 \/ n = NULL THEN n ELSE F[Onward(path, left, n)]

LEMMA FollowFacts ==
  ASSUME Ready, IsFiniteSet(Node), NEW top \in Node, NEW path \in Paths
  PROVE  \E F : Unfolds(F, path) /\ FollowPath(Tree, top, path) = F[<<Len(path), top>>]
<1> DEFINE L == Len(path)
           V == Node \cup {NULL}
           D == (0 .. L) \X V
           Stop == {e \in D : e[1] = 0 \/ e[2] = NULL}
           succ == [e \in D |-> Onward(path, e[1], e[2])]
           base == [e \in D |-> e[2]]
           step == [e \in D \X V |-> e[2]]
<1>1. L \in Nat
  BY PathsAssumption
<1>2. \A e \in D \ Stop : /\ e[1] \in 1 .. L /\ e[2] \in Node
                          /\ succ[e] \in D /\ succ[e][1] < e[1]
  <2> SUFFICES ASSUME NEW e \in D \ Stop
               PROVE  /\ e[1] \in 1 .. L /\ e[2] \in Node
                      /\ succ[e] \in D /\ succ[e][1] < e[1]
    OBVIOUS
  <2>1. e[1] \in 1 .. L /\ e[2] \in Node /\ succ[e] = Onward(path, e[1], e[2])
    BY <1>1
  <2> DEFINE left == e[1]
             n == e[2]
             s == Onward(path, left, n)
  <2>2. left \in 1 .. L /\ n \in Node /\ succ[e] = s
    BY <2>1
  <2> HIDE DEF left, n
  <2>3. \/ left > 1 /\ \E m \in V : s = <<left - 2, m>>
        \/ \E m \in V : s = <<left - 1, m>>
    BY <2>2, OnwardFacts
  <2> HIDE DEF s, succ, Stop
  <2>4. s \in D /\ s[1] < left
    BY <1>1, <2>2, <2>3
  <2> QED BY <2>1, <2>2, <2>4 DEF left
<1> HIDE DEF succ
<1>3. Ends(D, Stop, succ)
  <2> SUFFICES ASSUME NEW S \in SUBSET (D \ Stop), S # {} PROVE \E e \in S : succ[e] \notin S
    BY DEF Ends
  <2> DEFINE lefts == {e[1] : e \in S}
  <2>1. lefts \in SUBSET Nat /\ lefts # {}
    BY <1>1
  <2>2. PICK i \in lefts : \A k \in lefts : i <= k
    <3> HIDE DEF lefts
    <3> QED BY <2>1, LeastElement
  <2>3. PICK e \in S : i = e[1]
    OBVIOUS
  <2>4. succ[e][1] < i /\ succ[e][1] \in Nat /\ i \in Nat
    <3>1. e \in D \ Stop
      OBVIOUS
    <3>2. succ[e][1] < e[1] /\ succ[e] \in D /\ e[1] \in 1 .. L
      BY <1>2, <3>1
    <3> DEFINE q == succ[e]
    <3>3. q \in D /\ q[1] < i /\ i \in 1 .. L
      BY <2>3, <3>2
    <3> HIDE DEF q
    <3>4. q[1] \in 0 .. L
      BY <3>3
    <3>5. q[1] \in Nat /\ i \in Nat
      BY <1>1, <3>3, <3>4
    <3> QED BY <3>3, <3>5 DEF q
  <2>5. succ[e] \notin S
    <3> SUFFICES ASSUME succ[e] \in S PROVE FALSE
      OBVIOUS
    <3>1. succ[e][1] \in lefts
      OBVIOUS
    <3> HIDE DEF lefts
    <3>2. i <= succ[e][1]
      BY <2>2, <3>1
    <3> QED BY <2>4, <3>2
  <2> QED BY <2>5
<1>4. base \in [D -> V] /\ step \in [D \X V -> V]
  OBVIOUS
<1>5. \A e \in D, v \in V : base[e] = e[2] /\ step[<<e, v>>] = v
  OBVIOUS
<1>6. \A e \in D \ Stop : succ[e] \in D
  BY <1>2
<1> HIDE DEF base, step, V
<1>7. PICK F \in [D -> V] : Recursive(F, D, Stop, succ, base, step)
  BY <1>3, <1>4, <1>6, Recursion
<1>8. \A e \in D : F[e] = IF e \in Stop THEN e[2] ELSE F[succ[e]]
  <2>1. \A e \in D \ Stop : F[succ[e]] \in V
    BY <1>6, <1>7
  <2> QED BY <1>5, <1>7, <2>1 DEF Recursive
<1> DEFINE Body(g, at) ==
             LET left == at[1]
                 n == at[2]
                 here == Len(path) - left + 1
             IN IF left = 0 \/ n = NULL THEN n
                ELSE IF path[here] = Star /\ left > 1
                THEN g[<<left - 2, FindElement(Tree, n, n, path[here + 1], NULL, NULL, "all")>>]
                ELSE g[<<left - 1, FindElement(Tree, n, n, path[here], NULL, NULL, "first")>>]
           follow == CHOOSE g : g = [at \in (0 .. Len(path)) \X (DOMAIN Tree.kind \cup {NULL}) |-> Body(g, at)]
<1>9. (0 .. Len(path)) \X (DOMAIN Tree.kind \cup {NULL}) = D
  BY DEF Tree, Ready, V
<1>10. \A g : \A e \in D : Body(g, e) = IF e[1] = 0 \/ e[2] = NULL THEN e[2] ELSE g[Onward(path, e[1], e[2])]
  BY DEF Onward, FoundBelow, FoundKid
<1>11. FollowPath(Tree, top, path) = follow[<<Len(path), top>>]
  BY DEF FollowPath
<1> HIDE DEF Body
<1>12. F = [at \in (0 .. Len(path)) \X (DOMAIN Tree.kind \cup {NULL}) |-> Body(F, at)]
  <2>1. \A e \in D : F[e] = Body(F, e)
    BY <1>8, <1>10 DEF succ
  <2> HIDE DEF D
  <2> QED BY <1>9, <2>1
<1>13. follow = [at \in (0 .. Len(path)) \X (DOMAIN Tree.kind \cup {NULL}) |-> Body(follow, at)]
  BY <1>12
<1> HIDE DEF follow
<1>14. \A e \in D : follow[e] = Body(follow, e)
  <2> HIDE DEF D
  <2> QED BY <1>9, <1>13
<1>15. Unfolds(follow, path)
  BY <1>10, <1>14 DEF Unfolds, V
<1> QED BY <1>11, <1>15

(* What mxmlFindPath is at, with some names left, is where those before    *)
(* lead.                                                                   *)
LEMMA FollowLeads ==
  ASSUME Ready, IsFiniteSet(Node), NEW top \in Node, NEW path \in Paths
  PROVE  /\ LeadsTo(DocOrder, top, path) \in Node \cup {NULL}
         /\ FollowPath(Tree, top, path) = LeadsTo(DocOrder, top, path)
<1> DEFINE L == Len(path)
<1>1. PICK d : Leads(d, top, path) /\ LeadsTo(DocOrder, top, path) = d[L]
  BY LeadFacts
<1>2. PICK F : Unfolds(F, path) /\ FollowPath(Tree, top, path) = F[<<L, top>>]
  BY FollowFacts
<1>3. /\ L \in Nat /\ L # 0 /\ path[L] # Star
      /\ \A i \in 1 .. L - 1 : path[i] = Star => path[i + 1] # Star
      /\ \A i \in 1 .. L : path[i] # Star => path[i] # NULL
  BY PathsAssumption
<1> DEFINE F0 == F[<<L, top>>]
           Stands(i) == i = 0 \/ path[i] # Star
           Bad == {i \in 0 .. L : Stands(i) /\ F[<<L - i, d[i]>>] # F0}
<1> HIDE DEF L, F0
<1>4. /\ d[0] = top
      /\ \A i \in 1 .. L :
           /\ d[i - 1] \in Node \cup {NULL}
           /\ d[i] = IF path[i] = Star \/ d[i - 1] = NULL THEN d[i - 1] ELSE FoundFor(d[i - 1], path, i)
  BY <1>1 DEF Leads, L
<1>5. \A left \in 0 .. L, n \in Node \cup {NULL} :
        F[<<left, n>>] = IF left = 0 \/ n = NULL THEN n ELSE F[Onward(path, left, n)]
  BY <1>2 DEF Unfolds, L
<1>6. \A i \in 0 .. L : d[i] \in Node \cup {NULL}
  <2> SUFFICES ASSUME NEW i \in 0 .. L PROVE d[i] \in Node \cup {NULL}
    OBVIOUS
  <2>1. CASE i = 0
    BY <1>4, <2>1
  <2>2. CASE i # 0
    <3>1. i \in 1 .. L
      BY <1>3, <2>2
    <3> DEFINE n == d[i - 1]
    <3>2. n \in Node \cup {NULL} /\ d[i] = IF path[i] = Star \/ n = NULL THEN n ELSE FoundFor(n, path, i)
      BY <1>4, <3>1
    <3> HIDE DEF n
    <3>3. path[i] # Star /\ n # NULL => FoundFor(n, path, i) \in Node \cup {NULL}
      BY <1>3, <3>1, <3>2, FoundForLeads
    <3> QED BY <3>2, <3>3
  <2> QED BY <2>1, <2>2
<1>7. Bad = {}
  <2> SUFFICES ASSUME Bad # {} PROVE FALSE
    OBVIOUS
  <2>1. PICK i \in Bad : \A y \in Bad : i <= y
    <3>1. Bad \in SUBSET Nat
      BY <1>3
    <3> HIDE DEF Bad
    <3> QED BY <3>1, LeastElement
  <2>2. i \in 0 .. L /\ Stands(i) /\ F[<<L - i, d[i]>>] # F0
    OBVIOUS
  <2>3. i # 0
    <3> SUFFICES ASSUME i = 0 PROVE FALSE
      OBVIOUS
    <3>1. L - i = L /\ d[i] = top
      BY <1>3, <1>4
    <3> QED BY <2>2, <3>1 DEF F0
  <2>4. i \in 1 .. L /\ path[i] # Star
    BY <1>3, <2>2, <2>3
  <2>5. \A j \in 0 .. L : j < i /\ Stands(j) => F[<<L - j, d[j]>>] = F0
    <3> SUFFICES ASSUME NEW j \in 0 .. L, j < i, Stands(j), F[<<L - j, d[j]>>] # F0 PROVE FALSE
      OBVIOUS
    <3>1. j \in Bad
      OBVIOUS
    <3>2. ~(i <= j)
      BY <1>3, <2>4
    <3> HIDE DEF Bad
    <3> QED BY <2>1, <3>1, <3>2
  <2> DEFINE Onto(j) == /\ j \in 0 .. L /\ j < i /\ Stands(j) /\ L - j \in 1 .. L /\ L - i \in 0 .. L
                        /\ d[i] = IF d[j] = NULL THEN NULL ELSE FoundFor(d[j], path, i)
                        /\ d[j] # NULL => Onward(path, L - j, d[j]) = <<L - i, FoundFor(d[j], path, i)>>
  <2>8. ASSUME NEW j, Onto(j) PROVE FALSE
    <3> DEFINE n == d[j]
               x == FoundFor(n, path, i)
    <3>1. F[<<L - j, n>>] = F0 /\ n \in Node \cup {NULL}
      BY <1>6, <2>5, <2>8
    <3>2. /\ L - j \in 0 .. L /\ L - j # 0 /\ L - i \in 0 .. L
          /\ d[i] = IF n = NULL THEN NULL ELSE x
          /\ n # NULL => Onward(path, L - j, n) = <<L - i, x>>
      BY <1>3, <2>8
    <3> HIDE DEF n, x, Onto
    <3>3. CASE n = NULL
      <4>1. F[<<L - j, n>>] = NULL /\ F[<<L - i, NULL>>] = NULL
        BY <1>5, <3>1, <3>2, <3>3
      <4> QED BY <2>2, <3>1, <3>2, <3>3, <4>1
    <3>4. CASE n # NULL
      <4>1. F[<<L - j, n>>] = F[Onward(path, L - j, n)]
        BY <1>5, <3>1, <3>2, <3>4
      <4> QED BY <2>2, <3>1, <3>2, <3>4, <4>1
    <3> QED BY <3>3, <3>4
  <2>6. CASE i > 1 /\ path[i - 1] = Star
    <3>1. /\ i - 2 \in 0 .. L /\ i - 2 < i /\ L - (i - 2) \in 1 .. L /\ L - i \in 0 .. L
          /\ i - 1 \in 1 .. L /\ i - 1 - 1 = i - 2
          /\ L - (L - (i - 2)) + 1 = i - 1 /\ (L - (i - 2)) - 2 = L - i /\ (L - (i - 2)) > 1 /\ (i - 1) + 1 = i
      BY <1>3, <2>4, <2>6
    <3>2. Stands(i - 2)
      <4> SUFFICES ASSUME i - 2 # 0, path[i - 2] = Star PROVE FALSE
        OBVIOUS
      <4>1. i - 2 \in 1 .. L - 1 /\ (i - 2) + 1 = i - 1
        BY <1>3, <2>4, <2>6
      <4> QED BY <1>3, <2>6, <4>1
    <3>3. d[i - 1] = d[i - 2]
      <4>1. d[i - 1] = d[i - 1 - 1]
        BY <1>4, <2>6, <3>1
      <4> QED BY <3>1, <4>1
    <3>4. d[i] = IF d[i - 2] = NULL THEN NULL ELSE FoundFor(d[i - 2], path, i)
      BY <1>4, <2>4, <3>3
    <3>5. Onward(path, L - (i - 2), d[i - 2]) = <<L - i, FoundFor(d[i - 2], path, i)>>
      <4> DEFINE left == L - (i - 2)
      <4>1. Len(path) - left + 1 = i - 1 /\ left - 2 = L - i /\ left > 1
        BY <3>1 DEF L
      <4> HIDE DEF left
      <4>2. Onward(path, left, d[i - 2]) = <<left - 2, FoundBelow(d[i - 2], path[(i - 1) + 1])>>
        BY <2>6, <4>1 DEF Onward
      <4>3. FoundFor(d[i - 2], path, i) = FoundBelow(d[i - 2], path[i])
        BY <2>6 DEF FoundFor
      <4> QED BY <3>1, <4>1, <4>2, <4>3 DEF left
    <3>6. Onto(i - 2)
      BY <3>1, <3>2, <3>4, <3>5
    <3> QED BY <2>8, <3>6
  <2>7. CASE ~(i > 1 /\ path[i - 1] = Star)
    <3>1. /\ i - 1 \in 0 .. L /\ i - 1 < i /\ L - (i - 1) \in 1 .. L /\ L - i \in 0 .. L
          /\ L - (L - (i - 1)) + 1 = i /\ (L - (i - 1)) - 1 = L - i
      BY <1>3, <2>4
    <3>2. Stands(i - 1)
      BY <2>4, <2>7
    <3>3. d[i] = IF d[i - 1] = NULL THEN NULL ELSE FoundFor(d[i - 1], path, i)
      BY <1>4, <2>4
    <3>4. Onward(path, L - (i - 1), d[i - 1]) = <<L - i, FoundFor(d[i - 1], path, i)>>
      <4> DEFINE left == L - (i - 1)
      <4>1. Len(path) - left + 1 = i /\ left - 1 = L - i
        BY <3>1 DEF L
      <4> HIDE DEF left
      <4>2. Onward(path, left, d[i - 1]) = <<left - 1, FoundKid(d[i - 1], path[i])>>
        BY <2>4, <4>1 DEF Onward
      <4>3. FoundFor(d[i - 1], path, i) = FoundKid(d[i - 1], path[i])
        BY <2>7 DEF FoundFor
      <4> QED BY <4>1, <4>2, <4>3 DEF left
    <3>5. Onto(i - 1)
      BY <3>1, <3>2, <3>3, <3>4
    <3> QED BY <2>8, <3>5
  <2> QED BY <2>6, <2>7
<1>8. F[<<0, d[L]>>] = F0
  <2>1. L \in 0 .. L /\ L - L = 0 /\ Stands(L)
    BY <1>3
  <2> QED BY <1>7, <2>1
<1>9. d[L] \in Node \cup {NULL} /\ F[<<0, d[L]>>] = d[L]
  <2>1. L \in 0 .. L /\ 0 \in 0 .. L
    BY <1>3
  <2> QED BY <1>5, <1>6, <2>1
<1> QED BY <1>1, <1>2, <1>8, <1>9 DEF F0

LEMMA FirstChild ==
  ASSUME Ready, NEW n \in Node
  PROVE  links.child[n] \in Node \cup {NULL} /\ IsFirst(DocOrder, links.child[n], KidsOf(forest, n))
<1> DEFINE c == links.child[n]
<1>1. FirstIs(n, c) /\ OverLaws
  BY PointersLead, OverIsOrder DEF Ready
<1> HIDE DEF c
<1>2. ASSUME c = NULL PROVE IsFirst(DocOrder, c, KidsOf(forest, n))
  <2>1. \A m \in Node : forest.up[m] # n
    BY <1>1, <1>2 DEF FirstIs
  <2>2. KidsOf(forest, n) = {}
    BY <2>1 DEF KidsOf
  <2> QED BY <1>2, <2>2 DEF IsFirst
<1>3. ASSUME c # NULL PROVE IsFirst(DocOrder, c, KidsOf(forest, n))
  <2> DEFINE S == KidsOf(forest, n)
  <2>1. c \in KidsOf(forest, n) /\ c \in Node
    BY <1>1, <1>3 DEF FirstIs, KidsOf
  <2>2. ASSUME NEW m \in KidsOf(forest, n) \ {c} PROVE <<c, m>> \in DocOrder
    <3>1. m \in Node /\ m # c /\ Precedes(forest, c, m)
      BY <1>1, <1>3, <2>2 DEF FirstIs, KidsOf
    <3>2. c \in Over[c] /\ m \in Over[m]
      BY <1>1, <2>1, <3>1 DEF OverLaws
    <3> QED BY <2>1, <3>1, <3>2 DEF DocOrder, Earlier
  <2>3. c \in S /\ \A m \in S \ {c} : <<c, m>> \in DocOrder
    BY <2>1, <2>2
  <2> HIDE DEF S
  <2>4. S # {}
    BY <2>3
  <2>5. IsFirst(DocOrder, c, S)
    BY <2>3, <2>4 DEF IsFirst
  <2> QED BY <2>5 DEF S
<1>4. c \in Node \cup {NULL}
  BY <1>1 DEF FirstIs
<1> QED BY <1>2, <1>3, <1>4 DEF c

LEMMA PathsFit ==
  ASSUME Ready, IsFiniteSet(Node), NEW top \in Node, NEW path \in Paths
  PROVE  PathFits(DocOrder, top, path)
<1> DEFINE n == LeadsTo(DocOrder, top, path)
           first == links.child[n]
           f == FindPath(Tree, top, path)
<1>1. n \in Node \cup {NULL} /\ FollowPath(Tree, top, path) = n
  BY FollowLeads
<1>2. path # <<>> /\ top # NULL
  BY PathsAssumption, NullIsNoNode
<1>3. f = IF n = NULL THEN NULL ELSE IF first # NULL /\ kind[first] # "element" THEN first ELSE n
  <2> HIDE DEF n
  <2> QED BY <1>1, <1>2 DEF FindPath, Tree
<1> HIDE DEF n, f
<1>4. CASE n = NULL
  BY <1>3, <1>4 DEF PathFits, f, n
<1>5. CASE n # NULL
  <2>1. first \in Node \cup {NULL} /\ IsFirst(DocOrder, first, KidsOf(forest, n))
    BY <1>1, <1>5, FirstChild
  <2> HIDE DEF first
  <2>2. f = IF first # NULL /\ ~IsElement(first) THEN first ELSE n
    BY <1>3, <1>5 DEF IsElement
  <2> QED BY <1>5, <2>1, <2>2 DEF PathFits, f, n
<1> QED BY <1>4, <1>5

(***************************************************************************)
(* No circles: the one thing a caller must not do is to put a node under   *)
(* what is under it, and every other call keeps the trees trees.           *)
(***************************************************************************)
LEMMA DetachedGrounded ==
  ASSUME NEW f, ForestType(f), Grounded(f), NEW n \in Node
  PROVE  Grounded(Detached(f, n))
<1> SUFFICES ASSUME NEW S \in SUBSET Node, S # {} PROVE \E x \in S : Detached(f, n).up[x] \notin S
  BY DEF Grounded
<1>1. PICK x \in S : f.up[x] \notin S
  BY DEF Grounded
<1>2. Detached(f, n).up[x] = IF x = n THEN NULL ELSE f.up[x]
  BY DEF Detached, ForestType, Link
<1> QED BY <1>1, <1>2, NullIsNoNode

LEMMA PlacedGrounded ==
  ASSUME NEW f, ForestType(f), Grounded(f), NEW n \in Node, NEW p \in Node, NEW early,
         NEW C \in SUBSET Node, n \in C, p \notin C,
         \A x \in Node : f.up[x] \in C /\ x # n => x \in C
  PROVE  Grounded(Placed(f, p, n, early))
<1> DEFINE g == Placed(f, p, n, early)
<1>1. \A x \in Node : g.up[x] = IF x = n THEN p ELSE f.up[x]
  BY DEF Placed, ForestType, Link
<1> HIDE DEF g
<1> SUFFICES ASSUME NEW S \in SUBSET Node, S # {} PROVE \E x \in S : g.up[x] \notin S
  BY DEF Grounded, g
<1>2. CASE n \notin S
  BY <1>1, <1>2 DEF Grounded
<1>3. CASE n \in S /\ S \subseteq C
  BY <1>1, <1>3
<1>4. CASE n \in S /\ S \ C # {}
  <2>1. PICK x \in S \ C : f.up[x] \notin S \ C
    BY <1>4 DEF Grounded
  <2> QED BY <1>1, <2>1
<1> QED BY <1>2, <1>3, <1>4

NoCircles == Grounded(forest)
TreesInv == NodeInv /\ NoCircles

LEMMA TreesInit == DataInit => TreesInv
<1> SUFFICES ASSUME DataInit PROVE TreesInv
  OBVIOUS
<1>1. NodeInv
  BY InvInit DEF DataInit
<1>2. \A x \in Node : forest.up[x] = NULL
  BY DEF DataInit, NodeInit, EmptyForest, NoLink
<1> QED BY <1>1, <1>2, NullIsNoNode DEF TreesInv, NoCircles, Grounded

LEMMA CreateKeepsTrees ==
  ASSUME TreesInv, NEW n \in Node, Create(n)
  PROVE  NoCircles'
<1>1. PICK p \in Node \cup {NULL} : \E k : New(p, k, n)
  BY DEF Create, NewElement, NewValue, Made
<1>2. /\ ~Live(n) /\ (p # NULL => Live(p))
      /\ forest' = IF p = NULL THEN forest ELSE Placed(forest, p, n, KidsOf(forest, p))
  BY <1>1 DEF New
<1>3. CASE p = NULL
  BY <1>2, <1>3 DEF TreesInv, NoCircles, Grounded
<1>4. CASE p # NULL
  <2> DEFINE C == {n}
             early == KidsOf(forest, p)
  <2>1. p \in Node /\ p \notin C /\ n \in C /\ C \in SUBSET Node
    BY <1>2, <1>4
  <2>2. \A x \in Node : forest.up[x] \notin C
    BY <1>2, NullIsNoNode DEF TreesInv, NodeInv, ForestAlive
  <2>3. ForestType(forest) /\ Grounded(forest)
    BY DEF TreesInv, NoCircles, NodeInv, NodeTypeOK
  <2> HIDE DEF C, early
  <2>4. Grounded(Placed(forest, p, n, early))
    BY <2>1, <2>2, <2>3, PlacedGrounded
  <2>5. forest' = Placed(forest, p, n, early)
    BY <1>2, <1>4 DEF early
  <2> QED BY <2>4, <2>5 DEF NoCircles, Grounded
<1> QED BY <1>3, <1>4

LEMMA MoveKeepsTrees ==
  ASSUME TreesInv, NEW n \in Node, NEW p \in Node, NEW c, NEW where, Move(p, where, c, n)
  PROVE  NoCircles'
<1> DEFINE f == Detached(forest, n)
           early == EarlyAt(f, p, where, c)
<1>1. p \notin Subtree(n) /\ forest' = Placed(f, p, n, early)
  BY DEF Move, Add
<1>2. PICK C \in SUBSET Node : /\ n \in C /\ p \notin C
                               /\ \A x \in Node : forest.up[x] \in C => x \in C
  BY <1>1 DEF Subtree
<1>3. ForestType(forest) /\ Grounded(forest) /\ Ordered(forest)
  BY DEF TreesInv, NoCircles, NodeInv, NodeTypeOK, PointersRepresent
<1>4. ForestType(f) /\ Grounded(f)
  BY <1>3, DetachedGrounded, DetachedOrdered
<1>5. \A x \in Node : x # n => f.up[x] = forest.up[x]
  BY <1>3 DEF Detached, ForestType, Link
<1> HIDE DEF f, early
<1>6. Grounded(Placed(f, p, n, early))
  BY <1>2, <1>4, <1>5, PlacedGrounded
<1> QED BY <1>1, <1>6 DEF NoCircles, Grounded

LEMMA TreesNext ==
  ASSUME TreesInv, [DataNext]_<<nodeVars, dataVars>>
  PROVE  TreesInv'
<1>1. NodeInv'
  BY DataNextIsNodeNext, NextKeeps DEF TreesInv
<1>2. ForestType(forest) /\ Grounded(forest) /\ links \in Links /\ doomed \in Seq(Node)
  BY DEF TreesInv, NoCircles, NodeInv, NodeTypeOK
<1>3. ASSUME forest' = forest PROVE NoCircles'
  BY <1>2, <1>3 DEF NoCircles, Grounded
<1>4. ASSUME NEW n \in Node, forest' = Detached(forest, n) PROVE NoCircles'
  <2>1. Grounded(Detached(forest, n))
    BY <1>2, DetachedGrounded
  <2> QED BY <1>4, <2>1 DEF NoCircles, Grounded
<1>5. ASSUME NEW n \in Node, Create(n) PROVE NoCircles'
  BY <1>5, CreateKeepsTrees
<1>6. ASSUME Rearrange PROVE NoCircles'
  <2>1. ASSUME NEW n \in Node, NEW p \in Node, NEW c \in Node \cup {NULL}, NEW where \in {"before", "after"},
               Move(p, where, c, n)
        PROVE  NoCircles'
    BY <2>1, MoveKeepsTrees
  <2>2. ASSUME NEW n \in Node, Detach(n) PROVE NoCircles'
    <3>1. forest' = forest \/ forest' = Detached(forest, n)
      BY <2>2 DEF Detach, RemoveNode, Retain, Release, Delete, Enter
    <3> QED BY <1>3, <1>4, <3>1
  <2> QED BY <1>6, <2>1, <2>2 DEF Rearrange
<1>7. ASSUME Edit PROVE NoCircles'
  <2>1. forest' = forest
    BY <1>7 DEF Edit, SetAttr, DeleteAttr, SetValue, SetCDATA, SetTextf, Store, nodeVars
  <2> QED BY <1>3, <2>1
<1>8. ASSUME Deletion PROVE NoCircles'
  <2>1. CASE DeleteChild
    <3> DEFINE n == links.child[Head(doomed)]
    <3>1. n \in Node
      BY <1>2, <2>1 DEF DeleteChild, Idle, Links, Link
    <3>2. forest' = Detached(forest, n)
      BY <2>1 DEF DeleteChild, Enter
    <3> HIDE DEF n
    <3> QED BY <1>4, <3>1, <3>2
  <2>2. CASE Free
    BY <1>3, <2>2 DEF Free
  <2> QED BY <1>8, <2>1, <2>2 DEF Deletion, Deleting
<1>9. ASSUME UNCHANGED <<nodeVars, dataVars>> PROVE NoCircles'
  BY <1>3, <1>9 DEF nodeVars
<1>10. NoCircles'
  BY <1>5, <1>6, <1>7, <1>8, <1>9 DEF DataNext
<1> QED BY <1>1, <1>10 DEF TreesInv

LEMMA TreesAlways == DataSpec => []TreesInv
<1>1. TreesInv /\ [DataNext]_<<nodeVars, dataVars>> => TreesInv'
  BY TreesNext
<1> QED BY <1>1, TreesInit, PTL DEF DataSpec

LEMMA TreesReady == TreesInv => Ready
BY DEF TreesInv, NoCircles, NodeInv, NodeTypeOK, PointersRepresent, Ready, Tidy

(* While nodes are created, moved, counted and deleted, no node is ever    *)
(* under itself, for any number of nodes: every walk up mxml's parent      *)
(* pointers ends.                                                          *)
THEOREM NeverCircles == DataSpec => []NoCircles
<1>1. TreesInv => NoCircles
  BY DEF TreesInv
<1> QED BY <1>1, TreesAlways, PTL

(* mxmlWalkNext and mxmlWalkPrev lead through any tree in document order,  *)
(* whatever the calls did to its pointers before.                          *)
THEOREM AlwaysWalksInOrder ==
  ASSUME IsFiniteSet(Node)
  PROVE  DataSpec => []WalkInOrder
<1>1. TreesInv => WalkInOrder
  <2> SUFFICES ASSUME TreesInv, NEW top \in LiveNodes, NEW n \in Under(top)
               PROVE  /\ IsFirst(DocOrder, WalkNext(Tree, n, top, "all"),
                                 {m \in Under(top) : <<n, m>> \in DocOrder})
                      /\ IsLast(DocOrder, WalkPrev(Tree, n, top, "all"),
                                {m \in Under(top) \ {top} : <<m, n>> \in DocOrder})
    BY DEF WalkInOrder
  <2>1. Ready /\ top \in Node
    BY TreesReady DEF LiveNodes
  <2> QED BY <2>1, WalksOn, WalksBack
<1> QED BY <1>1, TreesAlways, PTL

LEMMA SearchesTree ==
  ASSUME Ready, IsFiniteSet(Node), NEW top \in Node, NEW nm, NEW a, NEW v, a # NULL \/ v = NULL
  PROVE  LET kids == KidsOf(forest, top)
             fits == {n \in Under(top) \ {top} : Matches(Tree, n, nm, a, v)}
         IN /\ IsFirst(DocOrder, FindElement(Tree, top, top, nm, a, v, "all"), fits)
            /\ IsFirst(DocOrder, FindElement(Tree, top, top, nm, a, v, "first"), fits \cap kids)
            /\ \A k \in kids :
                 IsFirst(DocOrder, FindElement(Tree, k, top, nm, a, v, "none"),
                         {m \in fits \cap kids : Precedes(forest, k, m)})
<1> DEFINE kids == KidsOf(forest, top)
           fits == {n \in Under(top) \ {top} : Matches(Tree, n, nm, a, v)}
           Hit == HitsFor(nm, a, v)
<1>1. Tidy /\ OverLaws
  BY OverIsOrder DEF Ready
<1>2. fits = (Under(top) \ {top}) \cap Hit
  BY DEF HitsFor, Under
<1>3. kids \subseteq Under(top) \ {top}
  BY <1>1 DEF OverLaws, KidsOf, Under
<1>4. fits \cap kids = kids \cap Hit
  BY <1>2, <1>3
<1>5. ASSUME NEW k \in kids PROVE k \in Node /\ forest.up[k] = top /\ Behind(k) \subseteq kids
  BY <1>1, <1>5 DEF KidsOf, Behind, Tidy, Ordered
<1>6. ASSUME NEW k \in kids PROVE {m \in fits \cap kids : Precedes(forest, k, m)} = Behind(k) \cap Hit
  <2>1. Behind(k) \subseteq kids /\ \A m \in kids : m \in Node
    BY <1>5, <1>6 DEF KidsOf
  <2> HIDE DEF fits, kids, Hit
  <2> QED BY <1>4, <2>1 DEF Behind
<1> HIDE DEF fits, kids, Hit
<1>7. IsFirst(DocOrder, FindElement(Tree, top, top, nm, a, v, "all"), fits)
  <2>1. IsFirst(DocOrder, FindElement(Tree, top, top, nm, a, v, "all"), (Under(top) \ {top}) \cap Hit)
    BY FindsBelow DEF Hit
  <2> QED BY <1>2, <2>1
<1>8. IsFirst(DocOrder, FindElement(Tree, top, top, nm, a, v, "first"), fits \cap kids)
  <2>1. IsFirst(DocOrder, FindElement(Tree, top, top, nm, a, v, "first"), kids \cap Hit)
    BY FindsChild DEF Hit, kids
  <2> QED BY <1>4, <2>1
<1>9. ASSUME NEW k \in kids
      PROVE  IsFirst(DocOrder, FindElement(Tree, k, top, nm, a, v, "none"),
                     {m \in fits \cap kids : Precedes(forest, k, m)})
  <2>1. k \in Node /\ forest.up[k] = top
    BY <1>5
  <2>2. IsFirst(DocOrder, FindElement(Tree, k, top, nm, a, v, "none"), Behind(k) \cap Hit)
    BY <2>1, FindsNext DEF Hit
  <2> QED BY <1>6, <2>2
<1> QED BY <1>7, <1>8, <1>9 DEF fits, kids

(* mxmlFindElement finds the first element that matches, wherever the      *)
(* calls have left it, and never misses one; mxmlFindPath takes the first  *)
(* for every name of its path, and has NULL only where there is none.      *)
THEOREM SearchesAlwaysFind ==
  ASSUME IsFiniteSet(Node)
  PROVE  DataSpec => []SearchFinds
<1>1. TreesInv => SearchFinds
  <2> SUFFICES ASSUME TreesInv, NEW top \in LiveNodes
               PROVE  LET below == Under(top) \ {top}
                          kids == KidsOf(forest, top)
                      IN /\ \A nm \in Names \cup {NULL}, a \in AttrNames \cup {NULL} :
                              \A v \in IF a = NULL THEN {NULL} ELSE Values \cup {NULL} :
                                LET fits == {n \in below : Matches(Tree, n, nm, a, v)}
                                IN /\ IsFirst(DocOrder, FindElement(Tree, top, top, nm, a, v, "all"), fits)
                                   /\ IsFirst(DocOrder, FindElement(Tree, top, top, nm, a, v, "first"), fits \cap kids)
                                   /\ \A k \in kids :
                                        IsFirst(DocOrder, FindElement(Tree, k, top, nm, a, v, "none"),
                                                {m \in fits \cap kids : Precedes(forest, k, m)})
                         /\ \A path \in Paths : PathFits(DocOrder, top, path)
    BY DEF SearchFinds
  <2>1. Ready /\ top \in Node
    BY TreesReady DEF LiveNodes
  <2>2. ASSUME NEW nm \in Names \cup {NULL}, NEW a \in AttrNames \cup {NULL},
               NEW v \in IF a = NULL THEN {NULL} ELSE Values \cup {NULL}
        PROVE  LET kids == KidsOf(forest, top)
                   fits == {n \in Under(top) \ {top} : Matches(Tree, n, nm, a, v)}
               IN /\ IsFirst(DocOrder, FindElement(Tree, top, top, nm, a, v, "all"), fits)
                  /\ IsFirst(DocOrder, FindElement(Tree, top, top, nm, a, v, "first"), fits \cap kids)
                  /\ \A k \in kids :
                       IsFirst(DocOrder, FindElement(Tree, k, top, nm, a, v, "none"),
                               {m \in fits \cap kids : Precedes(forest, k, m)})
    <3>1. a # NULL \/ v = NULL
      OBVIOUS
    <3> QED BY <2>1, <3>1, SearchesTree
  <2>3. \A path \in Paths : PathFits(DocOrder, top, path)
    BY <2>1, PathsFit
  <2> QED BY <2>2, <2>3
<1> QED BY <1>1, TreesAlways, PTL

(***************************************************************************)
(* An index: the greatest and the least of numbers.                        *)
(***************************************************************************)
LEMMA LeastOf ==
  ASSUME NEW S, S \in SUBSET Nat, S # {}
  PROVE  Min(S) \in S /\ \A y \in S : Min(S) <= y
<1>1. PICK i \in S : \A y \in S : i <= y
  BY LeastElement
<1> QED BY <1>1 DEF Min

LEMMA GreatestOf ==
  ASSUME NEW n \in Nat, NEW S \in SUBSET (0 .. n), S # {}
  PROVE  Max(S) \in S /\ \A y \in S : y <= Max(S)
<1> DEFINE T == {n - y : y \in S}
<1>1. T \in SUBSET Nat /\ T # {}
  <2>1. \A y \in S : n - y \in Nat
    OBVIOUS
  <2> QED BY <2>1
<1> HIDE DEF T
<1>2. PICK i \in T : \A y \in T : i <= y
  BY <1>1, LeastElement
<1>3. n - i \in S /\ \A y \in S : y <= n - i
  BY <1>2 DEF T
<1> QED BY <1>3 DEF Max

(***************************************************************************)
(* What index_sort needs of a comparison.                                  *)
(***************************************************************************)
Comparing(t, attr, S) ==
  /\ \A a, b \in S : Compare(t, attr, a, b) \in Int
  /\ \A a, b \in S : Compare(t, attr, a, b) > 0 => Compare(t, attr, b, a) <= 0
  /\ \A a, b, c \in S :
       Compare(t, attr, a, b) <= 0 /\ Compare(t, attr, b, c) <= 0 => Compare(t, attr, a, c) <= 0

(* The array u has what s has, moved only from left to right.              *)
Shuffled(n, S, s, u, left, right) ==
  /\ u \in [1 .. n -> S]
  /\ \A i \in 1 .. n : i \notin left .. right => u[i] = s[i]
  /\ \A i \in left .. right : \E j \in left .. right : u[i] = s[j]
  /\ \A j \in left .. right : \E i \in left .. right : u[i] = s[j]
  /\ \A i, j \in 1 .. n : u[i] = u[j] => i = j

LEMMA SwapShuffles ==
  ASSUME NEW n \in Nat, NEW S, NEW left \in 1 .. n, NEW right \in 1 .. n, NEW s, NEW u,
         Shuffled(n, S, s, u, left, right), NEW i \in left .. right, NEW j \in left .. right,
         NEW v, v = Swapped(u, i, j)
  PROVE  Shuffled(n, S, s, v, left, right)
<1>1. i \in 1 .. n /\ j \in 1 .. n /\ u \in [1 .. n -> S]
  BY DEF Shuffled
<1>2. v \in [1 .. n -> S]
  BY <1>1 DEF Swapped
<1>3. \A k \in 1 .. n : v[k] = IF k = j THEN u[i] ELSE IF k = i THEN u[j] ELSE u[k]
  BY <1>1 DEF Swapped
<1>4. \A k \in 1 .. n : k \notin left .. right => v[k] = s[k]
  BY <1>3 DEF Shuffled
<1>5. \A k \in left .. right : \E m \in left .. right : v[k] = s[m]
  <2> TAKE k \in left .. right
  <2>1. k \in 1 .. n
    OBVIOUS
  <2>2. v[k] = u[i] \/ v[k] = u[j] \/ v[k] = u[k]
    BY <1>3, <2>1
  <2> QED BY <2>2 DEF Shuffled
<1>6. \A m \in left .. right : \E k \in left .. right : v[k] = s[m]
  <2> TAKE m \in left .. right
  <2>1. PICK k \in left .. right : u[k] = s[m]
    BY DEF Shuffled
  <2>2. k \in 1 .. n
    OBVIOUS
  <2>3. v[j] = u[i] /\ (i # j => v[i] = u[j]) /\ (k # i /\ k # j => v[k] = u[k])
    BY <1>1, <1>3, <2>2
  <2> QED BY <2>1, <2>3
<1>7. \A k, m \in 1 .. n : v[k] = v[m] => k = m
  <2>1. \A k, m \in 1 .. n : u[k] = u[m] => k = m
    BY DEF Shuffled
  <2> QED BY <1>1, <1>3, <2>1
<1>8. Shuffled(n, S, s, v, left, right)
  BY <1>2, <1>4, <1>5, <1>6, <1>7 DEF Shuffled
<1> QED BY <1>8

(***************************************************************************)
(* The partition of index_sort.                                            *)
(***************************************************************************)
(* What is left of l is not greater than the pivot, what is right of r is. *)
Parted(n, S, t, attr, s, left, right, u, l, r) ==
  /\ Shuffled(n, S, s, u, left, right) /\ u[left] = s[left]
  /\ l \in left .. right /\ r \in left .. right
  /\ \A i \in left .. right : i < l => Compare(t, attr, u[i], s[left]) <= 0
  /\ \A i \in left .. right : i > r => Compare(t, attr, u[i], s[left]) > 0
  /\ l >= r => Compare(t, attr, u[r], s[left]) <= 0

LEMMA RoundParts ==
  ASSUME NEW n \in Nat, NEW S, NEW t, NEW attr, Comparing(t, attr, S),
         NEW left \in 1 .. n, NEW right \in 1 .. n, left < right,
         NEW s, NEW u, NEW l, NEW r, Parted(n, S, t, attr, s, left, right, u, l, r), l < r,
         NEW l2, l2 = Greater(t, attr, u, left, right, l),
         NEW r2, r2 = NotGreater(t, attr, u, left, r),
         NEW w, w = IF l2 < r2 THEN Swapped(u, l2, r2) ELSE u
  PROVE  /\ Parted(n, S, t, attr, s, left, right, w, l2, r2)
         /\ l2 < r2 => Compare(t, attr, w[l2], s[left]) <= 0 /\ Compare(t, attr, w[r2], s[left]) > 0
         /\ l2 >= l /\ r2 <= r
         /\ Compare(t, attr, u[l], s[left]) <= 0 /\ Compare(t, attr, u[r], s[left]) > 0 => l2 > l /\ r2 < r
<1> DEFINE C(a) == Compare(t, attr, a, s[left])
           Ups == {i \in l .. right : i = right \/ Compare(t, attr, u[i], u[left]) > 0}
           Downs == {i \in left .. r : i = left \/ Compare(t, attr, u[i], u[left]) <= 0}
<1>1. /\ u \in [1 .. n -> S] /\ u[left] = s[left]
      /\ l \in left .. right /\ r \in left .. right /\ left \in Nat /\ right \in Nat
      /\ \A i \in left .. right : i \in 1 .. n
  <2>1. left \in Nat /\ right \in Nat /\ \A i \in left .. right : i \in 1 .. n
    OBVIOUS
  <2> QED BY <2>1 DEF Parted, Shuffled
<1>2. s[left] \in S /\ \A i \in left .. right : u[i] \in S /\ C(u[i]) \in Int
  BY <1>1 DEF Comparing
<1>3. C(u[left]) <= 0
  BY <1>1, <1>2 DEF Comparing
<1>4. /\ l2 \in l .. right /\ (l2 = right \/ C(u[l2]) > 0)
      /\ \A i \in l .. right : i < l2 => i # right /\ C(u[i]) <= 0
  <2>1. Ups \in SUBSET Nat /\ Ups # {}
    <3>1. right \in Ups
      BY <1>1
    <3> QED BY <1>1, <3>1
  <2>2. l2 = Min(Ups)
    BY DEF Greater
  <2> HIDE DEF Ups
  <2>3. l2 \in Ups /\ \A i \in Ups : l2 <= i
    BY <2>1, <2>2, LeastOf
  <2>4. \A i \in l .. right : i \in left .. right
    BY <1>1
  <2> HIDE DEF C
  <2>5. \A i \in l .. right : i < l2 => i \notin Ups
    BY <1>1, <2>1, <2>3
  <2> QED BY <1>1, <1>2, <2>3, <2>4, <2>5 DEF Ups, C
<1>5. /\ r2 \in left .. r /\ (r2 = left \/ C(u[r2]) <= 0)
      /\ \A i \in left .. r : i > r2 => i # left /\ C(u[i]) > 0
  <2>1. Downs \in SUBSET (0 .. r) /\ Downs # {} /\ r \in Nat
    <3>1. left \in Downs
      BY <1>1
    <3> QED BY <1>1, <3>1
  <2>2. r2 = Max(Downs)
    BY DEF NotGreater
  <2> HIDE DEF Downs
  <2>3. r2 \in Downs /\ \A i \in Downs : i <= r2
    BY <2>1, <2>2, GreatestOf
  <2>4. \A i \in left .. r : i \in left .. right
    BY <1>1
  <2> HIDE DEF C
  <2>5. \A i \in left .. r : i > r2 => i \notin Downs
    BY <1>1, <2>1, <2>3
  <2> QED BY <1>1, <1>2, <2>3, <2>4, <2>5 DEF Downs, C
<1> HIDE DEF C
<1>6. l2 # left /\ C(u[r2]) <= 0
  <2>1. left \in left .. right /\ C(u[left]) \in Int
    BY <1>1, <1>2
  <2>2. l2 = left => l2 # right /\ ~(C(u[left]) > 0)
    BY <1>1, <1>3, <2>1
  <2> QED BY <1>3, <1>4, <1>5, <2>2
<1>7. l2 >= l /\ r2 <= r /\ (C(u[l]) <= 0 /\ C(u[r]) > 0 => l2 > l /\ r2 < r)
  <2>1. l2 >= l /\ r2 <= r
    BY <1>1, <1>4, <1>5
  <2>2. C(u[l]) \in Int /\ C(u[r]) \in Int
    BY <1>1, <1>2
  <2>3. C(u[l]) <= 0 => l2 # l
    BY <1>1, <1>4, <2>2
  <2>4. C(u[r]) > 0 => r2 # r
    BY <1>1, <1>5, <2>2
  <2> QED BY <1>1, <1>4, <1>5, <2>1, <2>3, <2>4
<1>8. /\ \A i \in left .. right : i < l2 => C(u[i]) <= 0
      /\ \A i \in left .. right : i > r2 => C(u[i]) > 0
  <2>1. /\ \A i \in left .. right : i < l => C(u[i]) <= 0
        /\ \A i \in left .. right : i > r => C(u[i]) > 0
    BY DEF Parted, C
  <2> QED BY <1>1, <1>4, <1>5, <2>1
<1>9. CASE l2 < r2
  <2>1. w = Swapped(u, l2, r2) /\ l2 \in left .. right /\ r2 \in left .. right
    BY <1>1, <1>4, <1>5, <1>9
  <2>2. Shuffled(n, S, s, u, left, right)
    BY DEF Parted
  <2>3. /\ Shuffled(n, S, s, w, left, right)
        /\ w[r2] = u[l2] /\ (l2 # r2 => w[l2] = u[r2])
        /\ \A k \in 1 .. n : k \notin {l2, r2} => w[k] = u[k]
    <3>1. Shuffled(n, S, s, w, left, right)
      BY <2>1, <2>2, SwapShuffles, Zenon
    <3>2. r2 \in 1 .. n /\ l2 \in 1 .. n
      BY <1>1, <2>1
    <3> QED BY <1>1, <2>1, <3>1, <3>2 DEF Swapped
  <2>4. l2 # r2 /\ C(u[l2]) > 0 /\ left # r2
    BY <1>1, <1>4, <1>5, <1>9, <2>1
  <2>5. w[left] = s[left] /\ w[l2] = u[r2] /\ w[r2] = u[l2]
    BY <1>1, <1>6, <2>1, <2>3, <2>4
  <2>6. \A i \in left .. right : i < l2 => C(w[i]) <= 0
    BY <1>1, <1>8, <1>9, <2>1, <2>3
  <2>7. \A i \in left .. right : i > r2 => C(w[i]) > 0
    BY <1>1, <1>8, <1>9, <2>1, <2>3
  <2>8. Parted(n, S, t, attr, s, left, right, w, l2, r2)
    BY <1>1, <1>9, <2>1, <2>3, <2>5, <2>6, <2>7 DEF Parted, C
  <2> QED BY <1>6, <1>7, <2>4, <2>5, <2>8 DEF C
<1>10. CASE ~(l2 < r2)
  <2>1. w = u /\ l2 \in left .. right /\ r2 \in left .. right
    BY <1>1, <1>4, <1>5, <1>10
  <2>2. Parted(n, S, t, attr, s, left, right, w, l2, r2)
    BY <1>6, <1>8, <2>1 DEF Parted, C
  <2> QED BY <1>7, <1>10, <2>2 DEF C
<1> QED BY <1>9, <1>10

(* A step taken m times.                                                   *)
Repeats(F, m, V, b, step) ==
  F \in [0 .. m -> V] /\ F[0] = b /\ \A k \in 1 .. m : F[k] = step[F[k - 1]]
LEMMA Counted ==
  ASSUME NEW m, m \in Nat, NEW V, NEW b, b \in V, NEW step, step \in [V -> V]
  PROVE  \E F : Repeats(F, m, V, b, step)
<1> DEFINE D == 0 .. m
           Stop == {0}
           succ == [i \in D |-> i - 1]
           base == [i \in D |-> b]
           Step == [e \in D \X V |-> step[e[2]]]
<1>1. Ends(D, Stop, succ)
  BY CountsDown
<1>2. \A i \in D \ Stop : succ[i] \in D /\ succ[i] = i - 1
  OBVIOUS
<1>3. base \in [D -> V] /\ Step \in [D \X V -> V]
  OBVIOUS
<1>4. \A i \in D, v \in V : base[i] = b /\ Step[<<i, v>>] = step[v]
  OBVIOUS
<1> HIDE DEF succ, base, Step
<1>5. PICK F \in [D -> V] : Recursive(F, D, Stop, succ, base, Step)
  BY <1>1, <1>2, <1>3, Recursion
<1>6. F[0] = b
  <2>1. 0 \in D
    OBVIOUS
  <2> QED BY <1>4, <1>5, <2>1 DEF Recursive
<1>7. ASSUME NEW k \in 1 .. m PROVE F[k] = step[F[k - 1]]
  <2>1. k \in D /\ k \notin Stop /\ k - 1 \in D
    OBVIOUS
  <2>2. F[k] = Step[<<k, F[succ[k]]>>] /\ F[k - 1] \in V
    BY <1>5, <2>1 DEF Recursive
  <2> QED BY <1>2, <1>4, <2>1, <2>2
<1> QED BY <1>5, <1>6, <1>7 DEF Repeats

(* What holds of the first and of each step's outcome holds of the last.   *)
LEMMA CountedHolds ==
  ASSUME NEW m, m \in Nat, NEW Reached, 0 \in Reached, \A k \in 1 .. m : k - 1 \in Reached => k \in Reached
  PROVE  \A k \in 0 .. m : k \in Reached
<1> DEFINE Bad == {k \in 0 .. m : k \notin Reached}
<1> SUFFICES ASSUME Bad # {} PROVE FALSE
  OBVIOUS
<1>1. Bad \in SUBSET Nat
  OBVIOUS
<1>2. PICK k \in Bad : \A j \in Bad : k <= j
  <2> HIDE DEF Bad
  <2> QED BY <1>1, LeastElement
<1>3. k # 0 /\ k \in 1 .. m /\ k - 1 \in 0 .. m
  OBVIOUS
<1>4. k - 1 \in Reached
  BY <1>2, <1>3
<1> QED BY <1>3, <1>4

LEMMA PartitionFacts ==
  ASSUME NEW n \in Nat, NEW S, NEW t, NEW attr, Comparing(t, attr, S),
         NEW left \in 1 .. n, NEW right \in 1 .. n, left < right,
         NEW s, s \in [1 .. n -> S], \A i, j \in 1 .. n : s[i] = s[j] => i = j,
         NEW p, p = Partitioned(t, attr, s, left, right)
  PROVE  /\ p.tempr \in left .. right /\ Shuffled(n, S, s, p.s, left, right) /\ p.s[left] = s[left]
         /\ \A i \in left .. right : i <= p.tempr => Compare(t, attr, p.s[i], s[left]) <= 0
         /\ \A i \in left .. right : i > p.tempr => Compare(t, attr, p.s[i], s[left]) > 0
<1> DEFINE m == right - left + 1
           Ok(u, l, r) == Parted(n, S, t, attr, s, left, right, u, l, r)
           V == {q \in [s : [1 .. n -> S], templ : left .. right, tempr : left .. right] :
                   Ok(q.s, q.templ, q.tempr)}
           b == [s |-> s, templ |-> left, tempr |-> right]
           Step(q) == IF q.templ < q.tempr THEN Round(t, attr, left, right, q) ELSE q
           step == [q \in V |-> Step(q)]
           C(a) == Compare(t, attr, a, s[left])
           Open(q) == C(q.s[q.templ]) <= 0 /\ C(q.s[q.tempr]) > 0
<1>1. m \in Nat /\ m >= 2 /\ left \in left .. right /\ right \in left .. right
      /\ left \in Nat /\ right \in Nat
  OBVIOUS
<1>2. Ok(s, left, right)
  <2>1. Shuffled(n, S, s, s, left, right)
    BY DEF Shuffled
  <2>2. \A i \in left .. right : ~(i < left) /\ ~(i > right)
    OBVIOUS
  <2>3. ~(left >= right)
    BY <1>1
  <2> QED BY <1>1, <2>1, <2>2, <2>3 DEF Parted
<1>3. b \in V
  BY <1>1, <1>2
<1>4. ASSUME NEW q \in V, q.templ < q.tempr, NEW x, x = Round(t, attr, left, right, q)
      PROVE  /\ x \in V
             /\ x.templ < x.tempr => Open(x)
             /\ x.templ >= q.templ /\ x.tempr <= q.tempr
             /\ Open(q) => x.templ > q.templ /\ x.tempr < q.tempr
  <2> DEFINE u == q.s
             l == q.templ
             r == q.tempr
             l2 == Greater(t, attr, u, left, right, l)
             r2 == NotGreater(t, attr, u, left, r)
             w == IF l2 < r2 THEN Swapped(u, l2, r2) ELSE u
  <2>1. x = [s |-> w, templ |-> l2, tempr |-> r2]
    BY <1>4 DEF Round
  <2>2. Parted(n, S, t, attr, s, left, right, u, l, r) /\ l < r
    BY <1>4
  <2> HIDE DEF u, l, r
  <2>3. PICK a : a = l2
    OBVIOUS
  <2>4. PICK c : c = r2
    OBVIOUS
  <2>5. PICK y : y = w
    OBVIOUS
  <2>6. /\ Parted(n, S, t, attr, s, left, right, y, a, c)
        /\ a < c => C(y[a]) <= 0 /\ C(y[c]) > 0
        /\ a >= l /\ c <= r
        /\ C(u[l]) <= 0 /\ C(u[r]) > 0 => a > l /\ c < r
    <3>1. y = IF a < c THEN Swapped(u, a, c) ELSE u
      BY <2>3, <2>4, <2>5
    <3> QED BY <2>2, <2>3, <2>4, <3>1, RoundParts
  <2>7. x = [s |-> y, templ |-> a, tempr |-> c]
    BY <2>1, <2>3, <2>4, <2>5
  <2> HIDE DEF l2, r2, w
  <2>8. y \in [1 .. n -> S] /\ a \in left .. right /\ c \in left .. right
    BY <2>6 DEF Parted, Shuffled
  <2>9. x \in V
    BY <2>6, <2>7, <2>8
  <2> HIDE DEF C, V
  <2> QED BY <2>6, <2>7, <2>9 DEF u, l, r
<1> HIDE DEF Ok, b
<1>5. step \in [V -> V] /\ \A q \in V : step[q] = Step(q) /\ Step(q) \in V
  <2> HIDE DEF V
  <2> QED BY <1>4
<1>6. PICK F \in [0 .. m -> V] : F[0] = b /\ \A k \in 1 .. m : F[k] = step[F[k - 1]]
  <2> HIDE DEF m, V, step
  <2>1. m \in Nat /\ b \in V /\ step \in [V -> V]
    BY <1>1, <1>3, <1>5
  <2>2. PICK F : Repeats(F, m, V, b, step)
    BY <2>1, Counted
  <2> QED BY <2>2 DEF Repeats
<1> HIDE DEF step, m
<1>7. \A k \in 1 .. m : F[k - 1] \in V /\ F[k] \in V /\ F[k] = Step(F[k - 1])
  <2> HIDE DEF V, Step
  <2>1. \A k \in 1 .. m : k - 1 \in 0 .. m /\ k \in 0 .. m
    BY <1>1
  <2> QED BY <1>5, <1>6, <2>1
<1> DEFINE Near(k) == F[k].templ < F[k].tempr => Open(F[k]) /\ F[k].tempr - F[k].templ <= m - k
<1>8. ASSUME NEW k \in 1 .. m, k = 1 \/ Near(k - 1) PROVE Near(k)
  <2>1. PICK q : q = F[k - 1]
    OBVIOUS
  <2>2. PICK x : x = F[k]
    OBVIOUS
  <2>3. q \in V /\ x \in V /\ x = Step(q)
    BY <1>7, <2>1, <2>2
  <2>4. q.templ \in Int /\ q.tempr \in Int /\ x.templ \in Int /\ x.tempr \in Int
    BY <1>1, <2>3
  <2>5. ASSUME x.templ < x.tempr PROVE q.templ < q.tempr
    BY <2>3, <2>5
  <2>6. ASSUME x.templ < x.tempr
        PROVE  /\ Open(x) /\ x.templ >= q.templ /\ x.tempr <= q.tempr
               /\ Open(q) => x.templ > q.templ /\ x.tempr < q.tempr
    <3>1. x = Round(t, attr, left, right, q)
      BY <2>3, <2>5, <2>6
    <3> HIDE DEF V, Open
    <3> QED BY <1>4, <2>3, <2>5, <2>6, <3>1
  <2>7. k = 1 => q.templ = left /\ q.tempr = right
    BY <1>6, <2>1 DEF b
  <2>8. k # 1 => (q.templ < q.tempr => Open(q) /\ q.tempr - q.templ <= m - (k - 1))
    BY <1>8, <2>1
  <2> HIDE DEF Open, V, Step
  <2>9. ASSUME x.templ < x.tempr PROVE Open(x) /\ x.tempr - x.templ <= m - k
    <3>1. CASE k = 1
      BY <1>1, <2>4, <2>6, <2>7, <2>9, <3>1 DEF m
    <3>2. CASE k # 1
      <4>1. m \in Int
        BY <1>1
      <4>2. q.tempr - q.templ <= m - (k - 1) /\ Open(q)
        BY <2>5, <2>8, <2>9, <3>2
      <4>3. x.templ > q.templ /\ x.tempr < q.tempr /\ Open(x)
        BY <2>6, <2>9, <4>2
      <4> QED BY <2>4, <4>1, <4>2, <4>3
    <3> QED BY <3>1, <3>2
  <2> QED BY <2>2, <2>9
<1>9. Near(m)
  <2> DEFINE Reached == {k \in 0 .. m : k = 0 \/ Near(k)}
  <2> HIDE DEF Near
  <2>1. 0 \in Reached
    BY <1>1
  <2>2. ASSUME NEW k \in 1 .. m, k - 1 \in Reached PROVE k \in Reached
    <3>1. k = 1 \/ Near(k - 1)
      BY <2>2
    <3> QED BY <1>8, <3>1
  <2> HIDE DEF Reached
  <2>3. \A k \in 0 .. m : k \in Reached
    BY <1>1, <2>1, <2>2, CountedHolds
  <2>4. m \in Reached /\ m # 0
    BY <1>1, <2>3
  <2> QED BY <2>4 DEF Reached
<1>10. PICK q : q = F[m]
  OBVIOUS
<1>11. q \in V /\ ~(q.templ < q.tempr)
  <2>1. m \in 1 .. m
    BY <1>1
  <2>2. q \in V
    BY <1>7, <1>10, <2>1
  <2>3. q.templ \in Int /\ q.tempr \in Int
    BY <1>1, <2>2
  <2>4. q.templ < q.tempr => q.tempr - q.templ <= m - m
    BY <1>9, <1>10
  <2> HIDE DEF V
  <2> QED BY <1>1, <2>2, <2>3, <2>4
(* The loop of the specification is that function.                         *)
<1> DEFINE Body(g, k) == IF k = 0 THEN [s |-> s, templ |-> left, tempr |-> right]
                         ELSE LET p_ == g[k - 1]
                              IN IF p_.templ < p_.tempr THEN Round(t, attr, left, right, p_) ELSE p_
           after == CHOOSE g : g = [k \in 0 .. right - left + 1 |-> Body(g, k)]
<1>12. Partitioned(t, attr, s, left, right) = after[right - left + 1]
  BY DEF Partitioned
<1>13. \A g, k : Body(g, k) = IF k = 0 THEN b ELSE Step(g[k - 1])
  BY DEF b
<1> HIDE DEF Body, Step
<1>14. F = [k \in 0 .. m |-> Body(F, k)]
  <2>1. \A k \in 0 .. m : F[k] = Body(F, k)
    <3>1. F[0] = Body(F, 0)
      BY <1>6, <1>13
    <3>2. \A k \in 1 .. m : k # 0
      OBVIOUS
    <3>3. \A k \in 1 .. m : F[k] = Body(F, k)
      <4> HIDE DEF V
      <4> QED BY <1>7, <1>13, <3>2
    <3>4. \A k \in 0 .. m : k = 0 \/ k \in 1 .. m
      BY <1>1
    <3> QED BY <3>1, <3>3, <3>4
  <2> HIDE DEF V
  <2> QED BY <1>6, <2>1
<1>15. after = [k \in 0 .. m |-> Body(after, k)]
  BY <1>14 DEF m
<1> HIDE DEF after
<1>16. \A k \in 0 .. m : after[k] = IF k = 0 THEN b ELSE Step(after[k - 1])
  BY <1>13, <1>15
<1>17. after[m] = F[m]
  <2> DEFINE Reached == {k \in 0 .. m : after[k] = F[k]}
  <2>1. 0 \in Reached
    BY <1>1, <1>6, <1>16
  <2>2. ASSUME NEW k \in 1 .. m, k - 1 \in Reached PROVE k \in Reached
    <3> HIDE DEF V, Near
    <3>1. k \in 0 .. m /\ k # 0 /\ after[k - 1] = F[k - 1]
      BY <1>1, <2>2
    <3> QED BY <1>7, <1>16, <3>1
  <2> HIDE DEF Reached
  <2>3. \A k \in 0 .. m : k \in Reached
    BY <1>1, <2>1, <2>2, CountedHolds
  <2>4. m \in Reached
    BY <1>1, <2>3
  <2> QED BY <2>4 DEF Reached
<1>18. p = q
  BY <1>10, <1>12, <1>17 DEF m
<1>19. Parted(n, S, t, attr, s, left, right, p.s, p.templ, p.tempr) /\ ~(p.templ < p.tempr)
  BY <1>11, <1>18 DEF Ok
<1>20. p.templ \in left .. right /\ p.tempr \in left .. right
  BY <1>19 DEF Parted
<1>21. Shuffled(n, S, s, p.s, left, right) /\ p.s[left] = s[left]
  BY <1>19 DEF Parted
<1>22. p.templ >= p.tempr
  BY <1>1, <1>19, <1>20
<1>23. Compare(t, attr, p.s[p.tempr], s[left]) <= 0
  BY <1>19, <1>22 DEF Parted
<1>24. ASSUME NEW i \in left .. right, i <= p.tempr PROVE Compare(t, attr, p.s[i], s[left]) <= 0
  <2>1. i < p.templ \/ i = p.tempr
    BY <1>1, <1>20, <1>22, <1>24
  <2>2. i < p.templ => Compare(t, attr, p.s[i], s[left]) <= 0
    BY <1>19 DEF Parted
  <2> QED BY <1>23, <2>1, <2>2
<1>25. ASSUME NEW i \in left .. right, i > p.tempr PROVE Compare(t, attr, p.s[i], s[left]) > 0
  BY <1>19, <1>25 DEF Parted
<1> HIDE DEF m, V, b, step, Step, Ok, after, Body
<1> QED BY <1>20, <1>21, <1>24, <1>25

(* One step of index_sort: the pivot is where it stays.                    *)
LEMMA PivotFacts ==
  ASSUME NEW n \in Nat, NEW S, NEW t, NEW attr, Comparing(t, attr, S),
         NEW left \in 1 .. n, NEW right \in 1 .. n, left < right,
         NEW s, s \in [1 .. n -> S], \A i, j \in 1 .. n : s[i] = s[j] => i = j,
         NEW p, p = Partitioned(t, attr, s, left, right), NEW at, at = p.tempr,
         NEW u, u = PivotPlaced(t, attr, p.s, left, at)
  PROVE  /\ at \in left .. right /\ Shuffled(n, S, s, u, left, right)
         /\ \A i \in left .. right : i < at => Compare(t, attr, u[i], u[at]) <= 0
         /\ \A i \in left .. right : i > at => Compare(t, attr, u[at], u[i]) <= 0
<1> DEFINE C(a, b) == Compare(t, attr, a, b)
           q == p.s
           v == s[left]
<1>1. /\ at \in left .. right /\ Shuffled(n, S, s, q, left, right) /\ q[left] = v
      /\ \A i \in left .. right : i <= at => C(q[i], v) <= 0
      /\ \A i \in left .. right : i > at => C(q[i], v) > 0
  BY PartitionFacts
<1>2. u = IF C(v, q[at]) > 0 THEN Swapped(q, left, at) ELSE q
  BY <1>1 DEF PivotPlaced
<1>3. left \in left .. right /\ \A i \in left .. right : i \in 1 .. n
  OBVIOUS
<1>4. q \in [1 .. n -> S] /\ v \in S /\ \A i \in left .. right : q[i] \in S
  BY <1>1, <1>3 DEF Shuffled
<1> HIDE DEF q, v
<1>5. /\ \A a, b \in S : C(a, b) \in Int
      /\ \A a, b \in S : C(a, b) > 0 => C(b, a) <= 0
      /\ \A a, b, c \in S : C(a, b) <= 0 /\ C(b, c) <= 0 => C(a, c) <= 0
  BY DEF Comparing
<1> HIDE DEF C
<1>6. \A i \in left .. right : i > at => C(v, q[i]) <= 0
  BY <1>1, <1>4, <1>5
<1>7. CASE C(v, q[at]) > 0
  <2>1. u = Swapped(q, left, at)
    BY <1>2, <1>7
  <2>2. Shuffled(n, S, s, u, left, right)
    BY <1>1, <1>3, <2>1, SwapShuffles, Zenon
  <2>3. u[at] = v /\ \A i \in left .. right : i # at => u[i] = IF i = left THEN q[at] ELSE q[i]
    BY <1>1, <1>3, <1>4, <2>1 DEF Swapped
  <2>4. \A i \in left .. right : i < at => C(u[i], v) <= 0
    <3> TAKE i \in left .. right
    <3> HAVE i < at
    <3>1. i # at /\ i <= at /\ at <= at /\ at \in left .. right
      BY <1>1
    <3>2. u[i] = q[at] \/ u[i] = q[i]
      BY <2>3, <3>1
    <3> QED BY <1>1, <3>1, <3>2
  <2>5. \A i \in left .. right : i > at => C(v, u[i]) <= 0
    <3> TAKE i \in left .. right
    <3> HAVE i > at
    <3>1. i # at /\ i # left
      BY <1>1
    <3> QED BY <1>6, <2>3, <3>1
  <2> QED BY <1>1, <2>2, <2>3, <2>4, <2>5 DEF C
<1>8. CASE ~(C(v, q[at]) > 0)
  <2>1. u = q
    BY <1>2, <1>8
  <2>2. C(v, q[at]) <= 0 /\ C(q[at], v) <= 0 /\ q[at] \in S
    <3>1. q[at] \in S /\ at <= at
      BY <1>1, <1>4
    <3>2. C(q[at], v) <= 0
      BY <1>1, <3>1
    <3>3. C(v, q[at]) \in Int
      BY <1>4, <1>5, <3>1
    <3> QED BY <1>8, <3>1, <3>2, <3>3
  <2>3. ASSUME NEW i \in left .. right, i < at PROVE C(u[i], u[at]) <= 0
    <3>1. C(q[i], v) <= 0 /\ q[i] \in S
      BY <1>1, <1>4, <2>3
    <3> QED BY <1>4, <1>5, <2>1, <2>2, <3>1
  <2>4. ASSUME NEW i \in left .. right, i > at PROVE C(u[at], u[i]) <= 0
    <3>1. C(v, q[i]) <= 0 /\ q[i] \in S
      BY <1>4, <1>6, <2>4
    <3> QED BY <1>4, <1>5, <2>1, <2>2, <3>1
  <2> QED BY <1>1, <2>1, <2>3, <2>4 DEF C
<1> QED BY <1>7, <1>8

(***************************************************************************)
(* The sort: the parts still to be sorted do not touch, and two nodes out  *)
(* of order are in one of them.                                            *)
(***************************************************************************)
Parts(n, todo) ==
  /\ todo \in SUBSET ((1 .. n) \X (1 .. n))
  /\ \A p \in todo : p[1] < p[2]
  /\ \A p, q \in todo : p = q \/ p[2] < q[1] \/ q[2] < p[1]
Sorting(n, S, t, attr, s, u, todo) ==
  /\ Shuffled(n, S, s, u, 1, n)
  /\ Parts(n, todo)
  /\ \A i, j \in 1 .. n :
       i < j => Compare(t, attr, u[i], u[j]) <= 0 \/ \E p \in todo : p[1] <= i /\ j <= p[2]
Unsettled(n, todo) == {i \in 1 .. n : \E p \in todo : p[1] <= i /\ i <= p[2]}

LEMMA ShuffledTwice ==
  ASSUME NEW n \in Nat, NEW S, NEW s, NEW u, NEW w, NEW left \in 1 .. n, NEW right \in 1 .. n,
         Shuffled(n, S, s, u, 1, n), Shuffled(n, S, u, w, left, right)
  PROVE  Shuffled(n, S, s, w, 1, n)
<1>1. \A i \in left .. right : i \in 1 .. n
  OBVIOUS
<1>2. w \in [1 .. n -> S] /\ \A i, j \in 1 .. n : w[i] = w[j] => i = j
  BY DEF Shuffled
<1>3. \A i \in 1 .. n : \E k \in 1 .. n : w[i] = u[k]
  BY <1>1 DEF Shuffled
<1>4. \A k \in 1 .. n : \E i \in 1 .. n : w[i] = u[k]
  BY <1>1 DEF Shuffled
<1>5. /\ \A k \in 1 .. n : \E j \in 1 .. n : u[k] = s[j]
      /\ \A j \in 1 .. n : \E k \in 1 .. n : u[k] = s[j]
  BY DEF Shuffled
<1>6. \A i \in 1 .. n : \E j \in 1 .. n : w[i] = s[j]
  BY <1>3, <1>5
<1>7. \A j \in 1 .. n : \E i \in 1 .. n : w[i] = s[j]
  BY <1>4, <1>5
<1> QED BY <1>2, <1>6, <1>7 DEF Shuffled

LEMMA LeftmostPart ==
  ASSUME NEW n \in Nat, NEW todo, Parts(n, todo), todo # {}
  PROVE  Leftmost(todo) \in todo
<1> DEFINE starts == {p[1] : p \in todo}
<1>1. starts \in SUBSET Nat /\ starts # {}
  BY DEF Parts
<1>2. PICK i \in starts : \A k \in starts : i <= k
  <2> HIDE DEF starts
  <2> QED BY <1>1, LeastElement
<1>3. \E p \in todo : \A q \in todo : p[1] <= q[1]
  BY <1>2
<1> QED BY <1>3 DEF Leftmost

(* The parts a step leaves.                                                *)
LEMMA PartsLeft ==
  ASSUME NEW n \in Nat, NEW todo, Parts(n, todo), NEW left, NEW right, NEW at, NEW part,
         part = <<left, right>>, part \in todo, at \in left .. right,
         NEW rest, \A q : q \in rest <=> \/ q \in todo /\ q # part
                                         \/ q = <<left, at - 1>> /\ left < at - 1
                                         \/ q = <<at + 1, right>> /\ at + 1 < right
  PROVE  /\ Parts(n, rest)
         /\ Unsettled(n, rest) \subseteq Unsettled(n, todo) \ {at} /\ at \in Unsettled(n, todo)
<1>1. left \in 1 .. n /\ right \in 1 .. n /\ left < right /\ at \in 1 .. n
  BY DEF Parts
<1>2. \A p \in todo : p \in (1 .. n) \X (1 .. n) /\ p[1] \in 1 .. n /\ p[2] \in 1 .. n /\ p[1] < p[2]
  BY DEF Parts
<1>3. \A q \in todo : q # part => q[2] < left \/ right < q[1]
  BY DEF Parts
<1>4. \A q \in rest : \/ q \in todo /\ q # part
                      \/ q[1] = left /\ q[2] = at - 1 /\ q = <<left, at - 1>> /\ left < at - 1
                      \/ q[1] = at + 1 /\ q[2] = right /\ q = <<at + 1, right>> /\ at + 1 < right
  OBVIOUS
<1>5. \A q \in rest : q \in (1 .. n) \X (1 .. n) /\ q[1] \in 1 .. n /\ q[2] \in 1 .. n /\ q[1] < q[2]
  <2>1. left < at - 1 => at - 1 \in 1 .. n
    BY <1>1
  <2>2. at + 1 < right => at + 1 \in 1 .. n
    BY <1>1
  <2> QED BY <1>1, <1>2, <1>4, <2>1, <2>2
<1>6. ASSUME NEW p \in rest, NEW q \in rest, p # q PROVE p[2] < q[1] \/ q[2] < p[1]
  <2>1. CASE p \in todo /\ p # part
    <3>1. CASE q \in todo /\ q # part
      BY <1>6, <2>1, <3>1 DEF Parts
    <3>2. CASE ~(q \in todo /\ q # part)
      <4>1. q[1] >= left /\ q[2] <= right
        BY <1>1, <1>4, <3>2
      <4> QED BY <1>1, <1>2, <1>3, <1>5, <2>1, <4>1
    <3> QED BY <3>1, <3>2
  <2>2. CASE ~(p \in todo /\ p # part)
    <3>1. p[1] >= left /\ p[2] <= right
      BY <1>1, <1>4, <2>2
    <3>2. CASE q \in todo /\ q # part
      BY <1>1, <1>2, <1>3, <1>5, <3>1, <3>2
    <3>3. CASE ~(q \in todo /\ q # part)
      BY <1>1, <1>4, <1>6, <2>2, <3>3
    <3> QED BY <3>2, <3>3
  <2> QED BY <2>1, <2>2
<1>7. Parts(n, rest)
  BY <1>5, <1>6 DEF Parts
<1>8. at \in Unsettled(n, todo)
  BY <1>1 DEF Unsettled
<1>9. ASSUME NEW i \in 1 .. n, NEW q \in rest, q[1] <= i, i <= q[2]
      PROVE  i # at /\ \E p \in todo : p[1] <= i /\ i <= p[2]
  <2>1. CASE q \in todo /\ q # part
    BY <1>1, <1>2, <1>3, <1>9, <2>1
  <2>2. CASE ~(q \in todo /\ q # part)
    <3>1. i # at /\ left <= i /\ i <= right
      BY <1>1, <1>4, <1>9, <2>2
    <3> QED BY <3>1
  <2> QED BY <2>1, <2>2
<1> QED BY <1>7, <1>8, <1>9 DEF Unsettled

LEMMA SortStepKeeps ==
  ASSUME NEW n \in Nat, NEW S, NEW t, NEW attr, Comparing(t, attr, S), NEW s, NEW w,
         Sorting(n, S, t, attr, s, w.s, w.todo), w.todo # {},
         NEW x, x = SortStep(t, attr, w)
  PROVE  /\ Sorting(n, S, t, attr, s, x.s, x.todo)
         /\ \E at \in Unsettled(n, w.todo) : Unsettled(n, x.todo) \subseteq Unsettled(n, w.todo) \ {at}
         /\ x = [s |-> x.s, todo |-> x.todo]
<1> DEFINE part == Leftmost(w.todo)
           p == Partitioned(t, attr, w.s, part[1], part[2])
<1>1. part \in w.todo
  BY LeftmostPart DEF Sorting
<1>2. PICK left, right : left = part[1] /\ right = part[2]
  OBVIOUS
<1>3. PICK at : at = p.tempr
  OBVIOUS
<1>4. PICK u : u = PivotPlaced(t, attr, p.s, left, at)
  OBVIOUS
<1>5. PICK rest : rest = (w.todo \ {part}) \cup {q \in {<<left, at - 1>>, <<at + 1, right>>} : q[1] < q[2]}
  OBVIOUS
<1>6. x = [s |-> u, todo |-> rest]
  BY <1>2, <1>3, <1>4, <1>5 DEF SortStep
<1>7. left \in 1 .. n /\ right \in 1 .. n /\ left < right /\ part = <<left, right>>
  BY <1>1, <1>2 DEF Sorting, Parts
<1>8. w.s \in [1 .. n -> S] /\ (\A i, j \in 1 .. n : w.s[i] = w.s[j] => i = j)
  BY DEF Sorting, Shuffled
<1>9. p = Partitioned(t, attr, w.s, left, right)
  BY <1>2
<1> HIDE DEF p, part
<1>10. /\ at \in left .. right /\ Shuffled(n, S, w.s, u, left, right)
       /\ \A i \in left .. right : i < at => Compare(t, attr, u[i], u[at]) <= 0
       /\ \A i \in left .. right : i > at => Compare(t, attr, u[at], u[i]) <= 0
  BY <1>3, <1>4, <1>7, <1>8, <1>9, PivotFacts
<1>11. /\ Parts(n, rest)
       /\ Unsettled(n, rest) \subseteq Unsettled(n, w.todo) \ {at} /\ at \in Unsettled(n, w.todo)
  <2>1. \A q : q \in rest <=> \/ q \in w.todo /\ q # part
                              \/ q = <<left, at - 1>> /\ left < at - 1
                              \/ q = <<at + 1, right>> /\ at + 1 < right
    BY <1>5
  <2>2. Parts(n, w.todo)
    BY DEF Sorting
  <2> QED BY <1>1, <1>7, <1>10, <2>1, <2>2, PartsLeft
<1>12. Shuffled(n, S, s, u, 1, n)
  BY <1>7, <1>10, ShuffledTwice DEF Sorting
<1> DEFINE C(a, b) == Compare(t, attr, a, b)
           Fine(i, j) == C(u[i], u[j]) <= 0 \/ \E q \in rest : q[1] <= i /\ j <= q[2]
<1>13. \A i \in left .. right : i \in 1 .. n
  BY <1>7
<1>14. ASSUME NEW i \in 1 .. n, NEW j \in 1 .. n, i < j PROVE Fine(i, j)
  <2>1. /\ \A k, m \in 1 .. n :
             k < m => C(w.s[k], w.s[m]) <= 0 \/ \E q \in w.todo : q[1] <= k /\ m <= q[2]
        /\ \A q \in w.todo : q # part => q[2] < left \/ right < q[1]
        /\ \A q \in w.todo : q[1] \in 1 .. n /\ q[2] \in 1 .. n
    <3>1. Parts(n, w.todo) /\ part \in w.todo /\ part[1] = left /\ part[2] = right
      BY <1>1, <1>2 DEF Sorting
    <3>2. \A q \in w.todo : q # part => q[2] < left \/ right < q[1]
      BY <1>7, <3>1 DEF Parts
    <3>3. \A q \in w.todo : q[1] \in 1 .. n /\ q[2] \in 1 .. n
      BY <3>1 DEF Parts
    <3> QED BY <3>2, <3>3 DEF Sorting
  <2>2. \A q \in w.todo : q # part => q \in rest
    BY <1>5
  <2>3. ASSUME NEW k \in 1 .. n, NEW m \in 1 .. n, k < m, w.s[k] = u[i], w.s[m] = u[j],
               ~(k \in left .. right /\ m \in left .. right),
               k = i \/ (k \in left .. right /\ i \in left .. right),
               m = j \/ (m \in left .. right /\ j \in left .. right)
        PROVE  Fine(i, j)
    <3>1. CASE C(w.s[k], w.s[m]) <= 0
      BY <2>3, <3>1
    <3>2. CASE \E q \in w.todo : q[1] <= k /\ m <= q[2]
      <4>1. PICK q \in w.todo : q[1] <= k /\ m <= q[2]
        BY <3>2
      <4>2. q # part
        BY <1>2, <1>7, <2>3, <4>1
      <4>3. k \notin left .. right /\ m \notin left .. right
        BY <1>7, <2>1, <2>3, <4>1, <4>2
      <4>4. k = i /\ m = j
        BY <2>3, <4>3
      <4> QED BY <2>2, <4>1, <4>2, <4>4
    <3> QED BY <2>1, <2>3, <3>1, <3>2
  <2> HIDE DEF C, Fine
  <2>4. CASE i \in left .. right /\ j \in left .. right
    <3>1. CASE j < at
      <4>1. <<left, at - 1>> \in rest
        BY <1>5, <1>7, <1>10, <2>4, <3>1, <1>14
      <4>2. left <= i /\ j <= at - 1
        BY <1>7, <1>10, <2>4, <3>1
      <4> QED BY <4>1, <4>2 DEF Fine
    <3>2. CASE i > at
      <4>1. <<at + 1, right>> \in rest
        BY <1>5, <1>7, <1>10, <2>4, <3>2, <1>14
      <4>2. at + 1 <= i /\ j <= right
        BY <1>7, <1>10, <2>4, <3>2
      <4> QED BY <4>1, <4>2 DEF Fine
    <3>3. CASE i <= at /\ at <= j
      <4>1. i = at => C(u[i], u[j]) <= 0
        BY <1>7, <1>10, <1>14, <2>4 DEF C
      <4>2. j = at => C(u[i], u[j]) <= 0
        BY <1>7, <1>10, <1>14, <2>4 DEF C
      <4>3. i < at /\ at < j => C(u[i], u[j]) <= 0
        <5>1. i < at /\ at < j => C(u[i], u[at]) <= 0 /\ C(u[at], u[j]) <= 0
          BY <1>7, <1>10, <2>4 DEF C
        <5>2. u[i] \in S /\ u[at] \in S /\ u[j] \in S
          BY <1>10, <1>13 DEF Shuffled
        <5> QED BY <5>1, <5>2 DEF Comparing, C
      <4>4. C(u[i], u[j]) <= 0
        BY <1>7, <1>10, <3>3, <4>1, <4>2, <4>3
      <4> QED BY <4>4 DEF Fine
    <3> QED BY <1>7, <1>10, <3>1, <3>2, <3>3
  <2>5. CASE i \in left .. right /\ j \notin left .. right
    <3>1. PICK k \in left .. right : u[i] = w.s[k]
      BY <1>10, <2>5 DEF Shuffled
    <3>2. u[j] = w.s[j]
      BY <1>10, <2>5 DEF Shuffled
    <3>3. k < j /\ k \in 1 .. n
      BY <1>7, <1>13, <1>14, <2>5
    <3> QED BY <2>3, <2>5, <3>1, <3>2, <3>3
  <2>6. CASE i \notin left .. right /\ j \in left .. right
    <3>1. PICK m \in left .. right : u[j] = w.s[m]
      BY <1>10, <2>6 DEF Shuffled
    <3>2. u[i] = w.s[i]
      BY <1>10, <2>6 DEF Shuffled
    <3>3. i < m /\ m \in 1 .. n
      BY <1>7, <1>13, <1>14, <2>6
    <3> QED BY <2>3, <2>6, <3>1, <3>2, <3>3
  <2>7. CASE i \notin left .. right /\ j \notin left .. right
    <3>1. u[i] = w.s[i] /\ u[j] = w.s[j]
      BY <1>10, <2>7 DEF Shuffled
    <3> QED BY <1>14, <2>3, <2>7, <3>1
  <2> QED BY <2>4, <2>5, <2>6, <2>7
<1>15. Sorting(n, S, t, attr, s, u, rest)
  BY <1>11, <1>12, <1>14 DEF Sorting
<1>16. x.s = u /\ x.todo = rest /\ x = [s |-> x.s, todo |-> x.todo]
  BY <1>6
<1> QED BY <1>11, <1>15, <1>16

LEMMA UnsettledCount ==
  ASSUME NEW n \in Nat, NEW todo
  PROVE  /\ IsFiniteSet(Unsettled(n, todo)) /\ Cardinality(Unsettled(n, todo)) \in Nat
         /\ Cardinality(Unsettled(n, todo)) <= n
<1>1. IsFiniteSet(1 .. n) /\ Cardinality(1 .. n) = n
  BY FS_Interval
<1>2. Unsettled(n, todo) \subseteq 1 .. n
  BY DEF Unsettled
<1> QED BY <1>1, <1>2, FS_Subset, FS_CardinalityType

LEMMA OneLess ==
  ASSUME NEW A, IsFiniteSet(A), NEW at \in A, NEW B, B \subseteq A \ {at}
  PROVE  Cardinality(B) <= Cardinality(A) - 1
<1> DEFINE R == A \ {at}
<1>1. IsFiniteSet(R) /\ Cardinality(R) = Cardinality(A) - 1
  BY FS_RemoveElement
<1> HIDE DEF R
<1>2. B \subseteq R
  BY DEF R
<1> QED BY <1>1, <1>2, FS_Subset

LEMMA SortedFacts ==
  ASSUME NEW S, NEW t, NEW attr, Comparing(t, attr, S), NEW s \in Seq(S),
         \A i, j \in 1 .. Len(s) : s[i] = s[j] => i = j, Len(s) > 1,
         NEW u, u = Sorted(t, attr, s)
  PROVE  /\ Shuffled(Len(s), S, s, u, 1, Len(s))
         /\ \A i, j \in 1 .. Len(s) : i < j => Compare(t, attr, u[i], u[j]) <= 0
<1>1. PICK n \in Nat : n = Len(s)
  OBVIOUS
<1> DEFINE Ok(a, todo) == Sorting(n, S, t, attr, s, a, todo)
           Todos == SUBSET ((1 .. n) \X (1 .. n))
           V == {w \in [s : [1 .. n -> S], todo : Todos] : Ok(w.s, w.todo)}
           b == [s |-> s, todo |-> {<<1, n>>}]
           Step(w) == IF w.todo = {} THEN w ELSE SortStep(t, attr, w)
           step == [w \in V |-> Step(w)]
           Size(w) == Cardinality(Unsettled(n, w.todo))
<1>2. s \in [1 .. n -> S] /\ (\A i, j \in 1 .. n : s[i] = s[j] => i = j) /\ n > 1
  BY <1>1
<1>3. Ok(s, {<<1, n>>})
  <2>1. Shuffled(n, S, s, s, 1, n)
    BY <1>2 DEF Shuffled
  <2>2. Parts(n, {<<1, n>>})
    BY <1>2 DEF Parts
  <2> QED BY <2>1, <2>2 DEF Sorting
<1>4. b \in V
  <2>1. 1 \in 1 .. n /\ n \in 1 .. n
    BY <1>2
  <2>2. {<<1, n>>} \in Todos
    BY <2>1
  <2>3. b \in [s : [1 .. n -> S], todo : Todos]
    BY <1>2, <2>2
  <2> HIDE DEF Ok
  <2> QED BY <1>3, <2>3
<1>5. ASSUME NEW w \in V
      PROVE  Step(w) \in V /\ (w.todo = {} \/ Size(Step(w)) <= Size(w) - 1)
  <2>1. CASE w.todo = {}
    BY <2>1
  <2>2. CASE w.todo # {}
    <3>1. PICK x : x = SortStep(t, attr, w)
      OBVIOUS
    <3>2. Sorting(n, S, t, attr, s, w.s, w.todo)
      OBVIOUS
    <3> HIDE DEF V, Ok
    <3>3. /\ Sorting(n, S, t, attr, s, x.s, x.todo)
          /\ \E at \in Unsettled(n, w.todo) : Unsettled(n, x.todo) \subseteq Unsettled(n, w.todo) \ {at}
          /\ x = [s |-> x.s, todo |-> x.todo]
      BY <2>2, <3>1, <3>2, SortStepKeeps
    <3>4. x.s \in [1 .. n -> S] /\ x.todo \in Todos
      BY <3>3 DEF Sorting, Shuffled, Parts
    <3>5. x \in V
      BY <3>3, <3>4 DEF V, Ok
    <3>6. Size(x) <= Size(w) - 1
      BY <3>3, UnsettledCount, OneLess
    <3> QED BY <2>2, <3>1, <3>5, <3>6
  <2> QED BY <2>1, <2>2
<1> HIDE DEF Ok, b, Step
<1>6. step \in [V -> V] /\ \A w \in V : step[w] = Step(w)
  <2> HIDE DEF V
  <2> QED BY <1>5
<1>7. PICK F : Repeats(F, n, V, b, step)
  <2> HIDE DEF V, step
  <2> QED BY <1>4, <1>6, Counted
<1>8. F \in [0 .. n -> V] /\ F[0] = b /\ \A k \in 1 .. n : F[k - 1] \in V /\ F[k] \in V /\ F[k] = Step(F[k - 1])
  <2> HIDE DEF V, step
  <2>1. \A k \in 1 .. n : k - 1 \in 0 .. n /\ k \in 0 .. n
    OBVIOUS
  <2> QED BY <1>6, <1>7, <2>1 DEF Repeats
<1> HIDE DEF step
<1>9. \A w \in V : Size(w) \in Nat /\ Size(w) <= n
  BY UnsettledCount
<1> DEFINE Near(k) == F[k].todo = {} \/ Size(F[k]) <= n - k
<1>10. F[n].todo = {}
  <2> HIDE DEF Size, V
  <2> DEFINE Reached == {k \in 0 .. n : Near(k)}
  <2>1. 0 \in Reached
    <3>1. 0 \in 0 .. n
      OBVIOUS
    <3> QED BY <1>4, <1>8, <1>9, <3>1
  <2>2. ASSUME NEW k \in 1 .. n, k - 1 \in Reached PROVE k \in Reached
    <3>1. PICK w : w = F[k - 1]
      OBVIOUS
    <3>2. PICK x : x = F[k]
      OBVIOUS
    <3>3. w \in V /\ x \in V /\ x = Step(w) /\ (w.todo = {} \/ Size(w) <= n - (k - 1))
      BY <1>8, <2>2, <3>1, <3>2
    <3>4. w.todo = {} => x = w
      BY <3>3 DEF Step
    <3>5. w.todo # {} => Size(x) <= n - k
      BY <1>5, <1>9, <3>3
    <3>6. x.todo = {} \/ Size(x) <= n - k
      BY <3>4, <3>5
    <3> QED BY <3>2, <3>6
  <2> HIDE DEF Reached
  <2>3. \A k \in 0 .. n : k \in Reached
    BY <2>1, <2>2, CountedHolds
  <2>4. n \in Reached /\ n \in 1 .. n
    BY <1>2, <2>3
  <2>5. F[n].todo = {} \/ Size(F[n]) <= 0
    BY <2>4 DEF Reached
  <2>6. ASSUME Size(F[n]) <= 0 PROVE F[n].todo = {}
    <3>1. F[n] \in V
      BY <1>8, <2>4
    <3>2. Size(F[n]) = 0
      BY <1>9, <2>6, <3>1
    <3>3. Unsettled(n, F[n].todo) = {}
      BY <3>2, UnsettledCount, FS_EmptySet DEF Size
    <3>4. Parts(n, F[n].todo)
      BY <3>1 DEF V, Ok, Sorting
    <3> QED BY <3>3, <3>4 DEF Unsettled, Parts
  <2> QED BY <2>5, <2>6
(* The loop of the specification is that function.                         *)
<1> DEFINE Body(g, k) == IF k = 0 THEN [s |-> s, todo |-> {<<1, Len(s)>>}]
                         ELSE LET w_ == g[k - 1]
                              IN IF w_.todo = {} THEN w_ ELSE SortStep(t, attr, w_)
           after == CHOOSE g : g = [k \in 0 .. Len(s) |-> Body(g, k)]
<1>11. Sorted(t, attr, s) = after[Len(s)].s
  BY DEF Sorted
<1>12. \A g, k : Body(g, k) = IF k = 0 THEN b ELSE Step(g[k - 1])
  BY <1>1 DEF b, Step
<1> HIDE DEF Body
<1>13. F = [k \in 0 .. n |-> Body(F, k)]
  <2>1. \A k \in 0 .. n : F[k] = Body(F, k)
    <3>1. F[0] = Body(F, 0)
      BY <1>8, <1>12
    <3>2. \A k \in 1 .. n : k # 0
      OBVIOUS
    <3>3. \A k \in 1 .. n : F[k] = Body(F, k)
      <4> HIDE DEF V
      <4> QED BY <1>8, <1>12, <3>2
    <3>4. \A k \in 0 .. n : k = 0 \/ k \in 1 .. n
      OBVIOUS
    <3> QED BY <3>1, <3>3, <3>4
  <2> HIDE DEF V
  <2> QED BY <1>8, <2>1
<1>14. after = [k \in 0 .. n |-> Body(after, k)]
  BY <1>1, <1>13
<1> HIDE DEF after
<1>15. \A k \in 0 .. n : after[k] = IF k = 0 THEN b ELSE Step(after[k - 1])
  BY <1>12, <1>14
<1>16. after[n] = F[n]
  <2> DEFINE Reached == {k \in 0 .. n : after[k] = F[k]}
  <2>1. 0 \in Reached
    BY <1>8, <1>15
  <2>2. ASSUME NEW k \in 1 .. n, k - 1 \in Reached PROVE k \in Reached
    BY <1>8, <1>15, <2>2
  <2> HIDE DEF Reached
  <2>3. \A k \in 0 .. n : k \in Reached
    BY <2>1, <2>2, CountedHolds
  <2> QED BY <2>3 DEF Reached
<1>17. F[n] \in V /\ u = F[n].s
  BY <1>1, <1>2, <1>8, <1>11, <1>16
<1>18. Sorting(n, S, t, attr, s, u, {})
  BY <1>10, <1>17 DEF Ok
<1> QED BY <1>1, <1>18 DEF Sorting

(***************************************************************************)
(* The binary search of mxmlIndexFind, over what the comparison with each  *)
(* node says: above 0, then 0, then below 0.                               *)
(***************************************************************************)
Falling(n, d) ==
  /\ d \in [0 .. n - 1 -> Int]
  /\ \A i, j \in 0 .. n - 1 : i < j => (d[i] < 0 => d[j] < 0) /\ (d[j] > 0 => d[i] > 0)
Says(n, d, t, ind, element, value) ==
  /\ Len(ind.nodes) = n
  /\ \A i \in 0 .. n - 1 : CompareWith(t, ind, element, value, NodeNo(ind, i)) = d[i]

(* Either a hit, or what holds every hit.                                  *)
Brackets(n, d, first, last) ==
  /\ first \in 0 .. n - 1 /\ last \in 0 .. n - 1 /\ first <= last
  /\ \/ first = last /\ d[first] = 0
     \/ \A i \in 0 .. n - 1 : d[i] = 0 => first <= i /\ i <= last

LEMMA CandidatesFacts ==
  ASSUME NEW n, n \in Nat, n > 0, NEW d, Falling(n, d), NEW t, NEW ind, NEW element, NEW value,
         Says(n, d, t, ind, element, value),
         NEW c, c = Candidates(t, ind, element, value)
  PROVE  Brackets(n, d, c.first, c.last) /\ c.last - c.first <= 1
<1> DEFINE V == {e \in [first : 0 .. n - 1, last : 0 .. n - 1] : Brackets(n, d, e.first, e.last)}
           b == [first |-> 0, last |-> n - 1]
           At(e) == (e.first + e.last) \div 2
           Step(e) == IF e.last - e.first <= 1 THEN e
                      ELSE IF d[At(e)] = 0 THEN [first |-> At(e), last |-> At(e)]
                      ELSE IF d[At(e)] < 0 THEN [e EXCEPT !.last = At(e)]
                      ELSE [e EXCEPT !.first = At(e)]
           step == [e \in V |-> Step(e)]
           Size(e) == e.last - e.first
<1>1. b \in V
  <2>1. b \in [first : 0 .. n - 1, last : 0 .. n - 1]
    OBVIOUS
  <2>2. Brackets(n, d, 0, n - 1)
    BY DEF Brackets
  <2> QED BY <2>1, <2>2
<1>2. ASSUME NEW e \in V
      PROVE  /\ Step(e) \in V
             /\ e.last - e.first <= 1 \/ Size(Step(e)) <= Size(e) - 1
             /\ e.last - e.first > 1 => At(e) \in 0 .. n - 1
  <2>1. CASE e.last - e.first <= 1
    BY <2>1
  <2>2. CASE ~(e.last - e.first <= 1)
    <3>1. PICK f, l : f = e.first /\ l = e.last
      OBVIOUS
    <3>2. /\ f \in 0 .. n - 1 /\ l \in 0 .. n - 1 /\ ~(l - f <= 1)
          /\ \A i \in 0 .. n - 1 : d[i] = 0 => f <= i /\ i <= l
          /\ e = [first |-> f, last |-> l]
      <4>1. e = [first |-> e.first, last |-> e.last]
        OBVIOUS
      <4>2. Brackets(n, d, f, l)
        BY <3>1
      <4>3. f # l
        BY <2>2, <3>1, <4>2 DEF Brackets
      <4> QED BY <2>2, <3>1, <4>1, <4>2, <4>3 DEF Brackets
    <3>3. PICK m \in Int : m = (f + l) \div 2
      BY <3>2
    <3>4. f < m /\ m < l
      BY <3>2, <3>3, Z3
    <3>5. m \in 0 .. n - 1
      BY <3>2, <3>4
    <3>6. At(e) = m
      BY <3>1, <3>3
    <3>7. d[m] \in Int /\ /\ \A i \in 0 .. n - 1 : m < i /\ d[m] < 0 => d[i] < 0
                          /\ \A i \in 0 .. n - 1 : i < m /\ d[m] > 0 => d[i] > 0
      BY <3>5 DEF Falling
    <3>8. \A i \in 0 .. n - 1 : d[i] \in Int
      BY DEF Falling
    <3>9. CASE d[m] = 0
      <4>1. Step(e) = [first |-> m, last |-> m]
        BY <2>2, <3>6, <3>9
      <4>2. Brackets(n, d, m, m)
        BY <3>5, <3>9 DEF Brackets
      <4> HIDE DEF Step, At
      <4> QED BY <3>1, <3>2, <3>4, <3>5, <3>6, <4>1, <4>2
    <3>10. CASE d[m] < 0
      <4>1. Step(e) = [first |-> f, last |-> m]
        BY <2>2, <3>2, <3>6, <3>10
      <4>2. \A i \in 0 .. n - 1 : d[i] = 0 => f <= i /\ i <= m
        BY <3>2, <3>5, <3>7, <3>8, <3>10
      <4>3. Brackets(n, d, f, m)
        BY <3>2, <3>4, <3>5, <4>2 DEF Brackets
      <4> HIDE DEF Step, At
      <4> QED BY <3>1, <3>2, <3>4, <3>5, <3>6, <4>1, <4>3
    <3>11. CASE d[m] > 0
      <4>1. Step(e) = [first |-> m, last |-> l]
        <5>1. d[m] # 0 /\ ~(d[m] < 0)
          BY <3>7, <3>11
        <5> QED BY <2>2, <3>2, <3>6, <5>1
      <4>2. \A i \in 0 .. n - 1 : d[i] = 0 => m <= i /\ i <= l
        BY <3>2, <3>5, <3>7, <3>8, <3>11
      <4>3. Brackets(n, d, m, l)
        BY <3>2, <3>4, <3>5, <4>2 DEF Brackets
      <4> HIDE DEF Step, At
      <4> QED BY <3>1, <3>2, <3>4, <3>5, <3>6, <4>1, <4>3
    <3> QED BY <3>7, <3>9, <3>10, <3>11
  <2> QED BY <2>1, <2>2
<1> HIDE DEF b, Step
<1>3. step \in [V -> V] /\ \A e \in V : step[e] = Step(e)
  <2> HIDE DEF V
  <2> QED BY <1>2
<1>4. PICK F : Repeats(F, n, V, b, step)
  <2> HIDE DEF V, step
  <2> QED BY <1>1, <1>3, Counted
<1>5. F \in [0 .. n -> V] /\ F[0] = b /\ \A k \in 1 .. n : F[k - 1] \in V /\ F[k] \in V /\ F[k] = Step(F[k - 1])
  <2> HIDE DEF V, step
  <2>1. \A k \in 1 .. n : k - 1 \in 0 .. n /\ k \in 0 .. n
    OBVIOUS
  <2> QED BY <1>3, <1>4, <2>1 DEF Repeats
<1> HIDE DEF step
<1>6. \A e \in V : Size(e) \in Int
  OBVIOUS
<1> DEFINE Near(k) == Size(F[k]) <= 1 \/ Size(F[k]) <= n - k
<1>7. F[n] \in V /\ Size(F[n]) <= 1
  <2>1. Size(b) <= n
    BY DEF b
  <2> HIDE DEF Size, V
  <2> DEFINE Reached == {k \in 0 .. n : Near(k)}
  <2>2. 0 \in Reached
    <3>1. 0 \in 0 .. n
      OBVIOUS
    <3> QED BY <1>5, <2>1, <3>1
  <2>3. ASSUME NEW k \in 1 .. n, k - 1 \in Reached PROVE k \in Reached
    <3>1. PICK w : w = F[k - 1]
      OBVIOUS
    <3>2. PICK x : x = F[k]
      OBVIOUS
    <3>3. w \in V /\ x \in V /\ x = Step(w) /\ (Size(w) <= 1 \/ Size(w) <= n - (k - 1))
      BY <1>5, <2>3, <3>1, <3>2
    <3>4. Size(w) <= 1 => x = w
      BY <3>3 DEF Step, Size
    <3>5. Size(w) \in Int /\ Size(x) \in Int /\ (Size(w) <= 1 \/ Size(x) <= Size(w) - 1)
      BY <1>2, <1>6, <3>3 DEF Size
    <3>6. Size(x) <= 1 \/ Size(x) <= n - k
      BY <3>3, <3>4, <3>5
    <3> QED BY <3>2, <3>6
  <2> HIDE DEF Reached
  <2>4. \A k \in 0 .. n : k \in Reached
    BY <2>2, <2>3, CountedHolds
  <2>5. n \in Reached /\ n \in 1 .. n
    BY <2>4
  <2>6. F[n] \in V /\ Size(F[n]) \in Int
    BY <1>5, <1>6, <2>5
  <2>7. Size(F[n]) <= 1 \/ Size(F[n]) <= 0
    BY <2>5 DEF Reached
  <2> QED BY <2>6, <2>7
(* The loop of the specification is that function.                         *)
<1> DEFINE Body(g, k) == IF k = 0 THEN [first |-> 0, last |-> Len(ind.nodes) - 1]
                         ELSE LET c_ == g[k - 1]
                                  current == (c_.first + c_.last) \div 2
                                  diff == CompareWith(t, ind, element, value, NodeNo(ind, current))
                              IN IF c_.last - c_.first <= 1 THEN c_
                                 ELSE IF diff = 0 THEN [first |-> current, last |-> current]
                                 ELSE IF diff < 0 THEN [c_ EXCEPT !.last = current]
                                 ELSE [c_ EXCEPT !.first = current]
           after == CHOOSE g : g = [k \in 0 .. Len(ind.nodes) |-> Body(g, k)]
<1>8. Candidates(t, ind, element, value) = after[Len(ind.nodes)]
  BY DEF Candidates
<1>9. /\ Len(ind.nodes) = n
      /\ \A i \in 0 .. n - 1 : CompareWith(t, ind, element, value, NodeNo(ind, i)) = d[i]
  BY DEF Says
<1>10. \A g : Body(g, 0) = b
  BY <1>9 DEF b
<1>11. ASSUME NEW g, NEW k \in 1 .. n, g[k - 1] \in V PROVE Body(g, k) = Step(g[k - 1])
  <2>1. PICK e : e = g[k - 1]
    OBVIOUS
  <2>2. k # 0 /\ e \in V
    BY <1>11, <2>1
  <2>3. e.last - e.first > 1 => At(e) \in 0 .. n - 1
    BY <1>2, <2>2
  <2>4. e.last - e.first <= 1 \/ e.last - e.first > 1
    BY <1>6, <2>2
  <2>5. CASE e.last - e.first <= 1
    BY <2>1, <2>2, <2>5 DEF Step
  <2>6. CASE e.last - e.first > 1
    <3>1. PICK m : m = At(e)
      OBVIOUS
    <3>2. CompareWith(t, ind, element, value, NodeNo(ind, m)) = d[m]
      BY <1>9, <2>3, <2>6, <3>1
    <3> HIDE DEF V
    <3> QED BY <2>1, <2>2, <3>1, <3>2 DEF Step
  <2> QED BY <2>4, <2>5, <2>6
<1> HIDE DEF Body, V
<1>12. F = [k \in 0 .. n |-> Body(F, k)]
  <2>1. \A k \in 0 .. n : F[k] = Body(F, k)
    <3>1. F[0] = Body(F, 0)
      BY <1>5, <1>10
    <3>2. \A k \in 1 .. n : F[k] = Body(F, k)
      BY <1>5, <1>11
    <3>3. \A k \in 0 .. n : k = 0 \/ k \in 1 .. n
      OBVIOUS
    <3> QED BY <3>1, <3>2, <3>3
  <2> QED BY <1>5, <2>1
<1>13. after = [k \in 0 .. n |-> Body(after, k)]
  BY <1>9, <1>12
<1> HIDE DEF after
<1>14. after[n] = F[n]
  <2> DEFINE Reached == {k \in 0 .. n : after[k] = F[k]}
  <2>1. 0 \in Reached
    <3>1. 0 \in 0 .. n
      OBVIOUS
    <3>2. after[0] = Body(after, 0)
      BY <1>13, <3>1
    <3> QED BY <1>5, <1>10, <3>1, <3>2
  <2>2. ASSUME NEW k \in 1 .. n, k - 1 \in Reached PROVE k \in Reached
    <3>1. k \in 0 .. n /\ after[k - 1] = F[k - 1] /\ F[k - 1] \in V
      BY <1>5, <2>2
    <3>2. after[k] = Body(after, k)
      BY <1>13, <3>1
    <3>3. Body(after, k) = Step(after[k - 1])
      BY <1>11, <3>1
    <3> QED BY <1>5, <3>1, <3>2, <3>3
  <2> HIDE DEF Reached
  <2>3. \A k \in 0 .. n : k \in Reached
    BY <2>1, <2>2, CountedHolds
  <2> QED BY <2>3 DEF Reached
<1>15. c = F[n]
  BY <1>8, <1>9, <1>14
<1> QED BY <1>7, <1>15 DEF V

(* The first node that matches, or that there is none.                     *)
FirstHit(n, d, ind, a) ==
  \/ a = Answer(NULL, n) /\ \A i \in 0 .. n - 1 : d[i] # 0
  \/ \E at \in 0 .. n - 1 : /\ a = Answer(NodeNo(ind, at), at + 1) /\ d[at] = 0
                            /\ \A i \in 0 .. n - 1 : i < at => d[i] # 0
LEMMA FindsFirst ==
  ASSUME NEW n, n \in Nat, n > 0, NEW d, Falling(n, d), NEW t, NEW ind, NEW element, NEW value,
         Says(n, d, t, ind, element, value)
  PROVE  FirstHit(n, d, ind, FindFirst(t, ind, element, value))
<1> DEFINE CW(i) == CompareWith(t, ind, element, value, NodeNo(ind, i))
<1>1. PICK c : c = Candidates(t, ind, element, value)
  OBVIOUS
<1>2. PICK f, l : f = c.first /\ l = c.last
  OBVIOUS
<1>3. Brackets(n, d, f, l) /\ l - f <= 1
  BY <1>1, <1>2, CandidatesFacts
<1>4. f \in 0 .. n - 1 /\ l \in 0 .. n - 1 /\ f <= l
  BY <1>3 DEF Brackets
<1>5. Len(ind.nodes) = n /\ \A i \in 0 .. n - 1 : CW(i) = d[i] /\ d[i] \in Int
  BY DEF Says, Falling
<1> HIDE DEF CW
<1>6. PICK hits : hits = {i \in f .. l : CW(i) = 0}
  OBVIOUS
<1>7. PICK at : at = IF f = l THEN FirstOf(t, ind, element, value, f) ELSE Min(hits)
  OBVIOUS
<1>8. FindFirst(t, ind, element, value) =
        IF hits = {} THEN Answer(NULL, n) ELSE Answer(NodeNo(ind, at), at + 1)
  BY <1>1, <1>2, <1>5, <1>6, <1>7 DEF FindFirst, CW
<1>9. \A i : i \in hits <=> i \in f .. l /\ d[i] = 0
  BY <1>4, <1>5, <1>6
<1>10. CASE hits = {}
  <2>1. d[f] # 0
    BY <1>4, <1>9, <1>10
  <2>2. \A i \in 0 .. n - 1 : d[i] = 0 => f <= i /\ i <= l
    BY <1>3, <2>1 DEF Brackets
  <2>3. \A i \in 0 .. n - 1 : d[i] # 0
    BY <1>4, <1>9, <1>10, <2>2
  <2> QED BY <1>8, <1>10, <2>3 DEF FirstHit
<1>11. CASE hits # {}
  <2>1. at \in 0 .. n - 1 /\ d[at] = 0 /\ \A i \in 0 .. n - 1 : i < at => d[i] # 0
    <3>1. CASE f = l
      <4> DEFINE Js == {j \in 0 .. f : \A k \in j .. f : CompareWith(t, ind, element, value, NodeNo(ind, k)) = 0}
      <4>1. d[f] = 0
        BY <1>4, <1>9, <1>11, <3>1
      <4>2. \A j \in 0 .. f : j \in Js <=> \A k \in j .. f : d[k] = 0
        <5>1. \A j \in 0 .. f : \A k \in j .. f : k \in 0 .. n - 1
          BY <1>4
        <5> QED BY <1>5, <5>1 DEF CW
      <4>3. Js \in SUBSET Nat /\ f \in Js
        <5>1. f \in 0 .. f /\ \A k \in f .. f : k = f
          BY <1>4
        <5>2. f \in Js
          <6> HIDE DEF Js
          <6> QED BY <4>1, <4>2, <5>1
        <5> QED BY <5>2
      <4>4. at = Min(Js)
        BY <1>7, <3>1 DEF FirstOf
      <4>5. Js \subseteq 0 .. f
        OBVIOUS
      <4> HIDE DEF Js
      <4>6. at \in Js /\ \A j \in Js : at <= j
        BY <4>3, <4>4, LeastOf
      <4>7. at \in 0 .. f /\ \A k \in at .. f : d[k] = 0
        BY <4>2, <4>5, <4>6
      <4>8. at \in 0 .. n - 1 /\ d[at] = 0
        BY <1>4, <4>7
      <4>9. ASSUME NEW i \in 0 .. n - 1, i < at PROVE d[i] # 0
        <5> SUFFICES ASSUME d[i] = 0 PROVE FALSE
          OBVIOUS
        <5>1. PICK h \in Int : h = at - 1
          BY <4>8
        <5>2. h \in 0 .. n - 1 /\ i <= h /\ h < at /\ h \in 0 .. f
          BY <1>4, <4>7, <4>8, <4>9, <5>1
        <5>3. ~(d[h] < 0)
          BY <4>8, <5>2 DEF Falling
        <5>4. ~(d[h] > 0)
          <6>1. i = h \/ i < h
            BY <5>2
          <6> QED BY <5>2, <6>1 DEF Falling
        <5>5. d[h] = 0
          BY <1>5, <5>2, <5>3, <5>4
        <5>6. \A k \in h .. f : d[k] = 0
          BY <1>4, <4>7, <5>1, <5>5
        <5>7. h \in Js
          BY <4>2, <5>2, <5>6
        <5> QED BY <4>6, <4>8, <5>1, <5>7
      <4> QED BY <4>8, <4>9
    <3>2. CASE f # l
      <4>1. hits \in SUBSET Nat
        BY <1>4, <1>9
      <4>2. at = Min(hits)
        BY <1>7, <3>2
      <4>3. at \in hits /\ \A i \in hits : at <= i
        BY <1>11, <4>1, <4>2, LeastOf
      <4>4. \A i \in 0 .. n - 1 : d[i] = 0 => f <= i /\ i <= l
        BY <1>3, <3>2 DEF Brackets
      <4>5. at \in 0 .. n - 1 /\ d[at] = 0
        BY <1>4, <1>9, <4>3
      <4> QED BY <1>4, <1>9, <4>3, <4>4, <4>5
    <3> QED BY <3>1, <3>2
  <2> QED BY <1>8, <1>11, <2>1 DEF FirstHit
<1> QED BY <1>10, <1>11

(***************************************************************************)
(* Repeating a search: the nodes that match are side by side.  Of them, m  *)
(* have been answered, from position a on, or m are all.                   *)
(***************************************************************************)
Run(n, d, a, m) ==
  /\ a \in 0 .. n /\ m \in 0 .. n /\ a + m <= n
  /\ \A i \in 0 .. n - 1 : i < a => d[i] # 0
  /\ \A i \in 0 .. n - 1 : a <= i /\ i < a + m => d[i] = 0
Answered(n, nodes, fnd, a, m) == \A i \in 1 .. m : fnd[i] = nodes[a + i]
GoesOn(n, d, nodes, fnd, cur) ==
  \E a \in 0 .. n, m \in 0 .. n :
    /\ Run(n, d, a, m) /\ Answered(n, nodes, fnd, a, m)
    /\ Len(fnd) = m /\ cur = IF m = 0 THEN 0 ELSE a + m
HasEnded(n, d, nodes, fnd) ==
  \E a \in 0 .. n, m \in 0 .. n :
    /\ Run(n, d, a, m) /\ Answered(n, nodes, fnd, a, m)
    /\ Len(fnd) = m + 1 /\ fnd[m + 1] = NULL
    /\ \A i \in 0 .. n - 1 : a + m <= i => d[i] # 0

Continues(n, d, nodes, fnd, W, ans) ==
  /\ ans.node \in W \cup {NULL} /\ ans = Answer(ans.node, ans.cur)
  /\ IF ans.node = NULL THEN HasEnded(n, d, nodes, Append(fnd, NULL))
     ELSE GoesOn(n, d, nodes, Append(fnd, ans.node), ans.cur)
  /\ ans.node = NULL \/ ans.cur \in 0 .. n

LEMMA FindGoesOn ==
  ASSUME NEW n, n \in Nat, NEW d, Falling(n, d), NEW t, NEW ind, NEW element, NEW value,
         Says(n, d, t, ind, element, value), NEW W, ind.nodes \in Seq(W), NULL \notin W,
         ind.attr = NULL => value = NULL,
         NEW fnd, fnd \in Seq(W \cup {NULL}), GoesOn(n, d, ind.nodes, fnd, ind.cur),
         NEW ans, ans = Find(t, ind, element, value)
  PROVE  Continues(n, d, ind.nodes, fnd, W, ans)
<1> DEFINE nodes == ind.nodes
           Goal == /\ ans.node \in W \cup {NULL} /\ ans = Answer(ans.node, ans.cur)
                   /\ IF ans.node = NULL THEN HasEnded(n, d, ind.nodes, Append(fnd, NULL))
                      ELSE GoesOn(n, d, ind.nodes, Append(fnd, ans.node), ans.cur)
                   /\ ans.node = NULL \/ ans.cur \in 0 .. n
<1> SUFFICES Goal
  BY DEF Continues
<1>1. PICK a \in 0 .. n, m \in 0 .. n :
        /\ Run(n, d, a, m) /\ Answered(n, nodes, fnd, a, m)
        /\ Len(fnd) = m /\ ind.cur = IF m = 0 THEN 0 ELSE a + m
  BY DEF GoesOn
<1>2. /\ Len(nodes) = n /\ \A i \in 0 .. n - 1 : d[i] \in Int
      /\ \A i \in 0 .. n - 1 : CompareWith(t, ind, element, value, NodeNo(ind, i)) = d[i]
  BY DEF Falling, Says
<1>3. a + m <= n /\ /\ \A i \in 0 .. n - 1 : i < a => d[i] # 0
                    /\ \A i \in 0 .. n - 1 : a <= i /\ i < a + m => d[i] = 0
  BY <1>1 DEF Run
<1>4. \A w \in W \cup {NULL} : /\ Len(Append(fnd, w)) = m + 1 /\ Append(fnd, w)[m + 1] = w
                               /\ \A i \in 1 .. m : Append(fnd, w)[i] = fnd[i]
  BY <1>1
<1>5. \A i \in 0 .. n - 1 : NodeNo(ind, i) = nodes[i + 1] /\ nodes[i + 1] \in W
  BY <1>2 DEF NodeNo
<1> HIDE DEF nodes
<1>6. ASSUME NEW cur, ans = Answer(NULL, cur), \A i \in 0 .. n - 1 : a + m <= i => d[i] # 0
      PROVE  Goal
  <2>1. PICK g : g = Append(fnd, NULL)
    OBVIOUS
  <2>2. Len(g) = m + 1 /\ g[m + 1] = NULL /\ \A i \in 1 .. m : g[i] = fnd[i]
    BY <1>4, <2>1
  <2>3. Answered(n, nodes, g, a, m)
    BY <1>1, <2>2 DEF Answered
  <2>4. HasEnded(n, d, nodes, g)
    BY <1>1, <1>6, <2>2, <2>3 DEF HasEnded
  <2>5. ans.node = NULL /\ ans = Answer(ans.node, ans.cur)
    BY <1>6 DEF Answer
  <2> QED BY <2>1, <2>4, <2>5 DEF nodes
<1>7. ASSUME NEW b \in 0 .. n, b + m < n, Run(n, d, b, m + 1), Answered(n, nodes, fnd, b, m),
             ans = Answer(NodeNo(ind, b + m), b + m + 1)
      PROVE  Goal
  <2>1. PICK w : w = NodeNo(ind, b + m)
    OBVIOUS
  <2>2. b + m \in 0 .. n - 1 /\ m + 1 \in 0 .. n /\ b + m + 1 \in 0 .. n /\ b + m + 1 = b + (m + 1)
    BY <1>7
  <2>3. w = nodes[b + (m + 1)] /\ w \in W /\ w # NULL
    BY <1>5, <2>1, <2>2
  <2>4. Answered(n, nodes, Append(fnd, w), b, m + 1)
    <3> SUFFICES ASSUME NEW i \in 1 .. m + 1 PROVE Append(fnd, w)[i] = nodes[b + i]
      BY DEF Answered
    <3>1. CASE i = m + 1
      BY <1>4, <2>3, <3>1
    <3>2. CASE i # m + 1
      <4>1. i \in 1 .. m
        BY <3>2
      <4> QED BY <1>4, <1>7, <2>3, <4>1 DEF Answered
    <3> QED BY <3>1, <3>2
  <2>5. PICK k \in 0 .. n : k = m + 1
    BY <2>2
  <2>6. GoesOn(n, d, nodes, Append(fnd, w), b + k)
    <3>1. Run(n, d, b, k) /\ Answered(n, nodes, Append(fnd, w), b, k) /\ Len(Append(fnd, w)) = k /\ k # 0
      BY <1>4, <1>7, <2>3, <2>4, <2>5
    <3> QED BY <3>1 DEF GoesOn
  <2>7. ans.node = w /\ ans.cur = b + k /\ ans = Answer(ans.node, ans.cur)
    BY <1>7, <2>1, <2>2, <2>5 DEF Answer
  <2>8. ans.cur \in 0 .. n
    BY <2>2, <2>5, <2>7
  <2> QED BY <2>3, <2>6, <2>7, <2>8 DEF nodes
<1> HIDE DEF Goal
<1>8. ASSUME a + m < n, d[a + m] = 0 PROVE Run(n, d, a, m + 1)
  <2>1. m + 1 \in 0 .. n /\ a + (m + 1) <= n
    BY <1>8
  <2>2. \A i \in 0 .. n - 1 : a <= i /\ i < a + (m + 1) => d[i] = 0
    BY <1>3, <1>8
  <2> QED BY <1>3, <2>1, <2>2 DEF Run
<1>9. CASE element = NULL /\ value = NULL
  <2>1. \A i \in 0 .. n - 1 : d[i] = 0
    BY <1>2, <1>9 DEF CompareWith
  <2>2. n > 0 => a = 0
    <3>1. n > 0 => 0 \in 0 .. n - 1
      OBVIOUS
    <3> QED BY <1>3, <2>1, <3>1
  <2>3. ind.cur = a + m /\ ind.cur = m
    BY <1>1, <1>3, <2>2
  <2>4. ans = IF ind.cur < n THEN Answer(NodeNo(ind, ind.cur), ind.cur + 1) ELSE Answer(NULL, ind.cur)
    BY <1>2, <1>9 DEF Find, Enum, nodes
  <2>5. CASE a + m < n
    <3>1. Run(n, d, a, m + 1)
      BY <1>8, <2>1, <2>5
    <3> QED BY <1>1, <1>7, <2>3, <2>4, <2>5, <3>1
  <2>6. CASE ~(a + m < n)
    BY <1>6, <2>3, <2>4, <2>6
  <2> QED BY <2>5, <2>6
<1>10. CASE ~(element = NULL /\ value = NULL) /\ nodes = <<>>
  <2>1. n = 0
    BY <1>2, <1>10
  <2>2. ans = Answer(NULL, ind.cur)
    BY <1>10 DEF Find, nodes
  <2>3. PICK cur : cur = ind.cur
    OBVIOUS
  <2> QED BY <1>6, <2>1, <2>2, <2>3
<1>11. CASE ~(element = NULL /\ value = NULL) /\ nodes # <<>> /\ m = 0
  <2>1. n > 0
    BY <1>2, <1>11 DEF nodes
  <2>2. ans = FindFirst(t, ind, element, value)
    BY <1>1, <1>11 DEF Find, nodes
  <2>3. FirstHit(n, d, ind, ans)
    BY <2>1, <2>2, FindsFirst
  <2>4. CASE ans = Answer(NULL, n) /\ \A i \in 0 .. n - 1 : d[i] # 0
    BY <1>6, <2>4
  <2>5. CASE \E at \in 0 .. n - 1 : /\ ans = Answer(NodeNo(ind, at), at + 1) /\ d[at] = 0
                                   /\ \A i \in 0 .. n - 1 : i < at => d[i] # 0
    <3>1. PICK at \in 0 .. n - 1 : /\ ans = Answer(NodeNo(ind, at), at + 1) /\ d[at] = 0
                                   /\ \A i \in 0 .. n - 1 : i < at => d[i] # 0
      BY <2>5
    <3>2. at \in 0 .. n /\ at + m < n /\ at + m = at
      BY <1>11
    <3>3. Run(n, d, at, m + 1)
      <4>1. \A i \in 0 .. n - 1 : at <= i /\ i < at + 1 => i = at
        OBVIOUS
      <4>2. at + 1 <= n /\ 1 \in 0 .. n /\ m + 1 = 1
        BY <1>11
      <4> QED BY <3>1, <3>2, <4>1, <4>2 DEF Run
    <3>4. Answered(n, nodes, fnd, at, m)
      BY <1>11 DEF Answered
    <3> QED BY <1>7, <3>1, <3>2, <3>3, <3>4
  <2> QED BY <2>3, <2>4, <2>5 DEF FirstHit
<1>12. CASE ~(element = NULL /\ value = NULL) /\ nodes # <<>> /\ m # 0
  <2>1. ind.cur = a + m /\ a + m # 0 /\ a \in 0 .. n - 1 /\ a < a + m
    BY <1>1, <1>3, <1>12
  <2>2. d[a] = 0
    BY <1>3, <2>1
  <2>3. ans = IF a + m < n /\ CompareWith(t, ind, element, value, NodeNo(ind, a + m)) = 0
              THEN Answer(NodeNo(ind, a + m), a + m + 1) ELSE Answer(NULL, n)
    BY <1>2, <1>12, <2>1 DEF Find, nodes
  <2>4. CASE a + m < n /\ d[a + m] = 0
    <3>1. CompareWith(t, ind, element, value, NodeNo(ind, a + m)) = 0
      <4>1. a + m \in 0 .. n - 1
        BY <2>4
      <4> QED BY <1>2, <2>4, <4>1
    <3>2. Run(n, d, a, m + 1)
      BY <1>8, <2>4
    <3> QED BY <1>1, <1>7, <2>3, <2>4, <3>1, <3>2
  <2>5. CASE a + m < n /\ d[a + m] # 0
    <3>1. PICK k \in 0 .. n - 1 : k = a + m
      BY <2>5
    <3>2. CompareWith(t, ind, element, value, NodeNo(ind, k)) # 0
      BY <1>2, <2>5, <3>1
    <3>3. d[k] < 0
      <4>1. d[k] \in Int /\ d[k] # 0 /\ a < k
        BY <1>2, <2>1, <2>5, <3>1
      <4>2. d[k] > 0 => d[a] > 0
        BY <2>1, <4>1 DEF Falling
      <4> QED BY <2>2, <4>1, <4>2
    <3>4. ASSUME NEW i \in 0 .. n - 1, k <= i PROVE d[i] # 0
      <4>1. i = k \/ k < i
        BY <3>4
      <4>2. d[i] < 0
        BY <3>3, <4>1 DEF Falling
      <4> QED BY <1>2, <4>2
    <3> QED BY <1>6, <2>3, <3>1, <3>2, <3>4
  <2>6. CASE ~(a + m < n)
    <3>1. ans = Answer(NULL, n)
      BY <2>3, <2>6
    <3>2. \A i \in 0 .. n - 1 : ~(a + m <= i)
      BY <2>6
    <3> QED BY <1>6, <3>1, <3>2
  <2> QED BY <2>4, <2>5, <2>6
<1> QED BY <1>9, <1>10, <1>11, <1>12

(***************************************************************************)
(* What mxmlIndexNew collects.                                             *)
(***************************************************************************)
(* A sequence of the members of a set, each once.                          *)
Lists(u, S) ==
  /\ u \in Seq(Node)
  /\ \A i \in 1 .. Len(u) : u[i] \in S
  /\ \A m \in S : \E i \in 1 .. Len(u) : u[i] = m
  /\ \A i, j \in 1 .. Len(u) : u[i] = u[j] => i = j

LEMMA ListedOneMore ==
  ASSUME NEW u, NEW S, Lists(u, S), NEW n \in Node, n \notin S,
         NEW w, w = <<n>> \o u, NEW T, T = {n} \cup S
  PROVE  Lists(w, T)
<1>1. u \in Seq(Node) /\ Len(u) \in Nat
  BY DEF Lists
<1>2. w \in Seq(Node) /\ Len(w) = Len(u) + 1 /\ w[1] = n
  BY <1>1
<1>3. \A i \in 1 .. Len(u) : i + 1 \in 1 .. Len(w) /\ w[i + 1] = u[i]
  BY <1>1
<1>4. \A i \in 1 .. Len(w) : i = 1 \/ (i - 1 \in 1 .. Len(u) /\ w[i] = u[i - 1])
  BY <1>1
<1>5. \A i \in 1 .. Len(w) : w[i] \in T
  BY <1>2, <1>4 DEF Lists
<1>6. ASSUME NEW m \in T PROVE \E i \in 1 .. Len(w) : w[i] = m
  <2>1. CASE m = n
    <3>1. 1 \in 1 .. Len(w)
      BY <1>1, <1>2
    <3> QED BY <1>2, <2>1, <3>1
  <2>2. CASE m \in S
    <3>1. PICK i \in 1 .. Len(u) : u[i] = m
      BY <2>2 DEF Lists
    <3> QED BY <1>3, <3>1
  <2> QED BY <2>1, <2>2
<1>7. ASSUME NEW i \in 1 .. Len(w), NEW j \in 1 .. Len(w), w[i] = w[j] PROVE i = j
  <2>1. \A k \in 1 .. Len(u) : u[k] # n
    BY DEF Lists
  <2>2. CASE i = 1 \/ j = 1
    BY <1>2, <1>4, <1>7, <2>1, <2>2
  <2>3. CASE i # 1 /\ j # 1
    <3>1. i - 1 \in 1 .. Len(u) /\ j - 1 \in 1 .. Len(u) /\ u[i - 1] = u[j - 1]
      BY <1>4, <1>7, <2>3
    <3>2. i - 1 = j - 1
      BY <3>1 DEF Lists
    <3> QED BY <3>2
  <2> QED BY <2>2, <2>3
<1> QED BY <1>2, <1>5, <1>6, <1>7 DEF Lists

(* The search goes on from any node, and only onward.                      *)
LEMMA FindsOnward ==
  ASSUME Ready, IsFiniteSet(Node), NEW top \in Node, NEW nm, NEW a, NEW n \in Node,
         NEW f, f = FindElement(Tree, n, top, nm, a, NULL, "all")
  PROVE  f \in Node \cup {NULL} /\ (f # NULL => Earlier(n, f))
<1> DEFINE D == Node \cup {NULL}
           Hit == HitsFor(nm, a, NULL)
           Stop == {NULL} \cup Hit
           succ == [x \in Node |-> WalkNext(Tree, x, top, "all")]
<1>1. \A x \in Node : succ[x] \in D /\ (succ[x] # NULL => Earlier(x, succ[x]))
  BY WalksOnward
<1>2. PICK F : Firsts(F, top, nm, a, NULL)
  BY FirstsOf
<1> DEFINE Ahead(x) == F[x] \in D /\ (F[x] # NULL => F[x] = x \/ Earlier(x, F[x]))
           Bad == {x \in Node : ~Ahead(x)}
<1>3. F[NULL] = NULL /\ (\A x \in Node : F[x] = IF x \in Hit THEN x ELSE F[succ[x]]) /\ f = F[succ[n]]
  <2>1. n # NULL /\ top # NULL
    BY NullIsNoNode
  <2>2. \A x \in Node : succ[x] = WalkNext(Tree, x, top, "all")
    OBVIOUS
  <2>3. f = FirstMatch(Tree, succ[n], top, nm, a, NULL, "all")
    BY <2>1, <2>2 DEF FindElement
  <2> HIDE DEF succ, D
  <2>4. F[NULL] = NULL /\ \A x \in Node : F[x] = IF x \in Hit THEN x ELSE F[succ[x]]
    BY <1>2, <2>2 DEF Firsts
  <2>5. succ[n] = NULL => F[succ[n]] = f
    BY <2>3, <2>4, FirstMatchFacts
  <2>6. succ[n] \in Node => F[succ[n]] = f
    BY <1>2, <2>3 DEF Firsts
  <2> QED BY <1>1, <2>4, <2>5, <2>6 DEF D
<1>4. Tidy
  BY DEF Ready
<1> HIDE DEF succ, Hit
<1>5. Ends(D, Stop, succ)
  <2>1. D \ Stop \subseteq Node
    OBVIOUS
  <2>2. \A x \in D \ Stop : succ[x] \in Node => Earlier(x, succ[x])
    BY <1>1, <2>1, NullIsNoNode
  <2> HIDE DEF D, Stop
  <2> QED BY <1>4, <2>1, <2>2, OnwardEnds
<1>6. ASSUME NEW x \in Node, x \notin Hit, succ[x] = NULL \/ Ahead(succ[x])
      PROVE  F[x] \in D /\ (F[x] # NULL => Earlier(x, F[x]))
  <2>1. F[x] = F[succ[x]]
    BY <1>3, <1>6
  <2>2. CASE succ[x] = NULL
    BY <1>3, <2>1, <2>2
  <2>3. CASE succ[x] # NULL
    <3>1. succ[x] \in Node /\ Earlier(x, succ[x]) /\ Ahead(succ[x])
      BY <1>1, <1>6, <2>3
    <3>2. F[x] # NULL => F[x] \in Node
      BY <2>1, <3>1
    <3>3. F[x] # NULL => Earlier(x, F[x])
      BY <1>4, <2>1, <3>1, <3>2, EarlierIsOrder
    <3> QED BY <2>1, <3>1, <3>3
  <2> QED BY <2>2, <2>3
<1>7. \A x \in Node : Ahead(x)
  <2> SUFFICES ASSUME Bad # {} PROVE FALSE
    OBVIOUS
  <2>1. Bad \in SUBSET (D \ Stop)
    BY <1>3, NullIsNoNode
  <2>2. PICK x \in Bad : succ[x] \notin Bad
    BY <1>5, <2>1 DEF Ends
  <2>3. x \in Node /\ x \notin Hit /\ (succ[x] = NULL \/ Ahead(succ[x]))
    BY <1>1, <2>1, <2>2
  <2> HIDE DEF Ahead
  <2>4. F[x] \in D /\ (F[x] # NULL => Earlier(x, F[x]))
    BY <1>6, <2>3
  <2>5. Ahead(x)
    BY <2>4 DEF Ahead
  <2> QED BY <2>2, <2>5
<1>8. CASE succ[n] = NULL
  BY <1>3, <1>8
<1>9. CASE succ[n] # NULL
  <2>1. succ[n] \in Node /\ Earlier(n, succ[n]) /\ Ahead(succ[n])
    BY <1>1, <1>7, <1>9
  <2>2. f # NULL => f \in Node /\ (f = succ[n] \/ Earlier(succ[n], f))
    BY <1>3, <2>1
  <2>3. f # NULL => Earlier(n, f)
    BY <1>4, <2>1, <2>2, EarlierIsOrder
  <2> QED BY <2>2, <2>3
<1> QED BY <1>8, <1>9

Collecting(top, nm, a) ==
  /\ CollectFrom(Tree, top, NULL, nm, a) = <<>>
  /\ \A n \in Node :
       CollectFrom(Tree, top, n, nm, a) =
         <<n>> \o CollectFrom(Tree, top, FindElement(Tree, n, top, nm, a, NULL, "all"), nm, a)

LEMMA CollectFromFacts ==
  ASSUME Ready, IsFiniteSet(Node), NEW top \in Node, NEW nm, NEW a
  PROVE  Collecting(top, nm, a)
<1> DEFINE D == Node \cup {NULL}
           V == Seq(Node)
           Stop == {NULL}
           succ == [x \in Node |-> FindElement(Tree, x, top, nm, a, NULL, "all")]
           base == [x \in D |-> <<>>]
           step == [p \in D \X V |-> IF p[1] = NULL THEN <<>> ELSE <<p[1]>> \o p[2]]
<1>1. \A x \in Node : /\ succ[x] = FindElement(Tree, x, top, nm, a, NULL, "all")
                      /\ succ[x] \in D /\ (succ[x] # NULL => Earlier(x, succ[x]))
  BY FindsOnward
<1> HIDE DEF succ
<1>2. Ends(D, Stop, succ)
  <2>1. D \ Stop \subseteq Node /\ Tidy
    BY DEF Ready
  <2>2. \A x \in D \ Stop : succ[x] \in Node => Earlier(x, succ[x])
    BY <1>1, <2>1, NullIsNoNode
  <2> HIDE DEF D, Stop
  <2> QED BY <2>1, <2>2, OnwardEnds
<1>3. \A x \in D \ Stop : succ[x] \in D
  BY <1>1
<1>4. base \in [D -> V] /\ step \in [D \X V -> V]
  <2>1. <<>> \in V
    OBVIOUS
  <2>2. ASSUME NEW x \in Node, NEW v \in V PROVE <<x>> \o v \in V
    OBVIOUS
  <2> HIDE DEF V
  <2> QED BY <2>1, <2>2
<1>5. \A x \in D, v \in V : base[x] = <<>> /\ (x # NULL => step[<<x, v>>] = <<x>> \o v)
  <2> HIDE DEF V
  <2> QED OBVIOUS
<1> HIDE DEF base, step, V
<1>6. PICK F \in [D -> V] : Recursive(F, D, Stop, succ, base, step)
  BY <1>2, <1>3, <1>4, Recursion
<1>7. F[NULL] = <<>>
  BY <1>5, <1>6 DEF Recursive
<1>8. ASSUME NEW n \in Node PROVE F[n] = <<n>> \o F[succ[n]]
  <2>1. n \in D /\ n \notin Stop /\ n # NULL /\ succ[n] \in D
    BY <1>1, NullIsNoNode
  <2>2. F[n] = step[<<n, F[succ[n]]>>] /\ F[succ[n]] \in V
    BY <1>6, <2>1 DEF Recursive
  <2> QED BY <1>5, <2>1, <2>2
<1> DEFINE Body(g, n) == IF n = NULL THEN <<>>
                         ELSE <<n>> \o g[FindElement(Tree, n, top, nm, a, NULL, "all")]
           from == CHOOSE g : g = [n \in DOMAIN Tree.kind \cup {NULL} |-> Body(g, n)]
<1>9. DOMAIN Tree.kind \cup {NULL} = D
  BY DEF Tree, Ready
<1>10. \A n : CollectFrom(Tree, top, n, nm, a) = from[n]
  BY DEF CollectFrom
<1>11. \A g : Body(g, NULL) = <<>> /\ \A n \in Node : Body(g, n) = <<n>> \o g[succ[n]]
  BY <1>1, NullIsNoNode
<1> HIDE DEF Body
<1>12. F = [n \in DOMAIN Tree.kind \cup {NULL} |-> Body(F, n)]
  <2>1. \A n \in D : F[n] = Body(F, n)
    BY <1>7, <1>8, <1>11
  <2> HIDE DEF D
  <2> QED BY <1>9, <2>1
<1>13. from = [n \in DOMAIN Tree.kind \cup {NULL} |-> Body(from, n)]
  BY <1>12
<1> HIDE DEF from
<1>14. \A n \in D : from[n] = Body(from, n)
  <2> HIDE DEF D
  <2> QED BY <1>9, <1>13
<1>15. from[NULL] = <<>> /\ \A n \in Node : from[n] = <<n>> \o from[succ[n]]
  BY <1>11, <1>14
<1> QED BY <1>1, <1>10, <1>15 DEF Collecting

(* From a node on, that node and every match after it.                     *)
LEMMA CollectsFrom ==
  ASSUME Ready, IsFiniteSet(Node), NEW top \in Node, NEW nm, NEW a, NEW n \in Under(top)
  PROVE  Lists(CollectFrom(Tree, top, n, nm, a),
               {n} \cup ({m \in Under(top) : <<n, m>> \in DocOrder} \cap HitsFor(nm, a, NULL)))
<1> DEFINE C == Under(top)
           Hit == HitsFor(nm, a, NULL)
           After(x) == {m \in C : <<x, m>> \in DocOrder} \cap Hit
           succ == [x \in Node |-> FindElement(Tree, x, top, nm, a, NULL, "all")]
           G(x) == CollectFrom(Tree, top, x, nm, a)
           Fine(x) == Lists(G(x), {x} \cup After(x))
           Bad == {x \in C : ~Fine(x)}
<1>1. Tidy /\ C \in SUBSET Node
  BY DEF Ready, Under
<1>2. \A x \in Node : succ[x] \in Node \cup {NULL} /\ (succ[x] # NULL => Earlier(x, succ[x]))
  BY FindsOnward
<1>3. G(NULL) = <<>> /\ \A x \in Node : G(x) = <<x>> \o G(succ[x])
  <2> HIDE DEF G
  <2>1. \A x \in Node : succ[x] = FindElement(Tree, x, top, nm, a, NULL, "all")
    OBVIOUS
  <2> HIDE DEF succ
  <2>2. Collecting(top, nm, a)
    BY CollectFromFacts
  <2> QED BY <2>1, <2>2 DEF Collecting, G
<1>4. \A x \in C : IsFirst(DocOrder, succ[x], After(x))
  <2> SUFFICES ASSUME NEW x \in C PROVE IsFirst(DocOrder, succ[x], After(x))
    OBVIOUS
  <2>1. x \in Node /\ x # NULL /\ top # NULL
    BY <1>1, NullIsNoNode
  <2>2. succ[x] = FirstMatch(Tree, WalkNext(Tree, x, top, "all"), top, nm, a, NULL, "all")
    BY <2>1 DEF FindElement
  <2> QED BY <2>2, FirstBelow
<1> HIDE DEF succ, G, Hit, C
<1>5. Ends(C, {}, succ)
  <2>1. \A x \in C \ {} : succ[x] \in Node => Earlier(x, succ[x])
    BY <1>1, <1>2, NullIsNoNode
  <2>2. C \ {} \subseteq Node
    BY <1>1
  <2> QED BY <1>1, <2>1, <2>2, OnwardEnds
<1>6. ASSUME NEW x \in C, succ[x] = NULL \/ (succ[x] \in C /\ Fine(succ[x])) PROVE Fine(x)
  <2>1. x \in Node /\ x \notin After(x)
    BY <1>1 DEF DocOrder, Earlier
  <2>2. PICK u : u = G(succ[x])
    OBVIOUS
  <2>3. Lists(u, After(x))
    <3>1. CASE succ[x] = NULL
      <4>1. After(x) = {}
        BY <1>4, <3>1, <1>1, NullIsNoNode DEF IsFirst
      <4>2. u = <<>>
        BY <1>3, <2>2, <3>1
      <4> QED BY <4>1, <4>2 DEF Lists
    <3>2. CASE succ[x] # NULL
      <4>1. PICK s : s = succ[x]
        OBVIOUS
      <4>2. s \in C /\ s \in Node /\ Lists(u, {s} \cup After(s)) /\ Earlier(x, s)
        BY <1>1, <1>2, <1>6, <2>2, <3>2, <4>1
      <4>3. s \in After(x) /\ \A m \in After(x) \ {s} : <<s, m>> \in DocOrder
        BY <1>4, <3>2, <4>1 DEF IsFirst
      <4>4. ASSUME NEW m \in After(s) PROVE m \in After(x)
        <5>1. m \in C /\ m \in Node /\ m \in Hit /\ Earlier(s, m)
          BY <1>1 DEF DocOrder
        <5>2. Earlier(x, m)
          BY <1>1, <2>1, <4>2, <5>1, EarlierIsOrder
        <5> QED BY <2>1, <5>1, <5>2 DEF DocOrder
      <4>5. After(x) = {s} \cup After(s)
        BY <4>3, <4>4
      <4> QED BY <4>2, <4>5
    <3> QED BY <3>1, <3>2
  <2>4. G(x) = <<x>> \o u
    BY <1>3, <2>1, <2>2
  <2> HIDE DEF After
  <2> QED BY <2>1, <2>3, <2>4, ListedOneMore
<1>7. Bad = {}
  <2> SUFFICES ASSUME Bad # {} PROVE FALSE
    OBVIOUS
  <2>1. Bad \in SUBSET (C \ {})
    OBVIOUS
  <2>2. PICK x \in Bad : succ[x] \notin Bad
    BY <1>5, <2>1 DEF Ends
  <2>3. x \in C /\ ~Fine(x)
    BY <2>2
  <2>4. succ[x] # NULL => succ[x] \in C
    BY <1>4, <2>3 DEF IsFirst
  <2>5. succ[x] \in C => Fine(succ[x])
    BY <2>2
  <2> HIDE DEF Fine
  <2> QED BY <1>6, <2>3, <2>4, <2>5
<1>8. Fine(n)
  BY <1>7 DEF C
<1> QED BY <1>8 DEF G, C, Hit

(***************************************************************************)
(* mxmlIndexNew: every element asked for, each once, and sorted.           *)
(***************************************************************************)
Gathered(top, element, attr) ==
  {n \in IF element = NULL /\ attr = NULL THEN Under(top) ELSE Under(top) \ {top} :
     Matches(Tree, n, element, attr, NULL)}

(* The root is an element, which matches when nothing is asked for.        *)
LEMMA GathersAll ==
  ASSUME Ready, IsFiniteSet(Node), NEW top \in Node, IsElement(top), NEW nm, NEW a,
         NEW first, first = IF nm = NULL /\ a = NULL THEN top
                            ELSE FindElement(Tree, top, top, nm, a, NULL, "all")
  PROVE  Lists(CollectFrom(Tree, top, first, nm, a), Gathered(top, nm, a))
<1> DEFINE C == Under(top)
           Hit == HitsFor(nm, a, NULL)
           After(x) == {m \in C : <<x, m>> \in DocOrder} \cap Hit
           Below == (C \ {top}) \cap Hit
           u == CollectFrom(Tree, top, first, nm, a)
<1>1. Tidy /\ OverLaws /\ top # NULL /\ C \subseteq Node
  BY OverIsOrder, NullIsNoNode DEF Ready, Under
<1>2. top \in C
  BY <1>1 DEF Under, OverLaws
<1>3. {m \in C : <<top, m>> \in DocOrder} = C \ {top}
  BY DEF DocOrder, Earlier, Under
<1>4. \A n \in C : Lists(CollectFrom(Tree, top, n, nm, a), {n} \cup After(n))
  BY CollectsFrom
<1>5. CASE nm = NULL /\ a = NULL
  <2>1. Gathered(top, nm, a) = C \cap Hit /\ top \in Hit
    BY <1>1, <1>2, <1>5 DEF Gathered, HitsFor, Matches, IsElement, Tree
  <2>2. C \cap Hit = {top} \cup After(top)
    <3> HIDE DEF Hit, C
    <3>1. C \cap Hit = {top} \cup ((C \ {top}) \cap Hit)
      BY <1>2, <2>1
    <3> QED BY <1>3, <3>1
  <2> HIDE DEF After, C, Hit
  <2> QED BY <1>2, <1>4, <1>5, <2>1, <2>2
<1>6. CASE ~(nm = NULL /\ a = NULL)
  <2>1. Gathered(top, nm, a) = Below
    BY <1>1, <1>6 DEF Gathered, HitsFor
  <2>2. IsFirst(DocOrder, first, Below)
    BY <1>6, FindsBelow
  <2> HIDE DEF Hit, C
  <2>3. CASE first = NULL
    <3>1. Below = {}
      BY <1>1, <2>2, <2>3, NullIsNoNode DEF IsFirst
    <3>2. CollectFrom(Tree, top, NULL, nm, a) = <<>>
      <4>1. Collecting(top, nm, a)
        BY CollectFromFacts
      <4> QED BY <4>1 DEF Collecting
    <3>3. u = <<>>
      BY <2>3, <3>2
    <3>4. Lists(<<>>, {})
      BY DEF Lists
    <3> QED BY <2>1, <3>1, <3>3, <3>4
  <2>4. CASE first # NULL
    <3>1. first \in Below /\ \A m \in Below \ {first} : <<first, m>> \in DocOrder
      BY <2>2, <2>4 DEF IsFirst
    <3>2. ASSUME NEW m \in After(first) PROVE m \in Below
      <4>1. m \in C /\ m \in Hit /\ first \in Node /\ m \in Node /\ Earlier(first, m)
        BY <1>1, <3>1 DEF DocOrder
      <4>2. Earlier(top, first)
        BY <1>3, <3>1 DEF DocOrder
      <4>3. Earlier(top, m)
        BY <1>1, <4>1, <4>2, EarlierIsOrder
      <4>4. m # top
        BY <4>3 DEF Earlier
      <4> QED BY <4>1, <4>4
    <3>3. Below = {first} \cup After(first)
      BY <3>1, <3>2
    <3>4. first \in C
      BY <3>1
    <3> HIDE DEF After, Below
    <3> QED BY <1>4, <2>1, <3>3, <3>4
  <2> QED BY <2>3, <2>4
<1> QED BY <1>5, <1>6

(* What strcmp needs. *)
Texts(S, attr) ==
  \A n \in S : /\ n \in Node /\ name[n] \in Int
               /\ attr # NULL => GetAttr(Tree, n, attr) \in Int

LEMMA ComparesTexts ==
  ASSUME NEW attr, NEW S, Texts(S, attr)
  PROVE  Comparing(Tree, attr, S)
<1> DEFINE N(n) == Tree.name[n]
           V(n) == GetAttr(Tree, n, attr)
<1>1. \A n \in S : N(n) \in Int /\ (attr # NULL => V(n) \in Int)
  BY DEF Texts, Tree
<1>2. \A m, n \in S : Compare(Tree, attr, m, n) =
        IF N(m) # N(n) THEN N(m) - N(n) ELSE IF attr = NULL THEN 0 ELSE V(m) - V(n)
  BY DEF Compare
<1> HIDE DEF N, V
<1>3. \A m, n \in S : Compare(Tree, attr, m, n) \in Int
  BY <1>1, <1>2
<1>4. \A m, n \in S : Compare(Tree, attr, m, n) > 0 => Compare(Tree, attr, n, m) <= 0
  BY <1>1, <1>2
<1>5. ASSUME NEW k \in S, NEW m \in S, NEW n \in S,
             Compare(Tree, attr, k, m) <= 0, Compare(Tree, attr, m, n) <= 0
      PROVE  Compare(Tree, attr, k, n) <= 0
  BY <1>1, <1>2, <1>5
<1> QED BY <1>3, <1>4, <1>5 DEF Comparing

(* Sorted, and still the same nodes.                                       *)
Ascends(u, attr) == \A i, j \in 1 .. Len(u) : i < j => Compare(Tree, attr, u[i], u[j]) <= 0

LEMMA IndexesAll ==
  ASSUME Ready, IsFiniteSet(Node), NEW top \in Node, IsElement(top), NEW nm, NEW a,
         Texts(Gathered(top, nm, a), a),
         NEW ind, ind = IndexOver(Tree, top, nm, a)
  PROVE  /\ ind = [attr |-> a, cur |-> 0, nodes |-> ind.nodes]
         /\ Lists(ind.nodes, Gathered(top, nm, a)) /\ Ascends(ind.nodes, a)
<1> DEFINE S == Gathered(top, nm, a)
<1>1. PICK first : first = IF nm = NULL /\ a = NULL THEN top
                           ELSE FindElement(Tree, top, top, nm, a, NULL, "all")
  OBVIOUS
<1>2. PICK s : s = CollectFrom(Tree, top, first, nm, a)
  OBVIOUS
<1>3. Lists(s, S)
  BY <1>1, <1>2, GathersAll
<1>4. ind = [attr |-> a, cur |-> 0, nodes |-> IF Len(s) > 1 THEN Sorted(Tree, a, s) ELSE s]
  BY <1>1, <1>2 DEF IndexOver
<1>5. Comparing(Tree, a, S)
  BY ComparesTexts
<1> HIDE DEF S
<1>6. s \in Seq(Node) /\ Len(s) \in Nat /\ s \in Seq(S) /\ \A i, j \in 1 .. Len(s) : s[i] = s[j] => i = j
  BY <1>3 DEF Lists
<1>7. CASE Len(s) > 1
  <2>1. PICK u : u = Sorted(Tree, a, s)
    OBVIOUS
  <2>2. Shuffled(Len(s), S, s, u, 1, Len(s)) /\ \A i, j \in 1 .. Len(s) : i < j => Compare(Tree, a, u[i], u[j]) <= 0
    BY <1>5, <1>6, <1>7, <2>1, SortedFacts
  <2>3. S \subseteq Node
    BY DEF S, Gathered, Under
  <2>4. u \in Seq(Node) /\ Len(u) = Len(s)
    <3>1. PICK n \in Nat : n = Len(s)
      BY <1>6
    <3>2. u \in [1 .. n -> Node]
      <4>1. u \in [1 .. n -> S]
        BY <2>2, <3>1 DEF Shuffled
      <4> QED BY <2>3, <4>1
    <3> QED BY <3>1, <3>2
  <2>5. \A m \in S : \E i \in 1 .. Len(u) : u[i] = m
    <3> SUFFICES ASSUME NEW m \in S PROVE \E i \in 1 .. Len(u) : u[i] = m
      OBVIOUS
    <3>1. PICK j \in 1 .. Len(s) : s[j] = m
      BY <1>3 DEF Lists
    <3>2. PICK i \in 1 .. Len(s) : u[i] = s[j]
      BY <2>2 DEF Shuffled
    <3> QED BY <2>4, <3>1, <3>2
  <2>6. \A i \in 1 .. Len(u) : u[i] \in S
    BY <2>2, <2>4 DEF Shuffled
  <2>7. \A i, j \in 1 .. Len(u) : u[i] = u[j] => i = j
    BY <2>2, <2>4 DEF Shuffled
  <2>8. Lists(u, S) /\ Ascends(u, a)
    BY <2>2, <2>4, <2>5, <2>6, <2>7 DEF Lists, Ascends
  <2> QED BY <1>4, <1>7, <2>1, <2>8 DEF S
<1>8. CASE ~(Len(s) > 1)
  <2>1. Ascends(s, a)
    BY <1>6, <1>8 DEF Ascends
  <2> QED BY <1>3, <1>4, <1>8, <2>1 DEF S
<1> QED BY <1>7, <1>8

(***************************************************************************)
(* mxmlIndexFind: what the comparisons say of an index and a query.        *)
(***************************************************************************)
Told(ind, element, value) ==
  [i \in 0 .. Len(ind.nodes) - 1 |-> CompareWith(Tree, ind, element, value, NodeNo(ind, i))]
(* A query that can be answered from an index over the nodes of S.         *)
Fits(S, attr, element, value) ==
  /\ element = NULL \/ element \in Int
  /\ value = NULL \/ value \in Int
  /\ value # NULL => attr # NULL
  /\ value # NULL /\ element = NULL => \A m, n \in S : name[m] = name[n]

(* Along sorted nodes the comparison falls.                                *)
LEMMA ComparisonFalls ==
  ASSUME NEW S, NEW attr, Texts(S, attr), NEW element, NEW value, Fits(S, attr, element, value),
         NEW ind, ind.attr = attr, NEW m \in S, NEW n \in S, Compare(Tree, attr, m, n) <= 0,
         NEW d, d = CompareWith(Tree, ind, element, value, m),
         NEW e, e = CompareWith(Tree, ind, element, value, n)
  PROVE  d \in Int /\ e \in Int /\ (d < 0 => e < 0) /\ (e > 0 => d > 0)
<1> DEFINE N(x) == Tree.name[x]
           V(x) == GetAttr(Tree, x, attr)
<1>1. \A x \in S : N(x) \in Int /\ (attr # NULL => V(x) \in Int)
  BY DEF Texts, Tree
<1>2. IF N(m) # N(n) THEN N(m) - N(n) <= 0 ELSE (attr # NULL => V(m) - V(n) <= 0)
  BY DEF Compare
<1>3. /\ d = IF element # NULL /\ element # N(m) THEN element - N(m)
             ELSE IF value = NULL THEN 0 ELSE value - V(m)
      /\ e = IF element # NULL /\ element # N(n) THEN element - N(n)
             ELSE IF value = NULL THEN 0 ELSE value - V(n)
  BY DEF CompareWith
<1>4. value # NULL /\ element = NULL => N(m) = N(n)
  BY DEF Fits, Tree
<1>5. /\ element = NULL \/ element \in Int
      /\ value = NULL \/ value \in Int
      /\ value # NULL => attr # NULL
  BY DEF Fits
<1> HIDE DEF N, V
<1>6. N(m) \in Int /\ N(n) \in Int /\ (attr # NULL => V(m) \in Int /\ V(n) \in Int)
  BY <1>1
<1>7. CASE element = NULL
  BY <1>2, <1>3, <1>4, <1>5, <1>6, <1>7
<1>8. CASE element # NULL
  <2>1. CASE N(m) = N(n)
    BY <1>2, <1>3, <1>5, <1>6, <1>8, <2>1
  <2>2. CASE N(m) # N(n)
    <3>1. N(m) < N(n)
      BY <1>2, <1>6, <2>2
    <3>2. d \in Int /\ e \in Int
      BY <1>3, <1>5, <1>6, <1>8
    <3>3. CASE element = N(m)
      BY <1>3, <1>5, <1>6, <1>8, <3>1, <3>2, <3>3
    <3>4. CASE element # N(m)
      BY <1>3, <1>5, <1>6, <1>8, <3>1, <3>2, <3>4
    <3> QED BY <3>3, <3>4
  <2> QED BY <2>1, <2>2
<1> QED BY <1>7, <1>8

LEMMA SearchFalls ==
  ASSUME NEW S, NEW attr, Texts(S, attr), NEW element, NEW value, Fits(S, attr, element, value),
         NEW ind, ind.attr = attr, Lists(ind.nodes, S), Ascends(ind.nodes, attr),
         NEW n, n = Len(ind.nodes), NEW d, d = Told(ind, element, value)
  PROVE  n \in Nat /\ Falling(n, d) /\ Says(n, d, Tree, ind, element, value)
<1>1. n \in Nat /\ \A i \in 1 .. n : ind.nodes[i] \in S
  BY DEF Lists
<1>2. \A i \in 0 .. n - 1 : /\ i + 1 \in 1 .. n /\ NodeNo(ind, i) = ind.nodes[i + 1]
                            /\ NodeNo(ind, i) \in S
  BY <1>1 DEF NodeNo
<1>3. d = [i \in 0 .. n - 1 |-> CompareWith(Tree, ind, element, value, NodeNo(ind, i))]
  BY DEF Told
<1>4. \A i \in 0 .. n - 1 : d[i] = CompareWith(Tree, ind, element, value, NodeNo(ind, i))
  BY <1>3
<1>5. ASSUME NEW i \in 0 .. n - 1, NEW j \in 0 .. n - 1, i < j
      PROVE  d[i] \in Int /\ d[j] \in Int /\ (d[i] < 0 => d[j] < 0) /\ (d[j] > 0 => d[i] > 0)
  <2>1. PICK x \in S, y \in S : x = ind.nodes[i + 1] /\ y = ind.nodes[j + 1]
    BY <1>2
  <2>2. Compare(Tree, attr, x, y) <= 0
    BY <1>2, <1>5, <2>1 DEF Ascends
  <2>3. d[i] = CompareWith(Tree, ind, element, value, x) /\ d[j] = CompareWith(Tree, ind, element, value, y)
    BY <1>2, <1>4, <2>1
  <2>4. PICK e, f : e = d[i] /\ f = d[j]
    OBVIOUS
  <2>5. e \in Int /\ f \in Int /\ (e < 0 => f < 0) /\ (f > 0 => e > 0)
    BY <2>2, <2>3, <2>4, ComparisonFalls
  <2> QED BY <2>4, <2>5
<1>6. ASSUME NEW i \in 0 .. n - 1 PROVE d[i] \in Int
  <2>1. PICK x \in S : x = NodeNo(ind, i)
    BY <1>2
  <2>2. PICK e : e = CompareWith(Tree, ind, element, value, x)
    OBVIOUS
  <2>3. Comparing(Tree, attr, S)
    BY ComparesTexts
  <2>4. Compare(Tree, attr, x, x) <= 0
    <3>1. Compare(Tree, attr, x, x) \in Int
      BY <2>3 DEF Comparing
    <3>2. Compare(Tree, attr, x, x) > 0 => Compare(Tree, attr, x, x) <= 0
      BY <2>3 DEF Comparing
    <3> QED BY <3>1, <3>2
  <2>5. e \in Int
    BY <2>2, <2>4, ComparisonFalls
  <2> QED BY <1>4, <2>1, <2>2, <2>5
<1>7. d \in [0 .. n - 1 -> Int]
  BY <1>3, <1>6
<1>8. Falling(n, d)
  BY <1>5, <1>7 DEF Falling
<1>9. Says(n, d, Tree, ind, element, value)
  BY <1>4 DEF Says
<1> QED BY <1>1, <1>8, <1>9

(* A node of the index matches when the comparison says 0.                 *)
LEMMA SaysMatches ==
  ASSUME NEW top, NEW nm, NEW attr, NEW S, S = Gathered(top, nm, attr), Texts(S, attr),
         NEW element, NEW value, Fits(S, attr, element, value),
         NEW ind, ind.attr = attr, NEW n \in S
  PROVE  Matches(Tree, n, element, attr, value) <=> CompareWith(Tree, ind, element, value, n) = 0
<1>1. Tree.kind[n] = "element" /\ (attr # NULL => GetAttr(Tree, n, attr) # NULL)
  BY DEF Gathered, Matches
<1>2. Tree.name[n] \in Int /\ (attr # NULL => GetAttr(Tree, n, attr) \in Int)
  BY DEF Texts, Tree
<1>3. /\ element = NULL \/ element \in Int
      /\ value = NULL \/ value \in Int
      /\ value # NULL => attr # NULL
  BY DEF Fits
<1>4. PICK N, V : N = Tree.name[n] /\ V = GetAttr(Tree, n, attr)
  OBVIOUS
<1>5. Matches(Tree, n, element, attr, value) <=>
        (element = NULL \/ element = N) /\ (value = NULL \/ value = V)
  BY <1>1, <1>3, <1>4 DEF Matches
<1>6. CompareWith(Tree, ind, element, value, n) =
        IF element # NULL /\ element # N THEN element - N ELSE IF value = NULL THEN 0 ELSE value - V
  BY <1>4 DEF CompareWith
<1> QED BY <1>2, <1>3, <1>4, <1>5, <1>6

(* What has been answered when the search has ended.                       *)
LEMMA AnswersAll ==
  ASSUME NEW nodes, NEW S, Lists(nodes, S), NEW d, NEW n, n = Len(nodes),
         NEW fnd, fnd \in Seq(Node \cup {NULL}), HasEnded(n, d, nodes, fnd)
  PROVE  /\ ToSet(Front(fnd)) = {nodes[i + 1] : i \in {k \in 0 .. n - 1 : d[k] = 0}}
         /\ IsInjective(Front(fnd))
<1> DEFINE w == Front(fnd)
           Zero == {k \in 0 .. n - 1 : d[k] = 0}
<1>1. PICK a \in 0 .. n, m \in 0 .. n :
        /\ Run(n, d, a, m) /\ Answered(n, nodes, fnd, a, m)
        /\ Len(fnd) = m + 1 /\ \A i \in 0 .. n - 1 : a + m <= i => d[i] # 0
  BY DEF HasEnded
<1>2. n \in Nat /\ m \in Nat /\ a \in Nat /\ a + m <= n
  BY <1>1 DEF Lists, Run
<1>3. /\ \A i \in 0 .. n - 1 : d[i] = 0 <=> (a <= i /\ i < a + m)
  <2> SUFFICES ASSUME NEW i \in 0 .. n - 1 PROVE d[i] = 0 <=> (a <= i /\ i < a + m)
    OBVIOUS
  <2>1. i < a => d[i] # 0
    BY <1>1 DEF Run
  <2>2. a <= i /\ i < a + m => d[i] = 0
    BY <1>1 DEF Run
  <2>3. a + m <= i => d[i] # 0
    BY <1>1
  <2> QED BY <1>2, <2>1, <2>2, <2>3
<1>4. w = SubSeq(fnd, 1, m)
  BY <1>1, <1>2 DEF Front
<1>5. DOMAIN w = 1 .. m /\ \A i \in 1 .. m : w[i] = fnd[i]
  BY <1>1, <1>2, <1>4
<1> HIDE DEF w
<1>6. \A i \in 1 .. m : w[i] = nodes[a + i] /\ a + i \in 1 .. n
  BY <1>1, <1>2, <1>5 DEF Answered
<1>7. IsInjective(w)
  <2> SUFFICES ASSUME NEW i \in 1 .. m, NEW j \in 1 .. m, w[i] = w[j] PROVE i = j
    BY <1>5 DEF IsInjective
  <2>1. PICK x, y : x = a + i /\ y = a + j
    OBVIOUS
  <2>2. x \in 1 .. n /\ y \in 1 .. n /\ nodes[x] = nodes[y]
    BY <1>6, <2>1
  <2>3. x = y
    BY <2>2 DEF Lists
  <2> QED BY <1>2, <2>1, <2>3
<1>8. ASSUME NEW x \in ToSet(w) PROVE \E i \in Zero : x = nodes[i + 1]
  <2>1. PICK i \in 1 .. m : x = w[i]
    BY <1>5, <1>8 DEF ToSet
  <2>2. PICK j : j = a + i - 1
    OBVIOUS
  <2>3. j \in 0 .. n - 1 /\ a <= j /\ j < a + m /\ j + 1 = a + i
    BY <1>2, <2>2
  <2>4. d[j] = 0 /\ x = nodes[j + 1]
    BY <1>3, <1>6, <2>1, <2>3
  <2> QED BY <2>3, <2>4
<1>9. ASSUME NEW i \in Zero PROVE nodes[i + 1] \in ToSet(w)
  <2>1. i \in 0 .. n - 1 /\ a <= i /\ i < a + m
    BY <1>3
  <2>2. PICK j : j = i + 1 - a
    OBVIOUS
  <2>3. j \in 1 .. m /\ a + j = i + 1
    BY <1>2, <2>1, <2>2
  <2>4. w[j] = nodes[i + 1]
    BY <1>6, <2>3
  <2> QED BY <1>5, <2>3, <2>4 DEF ToSet
<1> HIDE DEF Zero
<1>10. ToSet(w) = {nodes[i + 1] : i \in Zero}
  BY <1>8, <1>9
<1> QED BY <1>7, <1>10 DEF w, Zero

LEMMA SearchAnswersAll ==
  ASSUME NEW top, NEW nm, NEW attr, NEW S, S = Gathered(top, nm, attr), Texts(S, attr),
         NEW element, NEW value, Fits(S, attr, element, value),
         NEW ind, ind.attr = attr, Lists(ind.nodes, S),
         NEW n, n = Len(ind.nodes), NEW d, d = Told(ind, element, value),
         NEW fnd, fnd \in Seq(Node \cup {NULL}), HasEnded(n, d, ind.nodes, fnd)
  PROVE  /\ ToSet(Front(fnd)) = {x \in S : Matches(Tree, x, element, attr, value)}
         /\ IsInjective(Front(fnd))
<1> DEFINE nodes == ind.nodes
           Zero == {k \in 0 .. n - 1 : d[k] = 0}
<1>1. ToSet(Front(fnd)) = {nodes[i + 1] : i \in Zero} /\ IsInjective(Front(fnd))
  BY AnswersAll
<1>2. n \in Nat /\ \A i \in 1 .. n : nodes[i] \in S
  BY DEF Lists
<1>3. \A i \in 0 .. n - 1 : i + 1 \in 1 .. n /\ nodes[i + 1] \in S
  BY <1>2
<1>4. \A i \in 0 .. n - 1 : d[i] = CompareWith(Tree, ind, element, value, nodes[i + 1])
  BY DEF Told, NodeNo
<1>5. \A x \in S : Matches(Tree, x, element, attr, value) <=> CompareWith(Tree, ind, element, value, x) = 0
  BY SaysMatches
<1>6. ASSUME NEW i \in Zero
      PROVE  nodes[i + 1] \in S /\ Matches(Tree, nodes[i + 1], element, attr, value)
  BY <1>3, <1>4, <1>5
<1>7. ASSUME NEW x \in S, Matches(Tree, x, element, attr, value)
      PROVE  \E i \in Zero : x = nodes[i + 1]
  <2>1. PICK j \in 1 .. n : nodes[j] = x
    BY DEF Lists
  <2>2. PICK i : i = j - 1
    OBVIOUS
  <2>3. i \in 0 .. n - 1 /\ i + 1 = j
    BY <1>2, <2>2
  <2>4. d[i] = 0
    BY <1>4, <1>5, <1>7, <2>1, <2>3
  <2> QED BY <2>1, <2>3, <2>4
<1> HIDE DEF Zero
<1>8. {nodes[i + 1] : i \in Zero} = {x \in S : Matches(Tree, x, element, attr, value)}
  BY <1>6, <1>7
<1> QED BY <1>1, <1>8

(***************************************************************************)
(* The search since the last reset.                                        *)
(***************************************************************************)
Queries == [element : Names \cup {NULL}, value : Values \cup {NULL}]
SearchState(ind, S, query, fnd) ==
  IF query = NoIndex THEN fnd = <<>> /\ ind.cur = 0
  ELSE /\ query \in Queries
       /\ Fits(S, ind.attr, query.element, query.value) =>
            /\ fnd \in Seq(Node \cup {NULL}) /\ fnd # <<>>
            /\ LET n == Len(ind.nodes)
                   d == Told(ind, query.element, query.value)
               IN IF Last(fnd) = NULL THEN HasEnded(n, d, ind.nodes, fnd)
                  ELSE GoesOn(n, d, ind.nodes, fnd, ind.cur)

LEMMA FindKeepsSearch ==
  ASSUME NEW S, NEW attr, Texts(S, attr),
         NEW ind, ind.attr = attr, Lists(ind.nodes, S), Ascends(ind.nodes, attr),
         NEW before, NEW fnd, SearchState(ind, S, before, fnd),
         NEW query \in Queries, before \in {NoIndex, query}, fnd = <<>> \/ Last(fnd) # NULL,
         NEW ans, ans = Find(Tree, ind, query.element, query.value),
         NEW w, w.attr = attr, w.nodes = ind.nodes, w.cur = ans.cur
  PROVE  SearchState(w, S, query, Append(fnd, ans.node))
<1> DEFINE element == query.element
           value == query.value
<1>1. query # NoIndex
  BY NoIndexAssumption DEF Queries
<1>2. SUFFICES ASSUME Fits(S, attr, element, value)
               PROVE  /\ Append(fnd, ans.node) \in Seq(Node \cup {NULL}) /\ Append(fnd, ans.node) # <<>>
                      /\ IF Last(Append(fnd, ans.node)) = NULL
                         THEN HasEnded(Len(w.nodes), Told(w, element, value), w.nodes, Append(fnd, ans.node))
                         ELSE GoesOn(Len(w.nodes), Told(w, element, value), w.nodes, Append(fnd, ans.node), w.cur)
  BY <1>1 DEF SearchState
<1>3. PICK n, d : n = Len(ind.nodes) /\ d = Told(ind, element, value)
  OBVIOUS
<1>4. Len(w.nodes) = n /\ Told(w, element, value) = d
  BY <1>3 DEF Told, CompareWith, NodeNo
<1>5. n \in Nat /\ Falling(n, d) /\ Says(n, d, Tree, ind, element, value)
  BY <1>2, <1>3, SearchFalls
<1>6. fnd \in Seq(Node \cup {NULL}) /\ GoesOn(n, d, ind.nodes, fnd, ind.cur)
  <2>1. CASE before = NoIndex
    <3>1. fnd = <<>> /\ ind.cur = 0
      BY <2>1 DEF SearchState
    <3>2. Run(n, d, 0, 0) /\ Answered(n, ind.nodes, fnd, 0, 0) /\ Len(fnd) = 0
      BY <1>5, <3>1 DEF Run, Answered
    <3> QED BY <1>5, <3>1, <3>2 DEF GoesOn
  <2>2. CASE before # NoIndex
    <3>1. before = query
      BY <2>2
    <3>2. /\ fnd \in Seq(Node \cup {NULL}) /\ fnd # <<>>
          /\ IF Last(fnd) = NULL THEN HasEnded(n, d, ind.nodes, fnd)
             ELSE GoesOn(n, d, ind.nodes, fnd, ind.cur)
      BY <1>1, <1>2, <1>3, <3>1 DEF SearchState
    <3> QED BY <3>2
  <2> QED BY <2>1, <2>2
<1>7. ind.nodes \in Seq(Node) /\ NULL \notin Node /\ (ind.attr = NULL => value = NULL)
  BY <1>2, NullIsNoNode DEF Lists, Fits
<1> HIDE DEF element, value
<1>8. /\ ans.node \in Node \cup {NULL}
      /\ IF ans.node = NULL THEN HasEnded(n, d, ind.nodes, Append(fnd, NULL))
         ELSE GoesOn(n, d, ind.nodes, Append(fnd, ans.node), ans.cur)
  <2>1. ans = Find(Tree, ind, element, value)
    BY DEF element, value
  <2>2. Continues(n, d, ind.nodes, fnd, Node, ans)
    BY <1>5, <1>6, <1>7, <2>1, FindGoesOn
  <2> QED BY <2>2 DEF Continues
<1>9. PICK u, x : u = Append(fnd, ans.node) /\ x = ans.node
  OBVIOUS
<1>10. u \in Seq(Node \cup {NULL}) /\ u # <<>> /\ Last(u) = x
  BY <1>6, <1>8, <1>9 DEF Last
<1> QED BY <1>4, <1>8, <1>9, <1>10

(***************************************************************************)
(* The invariant: what an index lists, in which order, and how far the     *)
(* search has come; and as no tree changes under an index, this stays.     *)
(***************************************************************************)
NamesHeld == \A n \in Node : IsElement(n) => name[n] \in Names
StoreInv == DataInv /\ TreesInv /\ NamesHeld
IndexMade ==
  /\ index = [ind |-> [attr |-> index.ind.attr, cur |-> index.ind.cur, nodes |-> index.ind.nodes],
              top |-> index.top, element |-> index.element]
  /\ Lists(index.ind.nodes, Indexed) /\ Ascends(index.ind.nodes, index.ind.attr)
Searching == SearchState(index.ind, Indexed, asked, found)
IndexInv == StoreInv /\ (index # NoIndex => Idle /\ IndexMade /\ Searching)

LEMMA GetsText ==
  ASSUME DataTypeOK, NEW n \in Node, NEW a
  PROVE  GetAttr(Tree, n, a) \in Values \cup {NULL}
<1>1. PICK s \in Seq(Attribute) : s = attrs[n]
  BY DEF DataTypeOK
<1>2. Tree.attrs[n] = s
  BY <1>1 DEF Tree
<1> DEFINE places == {i \in 1 .. Len(s) : s[i].n = a}
<1>3. CASE places = {}
  BY <1>2, <1>3 DEF GetAttr, AttrIn, AttrAt
<1>4. CASE places # {}
  <2>1. places \in SUBSET Nat
    OBVIOUS
  <2> HIDE DEF places
  <2>2. Min(places) \in places
    BY <1>4, <2>1, LeastOf
  <2>3. Min(places) \in 1 .. Len(s)
    BY <2>2 DEF places
  <2>4. AttrAt(s, a) = Min(places)
    BY <1>4 DEF AttrAt, places
  <2>5. AttrIn(s, a) = s[Min(places)].v
    BY <2>3, <2>4 DEF AttrIn
  <2>6. s[Min(places)].v \in Values \cup {NULL}
    <3>1. s[Min(places)] \in Attribute
      BY <2>3
    <3> QED BY <3>1 DEF Attribute
  <2> QED BY <1>2, <2>5, <2>6 DEF GetAttr
<1> QED BY <1>3, <1>4

LEMMA GatheredTexts ==
  ASSUME StoreInv, NEW top, NEW nm, NEW a
  PROVE  Texts(Gathered(top, nm, a), a)
<1> SUFFICES ASSUME NEW n \in Gathered(top, nm, a)
             PROVE  n \in Node /\ name[n] \in Int /\ (a # NULL => GetAttr(Tree, n, a) \in Int)
  BY DEF Texts
<1>1. n \in Node /\ Matches(Tree, n, nm, a, NULL)
  BY DEF Gathered, Under
<1>2. IsElement(n) /\ (a # NULL => GetAttr(Tree, n, a) # NULL)
  BY <1>1 DEF Matches, Tree, IsElement
<1>3. GetAttr(Tree, n, a) \in Values \cup {NULL}
  BY <1>1, GetsText DEF StoreInv, DataInv
<1> QED BY <1>1, <1>2, <1>3, TextsAssumption DEF StoreInv, NamesHeld

LEMMA StoreInit == DataInit => StoreInv
<1>1. DataInit => NamesHeld
  BY DEF DataInit, NodeInit, NamesHeld, IsElement
<1> QED BY <1>1, DataInvInit, TreesInit DEF StoreInv

(* What a call writes into an element is a name. *)
LEMMA WritesName ==
  ASSUME NEW n, NEW k, NEW v, NEW stored, Store(n, k, v, stored), k \in {"element", "cdata"} => stored \in Names
  PROVE  \/ name' = name
         \/ \E h, s : name' = [name EXCEPT ![h] = s] /\ (kind[h] = "element" => s \in Names)
<1> DEFINE h == Holder(n, k)
<1>1. h = NULL \/ Is(h, k)
  BY DEF Holder
<1>2. name' = IF h = NULL THEN name ELSE [name EXCEPT ![h] = stored]
  BY DEF Store
<1> HIDE DEF h
<1>3. h # NULL /\ kind[h] = "element" => stored \in Names
  BY <1>1 DEF Is
<1> QED BY <1>2, <1>3

LEMMA StoreNext ==
  ASSUME StoreInv, [DataNext]_<<nodeVars, dataVars>>
  PROVE  StoreInv'
<1>1. DataInv' /\ TreesInv'
  BY DataNextKeeps, TreesNext DEF StoreInv
<1>2. /\ \A n \in Node : kind[n] = "element" => name[n] \in Names
      /\ name \in [Node -> Names \cup Values \cup {NULL}] /\ DOMAIN kind = Node
  BY DEF StoreInv, NamesHeld, IsElement, DataInv, DataTypeOK, NodeInv, NodeTypeOK
<1>3. ASSUME name' = name, \A n \in Node : kind'[n] = "element" => kind[n] = "element"
      PROVE  NamesHeld'
  BY <1>2, <1>3 DEF NamesHeld, IsElement
<1>4. ASSUME NEW n \in Node, Create(n) PROVE NamesHeld'
  <2>1. PICK k, v : /\ kind' = [kind EXCEPT ![n] = k] /\ name' = [name EXCEPT ![n] = v]
                    /\ k = "element" => v \in Names
    BY <1>4 DEF Create, NewElement, NewValue, Made, New
  <2> QED BY <1>2, <2>1 DEF NamesHeld, IsElement
<1>5. ASSUME Rearrange PROVE NamesHeld'
  <2>1. name' = name /\ kind' = kind
    BY <1>5 DEF Rearrange, Move, Add, Detach, RemoveNode, Retain, Release, Delete, Enter, dataVars
  <2> QED BY <1>3, <2>1
<1>6. ASSUME Edit PROVE NamesHeld'
  <2>1. kind' = kind
    BY <1>6 DEF Edit, SetAttr, DeleteAttr, SetValue, SetCDATA, SetTextf, Store, nodeVars
  <2> DEFINE Written == \/ name' = name
                        \/ \E h, s : name' = [name EXCEPT ![h] = s] /\ (kind[h] = "element" => s \in Names)
  <2>2. ASSUME NEW n \in Node, NEW a \in AttrNames, DeleteAttr(n, a) \/ \E v \in Values \cup {NULL} : SetAttr(n, a, v)
        PROVE  Written
    BY <2>2 DEF DeleteAttr, SetAttr
  <2>3. ASSUME NEW n \in Node, NEW v \in Names, SetValue(n, "element", v) PROVE Written
    BY <2>3, WritesName DEF SetValue
  <2>4. ASSUME NEW n \in Node, NEW k \in Kinds \ {"element"}, NEW v \in Values, SetValue(n, k, v) PROVE Written
    BY <2>4, WritesName, CDATAAssumption DEF SetValue
  <2>5. ASSUME NEW n \in Node, NEW v \in CDATA, SetCDATA(n, v) PROVE Written
    BY <2>5, WritesName, CDATAAssumption DEF SetCDATA, SetValue
  <2>6. ASSUME NEW n \in Node, NEW v \in Values, SetTextf(n, v) PROVE Written
    BY <2>6, WritesName DEF SetTextf
  <2>7. Written
    <3> HIDE DEF Written
    <3> QED BY <1>6, <2>2, <2>3, <2>4, <2>5, <2>6 DEF Edit
  <2> QED BY <1>2, <1>3, <2>1, <2>7 DEF NamesHeld, IsElement
<1>7. ASSUME Deletion PROVE NamesHeld'
  <2>1. name' = name /\ (kind' = kind \/ kind' = [kind EXCEPT ![Head(doomed)] = "free"])
    BY <1>7 DEF Deletion, Deleting, DeleteChild, Free, Enter, dataVars
  <2> QED BY <1>2, <1>3, <2>1
<1>8. ASSUME UNCHANGED <<nodeVars, dataVars>> PROVE NamesHeld'
  BY <1>3, <1>8 DEF nodeVars, dataVars
<1> QED BY <1>1, <1>4, <1>5, <1>6, <1>7, <1>8 DEF DataNext, StoreInv

(* An index does not change its tree, nor what it lists.                   *)
LEMMA NothingElse ==
  ASSUME UNCHANGED <<nodeVars, dataVars>>
  PROVE  /\ Tree' = Tree /\ Idle' = Idle
         /\ \A top, nm, a : Gathered(top, nm, a)' = Gathered(top, nm, a)
<1>1. /\ kind' = kind /\ links' = links /\ forest' = forest /\ doomed' = doomed
      /\ name' = name /\ attrs' = attrs
  BY DEF nodeVars, dataVars
<1>2. Tree' = Tree /\ Idle' = Idle
  BY <1>1 DEF Tree, Idle
<1>3. Over' = Over
  BY <1>1 DEF Over
<1> HIDE DEF Over
<1>4. \A top : Under(top)' = Under(top)
  BY <1>3 DEF Under
<1>5. \A top, nm, a : Gathered(top, nm, a)' = Gathered(top, nm, a)
  BY <1>2, <1>4 DEF Gathered
<1> QED BY <1>2, <1>5

LEMMA IndexedIsGathered == Indexed = Gathered(index.top, index.element, index.ind.attr)
BY DEF Indexed, Gathered

LEMMA ReadingKeepsStore ==
  ASSUME StoreInv, Reading
  PROVE  StoreInv' /\ Idle'
<1>1. UNCHANGED <<nodeVars, dataVars>> /\ Idle
  BY DEF Reading
<1> QED BY <1>1, StoreNext, NothingElse

(* mxmlIndexNew.                                                           *)
LEMMA NewKeepsIndex ==
  ASSUME IndexInv, IsFiniteSet(Node), NEW n \in Node, NEW element, NEW attr, IndexNew(n, element, attr)
  PROVE  IndexInv'
<1> DEFINE S == Gathered(n, element, attr)
<1>1. /\ UNCHANGED <<nodeVars, dataVars>> /\ Idle /\ IsElement(n) /\ StoreInv
      /\ index' = [ind |-> IndexOver(Tree, n, element, attr), top |-> n, element |-> element]
      /\ asked' = NoIndex /\ found' = <<>>
  BY DEF IndexNew, Reading, IndexInv
<1>2. PICK ind : ind = IndexOver(Tree, n, element, attr)
  OBVIOUS
<1>3. /\ ind = [attr |-> attr, cur |-> 0, nodes |-> ind.nodes]
      /\ Lists(ind.nodes, S) /\ Ascends(ind.nodes, attr)
  <2>1. Ready
    BY <1>1, TreesReady DEF StoreInv
  <2>2. Texts(S, attr)
    BY <1>1, GatheredTexts
  <2> QED BY <1>1, <1>2, <2>1, <2>2, IndexesAll
<1> HIDE DEF S
<1>4. index' = [ind |-> ind, top |-> n, element |-> element]
  BY <1>1, <1>2
<1>5. index'.ind = ind /\ index'.top = n /\ index'.element = element /\ ind.attr = attr /\ ind.cur = 0
  BY <1>3, <1>4
<1>6. Tree' = Tree /\ Indexed' = S
  <2>1. Indexed' = Gathered(n, element, attr)'
    BY <1>5 DEF Indexed, Gathered
  <2> QED BY <1>1, <2>1, NothingElse DEF S
<1>7. IndexMade'
  <2>1. Lists(ind.nodes, Indexed')
    BY <1>3, <1>6
  <2>2. Ascends(index.ind.nodes, index.ind.attr)'
    BY <1>3, <1>5, <1>6 DEF Ascends
  <2>3. Lists(index.ind.nodes, Indexed)'
    BY <1>5, <2>1 DEF Lists
  <2>4. index' = [ind |-> [attr |-> index'.ind.attr, cur |-> index'.ind.cur, nodes |-> index'.ind.nodes],
                  top |-> index'.top, element |-> index'.element]
    BY <1>3, <1>4
  <2> QED BY <2>2, <2>3, <2>4 DEF IndexMade
<1>8. Searching'
  BY <1>1, <1>5 DEF Searching, SearchState
<1>9. StoreInv' /\ Idle'
  BY ReadingKeepsStore DEF IndexInv, IndexNew
<1> QED BY <1>7, <1>8, <1>9 DEF IndexInv

(* The other calls move the cursor.                                        *)
LEMMA CursorKeepsIndex ==
  ASSUME IndexInv, Reading, index # NoIndex, NEW c, index' = [index EXCEPT !.ind.cur = c]
  PROVE  /\ StoreInv' /\ Idle' /\ IndexMade' /\ Indexed' = Indexed /\ Tree' = Tree
         /\ index'.ind.attr = index.ind.attr /\ index'.ind.nodes = index.ind.nodes
         /\ index'.ind.cur = c
<1>1. UNCHANGED <<nodeVars, dataVars>> /\ StoreInv /\ IndexMade
  BY DEF Reading, IndexInv
<1>2. PICK attr, nodes, cur, top, element :
        index = [ind |-> [attr |-> attr, cur |-> cur, nodes |-> nodes], top |-> top, element |-> element]
  BY <1>1 DEF IndexMade
<1>3. index' = [ind |-> [attr |-> attr, cur |-> c, nodes |-> nodes], top |-> top, element |-> element]
  BY <1>2
<1>4. /\ index.ind.attr = attr /\ index.ind.nodes = nodes /\ index.top = top /\ index.element = element
      /\ index'.ind.attr = attr /\ index'.ind.nodes = nodes /\ index'.top = top /\ index'.element = element
      /\ index'.ind.cur = c
  BY <1>2, <1>3
<1>5. Tree' = Tree /\ Indexed' = Indexed
  <2>1. Indexed' = Gathered(top, element, attr)' /\ Indexed = Gathered(top, element, attr)
    BY <1>4 DEF Indexed, Gathered
  <2> QED BY <1>1, <2>1, NothingElse
<1>6. Lists(nodes, Indexed) /\ Ascends(nodes, attr)
  BY <1>1, <1>4 DEF IndexMade
<1>7. IndexMade'
  <2>1. Lists(index.ind.nodes, Indexed)'
    BY <1>4, <1>5, <1>6 DEF Lists
  <2>2. Ascends(index.ind.nodes, index.ind.attr)'
    BY <1>4, <1>5, <1>6 DEF Ascends
  <2>3. index' = [ind |-> [attr |-> index'.ind.attr, cur |-> index'.ind.cur, nodes |-> index'.ind.nodes],
                  top |-> index'.top, element |-> index'.element]
    BY <1>3, <1>4
  <2> QED BY <2>1, <2>2, <2>3 DEF IndexMade
<1>8. StoreInv' /\ Idle'
  BY <1>1, ReadingKeepsStore
<1> QED BY <1>4, <1>5, <1>7, <1>8

LEMMA ResetKeepsIndex ==
  ASSUME IndexInv, IndexReset
  PROVE  IndexInv'
<1>1. /\ Reading /\ index # NoIndex /\ index' = [index EXCEPT !.ind.cur = 0]
      /\ asked' = NoIndex /\ found' = <<>>
  BY DEF IndexReset
<1>2. StoreInv' /\ Idle' /\ IndexMade' /\ index'.ind.cur = 0
  BY <1>1, CursorKeepsIndex
<1>3. Searching'
  BY <1>1, <1>2 DEF Searching, SearchState
<1> QED BY <1>2, <1>3 DEF IndexInv

(* mxmlIndexFind, and mxmlIndexEnum as a search for anything.              *)
LEMMA AnswerKeepsIndex ==
  ASSUME IndexInv, NEW query \in Queries, Asks(query),
         NEW ans, ans = Find(Tree, index.ind, query.element, query.value), Answers(ans)
  PROVE  IndexInv'
<1>1. /\ Reading /\ index # NoIndex /\ asked \in {NoIndex, query}
      /\ found = <<>> \/ Last(found) # NULL
      /\ asked' = query /\ index' = [index EXCEPT !.ind.cur = ans.cur]
      /\ found' = Append(found, ans.node)
  BY DEF Asks, Answers
<1>2. /\ StoreInv' /\ Idle' /\ IndexMade' /\ Indexed' = Indexed /\ Tree' = Tree
      /\ index'.ind.attr = index.ind.attr /\ index'.ind.nodes = index.ind.nodes
      /\ index'.ind.cur = ans.cur
  BY <1>1, CursorKeepsIndex
<1>3. PICK S, ind, w : S = Indexed /\ ind = index.ind /\ w = index'.ind
  OBVIOUS
<1>4. Texts(S, ind.attr) /\ Lists(ind.nodes, S) /\ Ascends(ind.nodes, ind.attr)
  <2>1. Texts(Gathered(index.top, index.element, index.ind.attr), index.ind.attr)
    BY GatheredTexts DEF IndexInv
  <2>2. Lists(ind.nodes, S) /\ Ascends(ind.nodes, ind.attr)
    BY <1>1, <1>3 DEF IndexInv, IndexMade
  <2> QED BY <1>3, <2>1, <2>2, IndexedIsGathered
<1>5. SearchState(ind, S, asked, found)
  BY <1>1, <1>3 DEF IndexInv, Searching
<1>6. ans = Find(Tree, ind, query.element, query.value)
  BY <1>3
<1>7. w.attr = ind.attr /\ w.nodes = ind.nodes /\ w.cur = ans.cur
  BY <1>2, <1>3
<1>8. SearchState(w, S, query, Append(found, ans.node))
  BY <1>1, <1>4, <1>5, <1>6, <1>7, FindKeepsSearch
<1>9. PICK fnd : fnd = Append(found, ans.node)
  OBVIOUS
<1>10. SearchState(w, S, query, fnd)
  BY <1>8, <1>9
<1>11. Tree' = Tree /\ name' = name /\ index'.ind = w /\ Indexed' = S /\ asked' = query /\ found' = fnd
  BY <1>1, <1>2, <1>3, <1>9 DEF Reading, dataVars
<1>12. Searching'
  BY <1>10, <1>11 DEF Searching, SearchState, Fits, Told
<1> QED BY <1>2, <1>12 DEF IndexInv

LEMMA UseKeepsIndex ==
  ASSUME IndexInv, UseIndex
  PROVE  IndexInv'
<1>1. ASSUME NEW element \in Names \cup {NULL}, NEW value \in Values \cup {NULL}, IndexFind(element, value)
      PROVE  IndexInv'
  <2>1. PICK query : query = [element |-> element, value |-> value]
    OBVIOUS
  <2>2. query \in Queries /\ query.element = element /\ query.value = value
    BY <2>1 DEF Queries
  <2>3. PICK ans : ans = Find(Tree, index.ind, query.element, query.value)
    OBVIOUS
  <2>4. Asks(query) /\ Answers(ans)
    BY <1>1, <2>1, <2>2, <2>3 DEF IndexFind
  <2> QED BY <2>2, <2>3, <2>4, AnswerKeepsIndex
<1>2. ASSUME IndexEnum PROVE IndexInv'
  <2>1. PICK query : query = [element |-> NULL, value |-> NULL]
    OBVIOUS
  <2>2. query \in Queries /\ query.element = NULL /\ query.value = NULL
    BY <2>1 DEF Queries
  <2>3. PICK ans : ans = Find(Tree, index.ind, query.element, query.value)
    OBVIOUS
  <2>4. ans = Enum(index.ind)
    BY <2>2, <2>3 DEF Find
  <2>5. Asks(query) /\ Answers(ans)
    BY <1>2, <2>1, <2>4 DEF IndexEnum
  <2> QED BY <2>2, <2>3, <2>5, AnswerKeepsIndex
<1>3. ASSUME IndexReset PROVE IndexInv'
  BY <1>3, ResetKeepsIndex
<1>4. ASSUME IndexDelete PROVE IndexInv'
  BY <1>4, ReadingKeepsStore DEF IndexDelete, IndexInv
<1> QED BY <1>1, <1>2, <1>3, <1>4 DEF UseIndex

LEMMA IndexInvStart == IndexedInit => IndexInv
BY StoreInit DEF IndexedInit, NoneYet, IndexInv

LEMMA IndexInvStep ==
  ASSUME IsFiniteSet(Node), IndexInv, [IndexedNext]_indexedVars
  PROVE  IndexInv'
<1>1. ASSUME Change PROVE IndexInv'
  <2>1. DataNext /\ index = NoIndex /\ index' = index
    BY <1>1 DEF Change, MayChange, DataNext, indexVars
  <2> QED BY <2>1, StoreNext DEF IndexInv
<1>2. ASSUME Deleted PROVE IndexInv'
  <2>1. DataNext /\ ~Idle /\ index' = index
    BY <1>2 DEF Deleted, DataNext, Deletion, Deleting, DeleteChild, Free, indexVars
  <2> QED BY <2>1, StoreNext DEF IndexInv
<1>3. ASSUME MakeIndex PROVE IndexInv'
  BY <1>3, NewKeepsIndex DEF MakeIndex
<1>4. ASSUME UseIndex PROVE IndexInv'
  BY <1>4, UseKeepsIndex
<1>5. ASSUME UNCHANGED indexedVars PROVE IndexInv'
  <2>1. UNCHANGED <<nodeVars, dataVars>> /\ index' = index /\ asked' = asked /\ found' = found
    BY <1>5 DEF indexedVars, indexVars
  <2>2. StoreInv'
    BY <2>1, StoreNext DEF IndexInv
  <2>3. /\ Tree' = Tree /\ Idle' = Idle
        /\ \A top, nm, a : Gathered(top, nm, a)' = Gathered(top, nm, a)
    BY <2>1, NothingElse
  <2>4. Indexed' = Indexed
    <3>1. Indexed' = Gathered(index.top, index.element, index.ind.attr)'
      BY DEF Indexed, Gathered
    <3>2. Gathered(index.top, index.element, index.ind.attr)' = Indexed
      BY <2>1, <2>3, IndexedIsGathered DEF Gathered
    <3> QED BY <3>1, <3>2
  <2>5. name' = name
    BY <2>1 DEF dataVars
  <2>6. ASSUME index # NoIndex PROVE IndexMade' /\ Searching'
    <3>1. IndexMade'
      BY <2>1, <2>3, <2>4, <2>6 DEF IndexInv, IndexMade, Lists, Ascends
    <3>2. Searching'
      BY <2>1, <2>3, <2>4, <2>5, <2>6 DEF IndexInv, Searching, SearchState, Fits, Told
    <3> QED BY <3>1, <3>2
  <2> QED BY <2>1, <2>2, <2>3, <2>6 DEF IndexInv
<1> QED BY <1>1, <1>2, <1>3, <1>4, <1>5 DEF IndexedNext

(* From a reset to the NULL that ends it, a search of an index returns     *)
(* every node of the indexed tree that matches, each once: however large   *)
(* the index is and in whatever order index_new met its nodes, index_sort  *)
(* puts those that match side by side and the binary search of             *)
(* mxmlIndexFind finds the first of them.                                  *)
THEOREM IndexAlwaysFinds ==
  ASSUME IsFiniteSet(Node)
  PROVE  IndexedSpec => []IndexFinds
<1>1. IndexInv => IndexFinds
  <2> SUFFICES ASSUME IndexInv, Ended, Answerable(asked)
               PROVE  /\ ToSet(Front(found)) =
                           {n \in Indexed : Matches(Tree, n, asked.element, index.ind.attr, asked.value)}
                      /\ IsInjective(Front(found))
    BY DEF IndexFinds
  <2>1. index # NoIndex /\ found # <<>> /\ Last(found) = NULL
    BY DEF Ended
  <2>2. StoreInv /\ IndexMade /\ Searching
    BY <2>1 DEF IndexInv
  <2>3. PICK top, nm, attr, ind : top = index.top /\ nm = index.element /\ attr = index.ind.attr /\ ind = index.ind
    OBVIOUS
  <2>4. PICK S : S = Gathered(top, nm, attr)
    OBVIOUS
  <2>5. Indexed = S /\ ind.attr = attr
    BY <2>3, <2>4, IndexedIsGathered
  <2>6. asked # NoIndex /\ asked \in Queries
    BY <2>1, <2>2 DEF Searching, SearchState
  <2>7. PICK element, value : element = asked.element /\ value = asked.value
    OBVIOUS
  <2>8. Fits(S, attr, element, value)
    <3>1. element \in Names \cup {NULL} /\ value \in Values \cup {NULL}
      BY <2>6, <2>7 DEF Queries
    <3>2. (value # NULL => attr # NULL) /\ (value # NULL /\ element = NULL => \A m, n \in S : name[m] = name[n])
      BY <2>3, <2>5, <2>7 DEF Answerable
    <3> QED BY <3>1, <3>2, TextsAssumption DEF Fits
  <2>9. Texts(S, attr)
    BY <2>2, <2>4, GatheredTexts
  <2>10. Lists(ind.nodes, S)
    BY <2>2, <2>3, <2>5 DEF IndexMade
  <2>11. PICK n, d : n = Len(ind.nodes) /\ d = Told(ind, element, value)
    OBVIOUS
  <2>12. found \in Seq(Node \cup {NULL}) /\ HasEnded(n, d, ind.nodes, found)
    BY <2>1, <2>2, <2>3, <2>5, <2>6, <2>7, <2>8, <2>11 DEF Searching, SearchState
  <2>13. PICK fnd : fnd = found
    OBVIOUS
  <2>14. fnd \in Seq(Node \cup {NULL}) /\ HasEnded(n, d, ind.nodes, fnd)
    BY <2>12, <2>13
  <2>15. /\ ToSet(Front(fnd)) = {x \in S : Matches(Tree, x, element, attr, value)}
         /\ IsInjective(Front(fnd))
    BY <2>4, <2>5, <2>8, <2>9, <2>10, <2>11, <2>14, SearchAnswersAll
  <2> QED BY <2>3, <2>5, <2>7, <2>13, <2>15
<1>2. IndexInv /\ [IndexedNext]_indexedVars => IndexInv'
  BY IndexInvStep
<1> QED BY <1>1, <1>2, IndexInvStart, PTL DEF IndexedSpec
=============================================================================
