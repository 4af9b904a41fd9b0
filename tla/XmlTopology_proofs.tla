------------------------- MODULE XmlTopology_proofs -------------------------
(***************************************************************************)
(* For every set of documents whose nodes are numbered in the order of the *)
(* text, and whatever the routes in them lead to: the getters of           *)
(* XmlParser.c give out each item as a whole.                              *)
(***************************************************************************)
EXTENDS XmlTopology, SequenceTheorems, WellFoundedInduction, TLAPS

(* A non-empty set of naturals has a least element.                        *)
LEMMA LeastElement ==
  ASSUME NEW S \in SUBSET Nat, S # {}
  PROVE  \E m \in S : \A k \in S : m <= k
<1>1. IsWellFoundedOn(OpToRel(<, Nat), Nat)
  BY NatLessThanWellFounded
<1>2. PICK m \in S : \A y \in S : << y, m >> \notin OpToRel(<, Nat)
  BY <1>1, WFMin
<1>3. \A k \in S : ~(k < m)
  BY <1>2 DEF OpToRel
<1> QED
  BY <1>3

(***************************************************************************)
(* Functions defined by recursion along a chain that ends: no set of       *)
(* points is one the chain never leaves.                                   *)
(***************************************************************************)
Ends(D, Stop, succ) == \A S \in SUBSET (D \ Stop) : S # {} => \E x \in S : succ[x] \notin S
Recursive(F, D, Stop, succ, base, step) ==
  \A x \in D : F[x] = IF x \in Stop THEN base[x] ELSE step[<<x, F[succ[x]]>>]

LEMMA Recursion ==
  ASSUME NEW D, NEW Stop, NEW V, NEW succ, Ends(D, Stop, succ),
         \A x \in D \ Stop : succ[x] \in D,
         NEW base \in [D -> V], NEW step \in [D \X V -> V]
  PROVE  \E F \in [D -> V] : Recursive(F, D, Stop, succ, base, step)
(* The least relation that has the pairs of the definition is a function.  *)
<1> DEFINE Closed_(Q) == \A x \in D : /\ x \in Stop => <<x, base[x]>> \in Q
                                      /\ x \notin Stop => \A v \in V :
                                           <<succ[x], v>> \in Q => <<x, step[<<x, v>>]>> \in Q
           R == {e \in D \X V : \A Q \in SUBSET (D \X V) : Closed_(Q) => e \in Q}
           Only(x, v) == v \in V /\ <<x, v>> \in R /\ \A w \in V : <<x, w>> \in R => w = v
           Bad == {x \in D : ~ \E v \in V : Only(x, v)}
<1>1. R \in SUBSET (D \X V) /\ \A Q \in SUBSET (D \X V) : Closed_(Q) => R \subseteq Q
  OBVIOUS
<1>2. Closed_(R)
  <2> SUFFICES ASSUME NEW x \in D
               PROVE  /\ x \in Stop => <<x, base[x]>> \in R
                      /\ x \notin Stop => \A v \in V : <<succ[x], v>> \in R => <<x, step[<<x, v>>]>> \in R
    OBVIOUS
  <2>1. ASSUME x \in Stop PROVE <<x, base[x]>> \in R
    BY <2>1
  <2>2. ASSUME x \notin Stop, NEW v \in V, <<succ[x], v>> \in R PROVE <<x, step[<<x, v>>]>> \in R
    <3>1. <<x, step[<<x, v>>]>> \in D \X V
      OBVIOUS
    <3>2. ASSUME NEW Q \in SUBSET (D \X V), Closed_(Q) PROVE <<x, step[<<x, v>>]>> \in Q
      <4>1. <<succ[x], v>> \in Q
        BY <2>2, <3>2
      <4> QED BY <2>2, <3>2, <4>1
    <3> QED BY <3>1, <3>2
  <2> QED BY <2>1, <2>2
(* Whatever is not needed at one point can be left out. *)
<1>3. ASSUME NEW x \in D, NEW v \in V, <<x, v>> \in R,
             x \in Stop => v = base[x],
             x \notin Stop => \A u \in V : <<succ[x], u>> \in R => step[<<x, u>>] = v
      PROVE  Only(x, v)
  <2> DEFINE Q == {e \in R : e[1] = x => e[2] = v}
  <2>1. Q \in SUBSET (D \X V)
    BY <1>1
  <2>2. ASSUME NEW y \in D
        PROVE  /\ y \in Stop => <<y, base[y]>> \in Q
               /\ y \notin Stop => \A u \in V : <<succ[y], u>> \in Q => <<y, step[<<y, u>>]>> \in Q
    <3>1. ASSUME y \in Stop PROVE <<y, base[y]>> \in Q
      BY <1>2, <1>3, <3>1
    <3>2. ASSUME y \notin Stop, NEW u \in V, <<succ[y], u>> \in Q PROVE <<y, step[<<y, u>>]>> \in Q
      <4>1. <<succ[y], u>> \in R
        BY <3>2
      <4>2. <<y, step[<<y, u>>]>> \in R
        BY <1>2, <3>2, <4>1
      <4>3. y = x => step[<<y, u>>] = v
        BY <1>3, <3>2, <4>1
      <4> QED BY <4>2, <4>3
    <3> QED BY <3>1, <3>2
  <2>3. R \subseteq Q
    BY <1>1, <2>1, <2>2
  <2> QED BY <1>3, <2>3
<1> HIDE DEF R
<1>4. Bad = {}
  <2> SUFFICES ASSUME Bad # {} PROVE FALSE
    OBVIOUS
  <2>1. \A x \in Bad : x \notin Stop
    BY <1>2, <1>3
  <2>2. PICK x \in Bad : succ[x] \notin Bad
    BY <2>1 DEF Ends
  <2>3. x \in D /\ x \notin Stop /\ succ[x] \in D
    BY <2>1
  <2>4. PICK u \in V : Only(succ[x], u)
    BY <2>2, <2>3
  <2>5. step[<<x, u>>] \in V /\ <<x, step[<<x, u>>]>> \in R
    BY <1>2, <2>3, <2>4
  <2>6. \A w \in V : <<succ[x], w>> \in R => step[<<x, w>>] = step[<<x, u>>]
    BY <2>4
  <2>7. Only(x, step[<<x, u>>])
    <3> DEFINE s == step[<<x, u>>]
    <3>1. s \in V /\ <<x, s>> \in R /\ \A w \in V : <<succ[x], w>> \in R => step[<<x, w>>] = s
      BY <2>5, <2>6
    <3> HIDE DEF s
    <3>2. Only(x, s)
      BY <1>3, <2>3, <3>1
    <3> QED BY <3>2 DEF s
  <2> QED BY <2>5, <2>7
<1> DEFINE F == [x \in D |-> CHOOSE v \in V : Only(x, v)]
<1>5. \A x \in D : F[x] \in V /\ Only(x, F[x])
  BY <1>4
<1>6. F \in [D -> V]
  BY <1>5
<1> HIDE DEF F
<1>7. ASSUME NEW x \in D PROVE F[x] = IF x \in Stop THEN base[x] ELSE step[<<x, F[succ[x]]>>]
  <2>1. CASE x \in Stop
    BY <1>2, <1>5, <2>1
  <2>2. CASE x \notin Stop
    <3>1. succ[x] \in D /\ F[succ[x]] \in V /\ <<succ[x], F[succ[x]]>> \in R
      BY <1>5, <2>2
    <3>2. <<x, step[<<x, F[succ[x]]>>]>> \in R /\ step[<<x, F[succ[x]]>>] \in V
      BY <1>2, <2>2, <3>1
    <3> QED BY <1>5, <2>2, <3>2
  <2> QED BY <2>1, <2>2
<1> QED BY <1>6, <1>7 DEF Recursive

(***************************************************************************)
(* Numbers that only fall, or only rise to a bound, come to an end.        *)
(***************************************************************************)
LEMMA FallingEnds ==
  ASSUME NEW D \in SUBSET Nat, NEW Stop, NEW succ, \A x \in D \ Stop : succ[x] \in Nat /\ succ[x] < x
  PROVE  Ends(D, Stop, succ)
<1> SUFFICES ASSUME NEW S \in SUBSET (D \ Stop), S # {} PROVE \E x \in S : succ[x] \notin S
  BY DEF Ends
<1>1. PICK x \in S : \A y \in S : x <= y
  BY LeastElement
<1>2. succ[x] \in Nat /\ succ[x] < x /\ x \in Nat
  OBVIOUS
<1> QED BY <1>1, <1>2

LEMMA RisingEnds ==
  ASSUME NEW N \in Nat, NULL \notin Nat, NEW Stop, NULL \in Stop, NEW succ,
         \A x \in 1 .. N : x \notin Stop => succ[x] = NULL \/ (succ[x] \in 1 .. N /\ x < succ[x])
  PROVE  Ends((1 .. N) \cup {NULL}, Stop, succ)
<1> DEFINE D == (1 .. N) \cup {NULL}
<1> SUFFICES ASSUME NEW S \in SUBSET (D \ Stop), S # {} PROVE \E x \in S : succ[x] \notin S
  BY DEF Ends
<1>1. S \subseteq 1 .. N /\ S \cap Stop = {}
  OBVIOUS
<1> HIDE DEF D
<1> DEFINE R == {k \in Nat : \E x \in S : k = N - x}
<1>2. R # {}
  <2>1. PICK x \in S : TRUE
    OBVIOUS
  <2>2. x \in 1 .. N /\ N - x \in Nat
    BY <1>1, <2>1
  <2> QED BY <2>2
<1>3. PICK k \in R : \A j \in R : k <= j
  BY <1>2, LeastElement
<1>4. PICK x \in S : k = N - x
  BY <1>3
<1>5. x \in 1 .. N /\ x \notin Stop
  BY <1>1
<1>6. ASSUME succ[x] \in S PROVE FALSE
  <2>1. succ[x] \in 1 .. N /\ x < succ[x]
    BY <1>1, <1>5, <1>6
  <2>2. N - succ[x] \in R
    BY <1>6, <2>1
  <2>3. k <= N - succ[x]
    BY <1>3, <2>2
  <2> QED BY <1>4, <1>5, <2>1, <2>3
<1> QED BY <1>6

(***************************************************************************)
(* The walks and searches of mxml-search.c on a document.                  *)
(***************************************************************************)
Nodes(t) == 1 .. Len(t.kind)
(* No node, or one behind n in the text.                                   *)
Behind(t, n) == {m \in Nodes(t) : n < m} \cup {NULL}

LEMMA NodeFacts ==
  ASSUME NEW t, InTextOrder(t)
  PROVE  /\ Len(t.kind) \in Nat /\ DOMAIN t.kind = Nodes(t)
         /\ \A n \in Nodes(t) :
              /\ t.links.child[n] \in Nodes(t) \cup {NULL}
              /\ t.links.next[n] \in Nodes(t) \cup {NULL}
              /\ t.links.parent[n] \in Nodes(t) \cup {NULL}
              /\ LastBelow(t, n) \in Nat /\ n <= LastBelow(t, n)
              /\ t.links.child[n] # NULL => n < t.links.child[n]
              /\ t.links.next[n] # NULL => LastBelow(t, n) < t.links.next[n]
              /\ t.links.parent[n] # NULL =>
                   t.links.parent[n] < n /\ LastBelow(t, n) <= LastBelow(t, t.links.parent[n])
BY DEF InTextOrder, Nodes

LEMMA AboveIsBehind ==
  ASSUME NEW t, InTextOrder(t), NULL \notin Nat, NEW top, NEW n \in Nodes(t)
  PROVE  NextAbove(t, n, top) \in Behind(t, LastBelow(t, n))
<1> DEFINE D == Nodes(t)
           V == D \cup {NULL}
           next == t.links.next
           parent == t.links.parent
           Stop == {x \in D : next[x] # NULL \/ parent[x] \in {top, NULL}}
           base == [x \in D |-> next[x]]
           step == [p \in D \X V |-> p[2]]
           Body(g, x) == IF next[x] # NULL THEN next[x]
                         ELSE IF parent[x] \in {top, NULL} THEN NULL ELSE g[parent[x]]
           above == CHOOSE g : g = [x \in DOMAIN t.kind |-> Body(g, x)]
<1>1. /\ DOMAIN t.kind = D /\ D \in SUBSET Nat
      /\ \A x \in D : next[x] \in V /\ parent[x] \in V /\ (parent[x] # NULL => parent[x] < x)
  BY NodeFacts DEF Nodes
<1>2. \A x \in D : /\ LastBelow(t, x) \in Nat
                   /\ next[x] # NULL => LastBelow(t, x) < next[x]
                   /\ parent[x] # NULL => LastBelow(t, x) <= LastBelow(t, parent[x])
  BY NodeFacts
<1>3. NextAbove(t, n, top) = above[n]
  BY DEF NextAbove
<1> HIDE DEF next, parent, D
<1>4. Ends(D, Stop, parent)
  <2>1. \A x \in D \ Stop : parent[x] \in Nat /\ parent[x] < x
    BY <1>1
  <2> HIDE DEF Stop
  <2> QED BY <1>1, <2>1, FallingEnds
<1>5. \A x \in D \ Stop : parent[x] \in D
  BY <1>1
<1>6. base \in [D -> V] /\ step \in [D \X V -> V] /\ \A x \in D, v \in V : step[<<x, v>>] = v
  BY <1>1
<1>7. \A x \in D : base[x] = next[x]
  OBVIOUS
<1> HIDE DEF V, base, step
<1>8. PICK F \in [D -> V] : Recursive(F, D, Stop, parent, base, step)
  BY <1>4, <1>5, <1>6, Recursion
<1>9. \A x \in D : F[x] = Body(F, x)
  BY <1>5, <1>6, <1>7, <1>8 DEF Recursive
<1>10. F = [x \in DOMAIN t.kind |-> Body(F, x)]
  BY <1>1, <1>9
<1>11. above = [x \in DOMAIN t.kind |-> Body(above, x)]
  BY <1>10
<1> HIDE DEF above
<1>12. \A x \in D : above[x] = Body(above, x)
  BY <1>1, <1>11
<1> DEFINE Bad == {x \in D : above[x] \notin Behind(t, LastBelow(t, x))}
<1>13. Bad = {}
  <2> SUFFICES ASSUME Bad # {} PROVE FALSE
    OBVIOUS
  <2>1. PICK x \in Bad : \A y \in Bad : x <= y
    BY <1>1, LeastElement
  <2>2. x \in D /\ x \in Nat /\ above[x] = Body(above, x)
    BY <1>1, <1>12
  <2>3. CASE next[x] # NULL
    BY <1>1, <1>2, <2>2, <2>3 DEF Behind, V, D
  <2>4. CASE next[x] = NULL /\ parent[x] \in {top, NULL}
    BY <2>2, <2>4 DEF Behind
  <2>5. CASE next[x] = NULL /\ parent[x] \notin {top, NULL}
    <3>1. parent[x] \in D /\ parent[x] \in Nat /\ parent[x] < x
      BY <1>1, <2>2, <2>5 DEF V
    <3>2. ~(x <= parent[x])
      BY <2>2, <3>1
    <3>3. above[parent[x]] \in Behind(t, LastBelow(t, parent[x]))
      BY <2>1, <3>1, <3>2
    <3>4. LastBelow(t, x) <= LastBelow(t, parent[x]) /\ LastBelow(t, x) \in Nat /\ LastBelow(t, parent[x]) \in Nat
      BY <1>2, <2>2, <2>5, <3>1
    <3>5. above[x] = above[parent[x]]
      BY <2>2, <2>5
    <3>6. above[x] \in Behind(t, LastBelow(t, x))
      BY <3>3, <3>4, <3>5 DEF Behind, Nodes
    <3> QED BY <3>6
  <2> QED BY <2>3, <2>4, <2>5
<1> QED BY <1>3, <1>13 DEF D

LEMMA WalkIsBehind ==
  ASSUME NEW t, InTextOrder(t), NULL \notin Nat, NEW top, NEW descend, NEW n \in Nodes(t)
  PROVE  WalkNext(t, n, top, descend) \in Behind(t, n)
<1> DEFINE child == t.links.child[n]
           next == t.links.next[n]
           parent == t.links.parent[n]
           last == LastBelow(t, n)
<1>1. /\ n \in Nat /\ last \in Nat /\ n <= last
      /\ child \in Nodes(t) \cup {NULL} /\ next \in Nodes(t) \cup {NULL} /\ parent \in Nodes(t) \cup {NULL}
      /\ child # NULL => n < child
      /\ next # NULL => last < next
      /\ parent # NULL => last <= LastBelow(t, parent)
  BY NodeFacts DEF Nodes
<1>2. n # NULL /\ Nodes(t) \subseteq Nat
  BY <1>1 DEF Nodes
<1>3. CASE child # NULL /\ descend # "none"
  BY <1>1, <1>2, <1>3 DEF WalkNext, Behind
<1>4. CASE ~(child # NULL /\ descend # "none") /\ n # top /\ next # NULL
  <2>1. WalkNext(t, n, top, descend) = next
    BY <1>2, <1>4 DEF WalkNext
  <2> HIDE DEF next, last
  <2>2. next \in Nodes(t) /\ next \in Nat /\ n < next
    BY <1>1, <1>2, <1>4
  <2> QED BY <2>1, <2>2 DEF Behind
<1>5. CASE ~(child # NULL /\ descend # "none") /\ n # top /\ next = NULL /\ parent \notin {top, NULL}
  <2>1. WalkNext(t, n, top, descend) = NextAbove(t, parent, top)
    BY <1>2, <1>5 DEF WalkNext
  <2>2. parent \in Nodes(t)
    BY <1>1, <1>5
  <2>3. NextAbove(t, parent, top) \in Behind(t, LastBelow(t, parent)) /\ LastBelow(t, parent) \in Nat
    BY <2>2, AboveIsBehind, NodeFacts
  <2>4. n <= LastBelow(t, parent)
    BY <1>1, <1>5, <2>3
  <2> HIDE DEF parent
  <2> QED BY <1>1, <1>2, <2>1, <2>3, <2>4 DEF Behind
<1>6. CASE ~(child # NULL /\ descend # "none") /\ (n = top \/ (next = NULL /\ parent \in {top, NULL}))
  BY <1>2, <1>6 DEF WalkNext, Behind
<1> QED BY <1>3, <1>4, <1>5, <1>6

LEMMA MatchIsBehind ==
  ASSUME NEW t, InTextOrder(t), NULL \notin Nat, NEW top, NEW nm, NEW a, NEW v, NEW descend,
         NEW m \in Nodes(t), NEW n \in Behind(t, m)
  PROVE  FirstMatch(t, n, top, nm, a, v, descend) \in Behind(t, m)
<1> DEFINE N == Len(t.kind)
           D == (1 .. N) \cup {NULL}
           After(x) == IF descend = "all" THEN WalkNext(t, x, top, "all") ELSE t.links.next[x]
           Stop == {x \in D : IF x = NULL THEN TRUE ELSE Matches(t, x, nm, a, v)}
           succ == [x \in D |-> After(x)]
           base == [x \in D |-> x]
           step == [p \in D \X D |-> p[2]]
           Body(g, x) == IF IF x = NULL THEN TRUE ELSE Matches(t, x, nm, a, v) THEN x ELSE g[After(x)]
           from == CHOOSE g : g = [x \in DOMAIN t.kind \cup {NULL} |-> Body(g, x)]
<1>1. N \in Nat /\ DOMAIN t.kind \cup {NULL} = D /\ Nodes(t) = 1 .. N
  BY NodeFacts DEF Nodes
<1>2. ASSUME NEW x \in 1 .. N PROVE After(x) = NULL \/ (After(x) \in 1 .. N /\ x < After(x))
  <2>1. WalkNext(t, x, top, "all") \in Behind(t, x)
    BY <1>1, <1>2, WalkIsBehind
  <2>2. t.links.next[x] = NULL \/ (t.links.next[x] \in 1 .. N /\ x < t.links.next[x])
    <3>1. LastBelow(t, x) \in Nat /\ x <= LastBelow(t, x) /\ t.links.next[x] \in Nodes(t) \cup {NULL}
          /\ (t.links.next[x] # NULL => LastBelow(t, x) < t.links.next[x])
      BY <1>1, <1>2, NodeFacts
    <3> QED BY <1>1, <3>1
  <2> QED BY <1>1, <2>1, <2>2 DEF Behind
<1>3. FirstMatch(t, n, top, nm, a, v, descend) = from[n]
  BY DEF FirstMatch
<1> HIDE DEF After
<1>4. \A x \in 1 .. N : succ[x] = After(x)
  OBVIOUS
<1>5. NULL \in Stop /\ \A x \in D \ Stop : x \in 1 .. N
  OBVIOUS
<1> HIDE DEF succ
<1>6. Ends(D, Stop, succ)
  <2>1. \A x \in 1 .. N : x \notin Stop => succ[x] = NULL \/ (succ[x] \in 1 .. N /\ x < succ[x])
    BY <1>2, <1>4
  <2> HIDE DEF Stop, N
  <2> QED BY <1>1, <1>5, <2>1, RisingEnds
<1>7. \A x \in D \ Stop : succ[x] \in D
  BY <1>2, <1>4, <1>5
<1>8. base \in [D -> D] /\ step \in [D \X D -> D]
      /\ \A x \in D, y \in D : base[x] = x /\ step[<<x, y>>] = y
  OBVIOUS
<1> HIDE DEF base, step
<1>9. PICK F \in [D -> D] : Recursive(F, D, Stop, succ, base, step)
  BY <1>6, <1>7, <1>8, Recursion
<1>10. \A x \in D : F[x] = Body(F, x)
  <2> SUFFICES ASSUME NEW x \in D PROVE F[x] = Body(F, x)
    OBVIOUS
  <2>1. CASE x \in Stop
    BY <1>8, <1>9, <2>1 DEF Recursive
  <2>2. CASE x \notin Stop
    <3>1. succ[x] = After(x) /\ succ[x] \in D /\ x \in 1 .. N
      BY <1>4, <1>5, <1>7, <2>2
    <3>2. F[x] = step[<<x, F[succ[x]]>>] /\ F[succ[x]] \in D
      BY <1>9, <2>2, <3>1 DEF Recursive
    <3>3. F[x] = F[After(x)]
      BY <1>8, <3>1, <3>2
    <3> QED BY <2>2, <3>3
  <2> QED BY <2>1, <2>2
<1> HIDE DEF D
<1>11. F = [x \in DOMAIN t.kind \cup {NULL} |-> Body(F, x)]
  BY <1>1, <1>10
<1>12. from = [x \in DOMAIN t.kind \cup {NULL} |-> Body(from, x)]
  BY <1>11
<1> HIDE DEF from
<1>13. \A x \in D : from[x] = Body(from, x)
  BY <1>1, <1>12
<1> DEFINE Bad == {x \in D : x \in Behind(t, m) /\ from[x] \notin Behind(t, m)}
<1>14. Bad = {}
  <2> SUFFICES ASSUME Bad # {} PROVE FALSE
    OBVIOUS
  <2>1. \A x \in Bad : x \notin Stop
    BY <1>13 DEF Stop
  <2>2. PICK x \in Bad : succ[x] \notin Bad
    BY <1>6, <2>1 DEF Ends
  <2>3. x \in D /\ x \notin Stop /\ x \in 1 .. N /\ succ[x] = After(x) /\ succ[x] \in D
    BY <1>4, <1>5, <1>7, <2>1, <2>2
  <2>4. from[x] = from[After(x)]
    BY <1>13, <2>3 DEF Stop
  <2>5. x \in Nodes(t) /\ m < x
    BY <1>1, <2>2, <2>3 DEF Behind
  <2>6. After(x) \in Behind(t, m)
    <3>1. After(x) = NULL \/ (After(x) \in 1 .. N /\ x < After(x))
      BY <1>2, <2>3
    <3> HIDE DEF N
    <3> QED BY <1>1, <2>5, <3>1 DEF Behind
  <2> QED BY <2>2, <2>3, <2>4, <2>6
<1>15. n \in D
  BY <1>1 DEF Behind, D
<1> QED BY <1>3, <1>14, <1>15

LEMMA FindIsBehind ==
  ASSUME NEW t, InTextOrder(t), NULL \notin Nat, NEW n \in Nodes(t),
         NEW top, NEW nm, NEW a, NEW v, NEW descend
  PROVE  FindElement(t, n, top, nm, a, v, descend) \in Behind(t, n)
<1>1. CASE n = NULL \/ top = NULL \/ (a = NULL /\ v # NULL)
  BY <1>1 DEF FindElement, Behind
<1>2. CASE ~(n = NULL \/ top = NULL \/ (a = NULL /\ v # NULL))
  BY <1>2, WalkIsBehind, MatchIsBehind DEF FindElement
<1> QED BY <1>1, <1>2

LEMMA FindIsNode ==
  ASSUME NEW t, InTextOrder(t), NULL \notin Nat, NEW n \in Nodes(t) \cup {NULL},
         NEW top, NEW nm, NEW a, NEW v, NEW descend
  PROVE  FindElement(t, n, top, nm, a, v, descend) \in Nodes(t) \cup {NULL}
<1>1. CASE n = NULL
  BY <1>1 DEF FindElement
<1>2. CASE n \in Nodes(t)
  BY <1>2, FindIsBehind DEF Behind
<1> QED BY <1>1, <1>2

(***************************************************************************)
(* The document that is loaded, and the lists parseXml makes of it.        *)
(***************************************************************************)
Elements == Nodes(T)

LEMMA DocumentFacts ==
  ASSUME doc \in DOMAIN Library
  PROVE  /\ InTextOrder(T) /\ NULL \notin Nat /\ root \in Elements
         /\ \A nm : \A n \in Elements \cup {NULL} : FirstBelow(n, nm) \in Elements \cup {NULL}
<1>1. InTextOrder(T) /\ NULL \notin Nat /\ root \in Elements
  <2>1. InTextOrder(T) /\ NULL \notin Nat /\ root \in DOMAIN T.kind
    BY DocsAssumption DEF T, root
  <2> QED BY <2>1, NodeFacts DEF Elements
<1> QED BY <1>1, FindIsNode DEF FirstBelow, Elements

LEMMA EntriesListed ==
  ASSUME doc \in DOMAIN Library, NEW description \in Elements \cup {NULL}, NEW descend
  PROVE  Entries(description, descend) \in Seq(Elements)
<1> DEFINE N == Len(T.kind)
           D == (1 .. N) \cup {NULL}
           V == Seq(Elements)
           Following(x) == FindElement(T, x, description, NULL, NULL, NULL, "none")
           succ == [x \in D |-> Following(x)]
           base == [x \in D |-> <<>>]
           step == [p \in D \X V |-> IF p[1] = NULL THEN <<>> ELSE <<p[1]>> \o p[2]]
           Body(g, x) == IF x = NULL THEN <<>> ELSE <<x>> \o g[Following(x)]
           from == CHOOSE g : g = [x \in DOMAIN T.kind \cup {NULL} |-> Body(g, x)]
           first == FindElement(T, description, root, NULL, NULL, NULL, descend)
<1>1. N \in Nat /\ DOMAIN T.kind \cup {NULL} = D /\ Elements = 1 .. N /\ NULL \notin Nat
  BY DocumentFacts, NodeFacts DEF Nodes, Elements
<1>2. \A x \in 1 .. N : Following(x) = NULL \/ (Following(x) \in 1 .. N /\ x < Following(x))
  <2> SUFFICES ASSUME NEW x \in 1 .. N
               PROVE  Following(x) = NULL \/ (Following(x) \in 1 .. N /\ x < Following(x))
    OBVIOUS
  <2>1. Following(x) \in Behind(T, x)
    BY <1>1, DocumentFacts, FindIsBehind DEF Elements
  <2> QED BY <1>1, <2>1 DEF Behind, Elements
<1>3. Entries(description, descend) = from[first]
  BY DEF Entries
<1>4. first \in D
  <2>1. first \in Elements \cup {NULL}
    BY DocumentFacts, FindIsNode DEF Elements
  <2> QED BY <1>1, <2>1
<1> HIDE DEF Following, first
<1>5. \A x \in 1 .. N : succ[x] = Following(x)
  OBVIOUS
<1> HIDE DEF succ
<1>6. Ends(D, {NULL}, succ)
  <2>1. \A x \in 1 .. N : x \notin {NULL} => succ[x] = NULL \/ (succ[x] \in 1 .. N /\ x < succ[x])
    BY <1>2, <1>5
  <2> HIDE DEF N
  <2> QED BY <1>1, <2>1, RisingEnds
<1>7. \A x \in D \ {NULL} : succ[x] \in D
  BY <1>2, <1>5
<1>8. base \in [D -> V] /\ step \in [D \X V -> V] /\ base[NULL] = <<>>
      /\ \A x \in 1 .. N, w \in V : step[<<x, w>>] = <<x>> \o w
  <2>1. \A x \in 1 .. N, w \in V : <<x>> \o w \in V
    BY <1>1
  <2>2. base \in [D -> V] /\ step \in [D \X V -> V] /\ base[NULL] = <<>>
    BY <2>1
  <2>3. ASSUME NEW x \in 1 .. N, NEW w \in V PROVE step[<<x, w>>] = <<x>> \o w
    <3>1. <<x, w>> \in D \X V /\ x # NULL
      BY <1>1
    <3> HIDE DEF D, V, N
    <3> QED BY <3>1
  <2> QED BY <2>2, <2>3
<1> HIDE DEF base, step
<1>9. PICK F \in [D -> V] : Recursive(F, D, {NULL}, succ, base, step)
  BY <1>6, <1>7, <1>8, Recursion
<1>10. F[NULL] = <<>> /\ \A x \in 1 .. N : F[x] = <<x>> \o F[Following(x)]
  <2>1. F[NULL] = <<>>
    BY <1>8, <1>9 DEF Recursive
  <2>2. ASSUME NEW x \in 1 .. N PROVE F[x] = <<x>> \o F[Following(x)]
    <3>1. x \in D /\ x # NULL /\ succ[x] \in D /\ succ[x] = Following(x)
      BY <1>1, <1>5, <1>7
    <3>2. F[x] = step[<<x, F[succ[x]]>>] /\ F[succ[x]] \in V
      BY <1>9, <3>1 DEF Recursive
    <3> HIDE DEF V
    <3> QED BY <1>8, <3>1, <3>2
  <2> QED BY <2>1, <2>2
<1>11. \A x \in D : F[x] = Body(F, x)
  BY <1>1, <1>10
<1> HIDE DEF D, V
<1>12. F = [x \in DOMAIN T.kind \cup {NULL} |-> Body(F, x)]
  BY <1>1, <1>9, <1>11
<1>13. from = [x \in DOMAIN T.kind \cup {NULL} |-> Body(from, x)]
  BY <1>12
<1> HIDE DEF from
<1>14. \A x \in D : from[x] = Body(from, x)
  BY <1>1, <1>13
<1> DEFINE Bad == {x \in D : from[x] # F[x]}
<1>15. Bad = {}
  <2> SUFFICES ASSUME Bad # {} PROVE FALSE
    OBVIOUS
  <2>1. from[NULL] = <<>> /\ NULL \notin Bad
    BY <1>10, <1>14 DEF D
  <2>2. PICK x \in Bad : succ[x] \notin Bad
    BY <1>6, <2>1 DEF Ends
  <2>3. x \in 1 .. N /\ x # NULL /\ succ[x] = Following(x) /\ succ[x] \in D
    BY <1>5, <1>7, <2>1, <2>2 DEF D
  <2>4. from[x] = <<x>> \o from[Following(x)]
    BY <1>14, <2>2, <2>3
  <2> QED BY <1>10, <2>2, <2>3, <2>4
<1>16. F[first] \in V
  BY <1>4, <1>9
<1> QED BY <1>3, <1>4, <1>15, <1>16 DEF V

(***************************************************************************)
(* Lists of anything.                                                      *)
(***************************************************************************)
IsList(s) == \E A : s \in Seq(A)

LEMMA ListFacts ==
  ASSUME NEW s, IsList(s)
  PROVE  Len(s) \in Nat /\ DOMAIN s = 1 .. Len(s) /\ s = [i \in 1 .. Len(s) |-> s[i]]
<1>1. PICK A : s \in Seq(A)
  BY DEF IsList
<1> QED BY <1>1

LEMMA TableIsList ==
  ASSUME NEW n \in Nat, NEW s, DOMAIN s = 1 .. n, s = [i \in 1 .. n |-> s[i]]
  PROVE  IsList(s) /\ Len(s) = n
<1> DEFINE A == {s[i] : i \in 1 .. n}
<1>1. s \in [1 .. n -> A]
  OBVIOUS
<1>2. s \in Seq(A) /\ Len(s) = n
  <2> HIDE DEF A
  <2> QED BY <1>1
<1> QED BY <1>2 DEF IsList

LEMMA EmptyIsList == IsList(<<>>) /\ Len(<<>>) = 0
<1>1. <<>> \in Seq({})
  OBVIOUS
<1> QED BY <1>1 DEF IsList

LEMMA AppendFacts ==
  ASSUME NEW s, IsList(s), NEW e
  PROVE  /\ IsList(Append(s, e)) /\ Len(Append(s, e)) = Len(s) + 1
         /\ \A i \in 1 .. Len(s) : Append(s, e)[i] = s[i]
         /\ Append(s, e)[Len(s) + 1] = e
<1>1. PICK A : s \in Seq(A)
  BY DEF IsList
<1>2. s \in Seq(A \cup {e}) /\ e \in A \cup {e}
  BY <1>1
<1> HIDE DEF IsList
<1>3. Append(s, e) \in Seq(A \cup {e})
  BY <1>2
<1>4. IsList(Append(s, e))
  BY <1>3 DEF IsList
<1> QED BY <1>1, <1>2, <1>4

(***************************************************************************)
(* Going round: what comes after the entries read so far.                  *)
(***************************************************************************)
OnTheWay(seq, whole, c) ==
  Len(seq) # 0 =>
    \E k \in 0 .. Len(whole) - 1 :
       /\ \A i \in 1 .. Len(seq) : seq[i] = whole[((i + k - 1) % Len(whole)) + 1]
       /\ c = ((Len(seq) + k - 1) % Len(whole)) + 1

LEMMA Division ==
  ASSUME NEW m \in Nat, m # 0, NEW x \in Int
  PROVE  \E q \in Int : x = q * m + (x % m) /\ (x % m) \in 0 .. m - 1
<1>1. x \div m \in Int
  OBVIOUS
<1>2. x = m * (x \div m) + (x % m)
  BY Z3
<1>3. (x % m) \in 0 .. m - 1
  OBVIOUS
<1>4. m * (x \div m) = (x \div m) * m
  BY <1>1
<1> QED BY <1>1, <1>2, <1>3, <1>4

LEMMA Remainders ==
  ASSUME NEW m \in Nat, m # 0, NEW a \in Nat
  PROVE  /\ a % m \in 0 .. m - 1
         /\ a < m => a % m = a
         /\ ((a % m) + 1) % m = (a + 1) % m
<1>1. a % m \in 0 .. m - 1
  BY Z3
<1>2. a < m => a % m = a
  BY Z3
<1>3. ((a % m) + 1) % m = (a + 1) % m
  <2> DEFINE r == a % m
             s == (a + 1) % m
             t == (r + 1) % m
  <2>1. PICK p \in Int : a = p * m + r /\ r \in 0 .. m - 1
    <3>1. a \in Int
      OBVIOUS
    <3> QED BY <3>1, Division
  <2>2. PICK q \in Int : a + 1 = q * m + s /\ s \in 0 .. m - 1
    <3>1. a + 1 \in Int
      OBVIOUS
    <3> QED BY <3>1, Division
  <2>3. PICK u \in Int : r + 1 = u * m + t /\ t \in 0 .. m - 1
    <3>1. r + 1 \in Int
      BY <2>1
    <3> QED BY <3>1, Division
  <2> HIDE DEF r, s, t
  <2> DEFINE d == q - p - u
  <2>4. d * m = q * m - p * m - u * m
    OBVIOUS
  <2>5. d * m = t - s
    BY <2>1, <2>2, <2>3, <2>4
  <2>6. d * m < m /\ 0 - m < d * m /\ d \in Int
    BY <2>2, <2>3, <2>5
  <2>7. d = 0
    <3> HIDE DEF d
    <3>1. d >= 1 => d * m >= m
      BY <2>6
    <3>2. d <= -1 => d * m <= 0 - m
      BY <2>6
    <3> QED BY <2>6, <3>1, <3>2
  <2>8. t = s
    BY <2>2, <2>3, <2>5, <2>7
  <2> QED BY <2>8 DEF r, s, t
<1> QED BY <1>1, <1>2, <1>3

LEMMA OneMore ==
  ASSUME NEW seq, IsList(seq), NEW whole, IsList(whole), NEW c \in Nat,
         Len(seq) < Len(whole), OnTheWay(seq, whole, c),
         NEW e, e = whole[(c % Len(whole)) + 1]
  PROVE  OnTheWay(Append(seq, e), whole, (c % Len(whole)) + 1)
<1> DEFINE m == Len(whole)
           l == Len(seq)
           next == Append(seq, e)
<1>1. l \in Nat /\ m \in Nat /\ m # 0 /\ l < m
  BY ListFacts
<1>2. Len(next) = l + 1 /\ (\A i \in 1 .. l : next[i] = seq[i]) /\ next[l + 1] = e
  BY AppendFacts
<1>3. e = whole[(c % m) + 1]
  OBVIOUS
<1>4. SUFFICES \E k \in 0 .. m - 1 : /\ \A i \in 1 .. l + 1 : next[i] = whole[((i + k - 1) % m) + 1]
                                     /\ (c % m) + 1 = ((l + 1 + k - 1) % m) + 1
  <2>1. Len(next) = l + 1
    BY <1>2
  <2> HIDE DEF next
  <2>2. OnTheWay(next, whole, (c % m) + 1)
    BY <1>4, <2>1 DEF OnTheWay
  <2> QED BY <2>2 DEF next
<1>5. CASE l = 0
  <2> DEFINE k == c % m
  <2>1. k \in 0 .. m - 1
    BY <1>1, Remainders
  <2> HIDE DEF k
  <2>0. k \in Nat /\ k < m /\ k % m = k
    <3>1. k \in Nat /\ k < m
      BY <1>1, <2>1
    <3> HIDE DEF m
    <3> QED BY <1>1, <3>1, Remainders
  <2>2. 1 + k - 1 = k /\ 0 + 1 + k - 1 = k
    BY <2>1, <1>1
  <2>3. next[1] = whole[k + 1]
    BY <1>2, <1>3, <1>5 DEF k
  <2>4. ASSUME NEW i \in 1 .. l + 1 PROVE next[i] = whole[((i + k - 1) % m) + 1]
    <3>1. i = 1
      BY <1>5, <2>4
    <3> QED BY <2>0, <2>2, <2>3, <3>1
  <2>5. (c % m) + 1 = ((l + 1 + k - 1) % m) + 1
    BY <1>5, <2>0, <2>2 DEF k
  <2> QED BY <2>1, <2>4, <2>5
<1>6. CASE l # 0
  <2>1. PICK k \in 0 .. m - 1 : /\ \A i \in 1 .. l : seq[i] = whole[((i + k - 1) % m) + 1]
                                /\ c = ((l + k - 1) % m) + 1
    BY <1>6 DEF OnTheWay
  <2> DEFINE a == l + k - 1
  <2>2. a \in Nat /\ a + 1 = l + k /\ l + 1 + k - 1 = a + 1
    BY <1>1, <1>6, <2>1
  <2>3. c % m = (a + 1) % m
    BY <1>1, <2>1, <2>2, Remainders
  <2>4. ASSUME NEW i \in 1 .. l + 1 PROVE next[i] = whole[((i + k - 1) % m) + 1]
    <3>1. CASE i \in 1 .. l
      BY <1>2, <2>1, <3>1
    <3>2. CASE i = l + 1
      BY <1>2, <1>3, <2>2, <2>3, <3>2
    <3> QED BY <1>1, <3>1, <3>2
  <2> HIDE DEF a, l, m, next
  <2> QED BY <2>1, <2>2, <2>3, <2>4
<1> QED BY <1>5, <1>6

LEMMA AllRead ==
  ASSUME NEW seq, IsList(seq), NEW whole, IsList(whole), NEW c,
         Len(seq) = Len(whole), OnTheWay(seq, whole, c)
  PROVE  GoesRound(seq, whole)
<1>1. Len(seq) \in Nat /\ seq = [i \in 1 .. Len(seq) |-> seq[i]]
  BY ListFacts
<1>2. CASE Len(seq) = 0
  <2>1. seq = FromOneOn(whole, 0)
    BY <1>1, <1>2 DEF FromOneOn
  <2> QED BY <1>2, <2>1 DEF GoesRound
<1>3. CASE Len(seq) # 0
  <2>1. PICK k \in 0 .. Len(whole) - 1 :
               \A i \in 1 .. Len(seq) : seq[i] = whole[((i + k - 1) % Len(whole)) + 1]
    BY <1>3 DEF OnTheWay
  <2>2. seq = FromOneOn(whole, k)
    BY <1>1, <2>1 DEF FromOneOn
  <2> QED BY <1>1, <2>2 DEF GoesRound
<1> QED BY <1>2, <1>3

(***************************************************************************)
(* What parseXml puts into the list.                                       *)
(***************************************************************************)
Single(attrs) == attrs = <<>> \/ \E a, v : attrs = <<[name |-> a, value |-> v]>>
IOSound(n) == IsList(n.tables.lids) /\ Single(n.attrs)
IsDevice(d) ==
  \E id, l, t, i, a, s :
     d = [id |-> id, lid |-> l, type |-> t, interface |-> i, attrs |-> a, ios |-> s]
DeviceSound(d) ==
  /\ IsDevice(d) /\ IsList(d.attrs) /\ IsList(d.ios)
  /\ \A k \in 1 .. Len(d.ios) : IOSound(d.ios[k])
ListSound == IsList(list) /\ \A k \in 1 .. Len(list) : DeviceSound(list[k])
ParseInv ==
  /\ doc \in DOMAIN Library
  /\ dev \in Elements \cup {NULL} /\ io \in Elements \cup {NULL}
  /\ node # NULL => DeviceSound(node)
  /\ ListSound

LEMMA LidsListed ==
  ASSUME NEW rows \in Seq(Elements)
  PROVE  IsList(Lids(rows))
<1>1. Len(rows) \in Nat /\ DOMAIN Lids(rows) = 1 .. Len(rows)
      /\ Lids(rows) = [i \in 1 .. Len(rows) |-> Lids(rows)[i]]
  BY DEF Lids
<1> HIDE DEF Lids
<1> QED BY <1>1, TableIsList

LEMMA TablesListed ==
  ASSUME doc \in DOMAIN Library, NEW nodes \in Seq(Elements)
  PROVE  IsList(TablesOf(nodes).lids)
<1>1. CASE nodes = <<>>
  BY <1>1, EmptyIsList DEF TablesOf
<1>2. CASE nodes # <<>>
  <2>1. Last(nodes) \in Elements
    BY <1>2 DEF Last
  <2>2. Entries(Last(nodes), "all") \in Seq(Elements)
    BY <2>1, EntriesListed
  <2>3. TablesOf(nodes).lids = Lids(Entries(Last(nodes), "all"))
    BY <1>2 DEF TablesOf
  <2> QED BY <2>2, <2>3, LidsListed
<1> QED BY <1>1, <1>2

LEMMA IONodeSound ==
  ASSUME doc \in DOMAIN Library, io \in Elements
  PROVE  IOSound(IONode)
<1>1. IOEntries \in Seq(Elements)
  BY DocumentFacts, EntriesListed DEF IOEntries
<1>2. IsList(IONode.tables.lids)
  <2>1. IONode.tables = IF IsRT THEN TablesOf(IOEntries) ELSE NoTables
    BY DEF IONode
  <2>2. IsList(NoTables.lids)
    BY EmptyIsList DEF NoTables
  <2> QED BY <1>1, <2>1, <2>2, TablesListed
<1>3. Single(IONode.attrs)
  <2>1. IONode.attrs = IF IsRT THEN <<>> ELSE LastOf(IOEntries)
    BY DEF IONode
  <2> QED BY <2>1 DEF LastOf, Attribute, Single
<1> QED BY <1>2, <1>3 DEF IOSound

LEMMA AttributesListed ==
  ASSUME NEW nodes \in Seq(Elements)
  PROVE  IsList(Attributes(nodes))
<1>1. Len(nodes) \in Nat /\ DOMAIN Attributes(nodes) = 1 .. Len(nodes)
      /\ Attributes(nodes) = [i \in 1 .. Len(nodes) |-> Attributes(nodes)[i]]
  BY DEF Attributes
<1> HIDE DEF Attributes
<1> QED BY <1>1, TableIsList

LEMMA FollowTyped ==
  ASSUME doc \in DOMAIN Library, NEW route
  PROVE  Entity(route) \in Elements \cup {NULL}
<1> DEFINE e == FindElement(T, root, root, "io_" \o route.name \o "_entity", "lid", route.lid, "all")
<1>1. e \in Elements \cup {NULL}
  BY DocumentFacts, FindIsNode DEF Elements
<1>2. FindElement(T, e, root, "channel", "lid", route.channel, "all") \in Elements \cup {NULL}
  BY <1>1, DocumentFacts, FindIsNode DEF Elements
<1> QED BY <1>1, <1>2 DEF Entity

(* A device with one io more.                                              *)
LEMMA WithIOSound ==
  ASSUME NEW d, DeviceSound(d), NEW n, IOSound(n), NEW ios, ios = <<n>> \/ ios = Append(d.ios, n)
  PROVE  DeviceSound([d EXCEPT !.ios = ios])
<1>1. IsDevice([d EXCEPT !.ios = ios])
  <2>1. PICK id, l, t, i, a, s :
          d = [id |-> id, lid |-> l, type |-> t, interface |-> i, attrs |-> a, ios |-> s]
    BY DEF DeviceSound, IsDevice
  <2>2. [d EXCEPT !.ios = ios] =
          [id |-> id, lid |-> l, type |-> t, interface |-> i, attrs |-> a, ios |-> ios]
    BY <2>1
  <2> HIDE <2>1
  <2> QED BY <2>2 DEF IsDevice
<1>2. [d EXCEPT !.ios = ios].ios = ios /\ [d EXCEPT !.ios = ios].attrs = d.attrs
  BY DEF DeviceSound, IsDevice
<1>3. IsList(ios) /\ \A k \in 1 .. Len(ios) : IOSound(ios[k])
  <2>1. CASE ios = <<n>>
    <3> DEFINE none == <<>>
    <3>1. ios = Append(none, n) /\ IsList(none) /\ Len(none) = 0
      BY <2>1, EmptyIsList
    <3>2. IsList(ios) /\ Len(ios) = 1 /\ ios[1] = n
      <4> HIDE DEF none
      <4>1. IsList(ios) /\ Len(ios) = 0 + 1 /\ ios[0 + 1] = n
        BY <3>1, AppendFacts
      <4> QED BY <4>1
    <3> QED BY <3>2
  <2>2. CASE ios = Append(d.ios, n)
    <3>1. IsList(d.ios) /\ Len(d.ios) \in Nat /\ \A k \in 1 .. Len(d.ios) : IOSound(d.ios[k])
      BY ListFacts DEF DeviceSound
    <3>2. /\ IsList(ios) /\ Len(ios) = Len(d.ios) + 1
          /\ \A k \in 1 .. Len(d.ios) : ios[k] = d.ios[k]
          /\ ios[Len(d.ios) + 1] = n
      BY <2>2, <3>1, AppendFacts
    <3> QED BY <3>1, <3>2
  <2> QED BY <2>1, <2>2
<1> QED BY <1>1, <1>2, <1>3 DEF DeviceSound

LEMMA ListedSound ==
  ASSUME ParseInv, NEW n, IOSound(n)
  PROVE  IsList(Listed(n)) /\ \A k \in 1 .. Len(Listed(n)) : DeviceSound(Listed(n)[k])
<1>1. IsList(list) /\ Len(list) \in Nat /\ DOMAIN list = 1 .. Len(list)
      /\ \A k \in 1 .. Len(list) : DeviceSound(list[k])
  BY ListFacts DEF ParseInv, ListSound
<1>2. CASE node # NULL
  <2> DEFINE d == [node EXCEPT !.ios = <<n>>]
  <2>1. DeviceSound(d)
    BY <1>2, WithIOSound DEF ParseInv
  <2>2. Listed(n) = Append(list, d)
    BY <1>2 DEF Listed
  <2> HIDE DEF d
  <2>3. /\ IsList(Listed(n)) /\ Len(Listed(n)) = Len(list) + 1
        /\ \A k \in 1 .. Len(list) : Listed(n)[k] = list[k]
        /\ Listed(n)[Len(list) + 1] = d
    BY <1>1, <2>2, AppendFacts
  <2> QED BY <1>1, <2>1, <2>3
<1>3. CASE node = NULL
  <2> DEFINE l == Len(list)
             longer == [list EXCEPT ![l].ios = Append(@, n)]
  <2>1. Listed(n) = longer
    BY <1>3 DEF Listed
  <2>2. DOMAIN longer = 1 .. l /\ longer = [k \in 1 .. l |-> longer[k]]
    BY <1>1
  <2>3. ASSUME NEW k \in 1 .. l PROVE DeviceSound(longer[k])
    <3>1. CASE k = l
      <4>1. longer[k] = [list[l] EXCEPT !.ios = Append(list[l].ios, n)]
        BY <1>1, <3>1
      <4> QED BY <1>1, <3>1, <4>1, WithIOSound
    <3>2. CASE k # l
      BY <1>1, <3>2
    <3> QED BY <3>1, <3>2
  <2> HIDE DEF longer, l
  <2>4. IsList(longer) /\ Len(longer) = l
    BY <1>1, <2>2, TableIsList DEF l
  <2> QED BY <2>1, <2>3, <2>4
<1> QED BY <1>2, <1>3

LEMMA ParseInit == Init => ParseInv
<1> SUFFICES ASSUME Init PROVE ParseInv
  OBVIOUS
<1>1. doc \in DOMAIN Library /\ io = NULL /\ node = NULL /\ list = <<>>
  BY DEF Init
<1>2. dev \in Elements \cup {NULL}
  BY <1>1, DocumentFacts DEF Init
<1> QED BY <1>1, <1>2, EmptyIsList DEF ParseInv, ListSound

LEMMA ParseStep == ParseInv /\ [Next]_vars => ParseInv'
<1> SUFFICES ASSUME ParseInv, [Next]_vars PROVE ParseInv'
  OBVIOUS
<1>1. /\ doc \in DOMAIN Library
      /\ dev \in Elements \cup {NULL} /\ io \in Elements \cup {NULL}
      /\ node # NULL => DeviceSound(node)
      /\ ListSound
  BY DEF ParseInv
<1>2. ASSUME doc' = doc, UNCHANGED <<dev, io, node, list>> PROVE ParseInv'
  BY <1>1, <1>2 DEF ParseInv, ListSound, Elements, T
<1>3. ASSUME NEW route, Follow(route) PROVE io' \in Elements \cup {NULL}
  BY <1>1, <1>3, FollowTyped DEF Follow
<1>4. CASE TakeDevice
  <2>1. doc' = doc /\ list' = list /\ dev' = dev
    BY <1>4 DEF TakeDevice, Crash
  <2>2. CASE Crash
    BY <1>2, <1>4, <2>2 DEF TakeDevice, Crash
  <2>3. CASE ~Crash
    <3> DEFINE route == RouteOf(dev, "dependence")
               attrs == Attributes(Entries(FirstBelow(dev, "description"), "all"))
    <3>1. Follow(route)
      BY <1>4, <2>3 DEF TakeDevice
    <3>2. IsList(attrs)
      BY <1>1, DocumentFacts, EntriesListed, AttributesListed
    <3>3. node' = [id |-> count, lid |-> GetAttr(T, dev, "lid"), type |-> GetAttr(T, dev, "type"),
                   interface |-> IF route = Root THEN NULL ELSE route.name,
                   attrs |-> attrs, ios |-> <<>>]
      BY <1>4, <2>3 DEF TakeDevice
    <3> HIDE DEF attrs
    <3>4. IsDevice(node') /\ node'.attrs = attrs /\ node'.ios = <<>>
      BY <3>3 DEF IsDevice
    <3>5. DeviceSound(node')
      BY <3>2, <3>4, EmptyIsList DEF DeviceSound
    <3>6. io' \in Elements \cup {NULL}
      BY <1>3, <3>1
    <3> QED BY <1>1, <2>1, <3>5, <3>6 DEF ParseInv, ListSound, Elements, T
  <2> QED BY <2>2, <2>3
<1>5. CASE TakeIO
  <2> DEFINE route == RouteOf(config, "parent")
  <2>1. io \in Elements /\ doc' = doc
    BY <1>1, <1>5 DEF TakeIO
  <2>2. CASE ~Crash /\ Unknown # {}
    <3>1. list' = <<>> /\ UNCHANGED <<dev, io, config, node, count>>
      BY <1>5, <2>2 DEF TakeIO
    <3> QED BY <1>1, <2>1, <3>1, EmptyIsList DEF ParseInv, ListSound, Elements, T
  <2>3. CASE Crash
    BY <1>2, <2>1, <2>3 DEF Crash
  <2>4. CASE ~Crash /\ Unknown = {}
    <3>1. list' = Listed(IONode) /\ node' = NULL /\ Follow(route) /\ dev' = dev
      BY <1>5, <2>4 DEF TakeIO
    <3>2. IsList(list') /\ \A k \in 1 .. Len(list') : DeviceSound(list'[k])
      BY <1>1, <2>1, <3>1, IONodeSound, ListedSound
    <3>3. io' \in Elements \cup {NULL}
      BY <1>3, <3>1
    <3> QED BY <1>1, <2>1, <3>1, <3>2, <3>3 DEF ParseInv, ListSound, Elements, T
  <2> QED BY <2>2, <2>3, <2>4
<1>6. CASE NextDevice
  <2>1. dev' \in Elements \cup {NULL}
    BY <1>1, <1>6, DocumentFacts, FindIsNode DEF NextDevice, Elements
  <2> QED BY <1>1, <1>6, <2>1 DEF NextDevice, ParseInv, ListSound, Elements, T
<1>7. CASE EndOfDocument
  BY <1>2, <1>7 DEF EndOfDocument
<1>8. ASSUME NEW i \in Items, Choose(i) PROVE ParseInv'
  BY <1>2, <1>8 DEF Choose, parseVars
<1>9. CASE Read
  BY <1>2, <1>9 DEF Read, ReadDeviceAttribute, ReadIOAttribute, ReadRow, Reading, parseVars
<1>10. CASE UNCHANGED vars
  BY <1>2, <1>10 DEF vars, parseVars
<1> QED BY <1>4, <1>5, <1>6, <1>7, <1>8, <1>9, <1>10 DEF Next, Parse

(***************************************************************************)
(* What the getters give out.  The five cursors of a row never part; each  *)
(* of the others stands behind what was read last.                         *)
(***************************************************************************)
ItemSound(i) ==
  \/ i.kind = "device" /\ IsList(i.of.attrs) /\ i.len = Len(i.of.attrs)
  \/ i.kind = "RT" /\ IsList(i.of.tables.lids) /\ i.len = Len(i.of.tables.lids)
  \/ i.kind = "io" /\ Single(i.of.attrs) /\ i.len = Len(i.of.attrs)
ReadSoFar ==
  /\ IsList(got)
  /\ item.kind = "device" => OnTheWay(NamesOf(got), NamesOf(item.of.attrs), cursor["dev_attr_name"])
  /\ item.kind = "RT" => OnTheWay(got, RowsOf(item.of), cursor["lid"])
  /\ item.kind = "io" => \A i \in 1 .. Len(got) : got[i] = item.of.attrs[i]
RowCursors == {"lid", "s_p", "r_p", "s_b", "r_b"}
ReadInv ==
  /\ cursor \in [Cursors -> Nat]
  /\ \A c \in RowCursors : cursor[c] = cursor["lid"]
  /\ item # NULL => ItemSound(item) /\ ReadSoFar
Inv == ParseInv /\ ReadInv

LEMMA NamesListed ==
  ASSUME NEW s, IsList(s)
  PROVE  /\ IsList(NamesOf(s)) /\ Len(NamesOf(s)) = Len(s)
         /\ \A i \in 1 .. Len(s) : NamesOf(s)[i] = s[i].name
<1>1. Len(s) \in Nat
  BY ListFacts
<1>2. /\ DOMAIN NamesOf(s) = 1 .. Len(s) /\ NamesOf(s) = [i \in 1 .. Len(s) |-> NamesOf(s)[i]]
      /\ \A i \in 1 .. Len(s) : NamesOf(s)[i] = s[i].name
  BY DEF NamesOf
<1> HIDE DEF NamesOf
<1> QED BY <1>1, <1>2, TableIsList

LEMMA NamesAppended ==
  ASSUME NEW s, IsList(s), NEW g
  PROVE  NamesOf(Append(s, g)) = Append(NamesOf(s), g.name)
<1> DEFINE a == NamesOf(Append(s, g))
           b == Append(NamesOf(s), g.name)
<1>1. /\ IsList(Append(s, g)) /\ Len(Append(s, g)) = Len(s) + 1 /\ Len(s) \in Nat
      /\ \A i \in 1 .. Len(s) : Append(s, g)[i] = s[i]
      /\ Append(s, g)[Len(s) + 1] = g
  BY AppendFacts, ListFacts
<1>2. /\ IsList(a) /\ Len(a) = Len(s) + 1
      /\ \A i \in 1 .. Len(s) + 1 : a[i] = Append(s, g)[i].name
  BY <1>1, NamesListed
<1>3. /\ IsList(NamesOf(s)) /\ Len(NamesOf(s)) = Len(s)
      /\ \A i \in 1 .. Len(s) : NamesOf(s)[i] = s[i].name
  BY NamesListed
<1>4. /\ IsList(b) /\ Len(b) = Len(s) + 1
      /\ \A i \in 1 .. Len(s) : b[i] = s[i].name
      /\ b[Len(s) + 1] = g.name
  BY <1>3, AppendFacts
<1>5. \A i \in 1 .. Len(s) + 1 : a[i] = b[i]
  BY <1>1, <1>2, <1>4
<1> HIDE DEF a, b
<1>6. a = [i \in 1 .. Len(s) + 1 |-> a[i]] /\ b = [i \in 1 .. Len(s) + 1 |-> b[i]]
  BY <1>2, <1>4, ListFacts
<1>7. a = b
  BY <1>5, <1>6
<1> QED BY <1>7 DEF a, b

LEMMA RowsListed ==
  ASSUME NEW n, IsList(n.tables.lids)
  PROVE  IsList(RowsOf(n)) /\ Len(RowsOf(n)) = Len(n.tables.lids)
<1>1. Len(n.tables.lids) \in Nat
  BY ListFacts
<1>2. /\ DOMAIN RowsOf(n) = 1 .. Len(n.tables.lids)
      /\ RowsOf(n) = [i \in 1 .. Len(n.tables.lids) |-> RowsOf(n)[i]]
  BY DEF RowsOf
<1> HIDE DEF RowsOf
<1> QED BY <1>1, <1>2, TableIsList

LEMMA ItemsSound ==
  ASSUME ParseInv, NEW i \in Items
  PROVE  ItemSound(i)
<1>1. IsList(list) /\ Len(list) \in Nat /\ \A k \in 1 .. Len(list) : DeviceSound(list[k])
  BY ListFacts DEF ParseInv, ListSound
<1>2. PICK d \in 1 .. Len(list) :
        \/ i = [of |-> list[d], len |-> Len(list[d].attrs), kind |-> "device"]
        \/ \E n \in ToSet(list[d].ios) :
             i = IF n.type = "RT" THEN [of |-> n, len |-> Len(n.tables.lids), kind |-> "RT"]
                 ELSE [of |-> n, len |-> Len(n.attrs), kind |-> "io"]
  BY DEF Items
<1>3. DeviceSound(list[d])
  BY <1>1
<1>4. CASE i = [of |-> list[d], len |-> Len(list[d].attrs), kind |-> "device"]
  BY <1>3, <1>4 DEF DeviceSound, ItemSound
<1>5. ASSUME NEW n \in ToSet(list[d].ios),
             i = IF n.type = "RT" THEN [of |-> n, len |-> Len(n.tables.lids), kind |-> "RT"]
                 ELSE [of |-> n, len |-> Len(n.attrs), kind |-> "io"]
      PROVE  ItemSound(i)
  <2>1. IOSound(n)
    BY <1>3, ListFacts DEF DeviceSound, ToSet
  <2> QED BY <1>5, <2>1 DEF IOSound, ItemSound
<1> QED BY <1>2, <1>4, <1>5

(* A getter is called with its cursor left anywhere.                       *)
LEMMA MovedFacts ==
  ASSUME cursor \in [Cursors -> Nat], NEW used \in SUBSET Cursors, NEW len \in Nat, len # 0
  PROVE  /\ Moved(used, len) \in [Cursors -> Nat]
         /\ \A c \in used : Moved(used, len)[c] = (cursor[c] % len) + 1
         /\ \A c \in Cursors \ used : Moved(used, len)[c] = cursor[c]
<1>1. \A c \in Cursors : At(c, len) = cursor[c] % len /\ At(c, len) \in 0 .. len - 1
  BY Remainders DEF At
<1>2. \A c \in Cursors : At(c, len) + 1 \in Nat
  BY <1>1
<1> QED BY <1>1, <1>2 DEF Moved

LEMMA ReadDeviceStep ==
  ASSUME ReadInv, ReadDeviceAttribute
  PROVE  ReadInv'
<1> DEFINE c == "dev_attr_name"
           used == {"dev_attr_name", "dev_attr_value"}
           names == NamesOf(item.of.attrs)
           e == item.of.attrs[At(c, item.len) + 1].name
<1>1. /\ item # NULL /\ item.kind = "device" /\ Len(got) < item.len /\ item' = item
      /\ IsList(item.of.attrs) /\ item.len = Len(item.of.attrs) /\ IsList(got)
      /\ OnTheWay(NamesOf(got), names, cursor[c])
  BY DEF ReadInv, ReadDeviceAttribute, Reading, ItemSound, ReadSoFar
<1>2. item.len \in Nat /\ Len(got) \in Nat /\ item.len # 0
  BY <1>1, ListFacts
<1>3. used \subseteq Cursors /\ c \in used /\ c \in Cursors /\ RowCursors \subseteq Cursors \ used
  BY DEF Cursors, RowCursors
<1>4. cursor \in [Cursors -> Nat] /\ \A k \in RowCursors : cursor[k] = cursor["lid"]
  BY DEF ReadInv
<1>5. cursor' = Moved(used, item.len)
  BY DEF ReadDeviceAttribute
<1>6. /\ cursor' \in [Cursors -> Nat] /\ cursor'[c] = (cursor[c] % item.len) + 1
      /\ \A k \in Cursors \ used : cursor'[k] = cursor[k]
  BY <1>2, <1>3, <1>4, <1>5, MovedFacts
<1>7. \A k \in RowCursors : cursor'[k] = cursor'["lid"]
  BY <1>3, <1>4, <1>6 DEF RowCursors
<1>8. PICK g : got' = Append(got, g) /\ g.name = e
  BY DEF ReadDeviceAttribute
<1>9. NamesOf(got') = Append(NamesOf(got), e) /\ IsList(got')
  BY <1>1, <1>8, NamesAppended, AppendFacts
<1>10. /\ IsList(NamesOf(got)) /\ Len(NamesOf(got)) = Len(got)
       /\ IsList(names) /\ Len(names) = item.len
       /\ \A i \in 1 .. item.len : names[i] = item.of.attrs[i].name
  BY <1>1, NamesListed
<1>11. cursor[c] \in Nat /\ e = names[(cursor[c] % item.len) + 1]
  <2>1. cursor[c] \in Nat
    BY <1>3, <1>4
  <2>2. cursor[c] % item.len \in 0 .. item.len - 1
    BY <1>2, <2>1, Remainders
  <2>3. (cursor[c] % item.len) + 1 \in 1 .. item.len
    BY <1>2, <2>2
  <2> HIDE DEF names
  <2> QED BY <1>10, <2>1, <2>3 DEF At
<1>12. OnTheWay(Append(NamesOf(got), e), names, (cursor[c] % item.len) + 1)
  <2> HIDE DEF e, names
  <2>1. Len(NamesOf(got)) < Len(names)
    BY <1>1, <1>10
  <2> QED BY <1>1, <1>10, <1>11, <2>1, OneMore
<1>13. OnTheWay(NamesOf(got'), NamesOf(item'.of.attrs), cursor'[c])
  BY <1>1, <1>6, <1>9, <1>12
<1> QED BY <1>1, <1>6, <1>7, <1>9, <1>13 DEF ReadInv, ReadSoFar, ItemSound

LEMMA ReadIOStep ==
  ASSUME ReadInv, ReadIOAttribute
  PROVE  ReadInv'
<1> DEFINE used == {"io_attr_name", "io_attr_value"}
           g == [name |-> item.of.attrs[At("io_attr_name", item.len) + 1].name,
                 value |-> item.of.attrs[At("io_attr_value", item.len) + 1].value]
<1>1. /\ item # NULL /\ item.kind = "io" /\ Len(got) < item.len /\ item' = item
      /\ Single(item.of.attrs) /\ item.len = Len(item.of.attrs) /\ IsList(got)
  BY DEF ReadInv, ReadIOAttribute, Reading, ItemSound, ReadSoFar
<1>2. Len(got) \in Nat
  BY <1>1, ListFacts
<1>3. PICK a, v : item.of.attrs = <<[name |-> a, value |-> v]>>
  <2>1. item.of.attrs # <<>>
    <3>1. item.of.attrs = <<>> => item.len = 0
      BY <1>1, EmptyIsList
    <3> QED BY <1>1, <1>2, <3>1
  <2> QED BY <1>1, <2>1 DEF Single
<1>4. item.len = 1 /\ Len(got) = 0
  BY <1>1, <1>2, <1>3
<1>5. used \subseteq Cursors /\ RowCursors \subseteq Cursors \ used
  BY DEF Cursors, RowCursors
<1>6. cursor \in [Cursors -> Nat] /\ \A k \in RowCursors : cursor[k] = cursor["lid"]
  BY DEF ReadInv
<1>7. cursor' = Moved(used, item.len)
  BY DEF ReadIOAttribute
<1>8. cursor' \in [Cursors -> Nat] /\ \A k \in Cursors \ used : cursor'[k] = cursor[k]
  <2>1. item.len \in Nat /\ item.len # 0
    BY <1>4
  <2>2. /\ Moved(used, item.len) \in [Cursors -> Nat]
        /\ \A k \in Cursors \ used : Moved(used, item.len)[k] = cursor[k]
    <3> HIDE DEF used
    <3> QED BY <1>5, <1>6, <2>1, MovedFacts
  <2> QED BY <1>7, <2>2
<1>9. \A k \in RowCursors : cursor'[k] = cursor'["lid"]
  BY <1>5, <1>6, <1>8 DEF RowCursors
<1>10. \A k \in used : At(k, item.len) = 0
  <2> SUFFICES ASSUME NEW k \in used PROVE At(k, item.len) = 0
    OBVIOUS
  <2>1. cursor[k] \in Nat
    BY <1>5, <1>6
  <2>2. cursor[k] % 1 \in 0 .. 1 - 1
    BY <2>1, Remainders
  <2> QED BY <1>4, <2>2 DEF At
<1>11. g = item.of.attrs[1]
  BY <1>3, <1>10
<1>12. got' = Append(got, g)
  BY DEF ReadIOAttribute
<1> HIDE DEF g
<1>13. IsList(got') /\ Len(got') = 1 /\ got'[1] = item.of.attrs[1]
  <2>1. IsList(got') /\ Len(got') = Len(got) + 1 /\ got'[Len(got) + 1] = g
    BY <1>1, <1>12, AppendFacts
  <2> QED BY <1>4, <1>11, <2>1
<1> QED BY <1>1, <1>8, <1>9, <1>13 DEF ReadInv, ReadSoFar, ItemSound

LEMMA ReadRowStep ==
  ASSUME ReadInv, ReadRow
  PROVE  ReadInv'
<1> DEFINE rows == RowsOf(item.of)
           at == (cursor["lid"] % item.len) + 1
<1>1. /\ item # NULL /\ item.kind = "RT" /\ Len(got) < item.len /\ item' = item
      /\ IsList(item.of.tables.lids) /\ item.len = Len(item.of.tables.lids) /\ IsList(got)
      /\ OnTheWay(got, rows, cursor["lid"])
  BY DEF ReadInv, ReadRow, Reading, ItemSound, ReadSoFar
<1>2. item.len \in Nat /\ Len(got) \in Nat /\ item.len # 0
  BY <1>1, ListFacts
<1>3. RowCursors \subseteq Cursors /\ "lid" \in RowCursors /\ "lid" \in Cursors
  BY DEF Cursors, RowCursors
<1>4. cursor \in [Cursors -> Nat] /\ \A k \in RowCursors : cursor[k] = cursor["lid"]
  BY DEF ReadInv
<1>5. cursor' = Moved(RowCursors, item.len)
  BY DEF ReadRow, RowCursors
<1>6. cursor' \in [Cursors -> Nat] /\ \A k \in RowCursors : cursor'[k] = at
  <2>1. /\ cursor' \in [Cursors -> Nat]
        /\ \A k \in RowCursors : cursor'[k] = (cursor[k] % item.len) + 1
    BY <1>2, <1>3, <1>4, <1>5, MovedFacts
  <2> QED BY <1>4, <2>1
<1>7. cursor["lid"] \in Nat /\ at \in 1 .. item.len
  <2>1. cursor["lid"] \in Nat
    BY <1>3, <1>4
  <2>2. cursor["lid"] % item.len \in 0 .. item.len - 1
    BY <1>2, <2>1, Remainders
  <2> QED BY <1>2, <2>1, <2>2
<1>8. \A k \in RowCursors : At(k, item.len) + 1 = at
  BY <1>4 DEF At
<1>9. got' = Append(got, rows[at])
  <2> DEFINE cell(p) == item.of.tables.info[p][at]
  <2>1. got' = Append(got, [lid |-> item.of.tables.lids[at],
                            send_priority |-> cell(0), send_blockSize |-> cell(2),
                            receive_priority |-> cell(1), receive_blockSize |-> cell(3)])
    BY <1>8 DEF ReadRow, RowCursors
  <2>2. rows[at] = [lid |-> item.of.tables.lids[at],
                    send_priority |-> cell(0), receive_priority |-> cell(1),
                    send_blockSize |-> cell(2), receive_blockSize |-> cell(3)]
    BY <1>1, <1>7 DEF RowsOf
  <2> QED BY <2>1, <2>2
<1>10. IsList(rows) /\ Len(rows) = item.len
  BY <1>1, RowsListed
<1> HIDE DEF rows
<1>11. OnTheWay(got', rows, at)
  <2> DEFINE e == rows[at]
  <2>1. Len(got) < Len(rows) /\ e = rows[(cursor["lid"] % Len(rows)) + 1]
    BY <1>1, <1>10
  <2> HIDE DEF e
  <2>2. OnTheWay(Append(got, e), rows, (cursor["lid"] % Len(rows)) + 1)
    BY <1>1, <1>7, <1>10, <2>1, OneMore
  <2> QED BY <1>9, <1>10, <2>2 DEF e
<1>12. IsList(got')
  BY <1>1, <1>9, AppendFacts
<1>13. OnTheWay(got', RowsOf(item'.of), cursor'["lid"])
  BY <1>1, <1>3, <1>6, <1>11 DEF rows
<1> HIDE DEF at
<1>14. \A k \in RowCursors : cursor'[k] = cursor'["lid"]
  BY <1>3, <1>6
<1> QED BY <1>1, <1>6, <1>12, <1>13, <1>14 DEF ReadInv, ReadSoFar, ItemSound

LEMMA ReadInit == Init => ReadInv
<1> SUFFICES ASSUME Init PROVE ReadInv
  OBVIOUS
<1>1. cursor = [c \in Cursors |-> 0] /\ item = NULL
  BY DEF Init
<1> QED BY <1>1 DEF ReadInv, RowCursors, Cursors

LEMMA ReadStep == Inv /\ [Next]_vars => ReadInv'
<1> SUFFICES ASSUME Inv, [Next]_vars PROVE ReadInv'
  OBVIOUS
<1>1. ParseInv /\ ReadInv
  BY DEF Inv
<1>2. ASSUME UNCHANGED readVars PROVE ReadInv'
  BY <1>1, <1>2 DEF readVars, ReadInv, ReadSoFar
<1>3. CASE Parse
  BY <1>2, <1>3 DEF Parse, TakeDevice, TakeIO, NextDevice, EndOfDocument, readVars
<1>4. ASSUME NEW i \in Items, Choose(i) PROVE ReadInv'
  <2>1. item' = i /\ got' = <<>> /\ cursor' = cursor
    BY <1>4 DEF Choose
  <2>2. ItemSound(i)
    BY <1>1, ItemsSound
  <2>3. IsList(got') /\ Len(got') = 0 /\ Len(NamesOf(got')) = 0
    BY <2>1, EmptyIsList, NamesListed
  <2>4. ReadSoFar'
    BY <2>3 DEF ReadSoFar, OnTheWay
  <2> QED BY <1>1, <2>1, <2>2, <2>4 DEF ReadInv
<1>5. CASE Read
  BY <1>1, <1>5, ReadDeviceStep, ReadIOStep, ReadRowStep DEF Read
<1>6. CASE UNCHANGED vars
  BY <1>2, <1>6 DEF vars
<1> QED BY <1>3, <1>4, <1>5, <1>6 DEF Next

LEMMA InvReadsWhole == Inv => ReadsWhole
<1> SUFFICES ASSUME Inv, item # NULL, Len(got) = item.len
             PROVE  CASE item.kind = "RT" -> GoesRound(got, RowsOf(item.of))
                      [] item.kind = "io" -> got = item.of.attrs
                      [] OTHER -> GoesRound(NamesOf(got), NamesOf(item.of.attrs))
  BY DEF ReadsWhole
<1>1. ItemSound(item) /\ ReadSoFar /\ IsList(got)
  BY DEF Inv, ReadInv, ReadSoFar
<1>2. CASE item.kind = "device"
  <2>1. IsList(item.of.attrs) /\ item.len = Len(item.of.attrs)
    BY <1>1, <1>2 DEF ItemSound
  <2>2. GoesRound(NamesOf(got), NamesOf(item.of.attrs))
    BY <1>1, <1>2, <2>1, NamesListed, AllRead DEF ReadSoFar
  <2> QED BY <1>2, <2>2
<1>3. CASE item.kind = "RT"
  <2>1. IsList(item.of.tables.lids) /\ item.len = Len(item.of.tables.lids)
    BY <1>1, <1>3 DEF ItemSound
  <2>2. GoesRound(got, RowsOf(item.of))
    BY <1>1, <1>3, <2>1, RowsListed, AllRead DEF ReadSoFar
  <2> QED BY <1>3, <2>2
<1>4. CASE item.kind = "io"
  <2>1. Single(item.of.attrs) /\ item.len = Len(item.of.attrs)
        /\ \A i \in 1 .. Len(got) : got[i] = item.of.attrs[i]
    BY <1>1, <1>4 DEF ItemSound, ReadSoFar
  <2>2. IsList(item.of.attrs)
    <3>1. CASE item.of.attrs = <<>>
      BY <3>1, EmptyIsList
    <3>2. ASSUME NEW a, NEW v, item.of.attrs = <<[name |-> a, value |-> v]>>
          PROVE  IsList(item.of.attrs)
      <4> DEFINE e == [name |-> a, value |-> v]
      <4> HIDE DEF e
      <4>1. <<e>> \in Seq({e})
        OBVIOUS
      <4> QED BY <3>2, <4>1 DEF IsList, e
    <3> QED BY <2>1, <3>1, <3>2 DEF Single
  <2>3. got = item.of.attrs
    <3>1. got = [i \in 1 .. Len(got) |-> got[i]] /\ item.of.attrs = [i \in 1 .. item.len |-> item.of.attrs[i]]
      BY <1>1, <2>1, <2>2, ListFacts
    <3> QED BY <2>1, <3>1
  <2> QED BY <1>4, <2>3
<1> QED BY <1>1, <1>2, <1>3, <1>4 DEF ItemSound

LEMMA InvAlways == Spec => []Inv
<1>1. Init => Inv
  BY ParseInit, ReadInit DEF Inv
<1>2. Inv /\ [Next]_vars => Inv'
  BY ParseStep, ReadStep DEF Inv
<1> QED BY <1>1, <1>2, PTL DEF Spec

(***************************************************************************)
(* Whoever reads as many entries as an item has reads each of them once,   *)
(* with the parts of a row together, whatever was read before it.          *)
(***************************************************************************)
THEOREM AlwaysReadsWhole == Spec => []ReadsWhole
BY InvAlways, InvReadsWhole, PTL
=============================================================================
