----------------------------- MODULE XmlSearch -----------------------------
(***************************************************************************)
(* mxml/mxml-search.c, on a tree t: t.links are its pointers (XmlNode),    *)
(* t.kind the type of each node, t.name the name of an element and t.attrs *)
(* its attributes (XmlAttr).  A node, name or value may be NULL.           *)
(***************************************************************************)
EXTENDS XmlAttr

CONSTANT Star    \* the name "*" of a path

(***************************************************************************)
(* Walking.  descend is "all", "first" or "none".                          *)
(***************************************************************************)
(* The loop of mxmlWalkNext: up to the first ancestor below top that has a *)
(* next sibling.                                                           *)
NextAbove(t, node, top) ==
  LET above[n \in DOMAIN t.kind] ==
        IF t.links.next[n] # NULL THEN t.links.next[n]
        ELSE IF t.links.parent[n] \in {top, NULL} THEN NULL
        ELSE above[t.links.parent[n]]
  IN above[node]

(* (Past: a mutant that does not look whether it is back at the top.)      *)
WalkNextPast(t, node, top, descend) ==
  IF node = NULL THEN NULL
  ELSE IF t.links.child[node] # NULL /\ descend # "none" THEN t.links.child[node]
  ELSE IF t.links.next[node] # NULL THEN t.links.next[node]
  ELSE IF t.links.parent[node] \in {top, NULL} THEN NULL
  ELSE NextAbove(t, t.links.parent[node], top)
WalkNext(t, node, top, descend) ==
  IF node = NULL THEN NULL
  ELSE IF t.links.child[node] # NULL /\ descend # "none" THEN t.links.child[node]
  ELSE IF node = top THEN NULL
  ELSE IF t.links.next[node] # NULL THEN t.links.next[node]
  ELSE IF t.links.parent[node] \in {top, NULL} THEN NULL
  ELSE NextAbove(t, t.links.parent[node], top)

LastBelow(t, node) ==
  LET last[n \in DOMAIN t.kind] ==
        IF t.links.last_child[n] = NULL THEN n ELSE last[t.links.last_child[n]]
  IN last[node]
WalkPrev(t, node, top, descend) ==
  IF node \in {NULL, top} THEN NULL
  ELSE IF t.links.prev[node] # NULL
  THEN IF descend # "none" THEN LastBelow(t, t.links.prev[node]) ELSE t.links.prev[node]
  ELSE IF t.links.parent[node] # top THEN t.links.parent[node]
  ELSE NULL

(***************************************************************************)
(* Searching.  A name, attribute or value that is NULL matches any.        *)
(***************************************************************************)
Matches(t, node, name, attr, value) ==
  /\ t.kind[node] = "element"
  /\ name \in {NULL, t.name[node]}
  /\ attr # NULL =>
       LET v == GetAttr(t, node, attr) IN v # NULL /\ value \in {NULL, v}

FirstMatch(t, node, top, name, attr, value, descend) ==
  LET from[n \in DOMAIN t.kind \cup {NULL}] ==
        IF IF n = NULL THEN TRUE ELSE Matches(t, n, name, attr, value) THEN n
        ELSE from[IF descend = "all" THEN WalkNext(t, n, top, "all") ELSE t.links.next[n]]
  IN from[node]
(* (Here: a mutant that looks at its start first.)                         *)
FindElementHere(t, node, top, name, attr, value, descend) ==
  IF node = NULL \/ top = NULL \/ (attr = NULL /\ value # NULL) THEN NULL
  ELSE FirstMatch(t, node, top, name, attr, value, descend)
FindElement(t, node, top, name, attr, value, descend) ==
  IF node = NULL \/ top = NULL \/ (attr = NULL /\ value # NULL) THEN NULL
  ELSE FirstMatch(t, WalkNext(t, node, top, descend), top, name, attr, value, descend)

(* A path is a sequence of names; Star before a name is any number of       *)
(* levels.  Each name takes the first element that fits, and the search    *)
(* never goes back for another.                                            *)
FollowPath(t, top, path) ==
  LET follow[at \in (0 .. Len(path)) \X (DOMAIN t.kind \cup {NULL})] ==
        LET left == at[1]
            n == at[2]
            here == Len(path) - left + 1
        IN IF left = 0 \/ n = NULL THEN n
           ELSE IF path[here] = Star /\ left > 1
           THEN follow[<<left - 2, FindElement(t, n, n, path[here + 1], NULL, NULL, "all")>>]
           ELSE follow[<<left - 1, FindElement(t, n, n, path[here], NULL, NULL, "first")>>]
  IN follow[<<Len(path), top>>]
FindPath(t, top, path) ==
  LET found == FollowPath(t, top, path)
  IN IF top = NULL \/ path = <<>> \/ found = NULL THEN NULL
     ELSE LET first == t.links.child[found]
          IN IF first # NULL /\ t.kind[first] # "element" THEN first ELSE found
=============================================================================
