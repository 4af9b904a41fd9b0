------------------------------ MODULE XmlData ------------------------------
(***************************************************************************)
(* What is kept in the nodes of mxml-node.c: elements have names and       *)
(* attributes (mxml-attr.c), other nodes values (mxml-set.c, mxml-get.c),  *)
(* and both are changed while the trees themselves are (XmlNode).          *)
(*                                                                         *)
(* The caller never puts a node under itself or under one of its own       *)
(* descendants.                                                            *)
(***************************************************************************)
EXTENDS XmlNode

CONSTANTS Names,       \* names of elements
          CDATA,       \* those that begin with "![CDATA["
          AttrNames, Values

ASSUME CDATAAssumption == CDATA \in SUBSET Names /\ "cdata" \notin Kinds

Attr == INSTANCE XmlAttr

VARIABLES
  name,      \* value.element.name, or the value of another node
  attrs,     \* value.element.attrs
  given,     \* history: the attributes the caller has given, by name
  worth,     \* history: the name or value the caller has given
  formatted  \* history: the texts mxmlSetTextf has written since
dataVars == <<name, attrs, given, worth, formatted>>

Tree == [links |-> links, kind |-> kind, name |-> name, attrs |-> attrs]
IsElement(n) == kind[n] = "element"

DataInit ==
  /\ NodeInit
  /\ name = [n \in Node |-> NULL] /\ worth = name /\ formatted = {}
  /\ attrs = [n \in Node |-> <<>>]
  /\ given = [n \in Node |-> [a \in AttrNames |-> NULL]]

(* mxmlNewElement, mxmlNewXML, mxmlNewCDATA; calloc has no attributes. *)
Made(p, k, v, n) ==
  /\ New(p, k, n)
  /\ name' = [name EXCEPT ![n] = v]
  /\ worth' = [worth EXCEPT ![n] = v] /\ formatted' = formatted \ {n}
  /\ attrs' = [attrs EXCEPT ![n] = <<>>]
  /\ given' = [given EXCEPT ![n] = [a \in AttrNames |-> NULL]]
NewElement(p, nm, n) == Made(p, "element", nm, n)
(* mxmlNewText, mxmlNewInteger and the other values. *)
NewValue(p, k, v, n) == k # "element" /\ Made(p, k, v, n)

Move(p, where, c, n) ==
  /\ p \notin Subtree(n)
  /\ Add(p, where, c, n)
  /\ UNCHANGED dataVars
Detach(n) ==
  /\ RemoveNode(n) \/ Retain(n) \/ Release(n) \/ Delete(n)
  /\ UNCHANGED dataVars
Deletion == Deleting /\ UNCHANGED dataVars

(* mxmlElementSetAttr, mxmlElementSetAttrf; a value may be NULL. *)
SetAttr(n, a, v) ==
  /\ Idle /\ IsElement(n)
  /\ attrs' = [attrs EXCEPT ![n] = Attr!WithAttr(@, a, v)]
  /\ given' = [given EXCEPT ![n][a] = v]
  /\ UNCHANGED <<nodeVars, name, worth, formatted>>
DeleteAttr(n, a) ==
  /\ Idle /\ IsElement(n)
  /\ attrs' = [attrs EXCEPT ![n] = Attr!WithoutAttr(@, a)]
  /\ given' = [given EXCEPT ![n][a] = NULL]
  /\ UNCHANGED <<nodeVars, name, worth, formatted>>

(* A CDATA section is an element, told by its name. *)
Is(n, k) == IF k = "cdata" THEN IsElement(n) /\ name[n] \in CDATA ELSE kind[n] = k
(* mxmlGetText, mxmlSetText and those of the other types: the node itself, *)
(* or its first child when the node is an element and the child is of      *)
(* the type.  For the name of an element the node itself.                  *)
Holder(n, k) ==
  LET c == links.child[n]
  IN IF Is(n, k) THEN n
     ELSE IF IsElement(n) /\ c # NULL THEN IF Is(c, k) /\ k # "element" THEN c ELSE NULL
     ELSE NULL
Get(n, k) == IF Holder(n, k) = NULL THEN NULL ELSE name[Holder(n, k)]
(* The same of the forest the caller asked for. *)
Held(n, k) ==
  {m \in Node : /\ Is(m, k)
                /\ IF Is(n, k) THEN m = n
                   ELSE /\ k # "element" /\ IsElement(n) /\ forest.up[m] = n
                        /\ \A x \in Node : ~Precedes(forest, x, m)}
(* What is stored for the v the caller gives. *)
Store(n, k, v, stored) ==
  /\ Idle /\ Live(n)
  /\ name' = IF Holder(n, k) = NULL THEN name ELSE [name EXCEPT ![Holder(n, k)] = stored]
  /\ worth' = [m \in Node |-> IF m \in Held(n, k) THEN v ELSE worth[m]]
  /\ UNCHANGED <<nodeVars, attrs, given>>
SetValue(n, k, v) == Store(n, k, v, v) /\ formatted' = formatted \ Held(n, k)
(* A CDATA section stays one. *)
SetCDATA(n, v) == SetValue(n, "cdata", v)
(* mxmlSetTextf hands its va_list to _mxml_strdupf, which takes the         *)
(* arguments themselves: what it formats in their place is undefined.      *)
SetTextf(n, v) ==
  /\ \E stored \in Values : Store(n, "text", v, stored)
  /\ formatted' = formatted \cup Held(n, "text")

Create(n) ==
  \E p \in Node \cup {NULL} :
    (\E nm \in Names : NewElement(p, nm, n)) \/ (\E k \in Kinds, v \in Values : NewValue(p, k, v, n))
Rearrange ==
  \/ \E n, p \in Node, c \in Node \cup {NULL}, where \in {"before", "after"} : Move(p, where, c, n)
  \/ \E n \in Node : Detach(n)
Edit ==
  \/ \E n \in Node, a \in AttrNames : DeleteAttr(n, a) \/ \E v \in Values \cup {NULL} : SetAttr(n, a, v)
  \/ \E n \in Node :
       \/ \E v \in Names : SetValue(n, "element", v)
       \/ \E k \in Kinds \ {"element"}, v \in Values : SetValue(n, k, v)
       \/ \E v \in CDATA : SetCDATA(n, v)
       \/ \E v \in Values : SetTextf(n, v)

DataNext == (\E n \in Node : Create(n)) \/ Rearrange \/ Edit \/ Deletion
DataSpec == DataInit /\ [][DataNext]_<<nodeVars, dataVars>>

(* An element has the attributes it was given last and no others, and the  *)
(* value read from a node is the one given last to that node, or to the    *)
(* child that is the first of its list now, whichever call wrote it but    *)
(* mxmlSetTextf.                                                           *)
LiveNodes == {n \in Node : Live(n)}
Reads(n, k) ==
  IF Held(n, k) = {} THEN Get(n, k) = NULL ELSE \A m \in Held(n, k) \ formatted : Get(n, k) = worth[m]
DataKept ==
  \A n \in LiveNodes :
    /\ IsElement(n) => \A a \in AttrNames : Attr!GetAttr(Tree, n, a) = given[n][a]
    /\ \A k \in Kinds : Reads(n, k)
=============================================================================
