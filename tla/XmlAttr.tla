------------------------------ MODULE XmlAttr ------------------------------
(***************************************************************************)
(* mxml/mxml-attr.c: the attributes of an element are a sequence, each     *)
(* with a name n and a value v.                                            *)
(***************************************************************************)
EXTENDS Naturals, Sequences, SequencesExt

CONSTANT NULL    \* no value

(* The loops of mxml-attr.c: the first attribute of that name, 0 for none. *)
AttrAt(attrs, name) ==
  LET places == {i \in 1 .. Len(attrs) : attrs[i].n = name}
  IN IF places = {} THEN 0 ELSE Min(places)
AttrIn(attrs, name) ==
  LET i == AttrAt(attrs, name) IN IF i = 0 THEN NULL ELSE attrs[i].v

(* mxmlElementGetAttr, in a tree t. *)
GetAttr(t, node, name) ==
  IF t.kind[node] = "element" THEN AttrIn(t.attrs[node], name) ELSE NULL
(* mxml_set_attr: in its place, or behind the others. *)
WithAttr(attrs, name, value) ==
  LET i == AttrAt(attrs, name)
      new == [n |-> name, v |-> value]
  IN IF i # 0 THEN [attrs EXCEPT ![i] = new] ELSE Append(attrs, new)
(* mxmlElementDeleteAttr closes the gap. *)
(* (Last: a mutant whose memmove is left out.)                             *)
WithoutAttrLast(attrs, name) ==
  IF AttrAt(attrs, name) = 0 THEN attrs ELSE Front(attrs)
WithoutAttr(attrs, name) ==
  LET i == AttrAt(attrs, name) IN IF i = 0 THEN attrs ELSE RemoveAt(attrs, i)
=============================================================================
