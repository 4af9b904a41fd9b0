------------------------------ MODULE XmlTree ------------------------------
(***************************************************************************)
(* The Mini-XML library as its callers see it: trees are built and changed *)
(* (XmlNode), with names, attributes and values (XmlData), and between     *)
(* changes trees are walked, searched (XmlQuery) and indexed (XmlIndexed). *)
(*                                                                         *)
(* Bounds: a budget of changes and indices; the lowest free address is     *)
(* taken; and there are trees to start from, so that few changes reach     *)
(* interesting ones.                                                       *)
(***************************************************************************)
EXTENDS XmlIndexed

CONSTANT Starts      \* trees to start from, each with its budget

VARIABLE budget      \* how many changes and indices are left
vars == <<indexedVars, budget>>

Init ==
  \E s \in Starts :
    /\ kind = s.kind /\ links = s.links /\ forest = s.forest
    /\ refs = [n \in Node |-> IF s.kind[n] = "free" THEN 0 ELSE 1]
    /\ doomed = <<>> /\ victims = {}
    /\ name = s.name /\ worth = s.name /\ formatted = {} /\ attrs = s.attrs
    /\ given = [n \in Node |-> [a \in AttrNames |-> AttrIn(s.attrs[n], a)]]
    /\ budget = s.budget
    /\ NoneYet

Fresh(n) == ~Live(n) /\ \A m \in Node : m < n => Live(m)
Changed ==
  /\ MayChange /\ budget.changes > 0
  /\ budget' = [budget EXCEPT !.changes = @ - 1]
  /\ (\E n \in Node : Fresh(n) /\ Create(n)) \/ Rearrange \/ Edit
Indexing ==
  /\ MakeIndex /\ budget.indices > 0
  /\ budget' = [budget EXCEPT !.indices = @ - 1]
Unbounded == (Deleted \/ UseIndex) /\ UNCHANGED budget

Next == Changed \/ Indexing \/ Unbounded
(* mxmlDelete runs to its end; nothing else has to happen. *)
Spec == Init /\ [][Next]_vars /\ WF_vars(Deleted /\ UNCHANGED budget)

(* Every call of mxmlDelete returns. *)
DeletionEnds == ~Idle ~> Idle
=============================================================================
