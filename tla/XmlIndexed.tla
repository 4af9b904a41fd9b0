---------------------------- MODULE XmlIndexed ----------------------------
(***************************************************************************)
(* Mini-XML trees under a caller who makes an index over one (XmlIndex)    *)
(* and searches it.  Between two indices trees are built and changed as in *)
(* XmlData; the caller deletes an index before it changes a tree: an index *)
(* is not told of changes.                                                 *)
(***************************************************************************)
EXTENDS XmlQuery, SequencesExt

CONSTANT NoIndex

(* strcmp orders names and values as their numbers.                        *)
ASSUME TextsAssumption == Names \subseteq Int /\ Values \subseteq Int
ASSUME NoIndexAssumption == NoIndex \notin [element : Names \cup {NULL}, value : Values \cup {NULL}]

VARIABLES
  index,     \* the index and over what it was made, or NoIndex
  asked,     \* history: the search since the last reset, or NoIndex
  found      \* history: its answers; the last may be NULL
indexVars == <<index, asked, found>>
indexedVars == <<nodeVars, dataVars, indexVars>>

NoneYet == index = NoIndex /\ asked = NoIndex /\ found = <<>>
IndexedInit == DataInit /\ NoneYet

MayChange == index = NoIndex /\ UNCHANGED indexVars
Change == MayChange /\ ((\E n \in Node : Create(n)) \/ Rearrange \/ Edit)
Deleted == Deletion /\ UNCHANGED indexVars

(***************************************************************************)
(* The index.                                                              *)
(***************************************************************************)
Reading == Idle /\ UNCHANGED <<nodeVars, dataVars>>
IndexNew(n, element, attr) ==
  /\ Reading /\ index = NoIndex
  /\ IsElement(n)
  /\ index' = [ind |-> IndexOver(Tree, n, element, attr), top |-> n, element |-> element]
  /\ asked' = NoIndex /\ found' = <<>>
IndexReset ==
  /\ Reading /\ index # NoIndex
  /\ index' = [index EXCEPT !.ind.cur = 0]
  /\ asked' = NoIndex /\ found' = <<>>
(* The caller resets the index before it searches for something else, as   *)
(* the comment of mxmlIndexFind says, and when a search has ended.         *)
Asks(query) ==
  /\ Reading /\ index # NoIndex
  /\ asked \in {NoIndex, query}
  /\ IF found = <<>> THEN TRUE ELSE Last(found) # NULL
  /\ asked' = query
Answers(answer) ==
  /\ index' = [index EXCEPT !.ind.cur = answer.cur]
  /\ found' = Append(found, answer.node)
IndexFind(element, value) ==
  /\ Asks([element |-> element, value |-> value])
  /\ Answers(Find(Tree, index.ind, element, value))
IndexEnum ==
  /\ Asks([element |-> NULL, value |-> NULL])
  /\ Answers(Enum(index.ind))
IndexDelete ==
  /\ Reading /\ index # NoIndex
  /\ index' = NoIndex /\ asked' = NoIndex /\ found' = <<>>

MakeIndex ==
  \E n \in Node, element \in Names \cup {NULL}, attr \in AttrNames \cup {NULL} :
    IndexNew(n, element, attr)
UseIndex ==
  \/ \E element \in Names \cup {NULL}, value \in Values \cup {NULL} : IndexFind(element, value)
  \/ IndexEnum \/ IndexReset \/ IndexDelete

IndexedNext == Change \/ Deleted \/ MakeIndex \/ UseIndex
IndexedSpec == IndexedInit /\ [][IndexedNext]_indexedVars

(* From a reset to the NULL that ends it, repeating one search returns     *)
(* every node of the indexed tree that matches, each once: the sort puts   *)
(* them side by side and the binary search finds the first.  A value alone *)
(* is looked for only where all elements have one name, for names are      *)
(* sorted first.                                                           *)
Indexed ==
  LET below == IF index.element = NULL /\ index.ind.attr = NULL
               THEN Under(index.top) ELSE Under(index.top) \ {index.top}
  IN {n \in below : Matches(Tree, n, index.element, index.ind.attr, NULL)}
Answerable(query) ==
  /\ query.value # NULL => index.ind.attr # NULL
  /\ query.value # NULL /\ query.element = NULL =>
       \A m, n \in Indexed : name[m] = name[n]
Ended == IF index = NoIndex \/ found = <<>> THEN FALSE ELSE Last(found) = NULL
IndexFinds ==
  Ended => (Answerable(asked) =>
    /\ ToSet(Front(found)) =
         {n \in Indexed : Matches(Tree, n, asked.element, index.ind.attr, asked.value)}
    /\ IsInjective(Front(found)))
=============================================================================
