---------------------------- MODULE XmlTopology ----------------------------
(***************************************************************************)
(* utility/XmlParser.c: parseXml walks the configuration and makes one     *)
(* DeviceNode per device_entity, followed by an IONode for every bus       *)
(* between the device and the computer; the getters below it hand the      *)
(* result out, each by a static cursor of its own.                         *)
(*                                                                         *)
(* A document is a tree as in XmlSearch with the text of each element: for *)
(* dependence and parent a route, that is the io it names and the channel  *)
(* of it (or NULL), or Root.  Documents have no blanks between elements    *)
(* (mxmlLoadFile makes a text node of each), and strings none around them; *)
(* they fit their buffers.                                                 *)
(*                                                                         *)
(* What is not in a document is NULL, and a strcpy, strcmp or strlen of    *)
(* NULL is a crash.                                                        *)
(***************************************************************************)
EXTENDS XmlSearch

CONSTANTS Docs,    \* a function to the documents that may be loaded: the tree
                   \* t, its root, and what its author wrote, or NULL
          Root     \* the text "ROOT"

VARIABLES
  doc,       \* which document is loaded
  pc,        \* "devices", "chain", "parsed", "stopped" or "crashed"
  dev,       \* dev_node_p
  io,        \* io_node_p
  config,    \* io_config_node_p
  node,      \* dev_node while it is in no list, NULL afterwards
  count,     \* device_id_tmp
  list,      \* DeviceList; the IONodes of a device are its ios
  cursor,    \* the static cursors of the getters
  item,      \* what is being read: an IONode or a DeviceNode, or NULL
  got        \* history: what the getters returned for it
parseVars == <<pc, dev, io, config, node, count, list>>
readVars == <<cursor, item, got>>
vars == <<doc, parseVars, readVars>>

Library == Docs      \* a definition is evaluated once, a CONSTANT at every use

(* The nodes of a document are numbered in the order of its text, in which *)
(* they are created: the nodes below one are those from it to the last.    *)
InTextOrder(t) ==
  LET nodes == 1 .. Len(t.kind)
      last(n) == LastBelow(t, n)
  IN /\ Len(t.kind) \in Nat /\ DOMAIN t.kind = nodes
     /\ \A n \in nodes :
          LET child == t.links.child[n]  next == t.links.next[n]  parent == t.links.parent[n]
          IN /\ {child, next, parent} \subseteq nodes \cup {NULL}
             /\ last(n) \in n .. Len(t.kind)
             /\ child # NULL => n < child
             /\ next # NULL => last(n) < next
             /\ parent # NULL => parent < n /\ last(n) <= last(parent)
ASSUME DocsAssumption ==
  /\ NULL \notin Nat
  /\ \A d \in DOMAIN Library : /\ InTextOrder(Library[d].t)
                               /\ Library[d].root \in DOMAIN Library[d].t.kind

T == Library[doc].t
root == Library[doc].root
written == Library[doc].written
FirstBelow(n, name) == FindElement(T, n, root, name, NULL, NULL, "all")

Cursors == {"dev_attr_name", "dev_attr_value", "io_attr_name", "io_attr_value",
            "lid", "s_p", "r_p", "s_b", "r_b"}
Init ==
  /\ doc \in DOMAIN Library
  /\ pc = "devices" /\ dev = FirstBelow(root, "device_entity")
  /\ io = NULL /\ config = NULL /\ node = NULL
  /\ count = 0 /\ list = <<>>
  /\ cursor = [c \in Cursors |-> 0] /\ item = NULL /\ got = <<>>

(***************************************************************************)
(* findDependedNode.                                                       *)
(***************************************************************************)
Entity(route) ==
  LET e == FindElement(T, root, root, "io_" \o route.name \o "_entity",
                       "lid", route.lid, "all")
  IN IF route.channel = NULL THEN e
     ELSE FindElement(T, e, root, "channel", "lid", route.channel, "all")

(* The first config whose channel is the route's, the last one otherwise.  *)
ConfigFrom(node_p, route) ==
  LET from[n \in DOMAIN T.kind] ==
        LET next == FindElement(T, n, root, "io_" \o route.name \o "_config",
                                "lid", route.lid, "all")
        IN IF next = NULL THEN (IF n = root THEN NULL ELSE n)
           ELSE IF route.channel # NULL /\ GetAttr(T, next, "channel") = route.channel THEN next
           ELSE from[next]
  IN from[node_p]
(* (ByChannel: a mutant that takes every route to have a channel.)         *)
ConfigByChannel(route) ==
  FindElement(T, root, root, "io_" \o route.name \o "_config", "channel", route.channel, "all")
Config(route) == ConfigFrom(root, route)

(* strcmp of the channel a config does not have: none before it fits.      *)
Unmarked(route) ==
  IF route = Root THEN FALSE
  ELSE LET configs == {n \in DOMAIN T.kind :
                         Matches(T, n, "io_" \o route.name \o "_config", "lid", route.lid)}
       IN /\ route.channel # NULL
          /\ \E n \in configs : /\ GetAttr(T, n, "channel") = NULL
                               /\ \A m \in configs : m < n => GetAttr(T, m, "channel") # route.channel

(* The route an element's dependence or parent gives. *)
RouteOf(n, tag) ==
  LET e == FirstBelow(n, tag) IN IF e = NULL THEN NULL ELSE T.text[e]
Follow(route) ==
  /\ io' = IF route = Root THEN NULL ELSE Entity(route)
  /\ config' = IF route = Root THEN NULL ELSE Config(route)

(***************************************************************************)
(* What stands in the description of a device or an io.                    *)
(***************************************************************************)
(* The loops with MXML_NO_DESCEND.  The first node is searched for up to   *)
(* the root: that of an empty description lies behind it.                  *)
Entries(description, descend) ==
  LET from[n \in DOMAIN T.kind \cup {NULL}] ==
        IF n = NULL THEN <<>>
        ELSE <<n>> \o from[FindElement(T, n, description, NULL, NULL, NULL, "none")]
  IN from[FindElement(T, description, root, NULL, NULL, NULL, descend)]
Attribute(n) == [name |-> T.name[n], value |-> T.text[n]]
Attributes(nodes) == [i \in 1 .. Len(nodes) |-> Attribute(nodes[i])]

(* io_attr_len is set to 0 for every attribute: the last one is kept. *)
LastOf(nodes) == IF nodes = <<>> THEN <<>> ELSE <<Attribute(Last(nodes))>>

(* RTTransaction: the last table of each kind, and the devices of the one  *)
(* that came last.  info is indexed as in XmlParser.h.                     *)
TablePos(name) ==
  CASE name = "send_priority" -> 0 [] name = "receive_priority" -> 1
    [] name = "send_blockSize" -> 2 [] name = "receive_blockSize" -> 3 [] OTHER -> NULL
NoTables == [lids |-> <<>>, info |-> [p \in 0 .. 3 |-> <<>>]]
Lids(rows) == [i \in 1 .. Len(rows) |-> GetAttr(T, rows[i], "lid")]
Cells(rows) == [i \in 1 .. Len(rows) |-> T.text[rows[i]]]
TablesOf(nodes) ==
  LET at(p) == {i \in 1 .. Len(nodes) : TablePos(T.name[nodes[i]]) = p}
  IN [lids |-> IF nodes = <<>> THEN <<>> ELSE Lids(Entries(Last(nodes), "all")),
      info |-> [p \in 0 .. 3 |-> IF at(p) = {} THEN <<>>
                                  ELSE Cells(Entries(nodes[Max(at(p))], "all"))]]

(***************************************************************************)
(* parseXml.                                                               *)
(***************************************************************************)
Crash == pc' = "crashed" /\ UNCHANGED <<dev, io, config, node, count, list>>

(* A route that leads nowhere because a text is missing on it. *)
Broken(route) == IF route = NULL THEN TRUE ELSE Unmarked(route)
Untexted(nodes) == \E i \in 1 .. Len(nodes) : T.text[nodes[i]] = NULL
Unnamed(n, names) == \E name \in names : GetAttr(T, n, name) = NULL

TakeDevice ==
  /\ pc = "devices" /\ dev # NULL
  /\ LET route == RouteOf(dev, "dependence")
         description == Entries(FirstBelow(dev, "description"), "all")
     IN IF Unnamed(dev, {"lid", "type"}) \/ Untexted(description) \/ Broken(route)
        THEN Crash
        ELSE /\ pc' = "chain"
             /\ node' = [id |-> count, lid |-> GetAttr(T, dev, "lid"),
                         type |-> GetAttr(T, dev, "type"),
                         \* getInterface: the text up to the first ':'.
                         interface |-> IF route = Root THEN NULL ELSE route.name,
                         attrs |-> Attributes(description),
                         ios |-> <<>>]
             /\ count' = count + 1
             /\ Follow(route)
             /\ UNCHANGED <<dev, list>>
  /\ UNCHANGED <<doc, readVars>>

(* An io that is a channel is known by the lid and type of its parent. *)
IOElement == IF T.name[io] = "channel" THEN T.links.parent[io] ELSE io
IsRT == GetAttr(T, IOElement, "type") = "RT"
IOEntries == Entries(FirstBelow(io, IF IsRT THEN "tranData_description" ELSE "description"), "first")
IONode ==
  [lid |-> GetAttr(T, IOElement, "lid"), type |-> GetAttr(T, IOElement, "type"),
   attrs |-> IF IsRT THEN <<>> ELSE LastOf(IOEntries),
   tables |-> IF IsRT THEN TablesOf(IOEntries) ELSE NoTables]
(* The device enters the list with its first io.                           *)
(* (Always: a mutant that lists it anew with every io.)                    *)
ListedAlways(n) ==
  Append(list, [IF node # NULL THEN node ELSE Last(list) EXCEPT !.ios = Append(@, n)])
Listed(n) ==
  IF node # NULL THEN Append(list, [node EXCEPT !.ios = <<n>>])
  ELSE [list EXCEPT ![Len(list)].ios = Append(@, n)]

(* Entries are copied in their order: those of an RT up to one with        *)
(* another name, which ends parseXml where it stands, before DeviceListLen *)
(* is set: the list counts as empty.                                       *)
Unknown == {i \in 1 .. Len(IOEntries) : IsRT /\ TablePos(T.name[IOEntries[i]]) = NULL}
Uncopied ==
  \/ Unnamed(IOElement, {"lid", "type"})
  \/ ~IsRT /\ Untexted(IOEntries)
  \/ IsRT /\ \E i \in 1 .. Len(IOEntries) :
       /\ \A j \in Unknown : i < j
       /\ LET rows == Entries(IOEntries[i], "all")
          IN Untexted(rows) \/ \E k \in 1 .. Len(rows) : Unnamed(rows[k], {"lid"})
TakeIO ==
  /\ pc = "chain" /\ io # NULL
  /\ LET route == RouteOf(config, "parent")
     IN IF Uncopied THEN Crash
        ELSE IF Unknown # {}
        THEN pc' = "stopped" /\ list' = <<>> /\ UNCHANGED <<dev, io, config, node, count>>
        ELSE IF Broken(route) THEN Crash
        ELSE /\ list' = Listed(IONode)
             /\ node' = NULL
             /\ Follow(route)
             /\ UNCHANGED <<pc, dev, count>>
  /\ UNCHANGED <<doc, readVars>>

NextDevice ==
  /\ pc = "chain" /\ io = NULL
  /\ pc' = "devices"
  /\ dev' = FindElement(T, dev, root, "device_entity", NULL, NULL, "none")
  /\ UNCHANGED <<doc, io, config, node, count, list, readVars>>

EndOfDocument ==
  /\ pc = "devices" /\ dev = NULL
  /\ pc' = "parsed"
  /\ UNCHANGED <<doc, dev, io, config, node, count, list, readVars>>

(***************************************************************************)
(* The getters.  A caller reads an item to its end before the next: that   *)
(* leaves a cursor where the item's length put it, not at 0.  Any device   *)
(* and io may come next: get_device_list_items goes round the list.        *)
(***************************************************************************)
(* (Ending: a mutant that stays at the end once it is there.)              *)
AtEnding(c, len) == IF cursor[c] < len THEN cursor[c] ELSE len - 1
At(c, len) == cursor[c] % len
Moved(used, len) == [c \in Cursors |-> IF c \in used THEN At(c, len) + 1 ELSE cursor[c]]

(* What is read, how much of it there is, and by which getters. *)
Items ==
  UNION {{[of |-> list[d], len |-> Len(list[d].attrs), kind |-> "device"]} \cup
         {IF n.type = "RT" THEN [of |-> n, len |-> Len(n.tables.lids), kind |-> "RT"]
          ELSE [of |-> n, len |-> Len(n.attrs), kind |-> "io"] : n \in ToSet(list[d].ios)} :
           d \in 1 .. Len(list)}
Choose(i) ==
  /\ pc = "parsed"
  /\ IF item = NULL THEN TRUE ELSE Len(got) = item.len
  /\ item' = i /\ got' = <<>>
  /\ UNCHANGED <<doc, parseVars, cursor>>
Reading(kind) ==
  /\ IF item = NULL THEN FALSE ELSE item.kind = kind /\ Len(got) < item.len
  /\ UNCHANGED <<doc, parseVars, item>>

(* get_device_attrs_name and get_device_attrs_value, which looks into      *)
(* attr_name too.                                                          *)
ReadDeviceAttribute ==
  /\ Reading("device")
  /\ got' = Append(got, [name |-> item.of.attrs[At("dev_attr_name", item.len) + 1].name,
                         value |-> item.of.attrs[At("dev_attr_value", item.len) + 1].name])
  /\ cursor' = Moved({"dev_attr_name", "dev_attr_value"}, item.len)
(* get_io_attrs_name and get_io_attrs_value. *)
ReadIOAttribute ==
  /\ Reading("io")
  /\ got' = Append(got, [name |-> item.of.attrs[At("io_attr_name", item.len) + 1].name,
                         value |-> item.of.attrs[At("io_attr_value", item.len) + 1].value])
  /\ cursor' = Moved({"io_attr_name", "io_attr_value"}, item.len)
(* get_RT_trans_devices_lid and the getters of the four tables. *)
ReadRow ==
  /\ Reading("RT")
  /\ LET cell(p, c) == item.of.tables.info[p][At(c, item.len) + 1]
     IN got' = Append(got, [lid |-> item.of.tables.lids[At("lid", item.len) + 1],
                            send_priority |-> cell(0, "s_p"), send_blockSize |-> cell(2, "s_b"),
                            receive_priority |-> cell(1, "r_p"), receive_blockSize |-> cell(3, "r_b")])
  /\ cursor' = Moved({"lid", "s_p", "r_p", "s_b", "r_b"}, item.len)

Parse == TakeDevice \/ TakeIO \/ NextDevice \/ EndOfDocument
Read == ReadDeviceAttribute \/ ReadIOAttribute \/ ReadRow
Next == Parse \/ (\E i \in Items : Choose(i)) \/ Read
(* parseXml runs to its end. *)
Spec == Init /\ [][Next]_vars /\ WF_vars(Parse)

(***************************************************************************)
(* Properties, of documents in which every route leads to the root and     *)
(* whose descriptions are filled in: written is what the author meant. *)
(***************************************************************************)
Sound == written # NULL

Way(start) ==
  LET way[route \in {start} \cup {c.parent : c \in written.configs}] ==
        IF route = Root THEN <<>>
        ELSE LET e == CHOOSE e \in written.ios : e.name = route.name /\ e.lid = route.lid
                 c == CHOOSE c \in written.configs :
                        c.name = route.name /\ c.lid = route.lid /\ c.channel = route.channel
             IN <<e>> \o way[c.parent]
  IN way[start]
RowsOf(n) ==
  [i \in 1 .. Len(n.tables.lids) |->
     [lid |-> n.tables.lids[i],
      send_priority |-> n.tables.info[0][i], receive_priority |-> n.tables.info[1][i],
      send_blockSize |-> n.tables.info[2][i], receive_blockSize |-> n.tables.info[3][i]]]

(* The list holds the devices that hang on a bus, in the order they are    *)
(* written in, each with its own data and with every io between it and the *)
(* root, each of these with its own lid, type and tables: two ios may      *)
(* share a lid, and channels share an entity.                              *)
DevicesAsWritten ==
  Sound /\ pc = "parsed" =>
    LET devices == SelectSeq(written.devices, LAMBDA d : d.route # Root)
    IN /\ Len(list) = Len(devices)
       /\ \A i \in 1 .. Len(list) :
            LET d == list[i]  w == devices[i]  way == Way(w.route)
            IN /\ <<d.lid, d.type, d.interface, d.attrs>> = <<w.lid, w.type, w.route.name, w.attrs>>
               /\ Len(d.ios) = Len(way)
               /\ \A k \in 1 .. Len(way) :
                    /\ <<d.ios[k].lid, d.ios[k].type>> = <<way[k].lid, way[k].type>>
                    /\ RowsOf(d.ios[k]) = way[k].rows

(* Reading as many entries as an item has gives each of them once, from    *)
(* some entry on and round, and the parts of a row together, wherever the  *)
(* reading of another item left the cursors.                               *)
FromOneOn(whole, k) ==
  [i \in 1 .. Len(whole) |-> whole[((i + k - 1) % Len(whole)) + 1]]
GoesRound(seq, whole) == \E k \in 0 .. Len(whole) : seq = FromOneOn(whole, k)
NamesOf(seq) == [i \in 1 .. Len(seq) |-> seq[i].name]
ReadsWhole ==
  IF item = NULL THEN TRUE
  ELSE Len(got) = item.len =>
    CASE item.kind = "RT" -> GoesRound(got, RowsOf(item.of))
      [] item.kind = "io" -> got = item.of.attrs
      [] OTHER -> GoesRound(NamesOf(got), NamesOf(item.of.attrs))

(* parseXml comes to the end of such a document. *)
ParseEnds == Sound ~> pc = "parsed"
=============================================================================
