--------------------------- MODULE MCXmlTopology ---------------------------
(***************************************************************************)
(* Documents like test/device.xml: two devices on any of the routes, two   *)
(* i2c buses that hang on the root, on a remote terminal or on a bus, two  *)
(* remote terminals with one and two rows, and a converter with two        *)
(* channels, one of them on the root and one on a terminal.                *)
(***************************************************************************)
EXTENDS XmlTopology

El(name, attrs, text, kids) == [name |-> name, attrs |-> attrs, text |-> text, kids |-> kids]
Leaf(name, text) == El(name, <<>>, text, <<>>)
Group(name, kids) == El(name, <<>>, NULL, kids)
A(n, v) == [n |-> n, v |-> v]
To(name, lid) == [name |-> name, lid |-> lid, channel |-> NULL]
Channel(lid) == [name |-> "da", lid |-> "1", channel |-> lid]

(* What the author of a document has in mind. *)
Row(lid, a, b, c, d) ==
  [lid |-> lid, send_priority |-> a, send_blockSize |-> b, receive_priority |-> c, receive_blockSize |-> d]
Io(name, lid, type, rows) == [name |-> name, lid |-> lid, type |-> type, rows |-> rows]
Ios ==
  <<Io("i2c", "1", "i2c", <<>>), Io("i2c", "2", "i2c", <<>>), Io("1553b", "1", "1553b", <<>>),
    Io("RT", "1", "RT", <<Row("1", "11", "100", "21", "101")>>),
    Io("RT", "2", "RT", <<Row("1", "12", "200", "22", "201"), Row("2", "13", "300", "23", "301")>>),
    Io("da", "1", "ad", <<>>)>>
Routes == {Root, To("i2c", "1"), To("i2c", "2"), To("RT", "2"), Channel("1"), Channel("2")}
Devices(r1, r2) ==
  <<[lid |-> "1", type |-> "gyroscope", route |-> r1,
     attrs |-> <<[name |-> "model", value |-> "XM"], [name |-> "dataSize", value |-> "2"]>>],
    [lid |-> "2", type |-> "flywheel", route |-> r2,
     attrs |-> <<[name |-> "model", value |-> "XN"], [name |-> "dataSize", value |-> "4"],
                 [name |-> "voltage", value |-> "2.0v"]>>]>>
Conf(route, parent) == [name |-> route.name, lid |-> route.lid, channel |-> route.channel, parent |-> parent]
Configs(p1, p2, q) ==
  <<Conf(To("i2c", "1"), p1), Conf(To("RT", "1"), To("1553b", "1")), Conf(To("1553b", "1"), Root),
    Conf(Channel("1"), Root), Conf(To("RT", "2"), q), Conf(Channel("2"), To("RT", "1")),
    Conf(To("i2c", "2"), p2)>>

(* How it is written down. *)
(* (A concatenation is evaluated once; a function is at every use.)        *)
Each(seq, Op(_)) == <<>> \o [i \in 1 .. Len(seq) |-> Op(seq[i])]
DeviceElement(d) ==
  El("device_entity", <<A("type", d.type)>> \o (IF d.lid = NULL THEN <<>> ELSE <<A("lid", d.lid)>>), NULL,
     <<Group("description", Each(d.attrs, LAMBDA a : Leaf(a.name, a.value))),
       Group("operation", <<>>), Leaf("dependence", d.route)>>)
Table(rows, name) ==
  Group(name, Each(rows, LAMBDA r : El("device", <<A("lid", r.lid)>>,
                             IF name \in DOMAIN r THEN r[name] ELSE "0", <<>>)))
Described == Group("description", <<Leaf("clock", "1"), Leaf("width", "8")>>)
IoElement(e, tables) ==
  El("io_" \o e.name \o "_entity", <<A("type", e.type), A("lid", e.lid)>>, NULL,
     <<Described>> \o
     (IF e.type = "RT" THEN <<Group("tranData_description", Each(tables, LAMBDA n : Table(e.rows, n)))>>
      ELSE <<>>) \o
     (IF e.name = "da" THEN Each(<<"1", "2">>, LAMBDA l : El("channel", <<A("lid", l)>>, NULL, <<Described>>))
      ELSE <<>>))
ConfigElement(c) ==
  El("io_" \o c.name \o "_config",
     <<A("lid", c.lid)>> \o (IF c.channel = NULL THEN <<>> ELSE <<A("channel", c.channel)>>),
     NULL, <<Leaf("parent", c.parent)>>)
Element(devices, configs, tables) ==
  Group("machine", <<
    Group("device_description", Each(devices, DeviceElement)),
    Group("IO_description", <<
      Group("bus", Each(SubSeq(Ios, 1, 3), LAMBDA e : IoElement(e, tables))),
      Group("device_io", Each(SubSeq(Ios, 6, 6), LAMBDA e : IoElement(e, tables))),
      Group("RT", Each(SubSeq(Ios, 4, 5), LAMBDA e : IoElement(e, tables)))>>),
    Group("config_description", Each(configs, ConfigElement))>>)

(* The nodes of a document in the order of its text. *)
RECURSIVE Flat(_, _, _)
Flat(e, up, base) ==
  FoldLeft(LAMBDA acc, kid : acc \o Flat(kid, base + 1, base + Len(acc)),
           <<[up |-> up, name |-> e.name, attrs |-> e.attrs, text |-> e.text]>>, e.kids)
TreeOf(e) ==
  LET f == Flat(e, NULL, 0)
      nodes == 1 .. Len(f)
      of(Op(_)) == <<>> \o [n \in nodes |-> Op(n)]
      first(S) == IF S = {} THEN NULL ELSE CHOOSE n \in S : \A m \in S : n <= m
      last(S) == IF S = {} THEN NULL ELSE CHOOSE n \in S : \A m \in S : n >= m
      kids(p) == {m \in nodes : f[m].up = p}
      siblings(n) == kids(f[n].up)
  IN [kind |-> of(LAMBDA n : "element"),
      name |-> of(LAMBDA n : f[n].name),
      attrs |-> of(LAMBDA n : f[n].attrs),
      text |-> of(LAMBDA n : f[n].text),
      links |-> [parent |-> of(LAMBDA n : f[n].up),
                 child |-> of(LAMBDA n : first(kids(n))),
                 last_child |-> of(LAMBDA n : last(kids(n))),
                 prev |-> of(LAMBDA n : last({m \in siblings(n) : m < n})),
                 next |-> of(LAMBDA n : first({m \in siblings(n) : m > n}))]]
Tables == <<"send_priority", "send_blockSize", "receive_priority", "receive_blockSize">>

(* A layout: where the devices and three ios hang, and what is wrong with  *)
(* the document: nothing, a table whose name is not known, a bus that has  *)
(* no config, a config without its channel, or something missing in the    *)
(* second device: its lid, the text of an entry, or all its entries.       *)
Document(l) ==
  LET devices == Devices(l.dev1, l.dev2)
      configs == Configs(l.i2c1, l.i2c2, l.rt)
      kept == CASE l.flaw = "config" -> SubSeq(configs, 1, 6)
                [] l.flaw = "channel" -> [configs EXCEPT ![4].channel = NULL]
                [] OTHER -> configs
      asked == CASE l.flaw = "lid" -> [devices EXCEPT ![2].lid = NULL]
                 [] l.flaw = "text" -> [devices EXCEPT ![2].attrs[2].value = NULL]
                 [] l.flaw = "empty" -> [devices EXCEPT ![2].attrs = <<>>]
                 [] OTHER -> devices
      tables == IF l.flaw = "name" THEN <<"send_priority", "send_blocksize">> ELSE Tables
  IN [t |-> TreeOf(Element(asked, kept, tables)), root |-> 1,
      written |-> IF l.flaw # "none" THEN NULL
                  ELSE [devices |-> devices, ios |-> ToSet(Ios), configs |-> ToSet(configs)]]
Layouts ==
  [dev1 : Routes, dev2 : {Root, To("i2c", "2"), Channel("2")},
   i2c1 : {Root, To("RT", "1"), To("RT", "2")}, i2c2 : {To("1553b", "1")}, rt : {Root},
   flaw : {"none"}] \cup
  [dev1 : {Root, Channel("1")}, dev2 : {Root, To("i2c", "2"), Channel("2")},
   i2c1 : {Root}, i2c2 : {To("RT", "2")}, rt : {To("1553b", "1")},
   flaw : {"none", "name", "config", "channel", "lid", "text", "empty"}]
MCDocs == FoldSet(LAMBDA l, acc : Append(acc, Document(l)), <<>>, Layouts)
=============================================================================
