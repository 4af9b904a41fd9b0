------------------------------ MODULE PnPInit ------------------------------
(***************************************************************************)
(* init() of init.c: the devices of the configuration are registered, the  *)
(* drivers are loaded, and each device is bound to a driver whose match    *)
(* function collects the device's template data.  The program is one       *)
(* thread; each action is one iteration of a loop of init(), or one call   *)
(* of a matching function, with everything it calls.                       *)
(*                                                                         *)
(* A configuration is a sequence of device_entity elements                 *)
(*   [lid, type, interface, global, length, ops]                           *)
(* global is NULL or [tid, fill]; ops is a sequence of [name, tid, fill];  *)
(* length is op_list's length attribute.  fill says what the fill function *)
(* of the element does with its parameters: "ok", "mismatch" (a parameter  *)
(* is not the expected one: it returns FAILURE) or "invalid" (a missing or *)
(* ill-typed parameter: a check_* function calls exit(1)).                 *)
(***************************************************************************)
EXTENDS Integers, Sequences, Drivers

CONSTANTS
  Lids,      \* the logical ids
  Slots,     \* the slots of lid2dev_table
  HashOf,    \* hashstr() on the lids
  Configs,   \* the configurations the program may be started with
  NULL

(* What the parser hands over: attributes that are numbers are read with   *)
(* strtoul; the global element of a device is an element apart from its op *)
(* elements, and no op is named "global".                                  *)
Elements == [tid : Nat, fill : {"ok", "mismatch", "invalid"}]
OpElements ==
  [name : STRING \ {"global"}, tid : Nat, fill : {"ok", "mismatch", "invalid"}]
Entities ==
  [lid : Lids, type : STRING, interface : Seq(STRING),
   global : Elements \cup {NULL}, length : Nat, ops : Seq(OpElements)]

ASSUME PnPInitAssumption ==
  /\ HashOf \in [Lids -> Slots]
  /\ NULL \notin DriverTypes /\ NULL \notin Elements
  /\ \A c \in Configs : c \in Seq(Entities) /\ Len(c) > 0

VARIABLES
  config,      \* the parsed configuration (DeviceList, and the xml tree)
  pc,          \* where init() is
  i,           \* the counter of the loop init() is in
  minors,      \* minors[]: the next minor number of each major
  devs,        \* the device structures, in the order of their allocation
  devLists,    \* device_index_table: the chain of each major
  lid2dev,     \* lid2dev_table
  counter,     \* get_driver_loader's static counter
  drvLists,    \* driver_index_table: the drivers of each major
  curMajor,    \* get_device's static cur_major
  node,        \* get_device's static node: the rest of the chain it is in
  ctx,         \* device_context: an element of config, or 0
  devp,        \* the device being bound
  drip,        \* the driver it is matched with
  opPos,       \* op_list_fetch_tracer
  tables,      \* the template data tables, in the order of allocation
  tdt,         \* template_data_table: an element of tables, or 0
  record,      \* gyroscope_match.c's complementation_record
  outcome      \* "none" while init() runs, then how it ended

regVars   == << minors, devLists, lid2dev >>
loadVars  == << counter, drvLists >>
iterVars  == << curMajor, node >>
matchVars == << ctx, devp, drip, opPos, tables, tdt, record >>
vars == << config, pc, i, regVars, devs, loadVars, iterVars, matchVars, outcome >>

Hash == INSTANCE HashStr WITH Strings <- Lids

(* The keys of lid2dev_table are the lids of DeviceList, never rewritten.  *)
LidMem == [l \in Lids |-> l]

EmptyLists == [m \in Majors |-> << >>]
EmptyTable == [n \in TableIndices |-> NULL]

Init ==
  /\ config \in Configs
  /\ pc = "register" /\ i = 0
  /\ minors = [m \in Majors |-> 0]
  /\ devs = << >>
  /\ devLists = EmptyLists
  /\ lid2dev = Hash!EmptyTable
  /\ counter = 0
  /\ drvLists = EmptyLists
  /\ curMajor = -1 /\ node = << >>
  /\ ctx = 0 /\ devp = 0 /\ drip = NULL /\ opPos = 0
  /\ tables = << >> /\ tdt = 0
  /\ record = {}
  /\ outcome = "none"

Goto(label) == pc' = label /\ UNCHANGED outcome

(* init() returns, or a check calls exit(1).                               *)
End(how) == pc' = "done" /\ outcome' = how

-----------------------------------------------------------------------------
(* register_devices                                                        *)

(* What a registered device is: the fields of struct device.               *)
NewDevice(e, minor) ==
  [ devno |-> << TypeMajor[e.type], minor >>, lid |-> e.lid, type |-> e.type,
    interface |-> e.interface, operation |-> NULL, private |-> 0 ]

(* Mutant: the minor number of the next device is not advanced.            *)
NextMinorSame(major) == minors[major]

(* alloc_devno: minors[major]++                                            *)
NextMinor(major) == minors[major] + 1

RegisterDevice ==
  LET e == config[i + 1]
      major == TypeMajor[e.type]
      p == Len(devs) + 1
  IN /\ pc = "register" /\ i < Len(config)
     /\ e.type \in DeviceTypes
     /\ minors' = [minors EXCEPT ![major] = NextMinor(major)]
     /\ devs' = Append(devs, NewDevice(e, minors[major]))
     /\ lid2dev' = Hash!AddHashItem(lid2dev, LidMem, e.lid, p)
     /\ devLists' = [devLists EXCEPT ![major] = Append(@, p)]
     /\ i' = i + 1
     /\ Goto("register")
     /\ UNCHANGED << config, loadVars, iterVars, matchVars >>

(* type2major exits on a type that has no major number.                    *)
UnknownType ==
  /\ pc = "register" /\ i < Len(config)
  /\ config[i + 1].type \notin DeviceTypes
  /\ End("exit")
  /\ UNCHANGED << config, i, regVars, devs, loadVars, iterVars, matchVars >>

DevicesRegistered ==
  /\ pc = "register" /\ i = Len(config)
  /\ i' = 0
  /\ Goto("load")
  /\ UNCHANGED << config, regVars, devs, loadVars, iterVars, matchVars >>

-----------------------------------------------------------------------------
(* register_drivers                                                        *)

LoadDriver ==
  LET driver == Loaders[counter + 1]
  IN /\ pc = "load" /\ i < Len(Loaders)
     /\ counter' = counter + 1
     /\ drvLists' = [drvLists EXCEPT ![TypeMajor[driver]] = Append(@, driver)]
     /\ i' = i + 1
     /\ Goto("load")
     /\ UNCHANGED << config, regVars, devs, iterVars, matchVars >>

DriversLoaded ==
  /\ pc = "load" /\ i = Len(Loaders)
  /\ i' = 0
  /\ Goto("bind")
  /\ UNCHANGED << config, regVars, devs, loadVars, iterVars, matchVars >>

-----------------------------------------------------------------------------
(* bind_drivers                                                            *)

NoDevice == 0
DeviceNum == Len(devs)

(* get_device: the next device of the chain it is in or, at its end, of    *)
(* the next chain that is not empty; NoDevice behind the last one.         *)
GetDevice ==
  LET start == IF curMajor = -1 THEN FirstUsedMajor ELSE curMajor
      here == IF curMajor = -1 THEN devLists[start] ELSE node
      later == { m \in Majors : m > start /\ devLists[m] # << >> }
      next == CHOOSE m \in later : \A n \in later : m <= n
      at(m, chain) == [dev |-> Head(chain), major |-> m, node |-> Tail(chain)]
  IN IF here # << >> THEN at(start, here)
     ELSE IF later # {} THEN at(next, devLists[next])
     ELSE [dev |-> NoDevice, major |-> -1, node |-> << >>]

(* get_driver: the first driver of the major that supports the interface.  *)
DriverList(d) == drvLists[devs[d].devno[1]]

Supporting(d) ==
  { n \in DOMAIN DriverList(d) :
      IsSupportedInterface(InterfacesString[DriverList(d)[n]], devs[d].interface) }

GetDriver(d) ==
  DriverList(d)[CHOOSE n \in Supporting(d) : \A k \in Supporting(d) : n <= k]

(* find_element_in_context: the first device_entity of that lid.           *)
EntityOf(lid) ==
  CHOOSE n \in DOMAIN config :
    config[n].lid = lid /\ \A k \in 1 .. n - 1 : config[k].lid # lid

NameListFits(n) == config[n].length <= Len(config[n].ops)

(* get_device moves its static cursor whatever becomes of the device.      *)
AdvanceIterator ==
  /\ devp' = GetDevice.dev
  /\ curMajor' = GetDevice.major
  /\ node' = GetDevice.node

(* Mutant: one static table for all.                                       *)
InitSharedTable ==
  /\ tables' = << [live |-> TRUE, slot |-> EmptyTable] >>
  /\ tdt' = 1

(* init_table: a zeroed table of its own for every device                  *)
InitTable ==
  /\ tables' = Append(tables, [live |-> TRUE, slot |-> EmptyTable])
  /\ tdt' = Len(tables) + 1

(* A driver is found, the device context is established (with the list of  *)
(* operation names) and do_match allocates a zeroed table.                 *)
BeginMatch ==
  LET d == GetDevice.dev
      n == EntityOf(devs[d].lid)
  IN /\ pc = "bind" /\ i < DeviceNum
     /\ Supporting(d) # {}
     /\ NameListFits(n)
     /\ AdvanceIterator
     /\ drip' = GetDriver(d)
     /\ ctx' = n
     /\ opPos' = 0
     /\ InitTable
     /\ Goto("global")
     /\ UNCHANGED << config, i, regVars, devs, loadVars, record >>

(* No driver supports the interface, or op_list is shorter than it says.   *)
CannotMatch ==
  LET d == GetDevice.dev
  IN /\ pc = "bind" /\ i < DeviceNum
     /\ Supporting(d) = {} \/ ~NameListFits(EntityOf(devs[d].lid))
     /\ AdvanceIterator
     /\ End("exit")
     /\ UNCHANGED << config, i, regVars, devs, loadVars,
                     ctx, drip, opPos, tables, tdt, record >>

DevicesBound ==
  /\ pc = "bind" /\ i = DeviceNum
  /\ drvLists' = EmptyLists
  /\ End("SUCCESS")
  /\ UNCHANGED << config, i, regVars, devs, counter, iterVars, matchVars >>

-----------------------------------------------------------------------------
(* do_match, for the driver drip and the element ctx of the configuration  *)

(* The operation element an operation name leads to: the first of the name *)
OpElement(name) ==
  LET ops == config[ctx].ops
  IN ops[CHOOSE n \in DOMAIN ops :
           ops[n].name = name /\ \A k \in 1 .. n - 1 : ops[k].name # name]

Usable(op, elem) == HasTemplate(drip, op, elem.tid) /\ elem.fill # "invalid"

(* the match function of the element ran (it set its bit, matched or not)  *)
Recorded(op) ==
  IF drip = "gyroscope" /\ op \in {"global", "open"}
    THEN record \cup {ElementIndex(drip, op)} ELSE record

(* Mutant: the data is entered at the position of the operation element.   *)
EnterAtPosition(op) ==
  tables' = [tables EXCEPT ![tdt].slot[opPos] = [entity |-> ctx, op |-> op]]

(* check_match enters the data at the index of the operation.              *)
Enter(op) ==
  tables' = [tables EXCEPT ![tdt].slot[ElementIndex(drip, op)]
               = [entity |-> ctx, op |-> op]]

(* try_match, MATCH: check_match enters the collected data.                *)
Matches(op, elem) ==
  /\ Usable(op, elem) /\ (Collects(drip, op) => elem.fill = "ok")
  /\ record' = Recorded(op)
  /\ IF Collects(drip, op) THEN Enter(op) ELSE UNCHANGED tables
  /\ UNCHANGED << ctx, tdt >>

(* try_match, UNMATCH: the table is freed; bind_drivers closes the context *)
Unmatches(op, elem) ==
  /\ Usable(op, elem) /\ Collects(drip, op) /\ elem.fill = "mismatch"
  /\ record' = Recorded(op)
  /\ tables' = [tables EXCEPT ![tdt].live = FALSE]
  /\ tdt' = 0
  /\ ctx' = 0
  /\ opPos' = 0
  /\ End("FAILURE")

NoGlobal ==
  /\ pc = "global"
  /\ config[ctx].global = NULL
  /\ Goto("ops")
  /\ UNCHANGED << config, i, regVars, devs, loadVars, iterVars, matchVars >>

MatchGlobal ==
  /\ pc = "global"
  /\ config[ctx].global # NULL
  /\ \/ Matches("global", config[ctx].global) /\ Goto("ops") /\ UNCHANGED opPos
     \/ Unmatches("global", config[ctx].global)
  /\ UNCHANGED << config, i, regVars, devs, loadVars, iterVars, devp, drip >>

(* get_op_name                                                             *)
OpName == config[ctx].ops[opPos + 1].name

(* Mutant: the name after the one just matched is never asked for.         *)
NextOpStuck == UNCHANGED opPos

NextOp == opPos' = opPos + 1

MatchOp ==
  /\ pc = "ops" /\ opPos < config[ctx].length
  /\ \/ Matches(OpName, OpElement(OpName)) /\ NextOp /\ Goto("ops")
     \/ Unmatches(OpName, OpElement(OpName))
  /\ UNCHANGED << config, i, regVars, devs, loadVars, iterVars, devp, drip >>

(* No match function has the template's name, or a check exits.            *)
BadTemplate ==
  /\ \/ /\ pc = "global" /\ config[ctx].global # NULL
        /\ ~Usable("global", config[ctx].global)
     \/ /\ pc = "ops" /\ opPos < config[ctx].length
        /\ ~Usable(OpName, OpElement(OpName))
  /\ End("exit")
  /\ UNCHANGED << config, i, regVars, devs, loadVars, iterVars, matchVars >>

(* has_all_required_operations_complemented reads and clears the record of *)
(* a driver that has a minimal function set (the gyroscope's).             *)
Complemented == RequiredOps(drip) \subseteq record

(* Mutant: the record is kept for the next device.                         *)
KeptRecord == record

ClearedRecord == IF RequiredOps(drip) = {} THEN record ELSE {}

(* MATCH: do_bind, and the context is destroyed.                           *)
Bind ==
  /\ pc = "ops" /\ opPos = config[ctx].length
  /\ Complemented
  /\ devs' = [devs EXCEPT ![devp].operation = drip, ![devp].private = tdt]
  /\ record' = ClearedRecord
  /\ ctx' = 0
  /\ opPos' = 0
  /\ i' = i + 1
  /\ Goto("bind")
  /\ UNCHANGED << config, regVars, loadVars, iterVars, devp, drip, tables, tdt >>

(* A required operation is missing: the table is not freed here.           *)
NotComplemented ==
  /\ pc = "ops" /\ opPos = config[ctx].length
  /\ ~Complemented
  /\ record' = ClearedRecord
  /\ ctx' = 0
  /\ opPos' = 0
  /\ End("FAILURE")
  /\ UNCHANGED << config, i, regVars, devs, loadVars, iterVars,
                  devp, drip, tables, tdt >>

Next ==
  \/ RegisterDevice \/ UnknownType \/ DevicesRegistered
  \/ LoadDriver \/ DriversLoaded
  \/ BeginMatch \/ CannotMatch \/ DevicesBound
  \/ NoGlobal \/ MatchGlobal \/ MatchOp \/ BadTemplate
  \/ Bind \/ NotComplemented

(* One thread runs init(): it takes its next step if there is one.         *)
Spec == Init /\ [][Next]_vars /\ WF_vars(Next)

-----------------------------------------------------------------------------
(***************************************************************************)
(* Properties                                                              *)
(***************************************************************************)

Devices == DOMAIN devs
(* alloc_devno gives no number twice: two device structures, of one type   *)
(* or of different types, never have the same device number, and each is   *)
(* in the chain of its major and in no other (device_register.c:24-41).    *)
DevnosUnique ==
  \A d, k \in Devices :
    /\ devs[d].devno = devs[k].devno => d = k
    /\ \A m \in Majors :
         (\E n \in DOMAIN devLists[m] : devLists[m][n] = d) <=> m = devs[d].devno[1]

(* A device's private data is a table of its own that has not been freed,  *)
(* and it has one exactly when it has its driver's operations.             *)
PrivateTables ==
  \A d \in Devices :
    /\ devs[d].private # 0 <=> devs[d].operation # NULL
    /\ devs[d].private # 0 => tables[devs[d].private].live
    /\ \A k \in Devices \ {d} :
         devs[d].private # 0 => devs[d].private # devs[k].private

(* The operations an element lists, as far as its length attribute says.   *)
Listed(n) == { config[n].ops[k].name : k \in 1 .. config[n].length }
                \cup (IF config[n].global = NULL THEN {} ELSE {"global"})

(* What a bound device's table must hold: the data of every operation that *)
(* is configured for its lid and that the driver collects, each at the     *)
(* index its operations look it up at, and nothing else.                   *)
ConfiguredTable(d) ==
  LET n == EntityOf(devs[d].lid)
      t == devs[d].type
      at(k) == { op \in Listed(n) : Collects(t, op) /\ ElementIndex(t, op) = k }
  IN [k \in TableIndices |->
        IF at(k) = {} THEN NULL
        ELSE [entity |-> n, op |-> CHOOSE op \in at(k) : TRUE]]

(* When init() reports success every device of the configuration has been  *)
(* bound to the driver of its type, with the data configured for its lid.  *)
BoundAsConfigured ==
  outcome = "SUCCESS" =>
    /\ Len(devs) = Len(config)
    /\ \A d \in Devices : /\ devs[d].operation = devs[d].type
                          /\ tables[devs[d].private].slot = ConfiguredTable(d)

(* An element of the configuration that the match function of op accepts.  *)
WellFormed(type, op, elem) ==
  /\ elem.tid = 0
  /\ elem.fill # "invalid"
  /\ Collects(type, op) => elem.fill = "ok"

(* The k-th listed operation is one of the driver's, and the first element *)
(* of its name is accepted.                                                *)
OpAcceptable(type, ops, k) ==
  /\ HasOp(type, ops[k].name)
  /\ \E j \in 1 .. k :
       /\ ops[j].name = ops[k].name
       /\ \A h \in 1 .. j - 1 : ops[h].name # ops[k].name
       /\ WellFormed(type, ops[j].name, ops[j])

(* The judgement of a configuration, written down apart from the program:  *)
(* a device is acceptable when a driver of its type declares an interface  *)
(* that contains its own, all its listed elements have a template and are  *)
(* well-formed and, for a gyroscope, global and open are among them.       *)
Acceptable(n) ==
  LET e == config[n]
      c == config[EntityOf(e.lid)]
  IN /\ e.type \in DriverTypes
     /\ IsSupportedInterface(InterfacesString[e.type], e.interface)
     /\ c.length <= Len(c.ops)
     /\ c.global # NULL => WellFormed(e.type, "global", c.global)
     /\ \A k \in 1 .. c.length : OpAcceptable(e.type, c.ops, k)
     /\ e.type = "gyroscope" => {"global", "open"} \subseteq Listed(EntityOf(e.lid))

(* init() succeeds for exactly the configurations all of whose devices are *)
(* acceptable, whatever came before a device in the order of binding.      *)
VerdictCorrect ==
  pc = "done" =>
    (outcome = "SUCCESS" <=> \A n \in DOMAIN config : Acceptable(n))

(* find_device resolves a lid to the first device registered under it.     *)
LidResolves ==
  Len(devs) = Len(config) =>
    \A n \in DOMAIN config :
      /\ Hash!IsMapped(lid2dev, LidMem, config[n].lid)
      /\ Hash!GetHashItem(lid2dev, LidMem, config[n].lid) = EntityOf(config[n].lid)

(* init() ends for every configuration.                                    *)
InitEnds == <>(pc = "done")

=============================================================================
