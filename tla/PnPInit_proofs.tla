--------------------------- MODULE PnPInit_proofs ---------------------------
(***************************************************************************)
(* Theorems about init() for every configuration: any number of devices of *)
(* any types, interfaces, lids and operation elements.                     *)
(***************************************************************************)
EXTENDS PnPInit, FiniteSetTheorems, SequenceTheorems, WellFoundedInduction, TLAPS

-----------------------------------------------------------------------------
(* The inductive invariant, one part per piece of the program's state      *)

DeviceStructs ==
  [devno : Majors \X Nat, lid : Lids, type : DeviceTypes, interface : Seq(STRING),
   operation : DriverTypes \cup {NULL}, private : Nat]

Slot == {NULL} \cup [entity : Nat, op : OpNames \cup {"global"}]

DataTables == [live : BOOLEAN, slot : [TableIndices -> Slot]]

TypeOK ==
  /\ config \in Configs
  /\ pc \in {"register", "load", "bind", "global", "ops", "done"}
  /\ i \in Nat
  /\ minors \in [Majors -> Nat]
  /\ devs \in Seq(DeviceStructs)
  /\ devLists \in [Majors -> Seq(Nat)]
  /\ lid2dev \in [Slots -> Seq([key : Lids, value : Nat])]
  /\ counter \in Nat
  /\ drvLists \in [Majors -> Seq(DriverTypes)]
  /\ curMajor \in Majors \cup {-1}
  /\ node \in Seq(Nat)
  /\ ctx \in Nat
  /\ devp \in Nat
  /\ drip \in DriverTypes \cup {NULL}
  /\ opPos \in Nat
  /\ tables \in Seq(DataTables)
  /\ tdt \in Nat
  /\ record \in SUBSET TableIndices
  /\ outcome \in {"none", "exit", "FAILURE", "SUCCESS"}

Matching == pc \in {"global", "ops"}

(* What has been registered: the device structures are those of the first  *)
(* elements of the configuration, each in its place in the chain of its    *)
(* major, and every chain is as long as its minor numbers are used.        *)
Registered ==
  /\ Len(devs) <= Len(config)
  /\ pc = "register" => i = Len(devs)
  /\ pc \in {"load", "bind"} \/ Matching \/ outcome = "SUCCESS"
       => Len(devs) = Len(config)
  /\ \A d \in Devices :
       /\ devs[d].lid = config[d].lid
       /\ devs[d].type = config[d].type
       /\ devs[d].interface = config[d].interface

Numbered ==
  /\ \A d \in Devices :
       LET m == devs[d].devno[1]
           k == devs[d].devno[2]
       IN m = TypeMajor[devs[d].type] /\ k < Len(devLists[m]) /\ devLists[m][k + 1] = d
  /\ \A m \in Majors :
       /\ minors[m] = Len(devLists[m])
       /\ \A k \in DOMAIN devLists[m] :
            devLists[m][k] \in Devices /\ devs[devLists[m][k]].devno = << m, k - 1 >>

(* An item of lid2dev_table leads to the first device of its lid.          *)
FirstOf(n) == \A k \in 1 .. n - 1 : config[k].lid # config[n].lid

LidsMapped ==
  /\ \A s \in Slots : \A k \in DOMAIN lid2dev[s] :
       /\ HashOf[lid2dev[s][k].key] = s
       /\ lid2dev[s][k].value \in Devices
       /\ config[lid2dev[s][k].value].lid = lid2dev[s][k].key
       /\ FirstOf(lid2dev[s][k].value)
  /\ \A d \in Devices :
       \E k \in DOMAIN lid2dev[HashOf[devs[d].lid]] :
         lid2dev[HashOf[devs[d].lid]][k].key = devs[d].lid

(* The first n loaders have appended their driver to the list of its major *)
Loaded(n) ==
  /\ \A k \in DOMAIN Loaders :
       drvLists[TypeMajor[Loaders[k]]] = IF k <= n THEN << Loaders[k] >> ELSE << >>
  /\ \A m \in Majors :
       (\A k \in DOMAIN Loaders : TypeMajor[Loaders[k]] # m) => drvLists[m] = << >>

DriversKnown ==
  /\ pc = "register" => counter = 0 /\ Loaded(0)
  /\ pc = "load" => counter = i /\ i <= Len(Loaders) /\ Loaded(i)
  /\ pc = "bind" \/ Matching => Loaded(Len(Loaders))

(* The devices get_device has returned: those before its cursor.           *)
Passed ==
  IF curMajor = -1 THEN {}
  ELSE { d \in Devices :
           \/ devs[d].devno[1] < curMajor
           \/ /\ devs[d].devno[1] = curMajor
              /\ devs[d].devno[2] < Len(devLists[curMajor]) - Len(node) }

Bound == { d \in Devices : devs[d].operation # NULL }

Cursor ==
  /\ curMajor = -1 => node = << >>
  /\ curMajor # -1 =>
       /\ Len(node) < Len(devLists[curMajor])
       /\ \A j \in DOMAIN node :
            node[j] = devLists[curMajor][Len(devLists[curMajor]) - Len(node) + j]

Progress ==
  /\ pc \in {"register", "load"} => curMajor = -1 /\ Bound = {}
  /\ pc = "bind" => Bound = Passed /\ Cardinality(Bound) = i
  /\ Matching => /\ devp \in Devices \ Bound
                 /\ Passed = Bound \cup {devp}
                 /\ Cardinality(Bound) = i /\ i < Len(devs)
  /\ outcome = "SUCCESS" => Bound = Devices

(* The match functions that have run for the device being bound.           *)
Done ==
  (IF pc = "ops" /\ config[ctx].global # NULL THEN {"global"} ELSE {})
    \cup { config[ctx].ops[k].name : k \in 1 .. opPos }

(* A table that holds what the driver collects of the operations done.     *)
Holds(slot, n, type, done) ==
  \A k \in TableIndices :
    LET at == { op \in done : Collects(type, op) /\ ElementIndex(type, op) = k }
    IN slot[k] = IF at = {} THEN NULL
                 ELSE [entity |-> n, op |-> CHOOSE op \in at : TRUE]

(* What the record of complemented operations holds.                       *)
Marks(type, done) ==
  IF type = "gyroscope"
    THEN { ElementIndex(type, op) : op \in done \cap {"global", "open"} } ELSE {}

(* The device being bound: its driver, its element, its table, its record. *)
InHand ==
  Matching =>
    /\ drip \in DriverTypes /\ drip = devs[devp].type
    /\ IsSupportedInterface(InterfacesString[drip], devs[devp].interface)
    /\ ctx = EntityOf(devs[devp].lid) /\ ctx \in DOMAIN config
    /\ NameListFits(ctx)
    /\ opPos <= config[ctx].length
    /\ pc = "global" => opPos = 0
    /\ Holds(tables[tdt].slot, ctx, drip, Done)
    /\ record = Marks(drip, Done)
    /\ pc = "ops" /\ config[ctx].global # NULL =>
         WellFormed(drip, "global", config[ctx].global)
    /\ \A k \in 1 .. opPos : OpAcceptable(drip, config[ctx].ops, k)

(* The tables: the last one belongs to the device being bound, and each of *)
(* the others that is in use to one bound device.                          *)
TablesOwned ==
  /\ Matching => tdt = Len(tables) /\ tdt > 0 /\ tables[tdt].live
  /\ \A d \in Devices : devs[d].operation = NULL <=> devs[d].private = 0
  /\ \A d \in Bound : /\ devs[d].private \in 1 .. Len(tables)
                      /\ tables[devs[d].private].live
                      /\ Matching => devs[d].private # tdt
  /\ \A d, k \in Bound : devs[d].private = devs[k].private => d = k

(* What a device that is bound keeps for good.                             *)
BoundWell ==
  \A d \in Bound :
    LET n == EntityOf(devs[d].lid)
    IN /\ devs[d].operation = devs[d].type
       /\ Holds(tables[devs[d].private].slot, n, devs[d].type, Listed(n))
       /\ Acceptable(d)

(* How init() ends.                                                        *)
Verdict ==
  /\ pc = "done" <=> outcome # "none"
  /\ pc \in {"register", "load", "bind"} => record = {}
  /\ pc = "done" /\ outcome # "SUCCESS" => \E n \in DOMAIN config : ~Acceptable(n)

Inv ==
  /\ TypeOK /\ Registered /\ Numbered /\ LidsMapped /\ DriversKnown
  /\ Cursor /\ Progress /\ InHand /\ TablesOwned /\ BoundWell /\ Verdict

-----------------------------------------------------------------------------
(* The fixed tables of the program                                         *)

LEMMA LeastElement ==
  ASSUME NEW S \in SUBSET Nat, S # {}
  PROVE  \E m \in S : \A k \in S : m <= k
<1>1. IsWellFoundedOn(OpToRel(<, Nat), Nat)
  BY NatLessThanWellFounded
<1>2. PICK m \in S : \A y \in S : <<y, m>> \notin OpToRel(<, Nat)
  BY <1>1, WFMin
<1>3. \A k \in S : ~(k < m)
  BY <1>2 DEF OpToRel
<1> QED
  BY <1>3

LEMMA DriverTypesAre ==
  /\ DriverTypes = {"gyroscope", "analogsunsensor", "magnetometer",
                    "magnetorquer", "flywheel"}
  /\ DriverTypes \subseteq DeviceTypes
  /\ Len(Loaders) = 5 /\ DOMAIN Loaders = 1 .. 5
  /\ \A k \in DOMAIN Loaders : Loaders[k] \in DriverTypes
<1>1. Len(Loaders) = 5 /\ DOMAIN Loaders = 1 .. 5
  BY DEF Loaders
<1>2. 1 .. 5 = {1, 2, 3, 4, 5}
  OBVIOUS
<1>3. /\ Loaders[1] = "gyroscope" /\ Loaders[2] = "analogsunsensor"
      /\ Loaders[3] = "magnetometer" /\ Loaders[4] = "magnetorquer"
      /\ Loaders[5] = "flywheel"
  BY DEF Loaders
<1>4. DriverTypes = {"gyroscope", "analogsunsensor", "magnetometer",
                    "magnetorquer", "flywheel"}
  BY <1>1, <1>2, <1>3 DEF DriverTypes
<1>5. DriverTypes \subseteq DeviceTypes
  BY <1>4 DEF DeviceTypes, TypeMajor
<1> QED
  BY <1>1, <1>4, <1>5 DEF DriverTypes

(* dev_t.h: each type has a major number of its own.                       *)
LEMMA MajorsApart ==
  /\ \A t \in DeviceTypes : TypeMajor[t] \in Majors
  /\ \A s, t \in DeviceTypes : TypeMajor[s] = TypeMajor[t] => s = t
<1>1. DeviceTypes = {"analogsunsensor", "magnetometer", "starsensor", "flywheel",
                     "gyroscope", "horizonsensor", "magnetorquer"}
  BY DEF DeviceTypes, TypeMajor
<1>2. /\ TypeMajor["analogsunsensor"] = 10 /\ TypeMajor["magnetometer"] = 11
      /\ TypeMajor["starsensor"] = 12 /\ TypeMajor["flywheel"] = 13
      /\ TypeMajor["gyroscope"] = 14 /\ TypeMajor["horizonsensor"] = 15
      /\ TypeMajor["magnetorquer"] = 16
  BY DEF TypeMajor
<1> QED
  BY <1>1, <1>2 DEF Majors, FirstUsedMajor, FirstUnusedMajor

LEMMA MajorsRange == Majors = 10 .. 16
  BY DEF Majors, FirstUsedMajor, FirstUnusedMajor

(* X_driver.h: every operation of a driver has an index of its own, and    *)
(* none has the index of the global configuration.                         *)
LEMMA OpsDistinct ==
  \A t \in DriverTypes :
    /\ Len(Ops[t]) \in 0 .. 5
    /\ DOMAIN Ops[t] = 1 .. Len(Ops[t])
    /\ \A n \in DOMAIN Ops[t] : Ops[t][n] # "global"
    /\ \A m, n \in DOMAIN Ops[t] : Ops[t][m] = Ops[t][n] => m = n
<1>1. Ops["gyroscope"] = GyroscopeOps /\ Ops["analogsunsensor"] = AnalogsunsensorOps
      /\ Ops["magnetometer"] = MagnetometerOps /\ Ops["magnetorquer"] = MagnetorquerOps
      /\ Ops["flywheel"] = FlywheelOps
  BY DEF Ops
<1> DEFINE P(q) == /\ Len(q) \in 0 .. 5 /\ DOMAIN q = 1 .. Len(q)
                   /\ \A n \in DOMAIN q : q[n] # "global"
                   /\ \A m, n \in DOMAIN q : q[m] = q[n] => m = n
<1>2. P(GyroscopeOps)
  <2>1. Len(GyroscopeOps) = 5 /\ DOMAIN GyroscopeOps = 1 .. 5
    BY DEF GyroscopeOps
  <2>2. 1 .. 5 = {1, 2, 3, 4, 5}
    OBVIOUS
  <2> QED
    BY <2>1, <2>2 DEF GyroscopeOps
<1>3. P(AnalogsunsensorOps)
  <2>1. Len(AnalogsunsensorOps) = 2 /\ DOMAIN AnalogsunsensorOps = 1 .. 2
    BY DEF AnalogsunsensorOps
  <2>2. 1 .. 2 = {1, 2}
    OBVIOUS
  <2> QED
    BY <2>1, <2>2 DEF AnalogsunsensorOps
<1>4. P(MagnetometerOps)
  <2>1. Len(MagnetometerOps) = 5 /\ DOMAIN MagnetometerOps = 1 .. 5
    BY DEF MagnetometerOps
  <2>2. 1 .. 5 = {1, 2, 3, 4, 5}
    OBVIOUS
  <2> QED
    BY <2>1, <2>2 DEF MagnetometerOps
<1>5. P(MagnetorquerOps)
  <2>1. Len(MagnetorquerOps) = 5 /\ DOMAIN MagnetorquerOps = 1 .. 5
    BY DEF MagnetorquerOps
  <2>2. 1 .. 5 = {1, 2, 3, 4, 5}
    OBVIOUS
  <2> QED
    BY <2>1, <2>2 DEF MagnetorquerOps
<1>6. P(FlywheelOps)
  <2>1. Len(FlywheelOps) = 3 /\ DOMAIN FlywheelOps = 1 .. 3
    BY DEF FlywheelOps
  <2>2. 1 .. 3 = {1, 2, 3}
    OBVIOUS
  <2> QED
    BY <2>1, <2>2 DEF FlywheelOps
<1> QED
  BY <1>1, <1>2, <1>3, <1>4, <1>5, <1>6, DriverTypesAre

LEMMA OpIndexIs ==
  ASSUME NEW t \in DriverTypes, NEW n \in DOMAIN Ops[t]
  PROVE  OpIndex(t, Ops[t][n]) = n
  BY OpsDistinct DEF OpIndex

(* The index of an element is an index of the table, and no other element  *)
(* of the driver has it.                                                   *)
Named(t) == OpsOf(t) \cup {"global"}

LEMMA IndicesApart ==
  ASSUME NEW t \in DriverTypes
  PROVE  /\ \A op \in Named(t) : ElementIndex(t, op) \in TableIndices
         /\ \A op, o \in Named(t) : ElementIndex(t, op) = ElementIndex(t, o) => op = o
<1>1. \A op \in OpsOf(t) : \E n \in DOMAIN Ops[t] : op = Ops[t][n] /\ OpIndex(t, op) = n
  BY OpIndexIs DEF OpsOf
<1>2. \A op \in OpsOf(t) : /\ op # "global" /\ OpIndex(t, op) \in 1 .. 5
                           /\ op = Ops[t][OpIndex(t, op)]
  BY <1>1, OpsDistinct
<1> QED
  BY <1>2 DEF Named, ElementIndex, GlobalIndex, TableIndices

LEMMA GyroscopeIndices ==
  /\ "open" \in OpsOf("gyroscope")
  /\ ElementIndex("gyroscope", "global") = 0
  /\ ElementIndex("gyroscope", "open") = 1
<1>1. 1 \in DOMAIN Ops["gyroscope"] /\ Ops["gyroscope"][1] = "open"
  BY DEF Ops, GyroscopeOps
<1>2. OpIndex("gyroscope", "open") = 1
  BY <1>1, OpIndexIs, DriverTypesAre
<1> QED
  BY <1>1, <1>2 DEF OpsOf, ElementIndex, GlobalIndex

(* X_match.c: only the gyroscope driver has a minimal function set.        *)
LEMMA RequiredIs ==
  \A t \in DriverTypes :
    RequiredOps(t) = IF t = "gyroscope" THEN {0, 1} ELSE {}
  BY DriverTypesAre
     DEF RequiredOps, MatchInfo, GyroscopeMatch, AnalogsunsensorMatch,
         MagnetometerMatch, MagnetorquerMatch, FlywheelMatch, GlobalIndex, OpenIndex

-----------------------------------------------------------------------------
(* What the types give                                                     *)

LEMMA ElementType ==
  ASSUME NEW S, NEW q \in Seq(S), NEW n \in DOMAIN q
  PROVE  q[n] \in S
<1>1. n \in 1 .. Len(q)
  OBVIOUS
<1> QED
  BY <1>1, ElementOfSeq

LEMMA ConfigTyped ==
  ASSUME TypeOK
  PROVE  /\ config \in Seq(Entities) /\ Len(config) \in Nat \ {0}
         /\ DOMAIN config = 1 .. Len(config)
         /\ \A n \in 1 .. Len(config) : config[n] \in Entities
<1>1. config \in Seq(Entities) /\ Len(config) > 0
  BY PnPInitAssumption DEF TypeOK
<1> QED
  BY <1>1, ElementType

LEMMA EntityTyped ==
  ASSUME NEW e \in Entities
  PROVE  /\ e.lid \in Lids /\ e.length \in Nat /\ e.interface \in Seq(STRING)
         /\ e.global # NULL => e.global.tid \in Nat
         /\ e.ops \in Seq(OpElements) /\ DOMAIN e.ops = 1 .. Len(e.ops)
         /\ Len(e.ops) \in Nat
         /\ \A k \in 1 .. Len(e.ops) : e.ops[k].name \in STRING \ {"global"}
<1>1. e.ops \in Seq(OpElements) /\ DOMAIN e.ops = 1 .. Len(e.ops)
  BY DEF Entities
<1>2. \A k \in 1 .. Len(e.ops) : e.ops[k] \in OpElements
  BY <1>1, ElementType
<1> QED
  BY <1>1, <1>2 DEF Entities, OpElements, Elements

LEMMA DevicesTyped ==
  ASSUME TypeOK
  PROVE  /\ Len(devs) \in Nat /\ Devices = 1 .. Len(devs)
         /\ \A d \in Devices :
              /\ devs[d] \in DeviceStructs
              /\ devs[d].devno = << devs[d].devno[1], devs[d].devno[2] >>
              /\ devs[d].devno[1] \in Majors /\ devs[d].devno[2] \in Nat
              /\ devs[d].lid \in Lids /\ devs[d].type \in DeviceTypes
              /\ devs[d].interface \in Seq(STRING)
              /\ devs[d].operation \in DriverTypes \cup {NULL}
              /\ devs[d].private \in Nat
<1>1. devs \in Seq(DeviceStructs)
  BY DEF TypeOK
<1>2. \A d \in Devices : devs[d] \in DeviceStructs
  BY <1>1, ElementType DEF Devices
<1> QED
  BY <1>1, <1>2 DEF Devices, DeviceStructs

(* find_element_in_context (config_info_collect.c) finds the first element *)
(* of a lid whenever there is one.                                         *)
LEMMA EntityOfIs ==
  ASSUME TypeOK, NEW n \in DOMAIN config
  PROVE  LET k == EntityOf(config[n].lid)
         IN /\ k \in DOMAIN config /\ k <= n
            /\ config[k].lid = config[n].lid /\ FirstOf(k)
            /\ FirstOf(n) => k = n
<1> DEFINE S == { m \in DOMAIN config : config[m].lid = config[n].lid }
           First(m) == config[m].lid = config[n].lid
                       /\ \A k \in 1 .. m - 1 : config[k].lid # config[n].lid
<1>1. DOMAIN config = 1 .. Len(config) /\ Len(config) \in Nat
  BY ConfigTyped
<1>2. S \in SUBSET Nat /\ n \in S
  BY <1>1
<1>3. PICK m \in S : \A k \in S : m <= k
  BY <1>2, LeastElement
<1>4. m \in DOMAIN config /\ First(m)
  BY <1>1, <1>3
<1>5. EntityOf(config[n].lid) = CHOOSE k \in DOMAIN config : First(k)
  BY DEF EntityOf
<1>6. EntityOf(config[n].lid) \in DOMAIN config /\ First(EntityOf(config[n].lid))
  BY <1>4, <1>5
<1>7. \A a, b \in DOMAIN config : First(a) /\ config[b].lid = config[n].lid => a <= b
  BY <1>1
<1>8. FirstOf(n) => First(n)
  BY DEF FirstOf
<1>9. FirstOf(n) => EntityOf(config[n].lid) = n
  <2>1. \A a, b \in DOMAIN config : First(a) /\ First(b) => a = b
    BY <1>1, <1>7
  <2> QED
    BY <1>6, <1>8, <2>1
<1> QED
  BY <1>6, <1>7, <1>9 DEF FirstOf

-----------------------------------------------------------------------------
(* get_driver (driver.c:46-63) finds the driver of the device's own type   *)
(* when that declares the interface, and nothing else.                     *)
LEMMA GetDriverIs ==
  ASSUME TypeOK, Numbered, Loaded(Len(Loaders)), NEW d \in Devices
  PROVE  LET t == devs[d].type
             supported == t \in DriverTypes
                          /\ IsSupportedInterface(InterfacesString[t], devs[d].interface)
         IN /\ Supporting(d) # {} <=> supported
            /\ Supporting(d) # {} => GetDriver(d) = t
<1> DEFINE t == devs[d].type
<1>1. devs[d].devno[1] = TypeMajor[t] /\ t \in DeviceTypes
  BY DevicesTyped DEF Numbered
<1>2. DriverList(d) = drvLists[TypeMajor[t]] /\ TypeMajor[t] \in Majors
  BY <1>1, MajorsApart DEF DriverList
<1>3. CASE t \in DriverTypes
  <2>1. PICK k \in DOMAIN Loaders : Loaders[k] = t
    BY <1>3 DEF DriverTypes
  <2>2. DriverList(d) = << t >>
    BY <1>2, <2>1, DriverTypesAre DEF Loaded
  <2>3. DOMAIN DriverList(d) = {1} /\ DriverList(d)[1] = t
    BY <2>2
  <2>4. Supporting(d) = IF IsSupportedInterface(InterfacesString[t], devs[d].interface)
                        THEN {1} ELSE {}
    BY <2>3 DEF Supporting
  <2>5. Supporting(d) # {} => GetDriver(d) = t
    BY <2>3, <2>4 DEF GetDriver
  <2> QED
    BY <1>3, <2>4, <2>5
<1>4. CASE t \notin DriverTypes
  <2>1. \A k \in DOMAIN Loaders : TypeMajor[Loaders[k]] # TypeMajor[t]
    BY <1>1, <1>4, MajorsApart, DriverTypesAre
  <2>2. DriverList(d) = << >>
    BY <1>2, <2>1 DEF Loaded
  <2>3. Supporting(d) = {}
    BY <2>2 DEF Supporting
  <2> QED
    BY <1>4, <2>3
<1> QED
  BY <1>3, <1>4

(* get_device (device.c) returns a device it has not returned before as    *)
(* long as there is one, and stands behind it afterwards.                  *)
After(d, m, rest) ==
  /\ m = devs[d].devno[1]
  /\ rest \in Seq(Nat)
  /\ Len(rest) = Len(devLists[m]) - devs[d].devno[2] - 1
  /\ \A j \in DOMAIN rest :
       rest[j] = devLists[m][Len(devLists[m]) - Len(rest) + j]

LEMMA GetDeviceIs ==
  ASSUME TypeOK, Numbered, Cursor, Passed # Devices
  PROVE  LET g == GetDevice
         IN /\ g.dev \in Devices \ Passed
            /\ After(g.dev, g.major, g.node)
            /\ \A d \in Devices :
                 d \in Passed \cup {g.dev} <=>
                   \/ devs[d].devno[1] < g.major
                   \/ /\ devs[d].devno[1] = g.major
                      /\ devs[d].devno[2] <= devs[g.dev].devno[2]
<1> DEFINE start == IF curMajor = -1 THEN FirstUsedMajor ELSE curMajor
           here == IF curMajor = -1 THEN devLists[start] ELSE node
           later == { m \in Majors : m > start /\ devLists[m] # << >> }
           next == CHOOSE m \in later : \A n \in later : m <= n
           M == [d \in Devices |-> devs[d].devno[1]]
           K == [d \in Devices |-> devs[d].devno[2]]
<1>1. \A m \in Majors : /\ devLists[m] \in Seq(Nat) /\ Len(devLists[m]) \in Nat
                        /\ DOMAIN devLists[m] = 1 .. Len(devLists[m])
  BY DEF TypeOK
<1>2. \A d \in Devices : /\ M[d] \in Majors /\ K[d] \in Nat
                         /\ K[d] < Len(devLists[M[d]]) /\ devLists[M[d]][K[d] + 1] = d
  BY DevicesTyped DEF Numbered
<1>3. \A m \in Majors : \A k \in 1 .. Len(devLists[m]) :
        /\ devLists[m][k] \in Devices
        /\ M[devLists[m][k]] = m /\ K[devLists[m][k]] = k - 1
  <2> SUFFICES ASSUME NEW m \in Majors, NEW k \in 1 .. Len(devLists[m])
               PROVE  /\ devLists[m][k] \in Devices
                      /\ M[devLists[m][k]] = m /\ K[devLists[m][k]] = k - 1
    OBVIOUS
  <2>1. devLists[m][k] \in Devices /\ devs[devLists[m][k]].devno = << m, k - 1 >>
    BY <1>1 DEF Numbered
  <2> QED
    BY <2>1
<1>4. /\ curMajor = -1 => start = 10 /\ here = devLists[start]
      /\ curMajor # -1 => start = curMajor /\ here = node
      /\ start \in Majors /\ start \in Nat /\ 10 <= start
      /\ \A m \in Majors : m \in Nat /\ 10 <= m
  <2>1. \A m \in Majors : m \in Nat /\ 10 <= m
    BY MajorsRange
  <2>2. CASE curMajor = -1
    <3>1. start = 10 /\ here = devLists[start]
      BY <2>2 DEF FirstUsedMajor
    <3> QED
      BY <2>1, <2>2, <3>1, MajorsRange
  <2>3. CASE curMajor # -1
    <3>1. start = curMajor /\ here = node
      BY <2>3
    <3> QED
      BY <2>1, <2>3, <3>1 DEF TypeOK
  <2> QED
    BY <2>2, <2>3, <2>1
<1>5. /\ here # << >> =>
           GetDevice = [dev |-> Head(here), major |-> start, node |-> Tail(here)]
      /\ here = << >> /\ later # {} =>
           GetDevice = [dev |-> Head(devLists[next]), major |-> next,
                        node |-> Tail(devLists[next])]
  BY DEF GetDevice
<1>6. later \in SUBSET Nat /\ later # {} => next \in later /\ \A n \in later : next <= n
  BY LeastElement
<1>7. /\ later \in SUBSET Nat
      /\ \A m \in Majors : m \in later <=> m > start /\ Len(devLists[m]) # 0
      /\ later \subseteq Majors
  BY <1>1, <1>4
<1> HIDE DEF start, here, later, next, M, K
<1> DEFINE L == Len(devLists[start])
           H == Len(here)
<1>8. here \in Seq(Nat) /\ DOMAIN here = 1 .. H
  BY <1>1, <1>4 DEF TypeOK
<1>9. H \in Nat /\ L \in Nat /\ (here # << >> => H > 0) /\ (here = << >> => H = 0)
  BY <1>1, <1>4, <1>8
<1>10. \A d \in Devices : M[d] = devs[d].devno[1] /\ K[d] = devs[d].devno[2]
  BY DEF M, K
<1>11. \A d \in Devices :
         M[d] \in Nat /\ 10 <= M[d] /\ K[d] \in Nat /\ (M[d] = start => K[d] < L)
  BY <1>2, <1>4
<1> HIDE DEF L, H
<1>12. H <= L /\ \A j \in 1 .. H : here[j] = devLists[start][L - H + j]
  <2>1. CASE curMajor = -1
    <3>1. L = H
      BY <2>1, <1>4 DEF L, H
    <3>2. \A j \in 1 .. H : L - H + j = j
      BY <3>1, <1>9
    <3> QED
      BY <2>1, <3>1, <3>2, <1>4, <1>9
  <2>2. CASE curMajor # -1
    <3>1. H < L /\ \A j \in 1 .. H : here[j] = devLists[start][L - H + j]
      BY <2>2, <1>4, <1>8 DEF Cursor, L, H
    <3> QED
      BY <3>1, <1>9
  <2> QED
    BY <2>1, <2>2
<1>13. \A d \in Devices :
         d \in Passed <=> M[d] < start \/ (M[d] = start /\ K[d] < L - H)
  <2>1. CASE curMajor = -1
    <3>1. start = 10 /\ L - H = 0
      BY <2>1, <1>4, <1>9 DEF L, H
    <3>2. Passed = {}
      BY <2>1 DEF Passed
    <3> QED
      BY <3>1, <3>2, <1>4, <1>11
  <2>2. CASE curMajor # -1
    <3>1. Passed = { d \in Devices :
                       \/ devs[d].devno[1] < start
                       \/ (devs[d].devno[1] = start /\ devs[d].devno[2] < L - H) }
      BY <2>2, <1>4 DEF Passed, L, H
    <3> QED
      BY <3>1, <1>10
  <2> QED
    BY <2>1, <2>2
<1>14. CASE here # << >>
  <2>1. GetDevice = [dev |-> Head(here), major |-> start, node |-> Tail(here)]
    BY <1>5, <1>14
  <2> DEFINE d == here[1]
             rest == Tail(here)
  <2>2. H > 0 /\ Head(here) = d
    BY <1>9, <1>14
  <2>3. d = devLists[start][L - H + 1] /\ L - H + 1 \in 1 .. L
    BY <1>9, <1>12, <2>2
  <2>4. d \in Devices /\ M[d] = start /\ K[d] = L - H
    <3>1. d \in Devices /\ M[d] = start /\ K[d] = (L - H + 1) - 1
      BY <1>3, <1>4, <2>3 DEF L
    <3> QED
      BY <3>1, <1>9
  <2>5. /\ rest \in Seq(Nat) /\ Len(rest) = H - 1 /\ DOMAIN rest = 1 .. H - 1
        /\ \A j \in 1 .. H - 1 : rest[j] = here[j + 1]
    BY <1>9, <1>14, <1>8, <2>2 DEF H
  <2> HIDE DEF d, rest
  <2>6. After(d, start, rest)
    <3>1. \A j \in 1 .. H - 1 : j + 1 \in 1 .. H /\ L - H + (j + 1) = L - (H - 1) + j
      BY <1>9
    <3>2. \A j \in DOMAIN rest : rest[j] = devLists[start][L - Len(rest) + j]
      BY <1>12, <2>5, <3>1
    <3>3. Len(rest) = L - K[d] - 1
      BY <1>9, <2>4, <2>5
    <3> QED
      BY <2>4, <2>5, <3>2, <3>3, <1>10 DEF After, L
  <2>7. ASSUME NEW o \in Devices
        PROVE  o \in Passed \cup {d} <=> M[o] < start \/ (M[o] = start /\ K[o] <= K[d])
    <3>1. M[o] = start /\ K[o] = K[d] => o = d
      BY <1>2, <2>4
    <3>2. K[o] < K[d] \/ K[o] = K[d] <=> K[o] <= K[d]
      BY <2>4, <1>11
    <3>3. o \in Passed <=> M[o] < start \/ (M[o] = start /\ K[o] < K[d])
      BY <1>13, <2>4
    <3>4. o = d => M[o] = start /\ K[o] <= K[d]
      BY <2>4, <1>11
    <3> QED
      BY <3>1, <3>2, <3>3, <3>4
  <2>8. d \notin Passed
    BY <1>4, <1>9, <1>13, <2>4
  <2>9. GetDevice = [dev |-> d, major |-> start, node |-> rest]
    BY <2>1, <2>2 DEF rest
  <2> QED
    BY <2>4, <2>6, <2>7, <2>8, <2>9, <1>10
<1>15. CASE here = << >>
  <2>1. H = 0
    BY <1>15, <1>9
  <2>2. \A o \in Devices : o \in Passed <=> M[o] <= start
    <3>1. \A o \in Devices : o \in Passed <=> M[o] < start \/ M[o] = start
      <4> SUFFICES ASSUME NEW o \in Devices
                   PROVE  o \in Passed <=> M[o] < start \/ M[o] = start
        OBVIOUS
      <4>1. L - H = L
        BY <2>1, <1>9
      <4>2. M[o] = start => K[o] < L - H
        BY <4>1, <1>11
      <4> QED
        BY <4>2, <1>13
    <3> QED
      BY <3>1, <1>4, <1>11
  <2>3. PICK u \in Devices : u \notin Passed
    BY DEF Passed
  <2>4. M[u] \in later
    <3>1. M[u] > start
      BY <2>2, <2>3, <1>4, <1>11
    <3>2. Len(devLists[M[u]]) # 0
      BY <1>1, <1>2
    <3> QED
      BY <3>1, <3>2, <1>2, <1>7
  <2>5. next \in later /\ \A n \in later : next <= n
    BY <2>4, <1>6, <1>7
  <2> DEFINE q == devLists[next]
             d == q[1]
             rest == Tail(q)
  <2>6. next \in Majors /\ next \in Nat /\ next > start /\ Len(q) # 0
    BY <2>5, <1>4, <1>7
  <2>7. /\ q \in Seq(Nat) /\ Len(q) \in Nat /\ q # << >> /\ Len(q) > 0 /\ Head(q) = d
    BY <2>6, <1>1
  <2>8. d \in Devices /\ M[d] = next /\ K[d] = 0
    BY <2>6, <2>7, <1>3
  <2>9. /\ rest \in Seq(Nat) /\ Len(rest) = Len(q) - 1
        /\ DOMAIN rest = 1 .. Len(q) - 1
        /\ \A j \in 1 .. Len(q) - 1 : rest[j] = q[j + 1]
    BY <2>7
  <2>10. GetDevice = [dev |-> d, major |-> next, node |-> rest]
    BY <2>4, <2>7, <1>5, <1>15
  <2> HIDE DEF d, rest
  <2>11. After(d, next, rest)
    <3>1. \A j \in 1 .. Len(q) - 1 : j + 1 = Len(q) - Len(rest) + j
      BY <2>7, <2>9
    <3>2. Len(rest) = Len(q) - K[d] - 1
      BY <2>7, <2>8, <2>9
    <3>3. devs[d].devno[1] = next /\ devs[d].devno[2] = K[d]
      BY <2>8, <1>10
    <3>4. \A j \in DOMAIN rest : rest[j] = q[Len(q) - Len(rest) + j]
      BY <2>9, <3>1
    <3> QED
      BY <2>9, <3>2, <3>3, <3>4 DEF After
  <2>12. ASSUME NEW o \in Devices
         PROVE  o \in Passed \cup {d} <=> M[o] < next \/ (M[o] = next /\ K[o] <= K[d])
    <3>1. M[o] = next /\ K[o] = K[d] => o = d
      BY <1>2, <2>8
    <3>2. M[o] > start => M[o] \in later
      <4>1. Len(devLists[M[o]]) # 0
        BY <1>1, <1>2
      <4> QED
        BY <4>1, <1>2, <1>7
    <3>3. M[o] \in Nat /\ K[o] \in Nat
      BY <1>2, <1>4
    <3>4. M[o] < next <=> M[o] <= start
      BY <3>2, <3>3, <2>5, <2>6, <1>4
    <3>5. o = d => M[o] = next /\ K[o] <= K[d]
      BY <2>8, <3>3
    <3>6. K[o] <= K[d] => K[o] = K[d]
      BY <2>8, <3>3
    <3> QED
      BY <3>1, <3>4, <3>5, <3>6, <2>2
  <2>13. d \notin Passed
    BY <2>2, <2>6, <2>8, <1>4
  <2> QED
    BY <2>8, <2>10, <2>11, <2>12, <2>13, <1>10
<1> QED
  BY <1>14, <1>15

-----------------------------------------------------------------------------
(* The invariant holds at first, and every step of init() keeps it         *)

LEMMA InvInit == Init => Inv
<1> SUFFICES ASSUME Init
             PROVE  Inv
  OBVIOUS
<1>1. /\ config \in Configs /\ pc = "register" /\ i = 0
      /\ minors = [m \in Majors |-> 0] /\ devs = << >>
      /\ devLists = [m \in Majors |-> << >>]
      /\ lid2dev = [s \in Slots |-> << >>]
      /\ counter = 0 /\ drvLists = [m \in Majors |-> << >>]
      /\ curMajor = -1 /\ node = << >>
      /\ ctx = 0 /\ devp = 0 /\ drip = NULL /\ opPos = 0
      /\ tables = << >> /\ tdt = 0 /\ record = {} /\ outcome = "none"
  BY DEF Init, EmptyLists, Hash!EmptyTable
<1>2. Len(devs) = 0 /\ DOMAIN devs = {} /\ \A m \in Majors : Len(devLists[m]) = 0
  BY <1>1
<1>3. TypeOK
  BY <1>1 DEF TypeOK
<1>4. Len(config) \in Nat
  BY <1>3, ConfigTyped
<1>5. Devices = {} /\ Bound = {}
  BY <1>2 DEF Devices, Bound
<1>6. Registered
  BY <1>1, <1>2, <1>4, <1>5 DEF Registered, Matching
<1>7. Numbered
  BY <1>1, <1>5 DEF Numbered
<1>8. LidsMapped
  BY <1>1, <1>5 DEF LidsMapped
<1>9. DriversKnown
  <2>1. \A k \in DOMAIN Loaders : TypeMajor[Loaders[k]] \in Majors /\ ~(k <= 0)
    BY DriverTypesAre, MajorsApart
  <2> QED
    BY <1>1, <2>1 DEF DriversKnown, Loaded, Matching
<1>10. Cursor /\ Progress /\ InHand
  BY <1>1, <1>5 DEF Cursor, Progress, InHand, Matching
<1>11. TablesOwned /\ BoundWell /\ Verdict
  BY <1>1, <1>5 DEF TablesOwned, BoundWell, Verdict, Matching
<1> QED
  BY <1>3, <1>6, <1>7, <1>8, <1>9, <1>10, <1>11 DEF Inv

LEMMA LidIsMapped ==
  ASSUME TypeOK, NEW l \in Lids
  PROVE  /\ HashOf[l] \in Slots
         /\ \A s \in Slots : \A k \in DOMAIN lid2dev[s] :
              lid2dev[s][k] \in [key : Lids, value : Nat]
         /\ Hash!Hits(lid2dev, LidMem, l)
              = { k \in DOMAIN lid2dev[HashOf[l]] : lid2dev[HashOf[l]][k].key = l }
<1>1. HashOf[l] \in Slots
  BY PnPInitAssumption
<1>2. \A s \in Slots : \A k \in DOMAIN lid2dev[s] :
        lid2dev[s][k] \in [key : Lids, value : Nat]
  <2> SUFFICES ASSUME NEW s \in Slots, NEW k \in DOMAIN lid2dev[s]
               PROVE  lid2dev[s][k] \in [key : Lids, value : Nat]
    OBVIOUS
  <2> QED
    BY ElementType DEF TypeOK
<1>3. \A k \in DOMAIN lid2dev[HashOf[l]] :
        LidMem[lid2dev[HashOf[l]][k].key] = lid2dev[HashOf[l]][k].key
  BY <1>1, <1>2 DEF LidMem
<1> QED
  BY <1>1, <1>2, <1>3 DEF Hash!Hits

(* register_devices (device_register.c): one device more, with a number of *)
(* its own, at the end of the chain of its major.                          *)
LEMMA RegisterDeviceStep == Inv /\ RegisterDevice => Inv'
<1> SUFFICES ASSUME Inv, RegisterDevice
             PROVE  Inv'
  OBVIOUS
<1> DEFINE e == config[i + 1]
           major == TypeMajor[e.type]
           p == Len(devs) + 1
           dev == NewDevice(e, minors[major])
<1>1. /\ TypeOK /\ Registered /\ Numbered /\ LidsMapped /\ DriversKnown
      /\ Cursor /\ Progress /\ TablesOwned /\ Verdict
  BY DEF Inv
<1>2. /\ pc = "register" /\ pc' = "register" /\ i < Len(config) /\ e.type \in DeviceTypes
      /\ minors' = [minors EXCEPT ![major] = minors[major] + 1]
      /\ devs' = Append(devs, dev)
      /\ lid2dev' = Hash!AddHashItem(lid2dev, LidMem, e.lid, p)
      /\ devLists' = [devLists EXCEPT ![major] = Append(devLists[major], p)]
      /\ i' = i + 1
      /\ UNCHANGED << config, counter, drvLists, curMajor, node, ctx, devp, drip,
                      opPos, tables, tdt, record, outcome >>
  BY DEF RegisterDevice, Goto, NextMinor, loadVars, iterVars, matchVars
<1>3. /\ i \in Nat /\ i + 1 \in DOMAIN config /\ e \in Entities /\ e.lid \in Lids
      /\ e.interface \in Seq(STRING) /\ p = i + 1 /\ Len(config) \in Nat
  <2>1. i \in Nat /\ i = Len(devs)
    BY <1>1, <1>2 DEF TypeOK, Registered
  <2>2. i + 1 \in 1 .. Len(config) /\ Len(config) \in Nat
    BY <1>1, <1>2, <2>1, ConfigTyped
  <2>3. e \in Entities /\ i + 1 \in DOMAIN config
    BY <1>1, <2>2, ConfigTyped
  <2>4. e.lid \in Lids /\ e.interface \in Seq(STRING)
    BY <2>3, EntityTyped
  <2> QED
    BY <2>1, <2>2, <2>3, <2>4
<1>4. major \in Majors /\ minors[major] \in Nat
  BY <1>1, <1>2, MajorsApart DEF TypeOK
<1>5. dev \in DeviceStructs
  BY <1>2, <1>3, <1>4 DEF NewDevice, DeviceStructs
<1>6. /\ dev.devno = << major, minors[major] >> /\ dev.lid = e.lid
      /\ dev.type = e.type /\ dev.interface = e.interface
      /\ dev.operation = NULL /\ dev.private = 0
      /\ major = TypeMajor[dev.type]
  BY DEF NewDevice
<1> HIDE DEF dev, e, major, p
<1>7. /\ devs' \in Seq(DeviceStructs) /\ Len(devs') = p /\ p \in Nat /\ p = Len(devs) + 1
      /\ Devices = 1 .. Len(devs) /\ Devices' = 1 .. p /\ Devices' = Devices \cup {p}
      /\ p \notin Devices /\ devs'[p] = dev
      /\ \A d \in Devices : devs'[d] = devs[d]
  <2>1. devs \in Seq(DeviceStructs)
    BY <1>1 DEF TypeOK
  <2> QED
    BY <1>2, <1>5, <2>1 DEF Devices, p
<1>8. /\ \A m \in Majors : devLists[m] \in Seq(Nat) /\ DOMAIN devLists[m] = 1 .. Len(devLists[m])
      /\ devLists' \in [Majors -> Seq(Nat)]
      /\ \A m \in Majors \ {major} : devLists'[m] = devLists[m]
      /\ devLists'[major] = Append(devLists[major], p)
      /\ Len(devLists'[major]) = Len(devLists[major]) + 1
      /\ DOMAIN devLists'[major] = 1 .. Len(devLists[major]) + 1
      /\ devLists'[major][Len(devLists[major]) + 1] = p
      /\ \A k \in 1 .. Len(devLists[major]) : devLists'[major][k] = devLists[major][k]
  <2>1. devLists \in [Majors -> Seq(Nat)] /\ p \in Nat
    BY <1>1, <1>7 DEF TypeOK
  <2>2. devLists[major] \in Seq(Nat)
    BY <1>4, <2>1
  <2> QED
    BY <1>2, <1>4, <2>1, <2>2
<1>9. TypeOK'
  <2>1. minors' \in [Majors -> Nat]
    BY <1>1, <1>2, <1>4 DEF TypeOK
  <2>2. lid2dev' \in [Slots -> Seq([key : Lids, value : Nat])]
    <3>1. lid2dev \in [Slots -> Seq([key : Lids, value : Nat])] /\ HashOf[e.lid] \in Slots
      BY <1>1, <1>3, PnPInitAssumption DEF TypeOK
    <3>2. Hash!Item(e.lid, p) \in [key : Lids, value : Nat]
      BY <1>3, <1>7 DEF Hash!Item
    <3>3. LidMem[e.lid] = e.lid
      BY <1>3 DEF LidMem
    <3>4. Append(lid2dev[HashOf[e.lid]], Hash!Item(e.lid, p)) \in Seq([key : Lids, value : Nat])
      BY <3>1, <3>2, AppendProperties
    <3> QED
      BY <1>2, <3>1, <3>3, <3>4 DEF Hash!AddHashItem
  <2> QED
    BY <1>1, <1>2, <1>3, <1>7, <1>8, <2>1, <2>2 DEF TypeOK
<1>10. Registered'
  BY <1>1, <1>2, <1>3, <1>6, <1>7 DEF Registered, Matching, Verdict, e
<1>11. Numbered'
  <2>1. minors[major] = Len(devLists[major]) /\ dev.devno[1] = major
        /\ dev.devno[2] = minors[major]
    BY <1>1, <1>4, <1>6 DEF Numbered
  <2>2. \A d \in Devices :
          LET m == devs[d].devno[1]
              k == devs[d].devno[2]
          IN /\ m = TypeMajor[devs[d].type] /\ k \in Nat /\ m \in Majors
             /\ k < Len(devLists[m]) /\ devLists[m][k + 1] = d
    BY <1>1, DevicesTyped DEF Numbered
  <2>3. ASSUME NEW d \in Devices'
        PROVE  LET m == devs'[d].devno[1]
                   k == devs'[d].devno[2]
               IN m = TypeMajor[devs'[d].type] /\ k < Len(devLists'[m])
                  /\ devLists'[m][k + 1] = d
    <3>1. CASE d = p
      <4>1. devs'[d] = dev /\ Len(devLists[major]) \in Nat
        BY <3>1, <1>4, <1>7, <1>8
      <4> QED
        BY <3>1, <4>1, <1>6, <1>8, <2>1
    <3>2. CASE d # p
      <4>1. d \in Devices /\ devs'[d] = devs[d]
        BY <3>2, <1>7
      <4> DEFINE m == devs[d].devno[1]
                 k == devs[d].devno[2]
      <4>2. /\ m = TypeMajor[devs[d].type] /\ k \in Nat /\ m \in Majors
            /\ k < Len(devLists[m]) /\ devLists[m][k + 1] = d
        BY <2>2, <4>1
      <4>3. devLists[m] \in Seq(Nat) /\ Len(devLists[m]) \in Nat
        BY <1>8, <4>2
      <4> HIDE DEF m, k
      <4>4. k < Len(devLists'[m]) /\ devLists'[m][k + 1] = devLists[m][k + 1]
        <5>1. CASE m = major
          <6>1. k + 1 \in 1 .. Len(devLists[major])
            BY <5>1, <4>2, <4>3
          <6>2. k < Len(devLists[major]) + 1
            BY <5>1, <4>2, <4>3
          <6> QED
            BY <5>1, <6>1, <6>2, <1>8
        <5>2. CASE m # major
          BY <5>2, <4>2, <1>8
        <5> QED
          BY <5>1, <5>2
      <4> QED
        BY <4>1, <4>2, <4>4 DEF m, k
    <3> QED
      BY <3>1, <3>2
  <2>4. ASSUME NEW m \in Majors
        PROVE  /\ minors'[m] = Len(devLists'[m])
               /\ \A k \in DOMAIN devLists'[m] :
                    /\ devLists'[m][k] \in Devices'
                    /\ devs'[devLists'[m][k]].devno = << m, k - 1 >>
    <3>1. /\ minors[m] = Len(devLists[m])
          /\ \A k \in 1 .. Len(devLists[m]) :
               /\ devLists[m][k] \in Devices'
               /\ devs'[devLists[m][k]].devno = << m, k - 1 >>
      <4>1. minors[m] = Len(devLists[m])
            /\ \A k \in 1 .. Len(devLists[m]) :
                 /\ devLists[m][k] \in Devices
                 /\ devs[devLists[m][k]].devno = << m, k - 1 >>
        BY <1>1, <1>8 DEF Numbered
      <4>2. \A d \in Devices : d \in Devices' /\ devs'[d] = devs[d]
        BY <1>7
      <4> QED
        BY <4>1, <4>2
    <3>2. CASE m # major
      BY <3>1, <3>2, <1>1, <1>2, <1>4, <1>8 DEF TypeOK
    <3>3. CASE m = major
      <4>1. minors'[m] = Len(devLists'[m])
        BY <3>1, <3>3, <1>1, <1>2, <1>4, <1>8 DEF TypeOK
      <4>2. p \in Devices' /\ devs'[p].devno = << major, Len(devLists[major]) >>
        BY <1>6, <1>7, <2>1
      <4>3. ASSUME NEW k \in DOMAIN devLists'[m]
            PROVE  /\ devLists'[m][k] \in Devices'
                   /\ devs'[devLists'[m][k]].devno = << m, k - 1 >>
        <5>1. Len(devLists[major]) \in Nat
          BY <1>4, <1>8
        <5>2. CASE k = Len(devLists[major]) + 1
          BY <5>1, <5>2, <4>2, <3>3, <1>8
        <5>3. CASE k # Len(devLists[major]) + 1
          <6>1. k \in 1 .. Len(devLists[major])
            BY <5>1, <5>3, <3>3, <1>8
          <6> QED
            BY <6>1, <3>1, <3>3, <1>8
        <5> QED
          BY <5>2, <5>3
      <4> QED
        BY <4>1, <4>3
    <3> QED
      BY <3>2, <3>3
  <2> QED
    BY <2>3, <2>4 DEF Numbered
<1>12. LidsMapped'
  <2> DEFINE h == HashOf[e.lid]
             q == lid2dev[h]
             it == Hash!Item(e.lid, p)
             Entry(x, s) == /\ HashOf[x.key] = s /\ x.value \in Devices'
                            /\ config[x.value].lid = x.key /\ FirstOf(x.value)
  <2>1. /\ h \in Slots /\ q \in Seq([key : Lids, value : Nat])
        /\ DOMAIN q = 1 .. Len(q) /\ Len(q) \in Nat
        /\ Hash!Hits(lid2dev, LidMem, e.lid) = { k \in DOMAIN q : q[k].key = e.lid }
    <3>1. h \in Slots
          /\ Hash!Hits(lid2dev, LidMem, e.lid) = { k \in DOMAIN q : q[k].key = e.lid }
      BY <1>1, <1>3, LidIsMapped
    <3>2. q \in Seq([key : Lids, value : Nat])
      BY <1>1, <3>1 DEF TypeOK
    <3> QED
      BY <3>1, <3>2
  <2>2. \A s \in Slots : \A k \in DOMAIN lid2dev[s] : Entry(lid2dev[s][k], s)
    BY <1>1, <1>7 DEF LidsMapped
  <2>3. \A d \in Devices :
          /\ devs'[d].lid = devs[d].lid /\ devs[d].lid \in Lids
          /\ HashOf[devs[d].lid] \in Slots
          /\ \E k \in DOMAIN lid2dev[HashOf[devs[d].lid]] :
               lid2dev[HashOf[devs[d].lid]][k].key = devs[d].lid
    BY <1>1, <1>7, DevicesTyped, PnPInitAssumption DEF LidsMapped
  <2>4. devs'[p].lid = e.lid /\ config[p].lid = e.lid
    BY <1>3, <1>6, <1>7 DEF e
  <2>5. config' = config
    BY <1>2
  <2>6. ASSUME lid2dev' \in [Slots -> Seq([key : Lids, value : Nat])],
               \A s \in Slots : \A k \in DOMAIN lid2dev'[s] : Entry(lid2dev'[s][k], s),
               \A s \in Slots : \A k \in DOMAIN lid2dev[s] :
                 k \in DOMAIN lid2dev'[s] /\ lid2dev'[s][k] = lid2dev[s][k],
               \E k \in DOMAIN lid2dev'[h] : lid2dev'[h][k].key = e.lid
        PROVE  LidsMapped'
    <3>1. ASSUME NEW d \in Devices'
          PROVE  \E k \in DOMAIN lid2dev'[HashOf[devs'[d].lid]] :
                   lid2dev'[HashOf[devs'[d].lid]][k].key = devs'[d].lid
      <4>1. CASE d = p
        BY <4>1, <2>4, <2>6
      <4>2. CASE d # p
        <5>1. d \in Devices
          BY <4>2, <1>7
        <5> QED
          BY <5>1, <2>3, <2>6
      <4> QED
        BY <4>1, <4>2
    <3>2. \A s \in Slots : \A k \in DOMAIN lid2dev'[s] :
            /\ HashOf[lid2dev'[s][k].key] = s
            /\ lid2dev'[s][k].value \in Devices'
            /\ config'[lid2dev'[s][k].value].lid = lid2dev'[s][k].key
            /\ \A n \in 1 .. lid2dev'[s][k].value - 1 :
                 config'[n].lid # config'[lid2dev'[s][k].value].lid
      BY <2>5, <2>6 DEF FirstOf
    <3> QED
      BY <3>1, <3>2 DEF LidsMapped, FirstOf
  <2>7. CASE \E k \in DOMAIN q : q[k].key = e.lid
    <3>1. LidMem[e.lid] = e.lid
      BY <1>3 DEF LidMem
    <3>2. lid2dev' = lid2dev
      BY <1>2, <2>1, <2>7, <3>1 DEF Hash!AddHashItem, Hash!IsMapped
    <3> QED
      BY <3>2, <1>1, <2>2, <2>6, <2>7 DEF TypeOK
  <2>8. CASE ~ \E k \in DOMAIN q : q[k].key = e.lid
    <3>1. LidMem[e.lid] = e.lid
      BY <1>3 DEF LidMem
    <3>2. lid2dev' = [lid2dev EXCEPT ![h] = Append(q, it)]
      BY <1>2, <2>1, <2>8, <3>1 DEF Hash!AddHashItem, Hash!IsMapped
    <3>3. it = [key |-> e.lid, value |-> p] /\ it \in [key : Lids, value : Nat]
      BY <1>3, <1>7 DEF Hash!Item
    <3>4. /\ lid2dev'[h] = Append(q, it)
          /\ \A s \in Slots \ {h} : lid2dev'[s] = lid2dev[s]
      BY <3>2, <2>1, <1>1 DEF TypeOK
    <3>5. /\ DOMAIN lid2dev'[h] = 1 .. Len(q) + 1
          /\ lid2dev'[h][Len(q) + 1] = it
          /\ \A k \in 1 .. Len(q) : lid2dev'[h][k] = q[k]
      BY <2>1, <3>3, <3>4
    <3>6. FirstOf(p)
      <4> SUFFICES ASSUME NEW k \in 1 .. p - 1, config[k].lid = config[p].lid
                   PROVE  FALSE
        BY DEF FirstOf
      <4>1. k \in Devices /\ devs[k].lid = e.lid
        BY <1>1, <1>7, <2>4 DEF Registered
      <4> QED
        BY <4>1, <2>3, <2>8
    <3>7. Entry(it, h)
      BY <3>3, <3>6, <1>7, <2>4
    <3>8. \A s \in Slots : \A k \in DOMAIN lid2dev'[s] : Entry(lid2dev'[s][k], s)
      <4> SUFFICES ASSUME NEW s \in Slots, NEW k \in DOMAIN lid2dev'[s]
                   PROVE  Entry(lid2dev'[s][k], s)
        OBVIOUS
      <4>1. CASE s = h /\ k = Len(q) + 1
        BY <4>1, <3>5, <3>7
      <4>2. CASE ~(s = h /\ k = Len(q) + 1)
        <5>1. k \in DOMAIN lid2dev[s] /\ lid2dev'[s][k] = lid2dev[s][k]
          BY <4>2, <2>1, <3>4, <3>5
        <5> QED
          BY <5>1, <2>2
      <4> QED
        BY <4>1, <4>2
    <3>9. \E k \in DOMAIN lid2dev'[h] : lid2dev'[h][k].key = e.lid
      <4>1. Len(q) + 1 \in DOMAIN lid2dev'[h]
        BY <2>1, <3>5
      <4> QED
        BY <4>1, <3>3, <3>5
    <3>10. \A s \in Slots : \A k \in DOMAIN lid2dev[s] :
             k \in DOMAIN lid2dev'[s] /\ lid2dev'[s][k] = lid2dev[s][k]
      BY <2>1, <3>4, <3>5
    <3> QED
      BY <3>8, <3>9, <3>10, <1>9, <2>6 DEF TypeOK
  <2> QED
    BY <2>7, <2>8
<1>13. DriversKnown'
  BY <1>1, <1>2 DEF DriversKnown, Loaded, Matching
<1>14. Bound' = {} /\ \A d \in Devices' : devs'[d].operation = NULL /\ devs'[d].private = 0
  <2>1. \A d \in Devices : devs[d].operation = NULL /\ devs[d].private = 0
    BY <1>1, <1>2 DEF Progress, Bound, TablesOwned
  <2> QED
    BY <1>6, <1>7, <2>1 DEF Bound
<1>15. Cursor' /\ Progress' /\ InHand'
  BY <1>1, <1>2, <1>14 DEF Cursor, Progress, InHand, Matching, Verdict
<1>16. TablesOwned' /\ BoundWell' /\ Verdict'
  BY <1>1, <1>2, <1>14 DEF TablesOwned, BoundWell, Verdict, Matching
<1> QED
  BY <1>9, <1>10, <1>11, <1>12, <1>13, <1>15, <1>16 DEF Inv

-----------------------------------------------------------------------------
(* What most steps leave alone: the configuration is never written, and    *)
(* the registration is over once the loaders run.                          *)

LEMMA ConfigKept ==
  ASSUME UNCHANGED config, NEW n
  PROVE  /\ EntityOf(n)' = EntityOf(n)
         /\ Listed(n)' = Listed(n)
         /\ Acceptable(n)' <=> Acceptable(n)
         /\ NameListFits(n)' <=> NameListFits(n)
<1>1. \A l : EntityOf(l)' = EntityOf(l)
  BY DEF EntityOf
<1>2. \A k : Listed(k)' = Listed(k)
  BY DEF Listed
<1>3. Acceptable(n)' <=> Acceptable(n)
  <2>1. \A t, q, k : OpAcceptable(t, q, k)' <=> OpAcceptable(t, q, k)
    OBVIOUS
  <2>2. EntityOf(config[n].lid)' = EntityOf(config[n].lid)
    BY <1>1
  <2>3. Listed(EntityOf(config[n].lid))' = Listed(EntityOf(config[n].lid))
    BY <1>2, <2>2
  <2> QED
    BY <2>2, <2>3 DEF Acceptable
<1> QED
  BY <1>1, <1>2, <1>3 DEF NameListFits

SameDevices ==
  /\ DOMAIN devs' = DOMAIN devs /\ Len(devs') = Len(devs)
  /\ \A d \in Devices :
       /\ devs'[d].devno = devs[d].devno /\ devs'[d].lid = devs[d].lid
       /\ devs'[d].type = devs[d].type /\ devs'[d].interface = devs[d].interface

LEMMA RegistryKept ==
  ASSUME TypeOK, Registered, Numbered, LidsMapped, pc' # "register", SameDevices,
         pc = "register" => pc' = "done" /\ outcome' # "SUCCESS",
         pc # "done",
         UNCHANGED << config, minors, devLists, lid2dev >>
  PROVE  Registered' /\ Numbered' /\ LidsMapped'
<1>1. Devices' = Devices
  BY DEF SameDevices, Devices
<1>2. Registered'
  BY <1>1 DEF Registered, SameDevices, Matching, TypeOK
<1>3. Numbered'
  BY <1>1 DEF Numbered, SameDevices
<1>4. LidsMapped'
  BY <1>1 DEF LidsMapped, SameDevices, FirstOf
<1> QED
  BY <1>2, <1>3, <1>4

LEMMA BoundKept ==
  ASSUME BoundWell, UNCHANGED << config, devs >>,
         \A d \in Bound : tables'[devs[d].private] = tables[devs[d].private]
  PROVE  BoundWell'
<1>1. Bound' = Bound
  BY DEF Bound, Devices
<1>2. \A n : EntityOf(n)' = EntityOf(n) /\ Listed(n)' = Listed(n)
             /\ (Acceptable(n)' <=> Acceptable(n))
  BY ConfigKept
<1> SUFFICES ASSUME NEW d \in Bound
             PROVE  LET n == EntityOf(devs[d].lid)
                    IN /\ devs[d].operation = devs[d].type
                       /\ Holds(tables'[devs[d].private].slot, n, devs[d].type, Listed(n)')
                       /\ Acceptable(d)
  BY <1>1, <1>2 DEF BoundWell
<1> QED
  BY <1>2 DEF BoundWell

(* The steps of init() that call no matching function *)
LEMMA UnknownTypeStep == Inv /\ UnknownType => Inv'
<1> SUFFICES ASSUME Inv, UnknownType
             PROVE  Inv'
  OBVIOUS
<1> USE DEF Inv
<1>1. /\ pc = "register" /\ pc' = "done" /\ outcome' = "exit" /\ i < Len(config)
      /\ config[i + 1].type \notin DeviceTypes
      /\ UNCHANGED << config, i, regVars, devs, loadVars, iterVars, matchVars >>
  BY DEF UnknownType, End
<1>2. TypeOK'
  BY <1>1 DEF TypeOK, regVars, loadVars, iterVars, matchVars
<1>3. Registered' /\ Numbered' /\ LidsMapped'
  BY <1>1, RegistryKept DEF SameDevices, regVars
<1>4. DriversKnown' /\ Cursor' /\ Progress' /\ InHand'
  BY <1>1 DEF DriversKnown, Cursor, Progress, InHand, Matching, iterVars
<1>5. TablesOwned' /\ BoundWell'
  <2>1. BoundWell'
    BY <1>1, BoundKept DEF matchVars
  <2> QED
    BY <2>1, <1>1 DEF TablesOwned, Bound, Devices, Matching, matchVars
<1>6. Verdict'
  <2>1. ~Acceptable(i + 1)
    BY <1>1, DriverTypesAre DEF Acceptable
  <2>2. i + 1 \in DOMAIN config
    BY <1>1, ConfigTyped DEF TypeOK
  <2>3. ~Acceptable(i + 1)'
    BY <2>1, <1>1, ConfigKept
  <2> QED
    BY <2>2, <2>3, <1>1 DEF Verdict
<1> QED
  BY <1>2, <1>3, <1>4, <1>5, <1>6

LEMMA DevicesRegisteredStep == Inv /\ DevicesRegistered => Inv'
<1> SUFFICES ASSUME Inv, DevicesRegistered
             PROVE  Inv'
  OBVIOUS
<1> USE DEF Inv
<1>1. /\ pc = "register" /\ pc' = "load" /\ i = Len(config) /\ i' = 0
      /\ UNCHANGED << config, regVars, devs, loadVars, iterVars, matchVars, outcome >>
  BY DEF DevicesRegistered, Goto
<1>2. TypeOK'
  BY <1>1 DEF TypeOK, regVars, loadVars, iterVars, matchVars
<1>3. Registered' /\ Numbered' /\ LidsMapped'
  <2>1. Devices' = Devices
    BY <1>1 DEF Devices
  <2>2. Registered'
    BY <1>1, <2>1 DEF Registered, Matching
  <2>3. Numbered' /\ LidsMapped'
    BY <1>1, <2>1 DEF Numbered, LidsMapped, FirstOf, regVars
  <2> QED
    BY <2>2, <2>3
<1>4. DriversKnown' /\ Cursor' /\ Progress' /\ InHand'
  BY <1>1, DriverTypesAre
     DEF DriversKnown, Loaded, Cursor, Progress, InHand, Matching, Bound, Devices,
         iterVars, loadVars, Verdict
<1>5. TablesOwned' /\ BoundWell'
  <2>1. BoundWell'
    BY <1>1, BoundKept DEF matchVars
  <2> QED
    BY <2>1, <1>1 DEF TablesOwned, Bound, Devices, Matching, matchVars
<1>6. Verdict'
  BY <1>1 DEF Verdict, matchVars
<1> QED
  BY <1>2, <1>3, <1>4, <1>5, <1>6

LEMMA LoadDriverStep == Inv /\ LoadDriver => Inv'
<1> SUFFICES ASSUME Inv, LoadDriver
             PROVE  Inv'
  OBVIOUS
<1> USE DEF Inv
<1> DEFINE driver == Loaders[counter + 1]
           m == TypeMajor[driver]
<1>1. /\ pc = "load" /\ pc' = "load" /\ i < Len(Loaders) /\ i' = i + 1
      /\ counter' = counter + 1
      /\ drvLists' = [drvLists EXCEPT ![m] = Append(drvLists[m], driver)]
      /\ UNCHANGED << config, regVars, devs, iterVars, matchVars, outcome >>
  BY DEF LoadDriver, Goto
<1>2. counter = i /\ i \in Nat /\ Loaded(i)
  BY <1>1 DEF DriversKnown, TypeOK
<1>3. i + 1 \in DOMAIN Loaders /\ driver = Loaders[i + 1] /\ driver \in DriverTypes
      /\ m \in Majors /\ Len(Loaders) \in Nat
  BY <1>1, <1>2, DriverTypesAre, MajorsApart
<1> HIDE DEF driver, m
<1>4. drvLists \in [Majors -> Seq(DriverTypes)] /\ drvLists[m] \in Seq(DriverTypes)
  BY <1>3 DEF TypeOK
<1>5. TypeOK'
  <2>1. Append(drvLists[m], driver) \in Seq(DriverTypes)
    BY <1>3, <1>4, AppendProperties
  <2>2. drvLists' \in [Majors -> Seq(DriverTypes)]
    BY <2>1, <1>1, <1>4
  <2> QED
    <3>1. i' \in Nat /\ counter' \in Nat /\ pc' = "load"
      BY <1>1, <1>2
    <3>2. UNCHANGED << config, regVars, devs, iterVars, matchVars, outcome >>
      BY <1>1
    <3> QED
      BY <2>2, <3>1, <3>2 DEF TypeOK, regVars, iterVars, matchVars
<1>6. Registered' /\ Numbered' /\ LidsMapped'
  BY <1>1, RegistryKept DEF SameDevices, regVars
<1>7. Loaded(i)'
  <2>1. \A k \in DOMAIN Loaders :
          TypeMajor[Loaders[k]] \in Majors /\ (TypeMajor[Loaders[k]] = m => k = i + 1)
    <3>1. \A k \in DOMAIN Loaders : Loaders[k] = Loaders[i + 1] => k = i + 1
      BY <1>3, DriverTypesAre DEF Loaders
    <3>2. \A k \in DOMAIN Loaders : TypeMajor[Loaders[k]] = m => Loaders[k] = driver
      BY <1>3, MajorsApart, DriverTypesAre DEF m
    <3> QED
      BY <3>1, <3>2, <1>3, MajorsApart, DriverTypesAre
  <2>2. drvLists[m] = << >> /\ m = TypeMajor[Loaders[i + 1]]
    <3>1. m = TypeMajor[Loaders[i + 1]]
      BY <1>3 DEF m
    <3>2. ~(i + 1 <= i)
      BY <1>2
    <3> QED
      BY <3>1, <3>2, <1>2, <1>3 DEF Loaded
  <2>3. drvLists'[m] = << driver >> /\ \A n \in Majors \ {m} : drvLists'[n] = drvLists[n]
    <3>1. Append(drvLists[m], driver) = << driver >>
      BY <2>2
    <3> QED
      BY <3>1, <1>1, <1>3, <1>4
  <2>4. \A k \in DOMAIN Loaders : drvLists'[TypeMajor[Loaders[k]]]
                                    = IF k <= i + 1 THEN << Loaders[k] >> ELSE << >>
    <3> SUFFICES ASSUME NEW k \in DOMAIN Loaders
                 PROVE  drvLists'[TypeMajor[Loaders[k]]]
                          = IF k <= i + 1 THEN << Loaders[k] >> ELSE << >>
      OBVIOUS
    <3>1. k \in Nat
      BY DriverTypesAre
    <3>2. CASE k = i + 1
      BY <3>2, <2>2, <2>3, <1>2, <1>3
    <3>3. CASE k # i + 1
      <4>1. k <= i + 1 <=> k <= i
        BY <3>1, <3>3, <1>2
      <4> QED
        BY <4>1, <3>3, <2>1, <2>3, <1>2 DEF Loaded
    <3> QED
      BY <3>2, <3>3
  <2>5. \A n \in Majors : (\A k \in DOMAIN Loaders : TypeMajor[Loaders[k]] # n)
                            => drvLists'[n] = << >>
    BY <2>2, <2>3, <1>2, <1>3 DEF Loaded
  <2> QED
    BY <2>4, <2>5, <1>1 DEF Loaded
<1>8. DriversKnown'
  BY <1>1, <1>2, <1>3, <1>7 DEF DriversKnown, Matching
<1>9. Cursor' /\ Progress' /\ InHand'
  BY <1>1 DEF Cursor, Progress, InHand, Matching, Bound, Devices, iterVars, Verdict
<1>10. TablesOwned' /\ BoundWell'
  <2>1. BoundWell'
    BY <1>1, BoundKept DEF matchVars
  <2> QED
    BY <2>1, <1>1 DEF TablesOwned, Bound, Devices, Matching, matchVars
<1>11. Verdict'
  BY <1>1 DEF Verdict, matchVars
<1> QED
  BY <1>5, <1>6, <1>8, <1>9, <1>10, <1>11

LEMMA DriversLoadedStep == Inv /\ DriversLoaded => Inv'
<1> SUFFICES ASSUME Inv, DriversLoaded
             PROVE  Inv'
  OBVIOUS
<1> USE DEF Inv
<1>1. /\ pc = "load" /\ pc' = "bind" /\ i = Len(Loaders) /\ i' = 0
      /\ UNCHANGED << config, regVars, devs, loadVars, iterVars, matchVars, outcome >>
  BY DEF DriversLoaded, Goto
<1>2. TypeOK'
  BY <1>1 DEF TypeOK, regVars, loadVars, iterVars, matchVars
<1>3. Registered' /\ Numbered' /\ LidsMapped'
  BY <1>1, RegistryKept DEF SameDevices, regVars
<1>4. DriversKnown' /\ Cursor' /\ InHand'
  <2>1. Loaded(Len(Loaders))
    BY <1>1 DEF DriversKnown
  <2>2. Loaded(Len(Loaders))'
    BY <2>1, <1>1 DEF Loaded, loadVars
  <2> QED
    BY <2>2, <1>1 DEF DriversKnown, Cursor, InHand, Matching, iterVars, regVars
<1>5. Progress'
  <2>1. Passed' = {} /\ Bound' = {}
    BY <1>1 DEF Progress, Passed, Bound, Devices, iterVars
  <2>2. Cardinality({}) = 0
    BY FS_EmptySet
  <2> QED
    BY <2>1, <2>2, <1>1 DEF Progress, Matching, Verdict
<1>6. TablesOwned' /\ BoundWell'
  <2>1. BoundWell'
    BY <1>1, BoundKept DEF matchVars
  <2> QED
    BY <2>1, <1>1 DEF TablesOwned, Bound, Devices, Matching, matchVars
<1>7. Verdict'
  BY <1>1 DEF Verdict, matchVars
<1> QED
  BY <1>2, <1>3, <1>4, <1>5, <1>6, <1>7

-----------------------------------------------------------------------------
(* bind_drivers (driver_bind.c): while i counts fewer devices than there   *)
(* are, get_device returns one that has not been bound.                    *)
LEMMA DeviceCount ==
  ASSUME TypeOK
  PROVE  /\ IsFiniteSet(Devices) /\ Cardinality(Devices) = Len(devs)
         /\ IsFiniteSet(Bound)
<1>1. Devices = 1 .. Len(devs) /\ Len(devs) \in Nat
  BY DevicesTyped
<1>2. IsFiniteSet(Devices) /\ Cardinality(Devices) = Len(devs)
  BY <1>1, FS_Interval
<1> QED
  BY <1>2, FS_Subset DEF Bound

LEMMA NextDevice ==
  ASSUME Inv, pc = "bind", i < DeviceNum
  PROVE  LET d == GetDevice.dev
             n == EntityOf(devs[d].lid)
         IN /\ d \in Devices /\ d \notin Passed /\ d \notin Bound
            /\ Passed # Devices
            /\ d \in DOMAIN config /\ devs[d].lid = config[d].lid
            /\ devs[d].type = config[d].type /\ devs[d].interface = config[d].interface
            /\ n \in DOMAIN config /\ n = EntityOf(config[d].lid)
            /\ Supporting(d) # {} =>
                 /\ GetDriver(d) = devs[d].type /\ devs[d].type \in DriverTypes
                 /\ IsSupportedInterface(InterfacesString[devs[d].type], devs[d].interface)
            /\ Supporting(d) = {} => ~Acceptable(d)
            /\ ~NameListFits(n) => ~Acceptable(d)
<1> USE DEF Inv
<1>1. Passed # Devices
  <2>1. Bound = Passed /\ Cardinality(Bound) = i /\ i \in Nat /\ i < Len(devs)
    BY DEF Progress, DeviceNum, TypeOK
  <2>2. Cardinality(Devices) = Len(devs) /\ Len(devs) \in Nat
    BY DeviceCount, DevicesTyped
  <2> QED
    BY <2>1, <2>2
<1> DEFINE d == GetDevice.dev
<1>2. d \in Devices /\ d \notin Passed
  BY <1>1, GetDeviceIs
<1> HIDE DEF d
<1>3. d \notin Bound
  BY <1>2 DEF Progress
<1>4. d \in DOMAIN config
  BY <1>2, DevicesTyped, ConfigTyped DEF Registered
<1>5. /\ devs[d].lid = config[d].lid /\ devs[d].type = config[d].type
      /\ devs[d].interface = config[d].interface
  BY <1>2 DEF Registered
<1>6. EntityOf(config[d].lid) \in DOMAIN config
  BY <1>4, EntityOfIs
<1>7. Loaded(Len(Loaders))
  BY DEF DriversKnown
<1>8. /\ Supporting(d) # {} <=>
           devs[d].type \in DriverTypes
           /\ IsSupportedInterface(InterfacesString[devs[d].type], devs[d].interface)
      /\ Supporting(d) # {} => GetDriver(d) = devs[d].type
  BY <1>2, <1>7, GetDriverIs
<1>9. Supporting(d) = {} => ~Acceptable(d)
  BY <1>5, <1>8 DEF Acceptable
<1>10. ~NameListFits(EntityOf(config[d].lid)) => ~Acceptable(d)
  BY DEF Acceptable, NameListFits
<1> QED
  BY <1>1, <1>2, <1>3, <1>4, <1>5, <1>6, <1>8, <1>9, <1>10 DEF d

LEMMA IteratorMoves ==
  ASSUME Inv, pc = "bind", i < DeviceNum, AdvanceIterator, UNCHANGED << devs, devLists >>
  PROVE  /\ Cursor' /\ Passed' = Passed \cup {GetDevice.dev} /\ Devices' = Devices
         /\ devp' = GetDevice.dev /\ devp' \in Nat
         /\ curMajor' \in Majors /\ node' \in Seq(Nat)
<1> USE DEF Inv
<1> DEFINE d == GetDevice.dev
           m == curMajor'
           L == Len(devLists[m])
           k == devs[d].devno[2]
<1>1. d \in Devices /\ d \notin Passed /\ Passed # Devices
  BY NextDevice
<1>2. /\ After(d, m, node')
      /\ \A o \in Devices :
           o \in Passed \cup {d} <=>
             \/ devs[o].devno[1] < m
             \/ (devs[o].devno[1] = m /\ devs[o].devno[2] <= k)
  BY <1>1, GetDeviceIs DEF AdvanceIterator
<1>3. m \in Majors /\ k \in Nat /\ k < L
  <2>1. m = devs[d].devno[1]
    BY <1>2 DEF After
  <2>2. devs[d].devno[1] \in Majors /\ k \in Nat
    BY <1>1, DevicesTyped
  <2>3. k < Len(devLists[devs[d].devno[1]])
    BY <1>1 DEF Numbered
  <2> QED
    BY <2>1, <2>2, <2>3
<1>4. L \in Nat /\ m # -1
  <2>1. devLists[m] \in Seq(Nat)
    BY <1>3 DEF TypeOK
  <2>2. m \in 10 .. 16
    BY <1>3, MajorsRange
  <2> HIDE DEF m
  <2> QED
    BY <2>1, <2>2
<1>5. node' \in Seq(Nat) /\ Len(node') = L - k - 1 /\ Len(node') \in Nat
      /\ \A j \in DOMAIN node' : node'[j] = devLists[m][L - Len(node') + j]
  BY <1>2 DEF After
<1>6. Cursor'
  <2>1. Len(node') < L
    <3> HIDE DEF L, k
    <3> QED
      BY <1>3, <1>4, <1>5
  <2> QED
    BY <1>4, <1>5, <2>1 DEF Cursor
<1>7. Passed' = Passed \cup {d}
  <2>1. L - Len(node') = k + 1
    <3> HIDE DEF L, k
    <3> QED
      BY <1>3, <1>4, <1>5
  <2>2. Passed' = { o \in Devices :
                      \/ devs[o].devno[1] < m
                      \/ (devs[o].devno[1] = m /\ devs[o].devno[2] < k + 1) }
    BY <1>4, <2>1 DEF Passed, Devices
  <2>3. \A o \in Devices : devs[o].devno[2] < k + 1 <=> devs[o].devno[2] <= k
    BY <1>3, DevicesTyped
  <2>4. Passed \cup {d} \subseteq Devices
    BY <1>1 DEF Passed
  <2> QED
    BY <1>2, <2>2, <2>3, <2>4
<1>8. devp' = d /\ d \in Nat /\ Devices' = Devices
  BY <1>1, DevicesTyped DEF AdvanceIterator, Devices
<1> QED
  BY <1>3, <1>5, <1>6, <1>7, <1>8

LEMMA CannotMatchStep == Inv /\ CannotMatch => Inv'
<1> SUFFICES ASSUME Inv, CannotMatch
             PROVE  Inv'
  OBVIOUS
<1> USE DEF Inv
<1> DEFINE d == GetDevice.dev
<1>1. /\ pc = "bind" /\ pc' = "done" /\ outcome' = "exit" /\ i < DeviceNum
      /\ Supporting(d) = {} \/ ~NameListFits(EntityOf(devs[d].lid))
      /\ AdvanceIterator
      /\ UNCHANGED << config, i, regVars, devs, loadVars,
                      ctx, drip, opPos, tables, tdt, record >>
  BY DEF CannotMatch, End
<1>2. d \in DOMAIN config /\ ~Acceptable(d)
  BY <1>1, NextDevice
<1>3. /\ Cursor' /\ devp' \in Nat /\ curMajor' \in Majors /\ node' \in Seq(Nat)
  BY <1>1, IteratorMoves DEF regVars
<1> HIDE DEF d
<1>4. TypeOK'
  BY <1>1, <1>3 DEF TypeOK, regVars, loadVars
<1>5. Registered' /\ Numbered' /\ LidsMapped'
  BY <1>1, RegistryKept DEF SameDevices, regVars
<1>6. DriversKnown' /\ Progress' /\ InHand'
  BY <1>1 DEF DriversKnown, Progress, InHand, Matching
<1>7. TablesOwned' /\ BoundWell'
  <2>1. BoundWell'
    BY <1>1, BoundKept
  <2> QED
    BY <2>1, <1>1 DEF TablesOwned, Bound, Devices, Matching
<1>8. Verdict'
  <2>1. PICK n \in DOMAIN config : ~Acceptable(n)
    BY <1>2
  <2>2. ~Acceptable(n)'
    BY <2>1, <1>1, ConfigKept
  <2> QED
    BY <2>1, <2>2, <1>1 DEF Verdict
<1> QED
  BY <1>3, <1>4, <1>5, <1>6, <1>7, <1>8

LEMMA DevicesBoundStep == Inv /\ DevicesBound => Inv'
<1> SUFFICES ASSUME Inv, DevicesBound
             PROVE  Inv'
  OBVIOUS
<1> USE DEF Inv
<1>1. /\ pc = "bind" /\ pc' = "done" /\ outcome' = "SUCCESS" /\ i = DeviceNum
      /\ drvLists' = EmptyLists
      /\ UNCHANGED << config, i, regVars, devs, counter, iterVars, matchVars >>
  BY DEF DevicesBound, End
<1>2. TypeOK'
  <2>1. drvLists' \in [Majors -> Seq(DriverTypes)]
    BY <1>1 DEF EmptyLists
  <2>2. UNCHANGED << config, i, regVars, devs, counter, iterVars, matchVars >>
    BY <1>1
  <2> QED
    BY <2>1, <2>2, <1>1 DEF TypeOK, regVars, iterVars, matchVars
<1>3. Registered' /\ Numbered' /\ LidsMapped'
  <2>1. Devices' = Devices
    BY <1>1 DEF Devices
  <2>2. Registered'
    BY <1>1, <2>1 DEF Registered, Matching
  <2>3. Numbered' /\ LidsMapped'
    BY <1>1, <2>1 DEF Numbered, LidsMapped, FirstOf, regVars
  <2> QED
    BY <2>2, <2>3
<1>4. DriversKnown' /\ Cursor' /\ InHand'
  BY <1>1 DEF DriversKnown, Cursor, InHand, Matching, iterVars, regVars
<1>5. Progress'
  <2>1. Bound \subseteq Devices /\ Cardinality(Bound) = Cardinality(Devices)
    BY <1>1, DeviceCount DEF Progress, DeviceNum, Bound
  <2>2. Bound = Devices
    BY <2>1, DeviceCount, FS_Subset
  <2> QED
    BY <2>2, <1>1 DEF Progress, Matching, Bound, Devices
<1>6. TablesOwned' /\ BoundWell'
  <2>1. BoundWell'
    BY <1>1, BoundKept DEF matchVars
  <2> QED
    BY <2>1, <1>1 DEF TablesOwned, Bound, Devices, Matching, matchVars
<1>7. Verdict'
  BY <1>1 DEF Verdict, matchVars
<1> QED
  BY <1>2, <1>3, <1>4, <1>5, <1>6, <1>7

(* A driver is found: its match starts with an empty table of its own.     *)
LEMMA BeginMatchStep == Inv /\ BeginMatch => Inv'
<1> SUFFICES ASSUME Inv, BeginMatch
             PROVE  Inv'
  OBVIOUS
<1> USE DEF Inv
<1> DEFINE d == GetDevice.dev
           n == EntityOf(devs[d].lid)
           empty == [live |-> TRUE, slot |-> EmptyTable]
<1>1. /\ pc = "bind" /\ pc' = "global" /\ i < DeviceNum
      /\ Supporting(d) # {} /\ NameListFits(n)
      /\ AdvanceIterator
      /\ drip' = GetDriver(d) /\ ctx' = n /\ opPos' = 0
      /\ tables' = Append(tables, empty) /\ tdt' = Len(tables) + 1
      /\ UNCHANGED << config, i, regVars, devs, loadVars, record, outcome >>
  BY DEF BeginMatch, Goto, InitTable
<1>2. /\ d \in Devices /\ d \notin Passed /\ d \notin Bound
      /\ n \in DOMAIN config
      /\ drip' = devs[d].type /\ drip' \in DriverTypes
      /\ IsSupportedInterface(InterfacesString[drip'], devs[d].interface)
  BY <1>1, NextDevice
<1>3. /\ Cursor' /\ Passed' = Passed \cup {d} /\ devp' = d /\ devp' \in Nat
      /\ Devices' = Devices /\ curMajor' \in Majors /\ node' \in Seq(Nat)
  BY <1>1, IteratorMoves DEF regVars
<1> HIDE DEF d, n
<1>4. /\ tables \in Seq(DataTables) /\ Len(tables) \in Nat
      /\ empty \in DataTables /\ tables' \in Seq(DataTables)
      /\ Len(tables') = Len(tables) + 1 /\ tables'[Len(tables) + 1] = empty
      /\ \A k \in 1 .. Len(tables) : tables'[k] = tables[k]
  <2>1. tables \in Seq(DataTables)
    BY DEF TypeOK
  <2>2. empty \in DataTables
    BY DEF EmptyTable, DataTables, Slot
  <2> HIDE DEF empty
  <2> QED
    BY <1>1, <2>1, <2>2
<1>5. TypeOK'
  <2>1. n \in Nat
    BY <1>2, ConfigTyped
  <2>2. tdt' \in Nat /\ opPos' \in Nat /\ ctx' \in Nat
    BY <2>1, <1>1, <1>4
  <2>3. UNCHANGED << config, i, regVars, devs, loadVars, record, outcome >>
    BY <1>1
  <2>4. pc' = "global"
    BY <1>1
  <2> QED
    BY <2>2, <2>3, <2>4, <1>2, <1>3, <1>4 DEF TypeOK, regVars, loadVars
<1>6. Registered' /\ Numbered' /\ LidsMapped'
  BY <1>1, RegistryKept DEF SameDevices, regVars
<1>7. DriversKnown'
  <2>1. Loaded(Len(Loaders))
    BY <1>1 DEF DriversKnown
  <2>2. Loaded(Len(Loaders))'
    BY <2>1, <1>1 DEF Loaded, loadVars
  <2> QED
    BY <2>2, <1>1 DEF DriversKnown
<1>8. Bound' = Bound
  BY <1>1 DEF Bound, Devices
<1>9. Progress'
  BY <1>1, <1>2, <1>3, <1>8 DEF Progress, Verdict, DeviceNum
<1>10. InHand'
  <2>1. ctx' \in DOMAIN config' /\ ctx' = EntityOf(devs[devp].lid)'
    <3>1. \A l : EntityOf(l)' = EntityOf(l)
      BY <1>1, ConfigKept
    <3>2. devs'[devp'].lid = devs[d].lid
      BY <1>1, <1>3
    <3> QED
      BY <1>1, <1>2, <3>1, <3>2 DEF n
  <2>6. NameListFits(ctx)'
    BY <1>1 DEF NameListFits
  <2>2. Done' = {}
    BY <1>1 DEF Done
  <2>3. Holds(tables'[tdt'].slot, ctx', drip', Done')
    BY <2>2, <1>1, <1>4 DEF Holds, EmptyTable
  <2>4. record' = Marks(drip', Done')
    BY <2>2, <1>1 DEF Marks, Verdict
  <2>5. opPos' <= config'[ctx'].length
    BY <1>1, <1>2, ConfigTyped, EntityTyped
  <2> QED
    <3>1. drip' \in DriverTypes /\ drip' = devs'[devp'].type
          /\ IsSupportedInterface(InterfacesString[drip'], devs'[devp'].interface)
      BY <1>1, <1>2, <1>3
    <3>2. pc' = "global" /\ opPos' = 0
      BY <1>1
    <3> QED
      BY <2>1, <2>3, <2>4, <2>5, <2>6, <3>1, <3>2 DEF InHand
<1>11. TablesOwned'
  <2>1. \A o \in Bound : devs[o].private \in 1 .. Len(tables)
    BY DEF TablesOwned
  <2> QED
    BY <2>1, <1>1, <1>3, <1>4, <1>8 DEF TablesOwned
<1>12. BoundWell'
  BY <1>1, <1>4, BoundKept DEF TablesOwned
<1>13. Verdict'
  BY <1>1 DEF Verdict
<1> QED
  BY <1>3, <1>5, <1>6, <1>7, <1>9, <1>10, <1>11, <1>12, <1>13

-----------------------------------------------------------------------------
(* do_match (driver_match.c): what one match function adds                 *)

(* check_match enters collected data at an index no other operation of the *)
(* driver uses.                                                            *)
LEMMA HoldsMore ==
  ASSUME NEW t \in DriverTypes, NEW n, NEW done \in SUBSET Named(t), NEW op \in Named(t),
         NEW slot \in [TableIndices -> Slot], Holds(slot, n, t, done)
  PROVE  LET k == ElementIndex(t, op)
             entered == [slot EXCEPT ![k] = [entity |-> n, op |-> op]]
         IN Holds(IF Collects(t, op) THEN entered ELSE slot, n, t, done \cup {op})
<1> DEFINE x == ElementIndex(t, op)
           entered == [slot EXCEPT ![x] = [entity |-> n, op |-> op]]
           more == IF Collects(t, op) THEN entered ELSE slot
           At(d, k) == { o \in d : Collects(t, o) /\ ElementIndex(t, o) = k }
<1>1. /\ x \in TableIndices
      /\ \A o \in Named(t) : ElementIndex(t, o) = x => o = op
  BY IndicesApart
<1> SUFFICES ASSUME NEW k \in TableIndices
             PROVE  more[k] = IF At(done \cup {op}, k) = {} THEN NULL
                              ELSE [entity |-> n, op |-> CHOOSE o \in At(done \cup {op}, k) : TRUE]
  BY DEF Holds
<1>2. slot[k] = IF At(done, k) = {} THEN NULL
                ELSE [entity |-> n, op |-> CHOOSE o \in At(done, k) : TRUE]
  BY DEF Holds
<1>3. CASE Collects(t, op) /\ x = k
  <2>1. At(done \cup {op}, k) = {op}
    BY <1>1, <1>3
  <2>2. more[k] = [entity |-> n, op |-> op]
    BY <1>1, <1>3
  <2> HIDE DEF At, more
  <2> QED
    BY <2>1, <2>2
<1>4. CASE ~(Collects(t, op) /\ x = k)
  <2>1. At(done \cup {op}, k) = At(done, k)
    BY <1>4
  <2>2. more[k] = slot[k]
    BY <1>1, <1>4
  <2> HIDE DEF At, more
  <2> QED
    BY <1>2, <2>1, <2>2
<1> QED
  BY <1>3, <1>4

LEMMA MarksMore ==
  ASSUME NEW t \in DriverTypes, NEW done, NEW op
  PROVE  Marks(t, done \cup {op})
           = IF t = "gyroscope" /\ op \in {"global", "open"}
               THEN Marks(t, done) \cup {ElementIndex(t, op)} ELSE Marks(t, done)
  BY DEF Marks

LEMMA MarksTyped ==
  ASSUME NEW t, NEW done
  PROVE  Marks(t, done) \in SUBSET TableIndices
  BY GyroscopeIndices DEF Marks, TableIndices

(* has_all_required_operations_complemented asks for the two bits that the *)
(* match functions of global and open set.                                 *)
LEMMA MarksRequired ==
  ASSUME NEW t \in DriverTypes, NEW done
  PROVE  RequiredOps(t) \subseteq Marks(t, done)
           <=> (t = "gyroscope" => {"global", "open"} \subseteq done)
<1>1. CASE t = "gyroscope"
  <2>1. 0 \in Marks(t, done) <=> "global" \in done
    BY <1>1, GyroscopeIndices DEF Marks
  <2>2. 1 \in Marks(t, done) <=> "open" \in done
    BY <1>1, GyroscopeIndices DEF Marks
  <2> QED
    BY <1>1, <2>1, <2>2, RequiredIs
<1>2. CASE t # "gyroscope"
  BY <1>2, RequiredIs
<1> QED
  BY <1>1, <1>2

(* The element an operation name leads to is the one the judgement reads.  *)
LEMMA OpElementIs ==
  ASSUME TypeOK, ctx \in DOMAIN config, NEW k \in 1 .. Len(config[ctx].ops), NEW t
  PROVE  LET op == config[ctx].ops[k].name
         IN OpAcceptable(t, config[ctx].ops, k)
              <=> HasOp(t, op) /\ WellFormed(t, op, OpElement(op))
<1> DEFINE q == config[ctx].ops
           op == q[k].name
           S == { j \in 1 .. Len(q) : q[j].name = op }
           First(j) == q[j].name = op /\ \A h \in 1 .. j - 1 : q[h].name # op
<1>1. DOMAIN q = 1 .. Len(q) /\ Len(q) \in Nat
  BY ConfigTyped, EntityTyped
<1> HIDE DEF q, op
<1>2. k \in S /\ S \in SUBSET Nat
  BY <1>1 DEF q, op
<1>3. PICK j \in S : \A h \in S : j <= h
  BY <1>2, LeastElement
<1>4. j \in 1 .. k /\ First(j) /\ j \in DOMAIN q
  BY <1>1, <1>2, <1>3
<1>5. \A h \in DOMAIN q : First(h) => h = j
  <2> SUFFICES ASSUME NEW h \in DOMAIN q, First(h)
               PROVE  h = j
    OBVIOUS
  <2>1. j <= h
    BY <1>1, <1>3
  <2>2. ~(j \in 1 .. h - 1)
    BY <1>4
  <2> QED
    BY <1>1, <1>4, <2>1, <2>2
<1>6. OpElement(op) = q[CHOOSE h \in DOMAIN q : First(h)]
  BY DEF OpElement, q
<1>7. OpElement(op) = q[j]
  BY <1>4, <1>5, <1>6
<1>8. OpAcceptable(t, q, k)
        <=> HasOp(t, op) /\ \E h \in 1 .. k : First(h) /\ WellFormed(t, q[h].name, q[h])
  BY DEF OpAcceptable, op
<1>9. \A h \in 1 .. k : First(h) => h = j /\ q[h].name = op
  BY <1>1, <1>2, <1>5
<1> QED
  BY <1>4, <1>7, <1>8, <1>9 DEF op, q

(* What the device being bound must still show to be acceptable.           *)
LEMMA InHandJudged ==
  ASSUME Inv, Matching
  PROVE  /\ devp \in Devices /\ devp \in DOMAIN config
         /\ drip \in DriverTypes /\ ctx \in DOMAIN config
         /\ config[ctx] \in Entities
         /\ config[ctx].length \in Nat /\ config[ctx].length <= Len(config[ctx].ops)
         /\ Len(config[ctx].ops) \in Nat /\ opPos \in Nat /\ opPos <= config[ctx].length
         /\ Done \in SUBSET Named(drip)
         /\ Acceptable(devp) <=>
              /\ config[ctx].global # NULL => WellFormed(drip, "global", config[ctx].global)
              /\ \A k \in 1 .. config[ctx].length : OpAcceptable(drip, config[ctx].ops, k)
              /\ drip = "gyroscope" => {"global", "open"} \subseteq Listed(ctx)
<1> USE DEF Inv
<1>1. devp \in Devices /\ devp \in DOMAIN config
  BY DevicesTyped, ConfigTyped DEF Progress, Registered
<1>2. /\ drip \in DriverTypes /\ drip = config[devp].type
      /\ IsSupportedInterface(InterfacesString[drip], config[devp].interface)
      /\ ctx = EntityOf(config[devp].lid) /\ ctx \in DOMAIN config /\ NameListFits(ctx)
      /\ opPos <= config[ctx].length /\ opPos \in Nat
      /\ \A k \in 1 .. opPos : OpAcceptable(drip, config[ctx].ops, k)
  BY <1>1 DEF InHand, Registered, TypeOK
<1>3. config[ctx] \in Entities
  BY <1>2, ConfigTyped
<1>4. /\ config[ctx].length \in Nat /\ Len(config[ctx].ops) \in Nat
      /\ config[ctx].length <= Len(config[ctx].ops)
  BY <1>2, <1>3, EntityTyped DEF NameListFits
<1>5. Done \in SUBSET Named(drip)
  <2>1. \A k \in 1 .. opPos : config[ctx].ops[k].name \in OpsOf(drip)
    BY <1>2 DEF OpAcceptable, HasOp
  <2> QED
    BY <2>1 DEF Done, Named
<1>6. Acceptable(devp) <=>
        /\ config[ctx].global # NULL => WellFormed(drip, "global", config[ctx].global)
        /\ \A k \in 1 .. config[ctx].length : OpAcceptable(drip, config[ctx].ops, k)
        /\ drip = "gyroscope" => {"global", "open"} \subseteq Listed(ctx)
  BY <1>2, <1>4 DEF Acceptable
<1> QED
  BY <1>1, <1>2, <1>3, <1>4, <1>5, <1>6

(* What the steps of do_match leave alone: the registry, and the tables of *)
(* the devices bound before.                                               *)
OtherTablesKept ==
  /\ tables' \in Seq(DataTables) /\ Len(tables') = Len(tables)
  /\ \A k \in 1 .. Len(tables) : k # tdt => tables'[k] = tables[k]

LEMMA OthersKept ==
  ASSUME Inv, Matching, OtherTablesKept, UNCHANGED << config, devs >>
  PROVE  /\ Bound' = Bound /\ Devices' = Devices /\ BoundWell'
         /\ \A d \in Bound : /\ devs[d].private \in 1 .. Len(tables')
                             /\ devs[d].private # tdt
                             /\ tables'[devs[d].private].live
<1> USE DEF Inv
<1>1. Bound' = Bound /\ Devices' = Devices
  BY DEF Bound, Devices
<1>2. \A d \in Bound : /\ devs[d].private \in 1 .. Len(tables) /\ devs[d].private # tdt
                       /\ tables[devs[d].private].live
  BY DEF TablesOwned
<1>3. \A d \in Bound : tables'[devs[d].private] = tables[devs[d].private]
  BY <1>2 DEF OtherTablesKept
<1> QED
  BY <1>1, <1>2, <1>3, BoundKept DEF OtherTablesKept

LEMMA MatchingGoesOn ==
  ASSUME Inv, Matching, OtherTablesKept, InHand',
         pc' \in {"global", "ops"}, opPos' \in Nat, record' \in SUBSET TableIndices,
         tables'[tdt].live,
         UNCHANGED << config, i, regVars, devs, loadVars, iterVars,
                      devp, drip, ctx, tdt, outcome >>
  PROVE  Inv'
<1> USE DEF Inv
<1>1. Bound' = Bound /\ Devices' = Devices /\ BoundWell' /\ Matching'
      /\ pc \notin {"register", "load", "bind", "done"}
      /\ pc' \notin {"register", "load", "bind", "done"}
  BY OthersKept DEF Matching
<1>2. TypeOK'
  <2>1. UNCHANGED << config, i, regVars, devs, loadVars, iterVars,
                     devp, drip, ctx, tdt, outcome >>
    OBVIOUS
  <2> QED
    BY <2>1 DEF TypeOK, OtherTablesKept, regVars, loadVars, iterVars
<1>3. Registered' /\ Numbered' /\ LidsMapped'
  BY <1>1, RegistryKept DEF SameDevices, regVars
<1>4. DriversKnown' /\ Cursor'
  <2>1. Loaded(Len(Loaders))
    BY DEF DriversKnown
  <2>2. Loaded(Len(Loaders))'
    BY <2>1 DEF Loaded, loadVars
  <2> QED
    BY <2>2, <1>1 DEF DriversKnown, Cursor, iterVars, regVars
<1>5. Progress'
  <2>1. Passed' = Passed
    BY <1>1 DEF Passed, iterVars, regVars
  <2> QED
    BY <2>1, <1>1 DEF Progress, Verdict
<1>6. TablesOwned'
  BY <1>1, OthersKept DEF TablesOwned, OtherTablesKept
<1>7. Verdict'
  BY <1>1 DEF Verdict
<1> QED
  BY <1>1, <1>2, <1>3, <1>4, <1>5, <1>6, <1>7

LEMMA MatchingEnds ==
  ASSUME Inv, Matching, OtherTablesKept, NEW n \in DOMAIN config, ~Acceptable(n),
         pc' = "done", outcome' \in {"exit", "FAILURE"},
         opPos' \in Nat, ctx' \in Nat, tdt' \in Nat, record' \in SUBSET TableIndices,
         UNCHANGED << config, i, regVars, devs, loadVars, iterVars, devp, drip >>
  PROVE  Inv'
<1> USE DEF Inv
<1>1. Bound' = Bound /\ Devices' = Devices /\ BoundWell' /\ ~Matching'
      /\ pc \notin {"register", "load", "bind", "done"} /\ outcome' # "SUCCESS"
  BY OthersKept DEF Matching
<1>2. TypeOK'
  <2>1. UNCHANGED << config, i, regVars, devs, loadVars, iterVars, devp, drip >>
    OBVIOUS
  <2> QED
    BY <2>1 DEF TypeOK, OtherTablesKept, regVars, loadVars, iterVars
<1>3. Registered' /\ Numbered' /\ LidsMapped'
  BY <1>1, RegistryKept DEF SameDevices, regVars
<1>4. DriversKnown' /\ Cursor' /\ Progress' /\ InHand'
  BY <1>1 DEF DriversKnown, Cursor, Progress, InHand, Matching, iterVars, regVars
<1>5. TablesOwned'
  BY <1>1, OthersKept DEF TablesOwned, OtherTablesKept
<1>6. Verdict'
  <2>1. ~Acceptable(n)'
    BY ConfigKept
  <2> QED
    BY <2>1, <1>1 DEF Verdict
<1> QED
  BY <1>1, <1>2, <1>3, <1>4, <1>5, <1>6

LEMMA NoGlobalStep == Inv /\ NoGlobal => Inv'
<1> SUFFICES ASSUME Inv, NoGlobal
             PROVE  Inv'
  OBVIOUS
<1>1. /\ pc = "global" /\ pc' = "ops" /\ config[ctx].global = NULL
      /\ UNCHANGED << config, i, regVars, devs, loadVars, iterVars, matchVars, outcome >>
  BY DEF NoGlobal, Goto
<1>2. Matching /\ OtherTablesKept /\ tables'[tdt].live
  BY <1>1 DEF Matching, OtherTablesKept, matchVars, Inv, TypeOK, TablesOwned
<1>3. InHand'
  <2>1. \A l : EntityOf(l)' = EntityOf(l)
    BY <1>1, ConfigKept
  <2>2. Done' = Done /\ opPos' = opPos
    BY <1>1 DEF Done, matchVars
  <2>3. NameListFits(ctx)' <=> NameListFits(ctx)
    BY <1>1 DEF NameListFits, matchVars
  <2> QED
    BY <1>1, <1>2, <2>1, <2>2, <2>3 DEF InHand, Inv, Matching, matchVars
<1>4. opPos' \in Nat /\ record' \in SUBSET TableIndices
  BY <1>1 DEF Inv, TypeOK, matchVars
<1> QED
  BY <1>1, <1>2, <1>3, <1>4, MatchingGoesOn DEF matchVars

LEMMA TableInHand ==
  ASSUME Inv, Matching
  PROVE  /\ tables \in Seq(DataTables) /\ tdt \in 1 .. Len(tables) /\ Len(tables) \in Nat
         /\ tables[tdt] = [live |-> tables[tdt].live, slot |-> tables[tdt].slot]
         /\ tables[tdt].live \in BOOLEAN /\ tables[tdt].live
         /\ tables[tdt].slot \in [TableIndices -> Slot]
         /\ Holds(tables[tdt].slot, ctx, drip, Done) /\ record = Marks(drip, Done)
         /\ record \in SUBSET TableIndices
<1> USE DEF Inv
<1>1. tables \in Seq(DataTables) /\ tdt \in 1 .. Len(tables) /\ Len(tables) \in Nat
  BY DEF TypeOK, TablesOwned
<1>2. tables[tdt] \in DataTables
  BY <1>1
<1>3. /\ tables[tdt] = [live |-> tables[tdt].live, slot |-> tables[tdt].slot]
      /\ tables[tdt].live \in BOOLEAN /\ tables[tdt].slot \in [TableIndices -> Slot]
  BY <1>2 DEF DataTables
<1> QED
  BY <1>1, <1>3 DEF InHand, TablesOwned, TypeOK

(* A match function that accepts its element adds the operation to what    *)
(* the table and the record show; one that does not refutes the element.   *)
LEMMA MatchesAdds ==
  ASSUME Inv, Matching, NEW op, NEW elem, Matches(op, elem)
  PROVE  /\ OtherTablesKept /\ tables'[tdt].live
         /\ Holds(tables'[tdt].slot, ctx, drip, Done \cup {op})
         /\ record' = Marks(drip, Done \cup {op}) /\ record' \in SUBSET TableIndices
         /\ op = "global" \/ HasOp(drip, op)
         /\ WellFormed(drip, op, elem)
         /\ ctx' = ctx /\ tdt' = tdt
<1>1. /\ elem.tid = 0 /\ elem.fill # "invalid" /\ op \in Named(drip)
      /\ op = "global" \/ HasOp(drip, op)
      /\ Collects(drip, op) => elem.fill = "ok"
      /\ record' = Recorded(op)
      /\ tables' = IF Collects(drip, op)
                     THEN [tables EXCEPT ![tdt].slot[ElementIndex(drip, op)]
                                           = [entity |-> ctx, op |-> op]]
                     ELSE tables
      /\ ctx' = ctx /\ tdt' = tdt
  BY DEF Matches, Usable, HasTemplate, Named, HasOp, Enter
<1>2. drip \in DriverTypes /\ Done \in SUBSET Named(drip) /\ ctx \in Nat
  BY InHandJudged DEF Inv, TypeOK
<1> DEFINE x == ElementIndex(drip, op)
           entry == [entity |-> ctx, op |-> op]
           entered == [tables[tdt].slot EXCEPT ![x] = entry]
           more == IF Collects(drip, op) THEN entered ELSE tables[tdt].slot
           after == [tables[tdt] EXCEPT !.slot = entered]
<1>3. Holds(more, ctx, drip, Done \cup {op})
  <2>1. tables[tdt].slot \in [TableIndices -> Slot]
        /\ Holds(tables[tdt].slot, ctx, drip, Done)
    BY TableInHand
  <2> QED
    BY <1>1, <1>2, <2>1, HoldsMore
<1>4. entered \in [TableIndices -> Slot]
  <2>1. entry \in Slot
    BY <1>1, <1>2 DEF Slot, Named, OpNames
  <2> QED
    BY <2>1, TableInHand
<1>5. after \in DataTables /\ after.live /\ after.slot = entered
  BY <1>4, TableInHand DEF DataTables
<1>6. OtherTablesKept /\ tables'[tdt].live /\ tables'[tdt].slot = more
  <2>1. CASE Collects(drip, op)
    <3>1. tables' = [tables EXCEPT ![tdt] = after]
      BY <2>1, <1>1
    <3> HIDE DEF after
    <3>2. /\ tables' \in Seq(DataTables) /\ Len(tables') = Len(tables)
          /\ tables'[tdt] = after
          /\ \A k \in 1 .. Len(tables) : k # tdt => tables'[k] = tables[k]
      BY <3>1, <1>5, TableInHand, ExceptSeq
    <3> QED
      BY <2>1, <3>2, <1>5 DEF OtherTablesKept
  <2>2. CASE ~Collects(drip, op)
    BY <2>2, <1>1, TableInHand DEF OtherTablesKept
  <2> QED
    BY <2>1, <2>2
<1>7. record' = Marks(drip, Done \cup {op})
  <2>1. Marks(drip, Done \cup {op})
          = IF drip = "gyroscope" /\ op \in {"global", "open"}
              THEN Marks(drip, Done) \cup {ElementIndex(drip, op)} ELSE Marks(drip, Done)
    BY <1>2, MarksMore
  <2> QED
    BY <1>1, <2>1, TableInHand DEF Recorded
<1>8. record' \in SUBSET TableIndices
  BY <1>7, MarksTyped
<1> HIDE DEF more
<1> QED
  BY <1>1, <1>3, <1>6, <1>7, <1>8 DEF WellFormed

LEMMA UnmatchesRefutes ==
  ASSUME Inv, Matching, NEW op, NEW elem, Unmatches(op, elem)
  PROVE  /\ OtherTablesKept
         /\ record' \in SUBSET TableIndices
         /\ ~WellFormed(drip, op, elem)
         /\ ctx' = 0 /\ tdt' = 0 /\ opPos' = 0
         /\ pc' = "done" /\ outcome' \in {"exit", "FAILURE"}
<1>1. /\ elem.fill = "mismatch" /\ Collects(drip, op)
      /\ record' = Recorded(op)
      /\ tables' = [tables EXCEPT ![tdt].live = FALSE]
      /\ ctx' = 0 /\ tdt' = 0 /\ opPos' = 0
      /\ pc' = "done" /\ outcome' \in {"exit", "FAILURE"}
  BY DEF Unmatches, End
<1>2. OtherTablesKept
  <2> DEFINE after == [tables[tdt] EXCEPT !.live = FALSE]
  <2>1. after \in DataTables
    BY TableInHand DEF DataTables
  <2>2. tables' = [tables EXCEPT ![tdt] = after]
    BY <1>1
  <2> HIDE DEF after
  <2> QED
    BY <2>1, <2>2, TableInHand, ExceptSeq DEF OtherTablesKept
<1>3. record' \in SUBSET TableIndices
  <2>1. \A o \in {"global", "open"} : ElementIndex("gyroscope", o) \in TableIndices
    BY GyroscopeIndices DEF TableIndices
  <2> QED
    BY <2>1, <1>1, TableInHand DEF Recorded
<1> QED
  BY <1>1, <1>2, <1>3 DEF WellFormed

LEMMA MatchGlobalStep == Inv /\ MatchGlobal => Inv'
<1> SUFFICES ASSUME Inv, MatchGlobal
             PROVE  Inv'
  OBVIOUS
<1>1. PICK elem : elem = config[ctx].global
  OBVIOUS
<1>2. /\ pc = "global" /\ config[ctx].global # NULL
      /\ UNCHANGED << config, i, regVars, devs, loadVars, iterVars, devp, drip >>
      /\ \/ Matches("global", elem) /\ pc' = "ops" /\ UNCHANGED << opPos, outcome >>
         \/ Unmatches("global", elem)
  BY <1>1 DEF MatchGlobal, Goto
<1>3. Matching
  BY <1>2 DEF Matching
<1>4. CASE Matches("global", elem) /\ pc' = "ops" /\ UNCHANGED << opPos, outcome >>
  <2>1. /\ OtherTablesKept /\ tables'[tdt].live
        /\ Holds(tables'[tdt].slot, ctx, drip, Done \cup {"global"})
        /\ record' = Marks(drip, Done \cup {"global"}) /\ record' \in SUBSET TableIndices
        /\ WellFormed(drip, "global", elem)
        /\ ctx' = ctx /\ tdt' = tdt
    BY <1>3, <1>4, MatchesAdds
  <2>2. opPos = 0 /\ opPos' = 0 /\ pc' = "ops"
    BY <1>2, <1>3, <1>4 DEF Inv, InHand
  <2>3. Done' = Done \cup {"global"}
    BY <2>1, <2>2, <1>2 DEF Done
  <2>4. InHand'
    <3>1. \A l : EntityOf(l)' = EntityOf(l)
      BY <1>2, ConfigKept
    <3>2. NameListFits(ctx)' <=> NameListFits(ctx)
      BY <1>2, <2>1 DEF NameListFits
    <3>3. /\ Holds(tables'[tdt'].slot, ctx', drip', Done')
          /\ record' = Marks(drip', Done')
          /\ WellFormed(drip', "global", config'[ctx'].global)
      BY <1>1, <1>2, <2>1, <2>3
    <3> QED
      BY <1>2, <1>3, <2>1, <2>2, <3>1, <3>2, <3>3 DEF InHand, Inv
  <2>5. opPos' \in Nat
    BY <2>2
  <2> QED
    BY <1>2, <1>3, <1>4, <2>1, <2>4, <2>5, MatchingGoesOn
<1>5. CASE Unmatches("global", elem)
  <2>1. /\ OtherTablesKept /\ record' \in SUBSET TableIndices
        /\ ~WellFormed(drip, "global", elem)
        /\ ctx' = 0 /\ tdt' = 0 /\ opPos' = 0
        /\ pc' = "done" /\ outcome' \in {"exit", "FAILURE"}
    BY <1>3, <1>5, UnmatchesRefutes
  <2>2. devp \in DOMAIN config /\ ~Acceptable(devp)
    BY <1>1, <1>2, <1>3, <2>1, InHandJudged
  <2>3. PICK n \in DOMAIN config : ~Acceptable(n)
    BY <2>2
  <2> QED
    BY <1>2, <1>3, <2>1, <2>3, MatchingEnds
<1> QED
  BY <1>2, <1>4, <1>5

(* The next listed operation: match is its element's acceptance.           *)
LEMMA OpInHand ==
  ASSUME Inv, pc = "ops", opPos < config[ctx].length, NEW op, op = OpName
  PROVE  LET k == opPos + 1
             q == config[ctx].ops
         IN /\ k \in 1 .. config[ctx].length /\ k \in 1 .. Len(q) /\ q[k].name = op
            /\ opPos \in Nat /\ op # "global"
            /\ OpAcceptable(drip, q, k)
                 <=> HasOp(drip, op) /\ WellFormed(drip, op, OpElement(op))
            /\ ~OpAcceptable(drip, q, k) =>
                 \E n \in DOMAIN config : ~Acceptable(n)
<1> DEFINE k == opPos + 1
           q == config[ctx].ops
<1>1. /\ ctx \in DOMAIN config /\ config[ctx] \in Entities /\ opPos \in Nat
      /\ config[ctx].length \in Nat /\ config[ctx].length <= Len(q) /\ Len(q) \in Nat
      /\ devp \in DOMAIN config
  BY InHandJudged DEF Matching
<1>2. k \in 1 .. config[ctx].length /\ k \in 1 .. Len(q)
  BY <1>1
<1>3. q[k].name = op /\ op # "global"
  BY <1>1, <1>2, EntityTyped DEF OpName
<1>4. OpAcceptable(drip, q, k) <=> HasOp(drip, op) /\ WellFormed(drip, op, OpElement(op))
  <2>1. TypeOK
    BY DEF Inv
  <2>2. PICK t : t = drip
    OBVIOUS
  <2>3. PICK n \in 1 .. Len(q) : n = k
    BY <1>2
  <2>4. OpAcceptable(t, q, n) <=> HasOp(t, op) /\ WellFormed(t, op, OpElement(op))
    BY <2>1, <1>1, <1>3, <2>3, OpElementIs
  <2> QED
    BY <2>2, <2>3, <2>4
<1>5. ~OpAcceptable(drip, q, k) => ~Acceptable(devp)
  BY <1>2, InHandJudged DEF Matching
<1> QED
  BY <1>1, <1>2, <1>3, <1>4, <1>5

LEMMA MatchOpStep == Inv /\ MatchOp => Inv'
<1> SUFFICES ASSUME Inv, MatchOp
             PROVE  Inv'
  OBVIOUS
<1>1. PICK op : op = OpName
  OBVIOUS
<1>2. PICK elem : elem = OpElement(op)
  OBVIOUS
<1>3. /\ pc = "ops" /\ opPos < config[ctx].length
      /\ UNCHANGED << config, i, regVars, devs, loadVars, iterVars, devp, drip >>
      /\ \/ Matches(op, elem) /\ opPos' = opPos + 1 /\ pc' = "ops" /\ UNCHANGED outcome
         \/ Unmatches(op, elem)
  BY <1>1, <1>2 DEF MatchOp, NextOp, Goto
<1>4. Matching
  BY <1>3 DEF Matching
<1> DEFINE k == opPos + 1
           q == config[ctx].ops
<1>5. /\ k \in 1 .. config[ctx].length /\ q[k].name = op
      /\ opPos \in Nat /\ op # "global"
      /\ OpAcceptable(drip, q, k) <=> HasOp(drip, op) /\ WellFormed(drip, op, elem)
      /\ ~OpAcceptable(drip, q, k) => \E n \in DOMAIN config : ~Acceptable(n)
  BY <1>1, <1>2, <1>3, OpInHand
<1>6. CASE Matches(op, elem) /\ opPos' = opPos + 1 /\ pc' = "ops" /\ UNCHANGED outcome
  <2>1. /\ OtherTablesKept /\ tables'[tdt].live
        /\ Holds(tables'[tdt].slot, ctx, drip, Done \cup {op})
        /\ record' = Marks(drip, Done \cup {op}) /\ record' \in SUBSET TableIndices
        /\ op = "global" \/ HasOp(drip, op)
        /\ WellFormed(drip, op, elem)
        /\ ctx' = ctx /\ tdt' = tdt
    BY <1>4, <1>6, MatchesAdds
  <2>2. /\ opPos' \in Nat /\ opPos' <= config[ctx].length
        /\ 1 .. opPos' = (1 .. opPos) \cup {k}
    BY <1>5, <1>6, InHandJudged, <1>4
  <2>3. Done' = Done \cup {op}
    <3>1. { q[j].name : j \in 1 .. opPos' } = { q[j].name : j \in 1 .. opPos } \cup {op}
      <4> HIDE DEF k, q
      <4> QED
        BY <2>2, <1>5
    <3> QED
      BY <3>1, <2>1, <1>3, <1>6 DEF Done
  <2>4. \A j \in 1 .. opPos' : OpAcceptable(drip, q, j)
    <3>1. \A j \in 1 .. opPos : OpAcceptable(drip, q, j)
      BY <1>4 DEF Inv, InHand
    <3>2. OpAcceptable(drip, q, k)
      BY <2>1, <1>5
    <3> HIDE DEF k, q
    <3> QED
      BY <3>1, <3>2, <2>2
  <2>5. InHand'
    <3>1. \A l : EntityOf(l)' = EntityOf(l)
      BY <1>3, ConfigKept
    <3>2. NameListFits(ctx)' <=> NameListFits(ctx)
      BY <1>3, <2>1 DEF NameListFits
    <3>3. /\ Holds(tables'[tdt'].slot, ctx', drip', Done')
          /\ record' = Marks(drip', Done')
          /\ \A j \in 1 .. opPos' : OpAcceptable(drip', config'[ctx'].ops, j)
          /\ opPos' <= config'[ctx'].length
      BY <1>3, <2>1, <2>2, <2>3, <2>4
    <3> QED
      BY <1>3, <1>4, <1>6, <2>1, <3>1, <3>2, <3>3 DEF InHand, Inv
  <2> QED
    BY <1>3, <1>4, <1>6, <2>1, <2>2, <2>5, MatchingGoesOn
<1>7. CASE Unmatches(op, elem)
  <2>1. /\ OtherTablesKept /\ record' \in SUBSET TableIndices
        /\ ~WellFormed(drip, op, elem)
        /\ ctx' = 0 /\ tdt' = 0 /\ opPos' = 0
        /\ pc' = "done" /\ outcome' \in {"exit", "FAILURE"}
    BY <1>4, <1>7, UnmatchesRefutes
  <2>2. PICK n \in DOMAIN config : ~Acceptable(n)
    BY <2>1, <1>5
  <2> QED
    BY <1>3, <1>4, <2>1, <2>2, MatchingEnds
<1> QED
  BY <1>3, <1>6, <1>7

LEMMA BadTemplateStep == Inv /\ BadTemplate => Inv'
<1> SUFFICES ASSUME Inv, BadTemplate
             PROVE  Inv'
  OBVIOUS
<1>1. /\ pc' = "done" /\ outcome' = "exit" /\ Matching
      /\ UNCHANGED << config, i, regVars, devs, loadVars, iterVars, matchVars >>
  BY DEF BadTemplate, End, Matching
<1>2. \E n \in DOMAIN config : ~Acceptable(n)
  <2>1. CASE /\ pc = "global" /\ config[ctx].global # NULL
             /\ ~Usable("global", config[ctx].global)
    <3>1. ~WellFormed(drip, "global", config[ctx].global)
      BY <2>1 DEF Usable, HasTemplate, WellFormed
    <3> QED
      BY <1>1, <2>1, <3>1, InHandJudged
  <2>2. CASE /\ pc = "ops" /\ opPos < config[ctx].length
             /\ ~Usable(OpName, OpElement(OpName))
    <3>1. PICK op : op = OpName
      OBVIOUS
    <3>2. ~(HasOp(drip, op) /\ WellFormed(drip, op, OpElement(op)))
      BY <2>2, <3>1 DEF Usable, HasTemplate, WellFormed
    <3> QED
      BY <2>2, <3>1, <3>2, OpInHand
  <2> QED
    BY <2>1, <2>2 DEF BadTemplate
<1>3. PICK n \in DOMAIN config : ~Acceptable(n)
  BY <1>2
<1>4. /\ OtherTablesKept /\ opPos' \in Nat /\ ctx' \in Nat /\ tdt' \in Nat
      /\ record' \in SUBSET TableIndices
  BY <1>1 DEF OtherTablesKept, Inv, TypeOK, matchVars
<1> QED
  BY <1>1, <1>3, <1>4, MatchingEnds DEF matchVars

(* At the end of the list the match has seen all that is listed, and the   *)
(* record of the gyroscope driver tells whether global and open were.      *)
LEMMA AllMatched ==
  ASSUME Inv, pc = "ops", opPos = config[ctx].length
  PROVE  /\ Done = Listed(ctx)
         /\ Complemented <=> Acceptable(devp)
         /\ ClearedRecord = {}
<1> USE DEF Inv
<1>1. Matching
  BY DEF Matching
<1>2. Done = Listed(ctx)
  BY DEF Done, Listed
<1>3. drip \in DriverTypes /\ record = Marks(drip, Done)
  BY <1>1 DEF InHand
<1>4. Complemented <=> (drip = "gyroscope" => {"global", "open"} \subseteq Listed(ctx))
  BY <1>2, <1>3, MarksRequired DEF Complemented
<1>5. /\ config[ctx].global # NULL => WellFormed(drip, "global", config[ctx].global)
      /\ \A k \in 1 .. config[ctx].length : OpAcceptable(drip, config[ctx].ops, k)
  BY <1>1 DEF InHand
<1>6. ClearedRecord = {}
  BY <1>3, RequiredIs DEF ClearedRecord, Marks
<1> QED
  BY <1>1, <1>2, <1>4, <1>5, <1>6, InHandJudged

LEMMA BindStep == Inv /\ Bind => Inv'
<1> SUFFICES ASSUME Inv, Bind
             PROVE  Inv'
  OBVIOUS
<1> USE DEF Inv
<1> DEFINE bound == [devs[devp] EXCEPT !.operation = drip, !.private = tdt]
<1>1. /\ pc = "ops" /\ pc' = "bind" /\ opPos = config[ctx].length /\ Complemented
      /\ devs' = [devs EXCEPT ![devp] = bound]
      /\ record' = ClearedRecord /\ ctx' = 0 /\ opPos' = 0 /\ i' = i + 1
      /\ UNCHANGED << config, regVars, loadVars, iterVars, devp, drip, tables, tdt, outcome >>
  BY DEF Bind, Goto
<1>2. Matching /\ pc # "register" /\ pc # "done"
  BY <1>1 DEF Matching
<1>3. Done = Listed(ctx) /\ Acceptable(devp) /\ record' = {}
  BY <1>1, AllMatched
<1>4. /\ devp \in Devices \ Bound /\ devp \in 1 .. Len(devs) /\ drip \in DriverTypes
      /\ tdt \in 1 .. Len(tables) /\ Len(tables) \in Nat /\ tables[tdt].live
      /\ drip # NULL /\ tdt # 0 /\ tdt \in Nat
  <2>1. devp \in Devices \ Bound
    BY <1>2 DEF Progress
  <2>2. drip \in DriverTypes /\ drip # NULL
    BY <1>2, PnPInitAssumption DEF InHand
  <2>3. tdt \in 1 .. Len(tables) /\ Len(tables) \in Nat /\ tables[tdt].live
    BY <1>2, TableInHand
  <2>4. tdt # 0 /\ tdt \in Nat
    BY <2>3
  <2> QED
    BY <2>1, <2>2, <2>3, <2>4, DevicesTyped
<1>5. /\ bound \in DeviceStructs /\ bound.operation = drip /\ bound.private = tdt
      /\ bound.devno = devs[devp].devno /\ bound.lid = devs[devp].lid
      /\ bound.type = devs[devp].type /\ bound.interface = devs[devp].interface
  <2>1. devs[devp] \in DeviceStructs
    BY <1>4, DevicesTyped
  <2> QED
    BY <2>1, <1>4 DEF DeviceStructs
<1> HIDE DEF bound
<1>6. /\ devs' \in Seq(DeviceStructs) /\ Len(devs') = Len(devs)
      /\ Devices' = Devices /\ devs'[devp] = bound
      /\ \A d \in Devices : d # devp => devs'[d] = devs[d]
  <2>1. devs \in Seq(DeviceStructs)
    BY DEF TypeOK
  <2>2. /\ devs' \in Seq(DeviceStructs) /\ Len(devs') = Len(devs)
        /\ \A d \in 1 .. Len(devs) : devs'[d] = IF d = devp THEN bound ELSE devs[d]
    BY <2>1, <1>1, <1>4, <1>5, ExceptSeq
  <2>3. Devices' = 1 .. Len(devs) /\ Devices = 1 .. Len(devs)
    BY <2>1, <2>2 DEF Devices
  <2> QED
    BY <2>2, <2>3, <1>4
<1>7. SameDevices
  BY <1>5, <1>6 DEF SameDevices, Devices
<1>8. Bound' = Bound \cup {devp}
  BY <1>4, <1>5, <1>6 DEF Bound
<1>9. TypeOK'
  <2>1. i' \in Nat /\ ctx' \in Nat /\ opPos' \in Nat /\ pc' = "bind" /\ record' = {}
    BY <1>1, <1>3 DEF TypeOK
  <2>2. UNCHANGED << config, regVars, loadVars, iterVars, devp, drip, tables, tdt, outcome >>
    BY <1>1
  <2> QED
    BY <2>1, <2>2, <1>6 DEF TypeOK, regVars, loadVars, iterVars
<1>10. Registered' /\ Numbered' /\ LidsMapped'
  BY <1>1, <1>2, <1>7, RegistryKept DEF regVars
<1>11. DriversKnown' /\ Cursor'
  <2>1. Loaded(Len(Loaders))
    BY <1>2 DEF DriversKnown
  <2>2. Loaded(Len(Loaders))'
    BY <2>1, <1>1 DEF Loaded, loadVars
  <2> QED
    BY <2>2, <1>1 DEF DriversKnown, Cursor, iterVars, regVars
<1>12. Progress'
  <2>1. Passed = Bound \cup {devp} /\ Cardinality(Bound) = i /\ devp \notin Bound
    BY <1>2 DEF Progress
  <2>2. Passed' = Passed
    BY <1>1, <1>6, <1>7 DEF Passed, SameDevices, iterVars, regVars
  <2>3. Cardinality(Bound \cup {devp}) = i + 1
    BY <2>1, DeviceCount, FS_AddElement
  <2>4. outcome' = "none"
    BY <1>1, <1>2 DEF Verdict
  <2> QED
    BY <2>1, <2>2, <2>3, <2>4, <1>1, <1>8 DEF Progress, Matching
<1>13. InHand' /\ Verdict'
  BY <1>1, <1>2, <1>3 DEF InHand, Matching, Verdict
<1>14. TablesOwned'
  <2>1. \A d \in Bound : /\ devs[d].private \in 1 .. Len(tables)
                         /\ tables[devs[d].private].live
                         /\ devs[d].private # tdt
    BY <1>2 DEF TablesOwned
  <2>2. \A d \in Bound : d # devp /\ d \in Devices /\ devs'[d] = devs[d]
    BY <1>4, <1>6 DEF Bound
  <2>3. tables' = tables /\ ~Matching'
    BY <1>1 DEF Matching
  <2>4. \A d \in Devices' : devs'[d].operation = NULL <=> devs'[d].private = 0
    BY <1>4, <1>5, <1>6 DEF TablesOwned
  <2>5. \A d \in Bound' : /\ devs'[d].private \in 1 .. Len(tables)
                          /\ tables[devs'[d].private].live
    BY <2>1, <2>2, <1>4, <1>5, <1>6, <1>8
  <2>6. \A d, k \in Bound' : devs'[d].private = devs'[k].private => d = k
    <3>1. \A d, k \in Bound : devs[d].private = devs[k].private => d = k
      BY DEF TablesOwned
    <3> QED
      BY <3>1, <2>1, <2>2, <1>5, <1>6, <1>8
  <2> QED
    BY <2>3, <2>4, <2>5, <2>6 DEF TablesOwned
<1>15. BoundWell'
  <2>1. \A l : EntityOf(l)' = EntityOf(l) /\ Listed(l)' = Listed(l)
               /\ (Acceptable(l)' <=> Acceptable(l))
    BY <1>1, ConfigKept
  <2>2. ASSUME NEW d \in Bound'
        PROVE  LET n == EntityOf(devs'[d].lid)
               IN /\ devs'[d].operation = devs'[d].type
                  /\ Holds(tables'[devs'[d].private].slot, n, devs'[d].type, Listed(n))
                  /\ Acceptable(d)
    <3>1. CASE d = devp
      <4>1. /\ drip = devs[devp].type /\ ctx = EntityOf(devs[devp].lid)
            /\ Holds(tables[tdt].slot, ctx, drip, Done)
        BY <1>2 DEF InHand
      <4> QED
        BY <3>1, <4>1, <1>1, <1>3, <1>5, <1>6
    <3>2. CASE d # devp
      <4>1. d \in Bound /\ devs'[d] = devs[d] /\ tables' = tables
        BY <3>2, <1>1, <1>6, <1>8 DEF Bound
      <4> QED
        BY <4>1 DEF BoundWell
    <3> QED
      BY <3>1, <3>2
  <2> QED
    BY <2>1, <2>2 DEF BoundWell
<1> QED
  BY <1>9, <1>10, <1>11, <1>12, <1>13, <1>14, <1>15

LEMMA NotComplementedStep == Inv /\ NotComplemented => Inv'
<1> SUFFICES ASSUME Inv, NotComplemented
             PROVE  Inv'
  OBVIOUS
<1>1. /\ pc = "ops" /\ opPos = config[ctx].length /\ ~Complemented
      /\ record' = ClearedRecord /\ ctx' = 0 /\ opPos' = 0
      /\ pc' = "done" /\ outcome' = "FAILURE"
      /\ UNCHANGED << config, i, regVars, devs, loadVars, iterVars,
                      devp, drip, tables, tdt >>
  BY DEF NotComplemented, End
<1>2. Matching
  BY <1>1 DEF Matching
<1>3. devp \in DOMAIN config /\ ~Acceptable(devp) /\ record' = {}
  BY <1>1, <1>2, AllMatched, InHandJudged
<1>4. PICK n \in DOMAIN config : ~Acceptable(n)
  BY <1>3
<1>5. OtherTablesKept /\ tdt' \in Nat
  BY <1>1 DEF OtherTablesKept, Inv, TypeOK
<1> QED
  BY <1>1, <1>2, <1>3, <1>4, <1>5, MatchingEnds

LEMMA InvStep == Inv /\ [Next]_vars => Inv'
<1> SUFFICES ASSUME Inv, [Next]_vars
             PROVE  Inv'
  OBVIOUS
<1>1. CASE Next
  BY <1>1, RegisterDeviceStep, UnknownTypeStep, DevicesRegisteredStep, LoadDriverStep,
     DriversLoadedStep, BeginMatchStep, CannotMatchStep, DevicesBoundStep, NoGlobalStep,
     MatchGlobalStep, MatchOpStep, BadTemplateStep, BindStep, NotComplementedStep
  DEF Next
<1>2. CASE UNCHANGED vars
  <2>1. UNCHANGED << config, pc, i, devs, outcome >> /\ UNCHANGED regVars
        /\ UNCHANGED loadVars /\ UNCHANGED iterVars /\ UNCHANGED matchVars
    BY <1>2 DEF vars
  <2>2. Devices' = Devices /\ Bound' = Bound /\ Matching' = Matching
    BY <2>1 DEF Devices, Bound, Matching
  <2>3. /\ \A l : EntityOf(l)' = EntityOf(l) /\ Listed(l)' = Listed(l)
        /\ \A l : Acceptable(l)' <=> Acceptable(l)
    BY <2>1, ConfigKept
  <2>4. TypeOK'
    BY <2>1 DEF Inv, TypeOK, regVars, loadVars, iterVars, matchVars
  <2>5. Registered' /\ Numbered' /\ LidsMapped'
    BY <2>1, <2>2 DEF Inv, Registered, Numbered, LidsMapped, FirstOf, regVars
  <2>6. DriversKnown' /\ Cursor'
    <3>1. \A n : Loaded(n)' <=> Loaded(n)
      BY <2>1 DEF Loaded, loadVars
    <3> QED
      BY <2>1, <2>2, <3>1 DEF Inv, DriversKnown, Cursor, loadVars, iterVars, regVars
  <2>7. Progress'
    <3>1. Passed' = Passed
      BY <2>1, <2>2 DEF Passed, iterVars, regVars
    <3> QED
      BY <2>1, <2>2, <3>1 DEF Inv, Progress, iterVars, matchVars
  <2>8. InHand'
    <3>1. Done' = Done
      BY <2>1 DEF Done, matchVars
    <3>2. NameListFits(ctx)' <=> NameListFits(ctx)
      BY <2>1 DEF NameListFits, matchVars
    <3> QED
      BY <2>1, <2>2, <2>3, <3>1, <3>2 DEF Inv, InHand, matchVars
  <2>9. TablesOwned' /\ BoundWell'
    BY <2>1, <2>2, BoundKept DEF Inv, TablesOwned, matchVars
  <2>10. Verdict'
    BY <2>1, <2>3 DEF Inv, Verdict, matchVars
  <2> QED
    BY <2>4, <2>5, <2>6, <2>7, <2>8, <2>9, <2>10 DEF Inv
<1> QED
  BY <1>1, <1>2

THEOREM InvAlways == Spec => []Inv
<1>1. Init => Inv
  BY InvInit
<1>2. Inv /\ [Next]_vars => Inv'
  BY InvStep
<1> QED
  BY <1>1, <1>2, PTL DEF Spec

-----------------------------------------------------------------------------
(* What follows for every run of init()                                    *)

(* Every variable keeps its type: device numbers are pairs of a major and  *)
(* a minor number, every index into a table of templates is in range.      *)
THEOREM TypeCorrect == Spec => []TypeOK
<1>1. Inv => TypeOK
  BY DEF Inv
<1> QED
  BY <1>1, InvAlways, PTL

(* alloc_devno (device_register.c:24-41) gives every device structure a    *)
(* number of its own, and each is in the chain of its major only.          *)
THEOREM DevnosAlwaysUnique == Spec => []DevnosUnique
<1>1. Inv => DevnosUnique
  <2> SUFFICES ASSUME Inv, NEW d \in Devices, NEW k \in Devices
               PROVE  /\ devs[d].devno = devs[k].devno => d = k
                      /\ \A m \in Majors :
                           (\E n \in DOMAIN devLists[m] : devLists[m][n] = d)
                             <=> m = devs[d].devno[1]
    BY DEF DevnosUnique
  <2>1. \A o \in Devices :
          /\ devs[o].devno[1] \in Majors /\ devs[o].devno[2] \in Nat
          /\ devs[o].devno[2] + 1 \in DOMAIN devLists[devs[o].devno[1]]
          /\ devLists[devs[o].devno[1]][devs[o].devno[2] + 1] = o
    <3> SUFFICES ASSUME NEW o \in Devices
                 PROVE  /\ devs[o].devno[1] \in Majors /\ devs[o].devno[2] \in Nat
                        /\ devs[o].devno[2] + 1 \in DOMAIN devLists[devs[o].devno[1]]
                        /\ devLists[devs[o].devno[1]][devs[o].devno[2] + 1] = o
      OBVIOUS
    <3>1. devs[o].devno[1] \in Majors /\ devs[o].devno[2] \in Nat
      BY DevicesTyped DEF Inv
    <3>2. /\ devs[o].devno[2] < Len(devLists[devs[o].devno[1]])
          /\ devLists[devs[o].devno[1]][devs[o].devno[2] + 1] = o
      BY DEF Inv, Numbered
    <3>3. devLists[devs[o].devno[1]] \in Seq(Nat)
      BY <3>1 DEF Inv, TypeOK
    <3> QED
      BY <3>1, <3>2, <3>3
  <2>2. \A m \in Majors : \A n \in DOMAIN devLists[m] :
          devs[devLists[m][n]].devno[1] = m
    <3> SUFFICES ASSUME NEW m \in Majors, NEW n \in DOMAIN devLists[m]
                 PROVE  devs[devLists[m][n]].devno[1] = m
      OBVIOUS
    <3>1. devs[devLists[m][n]].devno = << m, n - 1 >>
      BY DEF Inv, Numbered
    <3> QED
      BY <3>1
  <2> QED
    BY <2>1, <2>2
<1> QED
  BY <1>1, InvAlways, PTL

(* init_table (driver_match.c) gives each device a table of its own: a     *)
(* bound device's is in use and no other device's.                         *)
THEOREM TablesAlwaysPrivate == Spec => []PrivateTables
<1>1. Inv => PrivateTables
  BY DEF Inv, TablesOwned, Bound, PrivateTables
<1> QED
  BY <1>1, InvAlways, PTL

LEMMA InvResolves == Inv => LidResolves
<1> SUFFICES ASSUME Inv, Len(devs) = Len(config), NEW n \in DOMAIN config
             PROVE  /\ Hash!IsMapped(lid2dev, LidMem, config[n].lid)
                    /\ Hash!GetHashItem(lid2dev, LidMem, config[n].lid)
                         = EntityOf(config[n].lid)
  BY DEF LidResolves
<1> USE DEF Inv
<1>1. PICK l \in Lids : l = config[n].lid
  BY ConfigTyped, EntityTyped
<1> DEFINE q == lid2dev[HashOf[l]]
           H == Hash!Hits(lid2dev, LidMem, l)
<1>2. HashOf[l] \in Slots /\ H = { k \in DOMAIN q : q[k].key = l }
  BY LidIsMapped
<1>3. n \in Devices /\ devs[n].lid = l
  BY <1>1, ConfigTyped, DevicesTyped DEF Registered
<1>4. H # {}
  BY <1>2, <1>3 DEF LidsMapped
<1>5. H \in SUBSET Nat
  BY <1>2 DEF TypeOK
<1>6. Hash!FirstHit(lid2dev, LidMem, l) \in H
  BY <1>4, <1>5, LeastElement DEF Hash!FirstHit
<1>7. PICK k \in H : k = Hash!FirstHit(lid2dev, LidMem, l)
  BY <1>6
<1>8. /\ k \in DOMAIN q /\ q[k].key = l /\ q[k].value \in Devices
      /\ config[q[k].value].lid = l /\ FirstOf(q[k].value)
  BY <1>2, <1>7 DEF LidsMapped
<1>9. PICK v \in DOMAIN config : v = q[k].value
  BY <1>8, ConfigTyped, DevicesTyped
<1>10. EntityOf(l) = v
  BY <1>8, <1>9, EntityOfIs
<1>11. Hash!GetHashItem(lid2dev, LidMem, l) = v
  BY <1>7, <1>9 DEF Hash!GetHashItem
<1> QED
  BY <1>1, <1>4, <1>10, <1>11 DEF Hash!IsMapped

(* find_device (device.c) resolves a lid to the first device registered    *)
(* under it, whatever other lids share its slot.                           *)
THEOREM LidsAlwaysResolve == Spec => []LidResolves
BY InvResolves, InvAlways, PTL

LEMMA InvBinds == Inv => BoundAsConfigured
<1> SUFFICES ASSUME Inv, outcome = "SUCCESS"
             PROVE  /\ Len(devs) = Len(config)
                    /\ \A d \in Devices :
                         /\ devs[d].operation = devs[d].type
                         /\ tables[devs[d].private].slot = ConfiguredTable(d)
  BY DEF BoundAsConfigured
<1> USE DEF Inv
<1>1. Len(devs) = Len(config) /\ Bound = Devices
  BY DEF Registered, Progress
<1>2. ASSUME NEW d \in Devices
      PROVE  tables[devs[d].private].slot = ConfiguredTable(d)
  <2> DEFINE slot == tables[devs[d].private].slot
             n == EntityOf(devs[d].lid)
  <2>1. Holds(slot, n, devs[d].type, Listed(n))
    BY <1>1 DEF BoundWell
  <2>2. slot \in [TableIndices -> Slot]
    <3>1. devs[d].private \in 1 .. Len(tables)
      BY <1>1 DEF TablesOwned
    <3>2. tables[devs[d].private] \in DataTables
      BY <3>1 DEF TypeOK
    <3> QED
      BY <3>2 DEF DataTables
  <2>3. ConfiguredTable(d) = [k \in TableIndices |-> slot[k]]
    BY <2>1 DEF Holds, ConfiguredTable
  <2> HIDE DEF slot
  <2>4. slot = ConfiguredTable(d)
    BY <2>2, <2>3
  <2> QED
    BY <2>4 DEF slot
<1> QED
  BY <1>1, <1>2 DEF BoundWell

(* When init() reports success every device of the configuration is bound  *)
(* to the driver of its type, with exactly the data configured for its lid *)
(* at the indices its operations look them up at (driver_bind.c).          *)
THEOREM AlwaysBoundAsConfigured == Spec => []BoundAsConfigured
BY InvBinds, InvAlways, PTL

LEMMA InvJudges == Inv => VerdictCorrect
<1> SUFFICES ASSUME Inv, pc = "done"
             PROVE  outcome = "SUCCESS" <=> \A n \in DOMAIN config : Acceptable(n)
  BY DEF VerdictCorrect
<1> USE DEF Inv
<1>1. ASSUME outcome = "SUCCESS"
      PROVE  \A n \in DOMAIN config : Acceptable(n)
  <2>1. Len(devs) = Len(config) /\ Bound = Devices
    BY <1>1 DEF Registered, Progress
  <2>2. DOMAIN config = Devices
    BY <2>1, ConfigTyped, DevicesTyped
  <2> QED
    BY <2>1, <2>2 DEF BoundWell
<1>2. outcome # "SUCCESS" => \E n \in DOMAIN config : ~Acceptable(n)
  BY DEF Verdict
<1> QED
  BY <1>1, <1>2

(* init() succeeds for exactly the configurations all of whose devices are *)
(* acceptable: nothing of a device's matching depends on those before it.  *)
THEOREM VerdictAlwaysCorrect == Spec => []VerdictCorrect
BY InvJudges, InvAlways, PTL

-----------------------------------------------------------------------------
(***************************************************************************)
(* How far init() is from its end: the loop it is in, the rounds left of   *)
(* it, where it is in the round, and the operations left of the device.    *)
(***************************************************************************)
Phase == IF pc = "register" THEN 3 ELSE IF pc = "load" THEN 2 ELSE IF pc = "done" THEN 0 ELSE 1
RoundsLeft ==
  CASE pc = "register" -> Len(config) - i
    [] pc = "load" -> Len(Loaders) - i
    [] pc = "bind" \/ Matching -> Len(devs) - i
    [] pc = "done" -> 0
Stage == IF pc = "bind" THEN 2 ELSE IF pc = "global" THEN 1 ELSE 0
OpsLeft == IF pc = "ops" THEN config[ctx].length - opPos ELSE 0

(* One step brings it nearer: the first of the four that changes falls.    *)
Nearer ==
  \/ Phase' < Phase
  \/ Phase' = Phase /\ RoundsLeft' < RoundsLeft
  \/ Phase' = Phase /\ RoundsLeft' = RoundsLeft /\ Stage' < Stage
  \/ /\ Phase' = Phase /\ RoundsLeft' = RoundsLeft /\ Stage' = Stage
     /\ OpsLeft' < OpsLeft

StepsCounted == Phase \in Nat /\ RoundsLeft \in Nat /\ Stage \in Nat /\ OpsLeft \in Nat

LEMMA InvCounts == Inv => StepsCounted
<1> SUFFICES ASSUME Inv PROVE StepsCounted
  OBVIOUS
<1>1. TypeOK /\ Registered /\ DriversKnown /\ Progress /\ InHand
  BY DEF Inv
<1>2. Phase \in Nat /\ Stage \in Nat
  BY DEF Phase, Stage
<1>3. OpsLeft \in Nat
  <2>1. CASE pc = "ops"
    <3>1. ctx \in DOMAIN config /\ opPos <= config[ctx].length /\ opPos \in Nat
      BY <1>1, <2>1 DEF InHand, Matching, TypeOK
    <3>2. config[ctx].length \in Nat
      BY <1>1, <3>1, ConfigTyped, ElementType, EntityTyped
    <3> QED
      BY <2>1, <3>1, <3>2 DEF OpsLeft
  <2> QED
    BY <2>1 DEF OpsLeft
<1>4. RoundsLeft \in Nat
  <2>1. Len(config) \in Nat /\ Len(devs) \in Nat /\ i \in Nat
    BY <1>1, ConfigTyped, DevicesTyped DEF TypeOK
  <2>2. Len(Loaders) \in Nat
    BY DEF Loaders
  <2>3. CASE pc = "register"
    BY <1>1, <2>1, <2>3 DEF RoundsLeft, Registered
  <2>4. CASE pc = "load"
    <3>1. i <= Len(Loaders)
      BY <1>1, <2>4 DEF DriversKnown
    <3>2. RoundsLeft = Len(Loaders) - i
      BY <2>4 DEF RoundsLeft, Matching
    <3> QED
      BY <2>1, <2>2, <3>1, <3>2
  <2>5. CASE pc = "bind"
    <3>1. i <= Len(devs)
      <4>1. i = Cardinality(Bound) /\ Bound \in SUBSET Devices
        BY <1>1, <2>5 DEF Progress, Bound
      <4> QED
        BY <1>1, <4>1, DeviceCount, FS_Subset
    <3> QED
      BY <2>1, <2>5, <3>1 DEF RoundsLeft
  <2>6. CASE Matching
    BY <1>1, <2>1, <2>6 DEF RoundsLeft, Progress, Matching
  <2>7. CASE pc = "done"
    BY <2>7 DEF RoundsLeft, Matching
  <2> QED
    BY <1>1, <2>3, <2>4, <2>5, <2>6, <2>7 DEF TypeOK, Matching
<1> QED
  BY <1>2, <1>3, <1>4 DEF StepsCounted

(* Whatever the configuration, every step of init() brings its end nearer, *)
(* and the distance is four natural numbers: no loop of it, over devices,  *)
(* drivers, chains of majors or operations, runs for ever.                 *)
THEOREM AlwaysNearer == Spec => []StepsCounted /\ [][Nearer]_vars
<1>1. ASSUME Inv, Inv', [Next]_vars
      PROVE  [Nearer]_vars
  <2> SUFFICES ASSUME Next PROVE Nearer
    BY <1>1
  <2>2. i \in Nat /\ opPos \in Nat /\ Len(config) \in Nat /\ Len(devs) \in Nat /\ Len(Loaders) \in Nat
    BY <1>1, ConfigTyped, DevicesTyped DEF Inv, TypeOK, Loaders
  <2>3. CASE RegisterDevice
    BY <2>2, <2>3 DEF RegisterDevice, Goto, Nearer, Phase, RoundsLeft, Matching
  <2>4. CASE UnknownType \/ CannotMatch \/ DevicesBound \/ BadTemplate \/ NotComplemented
    BY <2>4 DEF UnknownType, CannotMatch, DevicesBound, BadTemplate, NotComplemented, End,
                Nearer, Phase
  <2>5. CASE DevicesRegistered \/ DriversLoaded
    BY <2>5 DEF DevicesRegistered, DriversLoaded, Goto, Nearer, Phase
  <2>6. CASE LoadDriver
    BY <2>2, <2>6 DEF LoadDriver, Goto, Nearer, Phase, RoundsLeft, Matching
  <2>7. CASE BeginMatch
    BY <2>7 DEF BeginMatch, Goto, Nearer, Phase, RoundsLeft, Stage, Matching
  <2>8. CASE NoGlobal
    BY <2>8 DEF NoGlobal, Goto, Nearer, Phase, RoundsLeft, Stage, Matching
  <2>9. CASE MatchGlobal
    BY <2>9 DEF MatchGlobal, Unmatches, End, Goto, Nearer, Phase, RoundsLeft, Stage, Matching
  <2>10. CASE MatchOp
    <3>1. pc = "ops" /\ UNCHANGED << config, i, devs >>
      BY <2>10 DEF MatchOp
    <3>2. CASE pc' = "done"
      BY <3>1, <3>2 DEF Nearer, Phase
    <3>3. CASE pc' = "ops" /\ ctx' = ctx /\ opPos' = opPos + 1
      <4>1. Phase' = Phase /\ RoundsLeft' = RoundsLeft /\ Stage' = Stage
        BY <3>1, <3>3 DEF Phase, RoundsLeft, Stage, Matching
      <4>2. config[ctx].length \in Nat
        BY <1>1, <3>1, ConfigTyped, ElementType, EntityTyped DEF Inv, InHand, Matching
      <4>3. OpsLeft' < OpsLeft
        BY <2>2, <3>1, <3>3, <4>2 DEF OpsLeft
      <4> QED
        BY <4>1, <4>3 DEF Nearer
    <3> QED
      BY <2>10, <3>2, <3>3 DEF MatchOp, Matches, Unmatches, NextOp, Goto, End
  <2>11. CASE Bind
    <3>1. pc = "ops" /\ pc' = "bind" /\ i' = i + 1 /\ Len(devs') = Len(devs)
      BY <1>1, <2>11 DEF Bind, Goto, Inv, TypeOK
    <3> QED
      BY <2>2, <3>1 DEF Nearer, Phase, RoundsLeft, Matching
  <2> QED
    BY <2>3, <2>4, <2>5, <2>6, <2>7, <2>8, <2>9, <2>10, <2>11 DEF Next
<1>2. Spec => [][Next]_vars
  BY PTL DEF Spec
<1> QED
  BY <1>1, <1>2, InvAlways, InvCounts, PTL
=============================================================================
