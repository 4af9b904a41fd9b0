-------------------------- MODULE PnPSystem_proofs --------------------------
(***************************************************************************)
(* Theorems about the program as an application sees it, for every         *)
(* configuration, every set of lids and string constants, every capacity   *)
(* of the open table and every interleaving of the calls.  The theorems    *)
(* about init() (PnPInit_proofs) and about open_device (DeviceOpen_proofs) *)
(* are used as lemmas of this one.                                         *)
(***************************************************************************)
EXTENDS PnPSystem, TLAPS

BootP == INSTANCE PnPInit_proofs WITH Configs <- {Config}

TableP == INSTANCE DeviceOpen_proofs WITH
  Registered <- { Config[n].lid : n \in DOMAIN Config },
  Reuse <- FALSE

-----------------------------------------------------------------------------
(* The parts' assumptions on their constants follow from this module's     *)

LEMMA BootAssumption ==
  /\ HashOf \in [Lids -> Slots]
  /\ NULL \notin BootP!DriverTypes /\ NULL \notin BootP!Elements
  /\ \A c \in {Config} : c \in Seq(BootP!Entities) /\ Len(c) > 0
<1>1. BootP!Elements = Boot!Elements /\ BootP!OpElements = Boot!OpElements
  BY DEF BootP!Elements, Boot!Elements, BootP!OpElements, Boot!OpElements
<1>2. BootP!Entities = Boot!Entities
  BY <1>1 DEF BootP!Entities, Boot!Entities
<1>3. BootP!DriverTypes = DriverTypes
  BY DEF BootP!DriverTypes, DriverTypes, BootP!Loaders, Loaders
<1>4. Len(Config) > 0
  BY PnPSystemAssumption
<1> QED
  BY <1>1, <1>2, <1>3, <1>4, PnPSystemAssumption

LEMMA ConfigTyped ==
  /\ Len(Config) \in Nat /\ DOMAIN Config = 1 .. Len(Config)
  /\ \A n \in DOMAIN Config : Config[n].lid \in Lids
<1>1. Config \in Seq(Boot!Entities)
  BY PnPSystemAssumption
<1>2. \A n \in DOMAIN Config : Config[n] \in Boot!Entities
  BY <1>1
<1> QED
  BY <1>1, <1>2 DEF Boot!Entities

RegisteredLids == { Config[n].lid : n \in DOMAIN Config }

LEMMA TableAssumption ==
  /\ { Config[n].lid : n \in DOMAIN Config } \subseteq Lids
  /\ NULL \notin Lids
  /\ MaxOpen \in Nat
  /\ FALSE \in BOOLEAN
  /\ HashOf \in [Lids -> Slots]
BY PnPSystemAssumption, ConfigTyped

-----------------------------------------------------------------------------
(* The two instances of each part are one                                  *)

LEMMA OneBootInit == Boot!Init => BootP!Init
BY DEF Boot!Init, BootP!Init, Boot!EmptyLists, BootP!EmptyLists, Boot!Majors,
       BootP!Majors, Boot!FirstUsedMajor, BootP!FirstUsedMajor,
       Boot!FirstUnusedMajor, BootP!FirstUnusedMajor, Boot!Hash!EmptyTable,
       BootP!Hash!EmptyTable

LEMMA OneBootNext == Boot!Next => BootP!Next
BY DEF Boot!TypeMajor, Boot!DeviceTypes, Boot!FirstUsedMajor,
       Boot!FirstUnusedMajor, Boot!Majors, Boot!Loaders, Boot!DriverTypes,
       Boot!I2C, Boot!RS422, Boot!AD, Boot!DA, Boot!InterfacesString,
       Boot!IsSupportedInterface, Boot!GyroscopeOps, Boot!AnalogsunsensorOps,
       Boot!MagnetometerOps, Boot!MagnetorquerOps, Boot!FlywheelOps, Boot!Ops,
       Boot!GlobalIndex, Boot!OpenIndex, Boot!TableIndices, Boot!OpsOf,
       Boot!HasOp, Boot!OpIndex, Boot!ElementIndex, Boot!GyroscopeMatch,
       Boot!AnalogsunsensorMatch, Boot!MagnetometerMatch,
       Boot!MagnetorquerMatch, Boot!FlywheelMatch, Boot!MatchInfo,
       Boot!HasTemplate, Boot!Collects, Boot!RequiredOps, Boot!Hash!Item,
       Boot!Hash!Hits, Boot!Hash!IsMapped, Boot!Hash!AddHashItem, Boot!regVars,
       Boot!loadVars, Boot!iterVars, Boot!matchVars, Boot!LidMem,
       Boot!EmptyLists, Boot!EmptyTable, Boot!Goto, Boot!End, Boot!NewDevice,
       Boot!NextMinor, Boot!RegisterDevice, Boot!UnknownType,
       Boot!DevicesRegistered, Boot!LoadDriver, Boot!DriversLoaded,
       Boot!NoDevice, Boot!DeviceNum, Boot!GetDevice, Boot!DriverList,
       Boot!Supporting, Boot!GetDriver, Boot!EntityOf, Boot!NameListFits,
       Boot!AdvanceIterator, Boot!InitTable, Boot!BeginMatch, Boot!CannotMatch,
       Boot!DevicesBound, Boot!OpElement, Boot!Usable, Boot!Recorded,
       Boot!Enter, Boot!Matches, Boot!Unmatches, Boot!NoGlobal,
       Boot!MatchGlobal, Boot!OpName, Boot!NextOp, Boot!MatchOp,
       Boot!BadTemplate, Boot!Complemented, Boot!ClearedRecord, Boot!Bind,
       Boot!NotComplemented, Boot!Next, BootP!TypeMajor, BootP!DeviceTypes,
       BootP!FirstUsedMajor, BootP!FirstUnusedMajor, BootP!Majors,
       BootP!Loaders, BootP!DriverTypes, BootP!I2C, BootP!RS422, BootP!AD,
       BootP!DA, BootP!InterfacesString, BootP!IsSupportedInterface,
       BootP!GyroscopeOps, BootP!AnalogsunsensorOps, BootP!MagnetometerOps,
       BootP!MagnetorquerOps, BootP!FlywheelOps, BootP!Ops, BootP!GlobalIndex,
       BootP!OpenIndex, BootP!TableIndices, BootP!OpsOf, BootP!HasOp,
       BootP!OpIndex, BootP!ElementIndex, BootP!GyroscopeMatch,
       BootP!AnalogsunsensorMatch, BootP!MagnetometerMatch,
       BootP!MagnetorquerMatch, BootP!FlywheelMatch, BootP!MatchInfo,
       BootP!HasTemplate, BootP!Collects, BootP!RequiredOps, BootP!Hash!Item,
       BootP!Hash!Hits, BootP!Hash!IsMapped, BootP!Hash!AddHashItem,
       BootP!regVars, BootP!loadVars, BootP!iterVars, BootP!matchVars,
       BootP!LidMem, BootP!EmptyLists, BootP!EmptyTable, BootP!Goto, BootP!End,
       BootP!NewDevice, BootP!NextMinor, BootP!RegisterDevice,
       BootP!UnknownType, BootP!DevicesRegistered, BootP!LoadDriver,
       BootP!DriversLoaded, BootP!NoDevice, BootP!DeviceNum, BootP!GetDevice,
       BootP!DriverList, BootP!Supporting, BootP!GetDriver, BootP!EntityOf,
       BootP!NameListFits, BootP!AdvanceIterator, BootP!InitTable,
       BootP!BeginMatch, BootP!CannotMatch, BootP!DevicesBound, BootP!OpElement,
       BootP!Usable, BootP!Recorded, BootP!Enter, BootP!Matches,
       BootP!Unmatches, BootP!NoGlobal, BootP!MatchGlobal, BootP!OpName,
       BootP!NextOp, BootP!MatchOp, BootP!BadTemplate, BootP!Complemented,
       BootP!ClearedRecord, BootP!Bind, BootP!NotComplemented, BootP!Next

LEMMA OneBootStutter == UNCHANGED bootVars => UNCHANGED BootP!vars
BY DEF bootVars, BootP!vars, BootP!regVars, BootP!loadVars, BootP!iterVars,
       BootP!matchVars

LEMMA OneTable ==
  /\ Table!Init => TableP!Init
  /\ \A b \in Bufs : Table!OpenAlready(b) \/ Table!OpenFull(b) \/ Table!OpenUnknown(b)
                       \/ Table!OpenNew(b) => TableP!Next
  /\ \A b \in Bufs : Table!OpenNew(b) => TableP!OpenNew(b)
BY DEF Table!Init, TableP!Init, Table!Indices, TableP!Indices, Table!Result, TableP!Result,
       Table!Hash!EmptyTable, TableP!Hash!EmptyTable, Table!OpenAlready, TableP!OpenAlready,
       Table!OpenFull, TableP!OpenFull, Table!OpenUnknown, TableP!OpenUnknown,
       Table!OpenNew, TableP!OpenNew, TableP!Next, Table!IsOpen, TableP!IsOpen,
       Table!OpenIndex, TableP!OpenIndex, Table!Unused, TableP!Unused,
       Table!UnusedIndex, TableP!UnusedIndex, Table!Hash!IsMapped, TableP!Hash!IsMapped,
       Table!Hash!Hits, TableP!Hash!Hits, Table!Hash!FirstHit, TableP!Hash!FirstHit,
       Table!Hash!GetHashItem, TableP!Hash!GetHashItem, Table!Hash!Item,
       TableP!Hash!Item, Table!Hash!AddHashItem, TableP!Hash!AddHashItem

-----------------------------------------------------------------------------
(* The fixed tables of the operation layer                                 *)

LEMMA OneDrivers ==
  /\ BootP!DriverTypes = DriverTypes
  /\ BootP!TableIndices = TableIndices
  /\ BootP!Ops = Ops
  /\ \A t : BootP!OpsOf(t) = OpsOf(t)
  /\ \A t, op : BootP!OpIndex(t, op) = OpIndex(t, op)
  /\ \A t, op : BootP!ElementIndex(t, op) = ElementIndex(t, op)
  /\ \A t, op : BootP!Collects(t, op) <=> Collects(t, op)
  /\ \A t, op : BootP!HasOp(t, op) <=> HasOp(t, op)
BY DEF BootP!DriverTypes, BootP!Loaders, BootP!TableIndices, BootP!OpsOf,
       BootP!HasOp, BootP!OpIndex, BootP!ElementIndex, BootP!GlobalIndex,
       BootP!Collects, BootP!MatchInfo, BootP!GyroscopeMatch,
       BootP!AnalogsunsensorMatch, BootP!MagnetometerMatch,
       BootP!MagnetorquerMatch, BootP!FlywheelMatch, BootP!OpenIndex,
       BootP!Ops, BootP!GyroscopeOps, BootP!AnalogsunsensorOps,
       BootP!MagnetometerOps, BootP!MagnetorquerOps, BootP!FlywheelOps,
       DriverTypes, Loaders, TableIndices, OpsOf, HasOp, OpIndex, ElementIndex,
       GlobalIndex, Collects, MatchInfo, GyroscopeMatch, AnalogsunsensorMatch,
       MagnetometerMatch, MagnetorquerMatch, FlywheelMatch, OpenIndex, Ops,
       GyroscopeOps, AnalogsunsensorOps, MagnetometerOps, MagnetorquerOps,
       FlywheelOps

LEMMA DriverTypesAre ==
  DriverTypes = {"gyroscope", "analogsunsensor", "magnetometer", "magnetorquer",
                 "flywheel"}
BY OneDrivers, BootP!DriverTypesAre, BootAssumption

(* X_driver.h: each operation has one index, that of its entry.            *)
LEMMA OpIndices ==
  ASSUME NEW t \in DriverTypes
  PROVE  /\ \A op \in OpsOf(t) : /\ op \in OpNames /\ op # "global"
                                 /\ OpIndex(t, op) \in DOMAIN Ops[t]
                                 /\ Ops[t][OpIndex(t, op)] = op
                                 /\ OpIndex(t, op) \in TableIndices
                                 /\ ElementIndex(t, op) = OpIndex(t, op)
         /\ \A n \in DOMAIN Ops[t] : OpIndex(t, Ops[t][n]) = n
         /\ "open" \in OpsOf(t) /\ OpIndex(t, "open") = 1
         /\ Operations(t) = OpsOf(t) \ {"open"}
<1>1. /\ Len(Ops[t]) \in 0 .. 5 /\ DOMAIN Ops[t] = 1 .. Len(Ops[t])
      /\ \A n \in DOMAIN Ops[t] : Ops[t][n] # "global"
      /\ \A m, n \in DOMAIN Ops[t] : Ops[t][m] = Ops[t][n] => m = n
  BY OneDrivers, BootP!OpsDistinct, BootAssumption
<1>2. \A n \in DOMAIN Ops[t] : OpIndex(t, Ops[t][n]) = n
  BY <1>1 DEF OpIndex
<1>3. \A op \in OpsOf(t) : \E n \in DOMAIN Ops[t] : op = Ops[t][n]
  BY DEF OpsOf
<1>4. \A op \in OpsOf(t) : op \in OpNames
  BY DEF OpNames
<1>5. ASSUME NEW op \in OpsOf(t)
      PROVE  /\ op # "global" /\ OpIndex(t, op) \in DOMAIN Ops[t]
             /\ Ops[t][OpIndex(t, op)] = op /\ OpIndex(t, op) \in TableIndices
  BY <1>1, <1>2, <1>3 DEF TableIndices
<1>6. 1 \in DOMAIN Ops[t] /\ Ops[t][1] = "open"
  BY DriverTypesAre
     DEF Ops, GyroscopeOps, AnalogsunsensorOps, MagnetometerOps,
         MagnetorquerOps, FlywheelOps
<1>7. Operations(t) = OpsOf(t) \ {"open"}
  <2>1. 2 .. Len(Ops[t]) = DOMAIN Ops[t] \ {1}
    BY <1>1
  <2>2. Operations(t) = { Ops[t][n] : n \in DOMAIN Ops[t] \ {1} }
    BY <2>1 DEF Operations
  <2> QED
    BY <2>2, <1>1, <1>6 DEF OpsOf
<1>8. "open" \in OpsOf(t) /\ OpIndex(t, "open") = 1
  BY <1>2, <1>6 DEF OpsOf
<1> QED
  BY <1>2, <1>4, <1>5, <1>7, <1>8 DEF ElementIndex

LEMMA OpsAre ==
  /\ OpsOf("gyroscope") = {"open", "getx", "gety", "getz", "getxyz"}
  /\ OpsOf("analogsunsensor") = {"open", "read"}
  /\ OpsOf("magnetometer") = {"open", "getx", "gety", "getz", "getxyz"}
  /\ OpsOf("magnetorquer") = {"open", "setx", "sety", "setz", "setxyz"}
  /\ OpsOf("flywheel") = {"open", "set_speed", "receive"}
<1>1. 1 .. 5 = {1, 2, 3, 4, 5} /\ 1 .. 3 = {1, 2, 3} /\ 1 .. 2 = {1, 2}
  OBVIOUS
<1>2. OpsOf("gyroscope") = {"open", "getx", "gety", "getz", "getxyz"}
  BY <1>1 DEF OpsOf, Ops, GyroscopeOps
<1>3. OpsOf("analogsunsensor") = {"open", "read"}
  BY <1>1 DEF OpsOf, Ops, AnalogsunsensorOps
<1>4. OpsOf("magnetometer") = {"open", "getx", "gety", "getz", "getxyz"}
  BY <1>1 DEF OpsOf, Ops, MagnetometerOps
<1>5. OpsOf("magnetorquer") = {"open", "setx", "sety", "setz", "setxyz"}
  BY <1>1 DEF OpsOf, Ops, MagnetorquerOps
<1>6. OpsOf("flywheel") = {"open", "set_speed", "receive"}
  BY <1>1 DEF OpsOf, Ops, FlywheelOps
<1> QED
  BY <1>2, <1>3, <1>4, <1>5, <1>6

(* X.c: the guard of every operation asks for the operation's own index,   *)
(* but that of flywheel_receive asks for set_speed's.                      *)
LEMMA GuardIndices ==
  ASSUME NEW t \in DriverTypes, NEW op \in OpsOf(t)
  PROVE  GuardIndex(t, op) =
           OpIndex(t, IF t = "flywheel" /\ op = "receive" THEN "set_speed" ELSE op)
<1>1. OwnIndex(t)[op] = OpIndex(t, op)
  BY DEF OwnIndex
<1>2. t # "flywheel" => Api[t] = OwnIndex(t)
  BY DriverTypesAre
     DEF Api, GyroscopeApi, AnalogsunsensorApi, MagnetometerApi, MagnetorquerApi
<1>3. CASE t = "flywheel"
  <2>1. Api[t] = [OwnIndex(t) EXCEPT !["receive"] = OpIndex(t, "set_speed")]
    BY <1>3 DEF Api, FlywheelApi
  <2>2. op \in DOMAIN OwnIndex(t)
    BY DEF OwnIndex
  <2> QED
    BY <1>1, <1>3, <2>1, <2>2 DEF GuardIndex
<1> QED
  BY <1>1, <1>2, <1>3 DEF GuardIndex

(* X_driver.c: every operation fetches its own data, and looks its         *)
(* template up among its own or another operation's.                       *)
LEMMA DriverTemplates ==
  ASSUME NEW t \in DriverTypes, NEW op \in OpsOf(t)
  PROVE  /\ FetchIndex(t, op) = OpIndex(t, op)
         /\ Template(t, op) =
              IF t = "magnetometer" /\ op \in {"getz", "getxyz"} THEN "gety"
              ELSE IF t = "analogsunsensor" /\ op = "read" THEN "open" ELSE op
<1>1. op \in DOMAIN OwnTemplate(t)
      /\ OwnTemplate(t)[op] = [index |-> OpIndex(t, op), templates |-> op]
  BY DEF OwnTemplate
<1>2. CASE t = "magnetometer"
  <2>1. DriverOps[t] = [OwnTemplate(t) EXCEPT !["getz"].templates = "gety",
                                              !["getxyz"].templates = "gety"]
    BY <1>2 DEF DriverOps, MagnetometerDriver
  <2>2. DriverOps[t][op] = [OwnTemplate(t)[op] EXCEPT !.templates =
                              IF op \in {"getz", "getxyz"} THEN "gety" ELSE @]
    BY <1>1, <2>1 DEF OwnTemplate
  <2> QED
    BY <1>1, <1>2, <2>2 DEF FetchIndex, Template
<1>3. CASE t = "analogsunsensor"
  <2>1. DriverOps[t] = [OwnTemplate(t) EXCEPT !["read"].templates = "open"]
    BY <1>3 DEF DriverOps, AnalogsunsensorDriver
  <2> QED
    BY <1>1, <1>3, <2>1 DEF FetchIndex, Template, OwnTemplate
<1>4. CASE t \notin {"magnetometer", "analogsunsensor"}
  <2>1. DriverOps[t] = OwnTemplate(t)
    BY <1>4, DriverTypesAre
       DEF DriverOps, GyroscopeDriver, MagnetorquerDriver, FlywheelDriver
  <2> QED
    BY <1>1, <1>4, <2>1 DEF FetchIndex, Template
<1> QED
  BY <1>2, <1>3, <1>4

(* The template functions of another operation have the effect of the      *)
(* operation's own, but those analogsunsensor_read finds: open's.          *)
LEMMA EffectsFit ==
  ASSUME NEW t \in DriverTypes, NEW op \in OpsOf(t),
         ~(t = "analogsunsensor" /\ op = "read")
  PROVE  Effect(t, Template(t, op)) = Effect(t, op)
<1>1. CASE t = "magnetometer" /\ op \in {"getz", "getxyz"}
  BY <1>1, DriverTemplates DEF Effect
<1>2. CASE ~(t = "magnetometer" /\ op \in {"getz", "getxyz"})
  BY <1>2, DriverTemplates
<1> QED
  BY <1>1, <1>2

-----------------------------------------------------------------------------
(* What init() leaves behind for the operation layer                       *)

(* The device of a lid, once init() has reported success, is bound to the  *)
(* driver of the type that the lid's element names; an operation finds at  *)
(* its index the data of that element if the element configures it, and    *)
(* nothing otherwise.                                                      *)
DeviceReady(lid) ==
  LET d == DeviceOf(lid)
      t == TypeOf(lid)
  IN /\ EntityOf(lid) \in DOMAIN Config /\ Config[EntityOf(lid)].lid = lid
     /\ t \in DriverTypes /\ d.type = t /\ d.operation = t
     /\ \A op \in OpsOf(t) :
          Data(d, OpIndex(t, op)) =
            IF op \in Configured(lid) THEN [entity |-> EntityOf(lid), op |-> op]
            ELSE NULL

LEMMA ConfigIsFixed ==
  ASSUME BootP!Inv
  PROVE  /\ config = Config
         /\ \A lid : BootP!EntityOf(lid) = EntityOf(lid)
<1>1. config = Config
  BY DEF BootP!Inv, BootP!TypeOK
<1> QED
  BY <1>1 DEF BootP!EntityOf, EntityOf

LEMMA DeviceIsReady ==
  ASSUME BootP!Inv, outcome = "SUCCESS", NEW lid \in RegisteredLids
  PROVE  DeviceReady(lid)
<1> DEFINE e == EntityOf(lid)
           t == TypeOf(lid)
           c == Config[e]
<1>1. config = Config /\ BootP!EntityOf(lid) = e
  BY ConfigIsFixed
<1>2. PICK n \in DOMAIN config : config[n].lid = lid
  BY <1>1 DEF RegisteredLids
<1>3. BootP!TypeOK
  BY DEF BootP!Inv
<1>4. e \in DOMAIN Config /\ c.lid = lid
  BY <1>1, <1>2, <1>3, BootP!EntityOfIs, BootAssumption
<1>5. Len(devs) = Len(config)
  BY DEF BootP!Inv, BootP!Registered
<1>6. DeviceOf(lid) = devs[e]
  <2>1. BootP!Hash!GetHashItem(lid2dev, BootP!LidMem, lid) = e
    BY <1>1, <1>2, <1>5, BootP!InvResolves, BootAssumption DEF BootP!LidResolves
  <2>2. Boot!Hash!GetHashItem(lid2dev, Boot!LidMem, lid)
          = BootP!Hash!GetHashItem(lid2dev, BootP!LidMem, lid)
    BY DEF Boot!Hash!GetHashItem, BootP!Hash!GetHashItem, Boot!Hash!FirstHit,
           BootP!Hash!FirstHit, Boot!Hash!Hits, BootP!Hash!Hits, Boot!LidMem,
           BootP!LidMem
  <2> QED
    BY <2>1, <2>2 DEF DeviceOf
<1>7. e \in BootP!Devices /\ e \in BootP!Bound
  <2>1. BootP!Bound = BootP!Devices
    BY DEF BootP!Inv, BootP!Progress
  <2>2. BootP!Devices = 1 .. Len(devs)
    BY <1>3, BootP!DevicesTyped, BootAssumption
  <2> QED
    BY <1>1, <1>4, <1>5, <2>1, <2>2, ConfigTyped
<1>8. devs[e].type = t /\ devs[e].lid = lid
  BY <1>1, <1>4, <1>7 DEF BootP!Inv, BootP!Registered, TypeOf
<1>9. /\ devs[e].operation = t
      /\ BootP!Holds(tables[devs[e].private].slot, e, t, BootP!Listed(e))
      /\ BootP!Acceptable(e)
  BY <1>1, <1>7, <1>8 DEF BootP!Inv, BootP!BoundWell
<1>10. /\ t \in DriverTypes
       /\ \A k \in 1 .. c.length : HasOp(t, c.ops[k].name)
  BY <1>1, <1>4, <1>9, OneDrivers DEF BootP!Acceptable, BootP!OpAcceptable, TypeOf
<1>11. \A o \in BootP!Listed(e) : o = "global" \/ o \in OpsOf(t)
  BY <1>1, <1>10 DEF BootP!Listed, HasOp
<1>12. ASSUME NEW op \in OpsOf(t)
       PROVE  Data(devs[e], OpIndex(t, op)) =
                IF op \in Configured(lid) THEN [entity |-> e, op |-> op] ELSE NULL
  <2> DEFINE at == { o \in BootP!Listed(e) :
                       Collects(t, o) /\ ElementIndex(t, o) = OpIndex(t, op) }
  <2>1. op # "global" /\ OpIndex(t, op) \in TableIndices
        /\ ElementIndex(t, op) = OpIndex(t, op)
    BY <1>10, OpIndices
  <2>2. \A o \in OpsOf(t) \cup {"global"} : ElementIndex(t, o) = OpIndex(t, op) => o = op
    BY <1>10, <2>1, OneDrivers, BootP!IndicesApart, BootAssumption DEF BootP!Named
  <2>3. at = IF op \in Configured(lid) THEN {op} ELSE {}
    <3>1. op \in BootP!Listed(e) /\ Collects(t, op) <=> op \in Configured(lid)
      BY <1>1, <2>1 DEF BootP!Listed, Configured, TypeOf
    <3> QED
      BY <3>1, <1>11, <2>1, <2>2
  <2>4. Data(devs[e], OpIndex(t, op)) =
          IF at = {} THEN NULL ELSE [entity |-> e, op |-> CHOOSE o \in at : TRUE]
    BY <1>9, <2>1, OneDrivers DEF BootP!Holds, Data
  <2> QED
    BY <2>3, <2>4
<1> QED
  BY <1>4, <1>6, <1>8, <1>9, <1>10, <1>12 DEF DeviceReady

-----------------------------------------------------------------------------
(* The inductive invariant                                                 *)

(* The tables of the parts are sound, and the runs are counts.             *)
PartsSound ==
  /\ BootP!Inv
  /\ TableP!TypeOK /\ TableP!ChainsInv
  /\ runs \in [Lids -> [OpNames -> Nat]]

(* The operation whose data an operation's guard asks for (GuardIndices).  *)
GuardOp(type, op) ==
  IF type = "flywheel" /\ op = "receive" THEN "set_speed" ELSE op

(* What was run was run on an open device that passes the guard.           *)
RunsFit ==
  \A lid \in Lids, op \in OpNames :
    runs[lid][op] > 0 =>
      /\ Opened(lid)
      /\ HasOp(TypeOf(lid), op)
      /\ GuardOp(TypeOf(lid), op) \in Configured(lid)

(* How the program answers a call of an operation of a lid through an API. *)
Answer(api, op, lid) ==
  CASE op = "open" -> "ran"
    [] op # "open" /\ TypeOf(lid) # api -> "wrong type"
    [] op # "open" /\ TypeOf(lid) = api /\ GuardOp(api, op) \notin Configured(lid)
         -> "not configured"
    [] op # "open" /\ TypeOf(lid) = api /\ GuardOp(api, op) \in Configured(lid)
         -> IF op \in Configured(lid) THEN "ran" ELSE "crash"

CallFits ==
  call.status # "none" =>
    /\ call.lid \in RegisteredLids /\ TypeOf(call.lid) \in DriverTypes
    /\ call.status = Answer(call.api, call.op, call.lid)
    /\ call.status = "ran" =>
         /\ call.op \in OpsOf(TypeOf(call.lid)) \cap Configured(call.lid)
         /\ call.data = [entity |-> EntityOf(call.lid), op |-> call.op]
         /\ call.effect = Effect(TypeOf(call.lid), Template(TypeOf(call.lid), call.op))

SystemInv == PartsSound /\ OpenSequenceOnce /\ RunsFit /\ CallFits

LEMMA SystemInit == Init => SystemInv
<1> SUFFICES ASSUME Init
             PROVE  SystemInv
  OBVIOUS
<1>1. BootP!Inv
  BY OneBootInit, BootP!InvInit, BootAssumption DEF Init
<1>2. TableP!TypeOK /\ TableP!ChainsInv
  BY OneTable, TableP!TypeInit, TableP!ChainsInit, TableAssumption DEF Init
<1>3. /\ runs \in [Lids -> [OpNames -> Nat]]
      /\ \A l \in Lids, op \in OpNames : runs[l][op] = 0
  BY DEF Init
<1>4. \A l \in Lids : ~Opened(l)
  BY TableAssumption DEF Init, Table!Init, Opened
<1>5. "open" \in OpNames
  BY OpIndices, DriverTypesAre
<1>6. call.status = "none"
  BY DEF Init, NoCall, Call
<1> QED
  BY <1>1, <1>2, <1>3, <1>4, <1>5, <1>6
     DEF SystemInv, PartsSound, OpenSequenceOnce, RunsFit, CallFits

(* init() keeps its invariant while it runs and after.                     *)
LEMMA BootKept ==
  ASSUME BootP!Inv, Boot!Next \/ UNCHANGED bootVars
  PROVE  BootP!Inv'
BY OneBootNext, OneBootStutter, BootP!InvStep, BootAssumption

(* So does open_device, and no operation touches its tables.               *)
LEMMA TableKept ==
  ASSUME TableP!TypeOK, TableP!ChainsInv,
         \/ \E b \in Bufs : \/ Table!OpenAlready(b) \/ Table!OpenFull(b)
                            \/ Table!OpenUnknown(b) \/ Table!OpenNew(b)
         \/ running' \in BOOLEAN /\ UNCHANGED << mem, openTable, lid2idx, result >>
  PROVE  TableP!TypeOK' /\ TableP!ChainsInv'
<1>1. CASE \E b \in Bufs : \/ Table!OpenAlready(b) \/ Table!OpenFull(b)
                           \/ Table!OpenUnknown(b) \/ Table!OpenNew(b)
  <2>1. TableP!Next
    BY <1>1, OneTable
  <2>2. TableP!TypeOK'
    BY <2>1, TableP!TypeStep, TableAssumption
  <2>3. TableP!ChainsInv'
    BY <2>1, TableP!ChainsStep, TableAssumption
  <2> QED
    BY <2>2, <2>3
<1>2. CASE running' \in BOOLEAN /\ UNCHANGED << mem, openTable, lid2idx, result >>
  <2>1. TableP!TypeOK'
    BY <1>2 DEF TableP!TypeOK
  <2>2. TableP!ChainsInv'
    BY <1>2 DEF TableP!ChainsInv, TableP!ItemsPlaced, TableP!EntriesMapped,
                TableP!ItemsDistinct, TableP!Items
  <2> QED
    BY <2>1, <2>2
<1> QED
  BY <1>1, <1>2

(* An entry of the open table that is not empty names a registered lid.    *)
LEMMA OpenedIsRegistered ==
  ASSUME TableP!TypeOK
  PROVE  /\ \A b \in Bufs : mem[b] \in Lids
         /\ RegisteredLids \subseteq Lids
         /\ \A index \in Table!Indices :
              openTable[index] # NULL => openTable[index] \in RegisteredLids
<1>1. Table!Indices = TableP!Indices
  BY DEF Table!Indices, TableP!Indices
<1> QED
  BY <1>1, TableAssumption DEF TableP!TypeOK, RegisteredLids

(* open_device opens a lid that was not open, and that lid only.           *)
LEMMA OpenNewOpens ==
  ASSUME TableP!TypeOK, TableP!ChainsInv, NEW b \in Bufs, Table!OpenNew(b)
  PROVE  /\ mem[b] \in RegisteredLids
         /\ ~Opened(mem[b])
         /\ \A l \in Lids : Opened(l)' <=> Opened(l) \/ l = mem[b]
<1> DEFINE e == TableP!UnusedIndex
<1>1. TableP!OpenNew(b) /\ Table!Indices = TableP!Indices
  BY OneTable DEF Table!Indices, TableP!Indices
<1>2. e \in TableP!Indices /\ openTable[e] = NULL
  BY <1>1, TableP!UnusedIndexIsFree, TableAssumption DEF TableP!OpenNew
<1>3. /\ mem[b] \in RegisteredLids /\ ~TableP!IsOpen(mem[b])
      /\ openTable' = [openTable EXCEPT ![e] = mem[b]] /\ mem' = mem
  BY <1>1 DEF TableP!OpenNew, RegisteredLids
<1>4. TableP!TablesAgree
  BY TableP!ChainsImplyAgreement, TableAssumption
<1>5. ~Opened(mem[b])
  BY <1>1, <1>3, <1>4, TableAssumption DEF Opened, TableP!TablesAgree, RegisteredLids
<1>6. /\ openTable'[e] = mem[b]
      /\ \A k \in TableP!Indices \ {e} : openTable'[k] = openTable[k]
  BY <1>2, <1>3 DEF TableP!TypeOK
<1> HIDE DEF e
<1>7. \A l \in Lids : Opened(l)' <=> Opened(l) \/ l = mem[b]
  BY <1>1, <1>2, <1>6, TableAssumption DEF Opened
<1> QED
  BY <1>3, <1>5, <1>7

(* What the driver of a ready device does when an operation of it is run.  *)
LEMMA RunIs ==
  ASSUME BootP!Inv, runs \in [Lids -> [OpNames -> Nat]], outcome = "SUCCESS",
         NEW lid \in RegisteredLids, NEW op \in OpsOf(TypeOf(lid)), NEW api,
         Run(api, op, lid)
  PROVE  LET t == TypeOf(lid)
             ran == op \in Configured(lid)
             data == [entity |-> EntityOf(lid), op |-> op]
         IN /\ runs' \in [Lids -> [OpNames -> Nat]]
            /\ runs'[lid][op] > 0
            /\ runs[lid][op] = 0 => runs'[lid][op] = 1
            /\ \A l \in Lids, o \in OpNames :
                 l # lid \/ o # op => runs'[l][o] = runs[l][o]
            /\ call' = Call(api, op, lid, IF ran THEN "ran" ELSE "crash",
                            IF ran THEN data ELSE NULL, Effect(t, Template(t, op)))
<1> DEFINE t == TypeOf(lid)
           data == [entity |-> EntityOf(lid), op |-> op]
           n == IF runs[lid][op] < MaxRuns THEN runs[lid][op] + 1 ELSE runs[lid][op]
<1>1. DeviceReady(lid)
  BY DeviceIsReady
<1>2. /\ t \in DriverTypes /\ op \in OpNames /\ lid \in Lids
      /\ DeviceOf(lid).operation = t /\ EntityOf(lid) \in Nat
  BY <1>1, OpIndices, ConfigTyped DEF DeviceReady, RegisteredLids
<1>3. Data(DeviceOf(lid), FetchIndex(t, op))
        = IF op \in Configured(lid) THEN data ELSE NULL
  BY <1>1, <1>2, DriverTemplates DEF DeviceReady
<1>4. data # NULL
  BY <1>2, PnPSystemAssumption DEF DataEntries
<1>5. call' = Call(api, op, lid, IF op \in Configured(lid) THEN "ran" ELSE "crash",
                   IF op \in Configured(lid) THEN data ELSE NULL,
                   Effect(t, Template(t, op)))
  BY <1>2, <1>3, <1>4 DEF Run
<1>6. runs' = [runs EXCEPT ![lid][op] = n]
  BY DEF Run
<1>7. n \in Nat /\ n > 0 /\ (runs[lid][op] = 0 => n = 1)
  BY <1>2, PnPSystemAssumption
<1> HIDE DEF n
<1>8. /\ runs' \in [Lids -> [OpNames -> Nat]] /\ runs'[lid][op] = n
      /\ \A l \in Lids, o \in OpNames : l # lid \/ o # op => runs'[l][o] = runs[l][o]
  BY <1>2, <1>6, <1>7
<1> QED
  BY <1>5, <1>7, <1>8

(* A step that opens nothing and runs nothing.                             *)
LEMMA NothingRuns ==
  ASSUME SystemInv, PartsSound', CallFits', UNCHANGED << openTable, runs >>
  PROVE  SystemInv'
<1>1. \A l \in Lids : Opened(l)' <=> Opened(l)
  BY DEF Opened
<1> QED
  BY <1>1 DEF SystemInv, OpenSequenceOnce, RunsFit

LEMMA OpenReturnsStep ==
  ASSUME SystemInv, NEW b \in Bufs, OpenReturns(b)
  PROVE  SystemInv'
<1>1. PartsSound'
  BY BootKept, TableKept DEF SystemInv, PartsSound, OpenReturns
<1>2. UNCHANGED << openTable, runs, call >>
  BY DEF OpenReturns, Table!OpenAlready, Table!OpenFull, Table!OpenUnknown
<1> QED
  BY <1>1, <1>2, NothingRuns DEF SystemInv, CallFits

LEMMA OpenDeviceStep ==
  ASSUME SystemInv, NEW api \in DriverTypes, NEW b \in Bufs, OpenDevice(api, b)
  PROVE  SystemInv'
<1> DEFINE lid == mem[b]
           t == TypeOf(lid)
           ran == "open" \in Configured(lid)
<1> USE DEF SystemInv, PartsSound
<1>1. Operating /\ Table!OpenNew(b) /\ UNCHANGED bootVars
  BY DEF OpenDevice
<1>2. /\ lid \in RegisteredLids /\ lid \in Lids
      /\ ~Opened(lid)
      /\ \A l \in Lids : Opened(l)' <=> Opened(l) \/ l = lid
  BY <1>1, OpenNewOpens, OpenedIsRegistered
<1>3. DeviceReady(lid)
  BY <1>1, <1>2, DeviceIsReady DEF Operating
<1>4. t \in DriverTypes /\ "open" \in OpsOf(t) /\ "open" \in OpNames
  BY <1>3, OpIndices DEF DeviceReady
<1>5. HasOperationComplemented(DeviceOf(lid), GuardIndex(api, "open")) <=> ran
  <2>1. GuardIndex(api, "open") = OpIndex(t, "open")
    BY <1>4, GuardIndices, OpIndices
  <2>2. [entity |-> EntityOf(lid), op |-> "open"] # NULL
    BY <1>3, <1>4, ConfigTyped, PnPSystemAssumption DEF DeviceReady, DataEntries
  <2> QED
    BY <1>3, <1>4, <2>1, <2>2 DEF HasOperationComplemented, DeviceReady
<1>6. runs[lid]["open"] = 0
  BY <1>2 DEF OpenSequenceOnce
<1>7. BootP!Inv' /\ TableP!TypeOK' /\ TableP!ChainsInv'
  BY <1>1, BootKept, TableKept
<1>8. CASE ran
  <2>1. Run(api, "open", lid)
    BY <1>5, <1>8 DEF OpenDevice
  <2>2. /\ runs' \in [Lids -> [OpNames -> Nat]]
        /\ runs'[lid]["open"] = 1
        /\ \A l \in Lids, o \in OpNames :
             l # lid \/ o # "open" => runs'[l][o] = runs[l][o]
        /\ call' = Call(api, "open", lid, "ran",
                        [entity |-> EntityOf(lid), op |-> "open"],
                        Effect(t, Template(t, "open")))
    <3>1. outcome = "SUCCESS" /\ "open" \in OpsOf(TypeOf(lid))
      BY <1>1, <1>4 DEF Operating
    <3> HIDE DEF lid
    <3> QED
      BY <1>2, <1>6, <1>8, <2>1, <3>1, RunIs
  <2>3. OpenSequenceOnce'
    <3> SUFFICES ASSUME NEW l \in Lids
                 PROVE  runs'[l]["open"] =
                          IF Opened(l)' /\ "open" \in Configured(l) THEN 1 ELSE 0
      BY DEF OpenSequenceOnce
    <3>1. CASE l = lid
      BY <1>2, <1>8, <2>2, <3>1
    <3>2. CASE l # lid
      <4>1. runs'[l]["open"] = runs[l]["open"] /\ (Opened(l)' <=> Opened(l))
        BY <1>2, <1>4, <2>2, <3>2
      <4> QED
        BY <4>1 DEF OpenSequenceOnce
    <3> QED
      BY <3>1, <3>2
  <2>4. RunsFit'
    BY <1>2, <1>4, <1>8, <2>2 DEF RunsFit, HasOp, GuardOp
  <2>5. CallFits'
    BY <1>2, <1>4, <1>8, <2>2 DEF CallFits, Call, Answer
  <2> QED
    BY <1>7, <2>2, <2>3, <2>4, <2>5
<1>9. CASE ~ran
  <2>1. UNCHANGED << runs, call >>
    BY <1>5, <1>9 DEF OpenDevice
  <2>2. OpenSequenceOnce'
    BY <1>2, <1>9, <2>1 DEF OpenSequenceOnce
  <2>3. RunsFit' /\ CallFits'
    BY <1>2, <2>1 DEF RunsFit, CallFits
  <2> QED
    BY <1>7, <2>1, <2>2, <2>3
<1> QED
  BY <1>8, <1>9

LEMMA NoDeviceAtStep ==
  ASSUME SystemInv, NEW index \in Table!Indices, NoDeviceAt(index)
  PROVE  SystemInv'
<1>1. PartsSound'
  BY BootKept, TableKept DEF SystemInv, PartsSound, NoDeviceAt
<1> QED
  BY <1>1, NothingRuns DEF SystemInv, CallFits, NoDeviceAt

(* An operation called by the handle of an open device.                    *)
LEMMA OperandReady ==
  ASSUME SystemInv, Operating, NEW api \in DriverTypes, NEW op \in Operations(api),
         NEW index \in Table!Indices, openTable[index] # NULL
  PROVE  LET lid == openTable[index]
             d == DeviceOf(lid)
         IN /\ lid \in RegisteredLids /\ lid \in Lids /\ Opened(lid)
            /\ DeviceReady(lid) /\ d.type = TypeOf(lid) /\ TypeOf(lid) \in DriverTypes
            /\ op # "open" /\ op \in OpsOf(api) /\ op \in OpNames
            /\ d.type = api =>
                 (HasOperationComplemented(d, GuardIndex(api, op))
                    <=> GuardOp(api, op) \in Configured(lid))
<1> DEFINE lid == openTable[index]
           d == DeviceOf(lid)
<1>1. lid \in RegisteredLids /\ lid \in Lids /\ Opened(lid)
  BY OpenedIsRegistered DEF SystemInv, PartsSound, Opened
<1>2. DeviceReady(lid)
  BY <1>1, DeviceIsReady DEF SystemInv, PartsSound, Operating
<1>3. op # "open" /\ op \in OpsOf(api) /\ op \in OpNames
  BY OpIndices
<1>4. ASSUME d.type = api
      PROVE  HasOperationComplemented(d, GuardIndex(api, op))
               <=> GuardOp(api, op) \in Configured(lid)
  <2>1. GuardOp(api, op) \in OpsOf(api) /\ GuardOp(api, op) \in OpNames
    <3>1. GuardOp(api, op) \in OpsOf(api)
      BY <1>3, OpsAre DEF GuardOp
    <3> QED
      BY <3>1, OpIndices
  <2>2. GuardIndex(api, op) = OpIndex(api, GuardOp(api, op))
    BY <1>3, GuardIndices DEF GuardOp
  <2>3. [entity |-> EntityOf(lid), op |-> GuardOp(api, op)] # NULL
    BY <1>2, <2>1, ConfigTyped, PnPSystemAssumption DEF DeviceReady, DataEntries
  <2>4. TypeOf(lid) = api
    BY <1>2, <1>4 DEF DeviceReady
  <2> QED
    BY <1>2, <2>1, <2>2, <2>3, <2>4 DEF HasOperationComplemented, DeviceReady
<1> QED
  BY <1>1, <1>2, <1>3, <1>4 DEF DeviceReady

LEMMA OperateWrongTypeStep ==
  ASSUME SystemInv, NEW api \in DriverTypes, NEW op \in Operations(api),
         NEW index \in Table!Indices, OperateWrongType(api, op, index)
  PROVE  SystemInv'
<1> DEFINE lid == openTable[index]
<1>1. /\ Operating /\ lid # NULL /\ DeviceOf(lid).type # api
      /\ call' = Call(api, op, lid, "wrong type", NULL, "nothing")
      /\ UNCHANGED << bootVars, tableVars, runs >>
  BY DEF OperateWrongType
<1>2. /\ lid \in RegisteredLids /\ op # "open" /\ TypeOf(lid) # api
      /\ TypeOf(lid) \in DriverTypes
  BY <1>1, OperandReady
<1>3. running \in BOOLEAN
  BY DEF SystemInv, PartsSound, TableP!TypeOK
<1>4. PartsSound'
  BY <1>1, <1>3, BootKept, TableKept DEF SystemInv, PartsSound, tableVars
<1>5. CallFits'
  BY <1>1, <1>2 DEF CallFits, Call, Answer
<1> QED
  BY <1>1, <1>4, <1>5, NothingRuns DEF tableVars

LEMMA OperateNotConfiguredStep ==
  ASSUME SystemInv, NEW api \in DriverTypes, NEW op \in Operations(api),
         NEW index \in Table!Indices, OperateNotConfigured(api, op, index)
  PROVE  SystemInv'
<1> DEFINE lid == openTable[index]
<1>1. /\ Operating /\ lid # NULL /\ DeviceOf(lid).type = api
      /\ ~HasOperationComplemented(DeviceOf(lid), GuardIndex(api, op))
      /\ call' = Call(api, op, lid, "not configured", NULL, "nothing")
      /\ UNCHANGED << bootVars, tableVars, runs >>
  BY DEF OperateNotConfigured
<1>2. /\ lid \in RegisteredLids /\ op # "open" /\ TypeOf(lid) = api
      /\ GuardOp(api, op) \notin Configured(lid)
  BY <1>1, OperandReady
<1>3. running \in BOOLEAN
  BY DEF SystemInv, PartsSound, TableP!TypeOK
<1>4. PartsSound'
  BY <1>1, <1>3, BootKept, TableKept DEF SystemInv, PartsSound, tableVars
<1>5. CallFits'
  BY <1>1, <1>2 DEF CallFits, Call, Answer
<1> QED
  BY <1>1, <1>4, <1>5, NothingRuns DEF tableVars

LEMMA OperateStep ==
  ASSUME SystemInv, NEW api \in DriverTypes, NEW op \in Operations(api),
         NEW index \in Table!Indices, Operate(api, op, index)
  PROVE  SystemInv'
<1> DEFINE lid == openTable[index]
           ran == op \in Configured(lid)
<1> USE DEF SystemInv
<1>1. /\ Operating /\ lid # NULL /\ DeviceOf(lid).type = api
      /\ HasOperationComplemented(DeviceOf(lid), GuardIndex(api, op))
      /\ Run(api, op, lid)
      /\ running' = (call'.status # "crash")
      /\ UNCHANGED << bootVars, mem, openTable, lid2idx, result >>
  BY DEF Operate
<1>2. /\ lid \in RegisteredLids /\ lid \in Lids /\ Opened(lid)
      /\ op # "open" /\ op \in OpsOf(api) /\ op \in OpNames /\ TypeOf(lid) = api
      /\ GuardOp(api, op) \in Configured(lid)
  BY <1>1, OperandReady
<1>3. /\ runs' \in [Lids -> [OpNames -> Nat]]
      /\ \A l \in Lids, o \in OpNames : l # lid \/ o # op => runs'[l][o] = runs[l][o]
      /\ call' = Call(api, op, lid, IF ran THEN "ran" ELSE "crash",
                      IF ran THEN [entity |-> EntityOf(lid), op |-> op] ELSE NULL,
                      Effect(api, Template(api, op)))
  BY <1>1, <1>2, RunIs DEF PartsSound, Operating
<1>4. PartsSound'
  <2>1. running' \in BOOLEAN
    BY <1>1
  <2> QED
    BY <1>1, <1>3, <2>1, BootKept, TableKept DEF PartsSound
<1>5. \A l \in Lids : Opened(l)' <=> Opened(l)
  BY <1>1 DEF Opened
<1>6. OpenSequenceOnce'
  <2>1. "open" \in OpNames
    BY OpIndices
  <2> QED
    BY <1>2, <1>3, <1>5, <2>1 DEF OpenSequenceOnce
<1>7. RunsFit'
  BY <1>2, <1>3, <1>5 DEF RunsFit, HasOp
<1>8. CallFits'
  BY <1>2, <1>3 DEF CallFits, Call, Answer
<1> QED
  BY <1>4, <1>6, <1>7, <1>8

LEMMA SystemStep == SystemInv /\ [Next]_vars => SystemInv'
<1> SUFFICES ASSUME SystemInv, [Next]_vars
             PROVE  SystemInv'
  OBVIOUS
<1>1. running \in BOOLEAN
  BY DEF SystemInv, PartsSound, TableP!TypeOK
<1>2. ASSUME Boot!Next \/ UNCHANGED bootVars, UNCHANGED << tableVars, runs, call >>
      PROVE  SystemInv'
  <2>1. PartsSound'
    BY <1>1, <1>2, BootKept, TableKept DEF SystemInv, PartsSound, tableVars
  <2>2. CallFits'
    BY <1>2 DEF SystemInv, CallFits
  <2> QED
    BY <1>2, <2>1, <2>2, NothingRuns DEF tableVars
<1>3. CASE InitStep
  BY <1>2, <1>3 DEF InitStep
<1>4. CASE UNCHANGED vars
  BY <1>2, <1>4 DEF vars
<1> QED
  BY <1>3, <1>4, OpenReturnsStep, OpenDeviceStep, NoDeviceAtStep,
     OperateWrongTypeStep, OperateNotConfiguredStep, OperateStep DEF Next

(* In every reachable state the devices and their tables are as init() and *)
(* open_device leave them, and every count of runs and the last answer of  *)
(* X_op are those the configuration allows: the inductive invariant.       *)
THEOREM SystemInvAlways == Spec => []SystemInv
BY SystemInit, SystemStep, PTL DEF Spec

-----------------------------------------------------------------------------
(* What follows for every run of the program                               *)

(* Whatever API a device is opened through, and however often, its open    *)
(* sequence is sent exactly once, by the time its handle is known          *)
(* (gyroscope.c:17-29 and the X_open of the other devices).                *)
THEOREM OpenSequenceSentOnce == Spec => []OpenSequenceOnce
<1>1. SystemInv => OpenSequenceOnce
  BY DEF SystemInv
<1> QED
  BY <1>1, SystemInvAlways, PTL

(* X_driver.c: a template function is given the data that was collected    *)
(* for this operation of this device, whatever devices were bound and      *)
(* opened before it.                                                       *)
THEOREM DataAlwaysOfCall == Spec => []DataBelongsToCall
<1>1. SystemInv => DataBelongsToCall
  BY DEF SystemInv, CallFits, DataBelongsToCall
<1> QED
  BY <1>1, SystemInvAlways, PTL

(* Every flywheel configures both operations or neither: flywheel_receive  *)
(* asks whether set_speed is configured (flywheel.c:69), and a flywheel    *)
(* with one of the two is answered wrongly (ReceiveOnlyIfConfigured).      *)
ReceiveWithSpeed ==
  \A lid \in RegisteredLids :
    TypeOf(lid) = "flywheel" =>
      ("receive" \in Configured(lid) <=> "set_speed" \in Configured(lid))

LEMMA GuardsFit ==
  ASSUME ReceiveWithSpeed, NEW lid \in RegisteredLids, NEW op
  PROVE  GuardOp(TypeOf(lid), op) \in Configured(lid) <=> op \in Configured(lid)
BY DEF ReceiveWithSpeed, GuardOp

(* Only operations that the configuration gives a device are run on it,    *)
(* only while it is open and only through the API of its type.             *)
THEOREM OnlyConfiguredRun ==
  ASSUME ReceiveWithSpeed
  PROVE  Spec => []OnlyConfiguredOperations
<1>1. ASSUME SystemInv
      PROVE  OnlyConfiguredOperations
  <2> SUFFICES ASSUME NEW lid \in Lids, NEW op \in OpNames, runs[lid][op] > 0
               PROVE  Opened(lid) /\ HasOp(TypeOf(lid), op) /\ op \in Configured(lid)
    BY DEF OnlyConfiguredOperations
  <2>1. /\ Opened(lid) /\ HasOp(TypeOf(lid), op)
        /\ GuardOp(TypeOf(lid), op) \in Configured(lid)
    BY <1>1 DEF SystemInv, RunsFit
  <2>2. lid \in RegisteredLids
    BY <1>1, <2>1, OpenedIsRegistered, TableAssumption
    DEF SystemInv, PartsSound, Opened
  <2> QED
    BY <2>1, <2>2, GuardsFit
<1> QED
  BY <1>1, SystemInvAlways, PTL

(* Every call of an operation is answered as the configuration demands,    *)
(* and none ends in a template without data.                               *)
THEOREM CallsAnswered ==
  ASSUME ReceiveWithSpeed
  PROVE  Spec => []CallAnswered
<1>1. ASSUME SystemInv
      PROVE  CallAnswered
  <2> SUFFICES ASSUME call.status # "none"
               PROVE  call.status =
                        IF call.op = "open" THEN "ran"
                        ELSE IF TypeOf(call.lid) # call.api THEN "wrong type"
                        ELSE IF call.op \in Configured(call.lid) THEN "ran"
                        ELSE "not configured"
    BY DEF CallAnswered
  <2>1. /\ call.lid \in RegisteredLids
        /\ call.status = Answer(call.api, call.op, call.lid)
    BY <1>1 DEF SystemInv, CallFits
  <2>2. GuardOp(TypeOf(call.lid), call.op) \in Configured(call.lid)
          <=> call.op \in Configured(call.lid)
    BY <2>1, GuardsFit
  <2> QED
    BY <2>1, <2>2 DEF Answer
<1> QED
  BY <1>1, SystemInvAlways, PTL

(* No analog sun sensor is read: analogsunsensor_read finds its template   *)
(* among those of open (analogsunsensor_driver.c:29).                      *)
NoSunSensorRead ==
  \A lid \in RegisteredLids :
    TypeOf(lid) = "analogsunsensor" => "read" \notin Configured(lid)

(* An operation that is run does to the hardware what its template is for. *)
THEOREM EffectsAlwaysFit ==
  ASSUME NoSunSensorRead
  PROVE  Spec => []EffectFits
<1>1. ASSUME SystemInv
      PROVE  EffectFits
  <2> SUFFICES ASSUME call.status = "ran"
               PROVE  call.effect = Effect(TypeOf(call.lid), call.op)
    BY DEF EffectFits
  <2> DEFINE t == TypeOf(call.lid)
  <2>1. /\ call.lid \in RegisteredLids /\ t \in DriverTypes
        /\ call.op \in OpsOf(t) /\ call.op \in Configured(call.lid)
        /\ call.effect = Effect(t, Template(t, call.op))
    BY <1>1 DEF SystemInv, CallFits
  <2>2. ~(t = "analogsunsensor" /\ call.op = "read")
    BY <2>1 DEF NoSunSensorRead
  <2> QED
    BY <2>1, <2>2, EffectsFit
<1> QED
  BY <1>1, SystemInvAlways, PTL

=============================================================================
