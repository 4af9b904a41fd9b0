------------------------------ MODULE Drivers ------------------------------
(***************************************************************************)
(* The fixed tables of the program: the device types and their major       *)
(* numbers (dev_t.h), the loaders and the interfaces each declares         *)
(* (driver_loaders.h and the X_driver.c of each driver X), what each       *)
(* driver matches and requires (X_match.c), and which entry of its tables  *)
(* each operation uses (X.c, X_driver.c).  A string of characters is a     *)
(* tuple of them.                                                          *)
(***************************************************************************)
EXTENDS Naturals, Sequences

(* device_type[]: starsensor and horizonsensor have a number and no driver *)
TypeMajor == [ analogsunsensor |-> 10, magnetometer  |-> 11, starsensor    |-> 12,
               flywheel        |-> 13, gyroscope     |-> 14, horizonsensor |-> 15,
               magnetorquer    |-> 16 ]

DeviceTypes == DOMAIN TypeMajor
FirstUsedMajor == 10
FirstUnusedMajor == 17
Majors == FirstUsedMajor .. FirstUnusedMajor - 1

(* driver_loaders_table, in its order *)
Loaders == << "gyroscope", "analogsunsensor", "magnetometer", "magnetorquer",
              "flywheel" >>

DriverTypes == { Loaders[n] : n \in DOMAIN Loaders }

I2C == << "i", "2", "c" >>
RS422 == << "r", "s", "4", "2", "2" >>
AD == << "a", "d" >>
DA == << "d", "a" >>

(* what each loader passes to add_supported_interface, one call after the  *)
(* other: each is appended to the end of one string                        *)
InterfacesString ==
  [ gyroscope |-> I2C, analogsunsensor |-> AD, magnetometer |-> AD,
    magnetorquer |-> DA, flywheel |-> I2C \o RS422 ]

(* is_supported_interface: strstr, the interface occurs in the string      *)
IsSupportedInterface(string, interface) ==
  \E n \in 0 .. Len(string) - Len(interface) :
    SubSeq(string, n + 1, n + Len(interface)) = interface

(* The operations of each driver by index: X_OPEN_INDEX is 1, ...; index 0 *)
(* is the global configuration (X_GLOBAL_INDEX).                           *)
GyroscopeOps       == << "open", "getx", "gety", "getz", "getxyz" >>
AnalogsunsensorOps == << "open", "read" >>
MagnetometerOps    == << "open", "getx", "gety", "getz", "getxyz" >>
MagnetorquerOps    == << "open", "setx", "sety", "setz", "setxyz" >>
FlywheelOps        == << "open", "set_speed", "receive" >>

Ops ==
  [ gyroscope |-> GyroscopeOps, analogsunsensor |-> AnalogsunsensorOps,
    magnetometer |-> MagnetometerOps, magnetorquer |-> MagnetorquerOps,
    flywheel |-> FlywheelOps ]

GlobalIndex == 0
OpenIndex == 1
TableIndices == 0 .. 5

OpsOf(type) == { Ops[type][n] : n \in DOMAIN Ops[type] }

OpNames == UNION { OpsOf(t) : t \in DriverTypes }

HasOp(type, op) == op \in OpsOf(type)

OpIndex(type, op) == CHOOSE n \in DOMAIN Ops[type] : Ops[type][n] = op

ElementIndex(type, op) == IF op = "global" THEN GlobalIndex ELSE OpIndex(type, op)

-----------------------------------------------------------------------------
(* X_match.c: each has a match function for "global" and every operation,  *)
(* with template 0 only.  collects names those that collect data; the      *)
(* others return MATCH at once.  required is the minimal function set.     *)
GyroscopeMatch ==
  [collects |-> {"global"} \cup OpsOf("gyroscope"), required |-> {GlobalIndex, OpenIndex}]
AnalogsunsensorMatch == [collects |-> {"read"}, required |-> {}]
MagnetometerMatch == [collects |-> {"getx", "gety", "getz", "getxyz"}, required |-> {}]
MagnetorquerMatch == [collects |-> {"setx", "sety", "setz", "setxyz"}, required |-> {}]
FlywheelMatch == [collects |-> {"set_speed", "receive"}, required |-> {}]

MatchInfo ==
  [ gyroscope |-> GyroscopeMatch, analogsunsensor |-> AnalogsunsensorMatch,
    magnetometer |-> MagnetometerMatch, magnetorquer |-> MagnetorquerMatch,
    flywheel |-> FlywheelMatch ]

HasTemplate(type, op, templateId) ==
  templateId = 0 /\ (op = "global" \/ HasOp(type, op))

Collects(type, op) == op \in MatchInfo[type].collects

RequiredOps(type) == MatchInfo[type].required

-----------------------------------------------------------------------------
(* X.c: the index each function asks has_operation_complemented for        *)
OwnIndex(type) == [op \in OpsOf(type) |-> OpIndex(type, op)]

GyroscopeApi       == OwnIndex("gyroscope")
AnalogsunsensorApi == OwnIndex("analogsunsensor")
MagnetometerApi    == OwnIndex("magnetometer")
MagnetorquerApi    == OwnIndex("magnetorquer")
FlywheelApi ==
  [OwnIndex("flywheel") EXCEPT !["receive"] = OpIndex("flywheel", "set_speed")]

Api ==
  [ gyroscope |-> GyroscopeApi, analogsunsensor |-> AnalogsunsensorApi,
    magnetometer |-> MagnetometerApi, magnetorquer |-> MagnetorquerApi,
    flywheel |-> FlywheelApi ]

(* X_driver.c: the index each operation fetches its template data at, and  *)
(* the operation whose table of templates it looks the template up in      *)
OwnTemplate(type) ==
  [op \in OpsOf(type) |-> [index |-> OpIndex(type, op), templates |-> op]]

GyroscopeDriver == OwnTemplate("gyroscope")
AnalogsunsensorDriver ==
  [OwnTemplate("analogsunsensor") EXCEPT !["read"].templates = "open"]
MagnetometerDriver ==
  [OwnTemplate("magnetometer") EXCEPT !["getz"].templates = "gety",
                                      !["getxyz"].templates = "gety"]
MagnetorquerDriver == OwnTemplate("magnetorquer")
FlywheelDriver == OwnTemplate("flywheel")

DriverOps ==
  [ gyroscope |-> GyroscopeDriver, analogsunsensor |-> AnalogsunsensorDriver,
    magnetometer |-> MagnetometerDriver, magnetorquer |-> MagnetorquerDriver,
    flywheel |-> FlywheelDriver ]

=============================================================================
