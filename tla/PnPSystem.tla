----------------------------- MODULE PnPSystem -----------------------------
(***************************************************************************)
(* The program as an application sees it: init() binds the devices of a    *)
(* configuration (PnPInit), and after it the application opens devices by  *)
(* lid and operates them by handle (DeviceOpen), through the functions of  *)
(* gyroscope.c, flywheel.c, ...: X_open(lid) and X_op(handle).             *)
(* The application is one thread and passes its lids as string constants.  *)
(***************************************************************************)
EXTENDS Integers, Sequences, Drivers

CONSTANTS Lids, Slots, HashOf, NULL,
  Config,    \* the configuration of the program
  Bufs,      \* the addresses of the string constants that name devices
  Literals,  \* the string at each address
  MaxOpen,   \* MAX_DEVICES_OPEN
  MaxRuns    \* the number of runs of an operation that are told apart

VARIABLES config, pc, i, minors, devs, devLists, lid2dev, counter, drvLists,
          curMajor, node, ctx, devp, drip, opPos, tables, tdt, record, outcome

bootVars == << config, pc, i, minors, devs, devLists, lid2dev, counter, drvLists,
               curMajor, node, ctx, devp, drip, opPos, tables, tdt, record, outcome >>

VARIABLES mem, openTable, lid2idx, result, running

tableVars == << mem, openTable, lid2idx, result, running >>

VARIABLES
  runs,      \* how often each operation of each device was run, up to MaxRuns
  call       \* the last call of an operation and what it did

vars == << bootVars, tableVars, runs, call >>

Boot == INSTANCE PnPInit WITH Configs <- {Config}

Table == INSTANCE DeviceOpen WITH
  Registered <- { Config[n].lid : n \in DOMAIN Config },
  Reuse <- FALSE

(* The data of an operation in a device's table: the element it is from    *)
DataEntries == [entity : Nat, op : OpNames \cup {"global"}]

ASSUME PnPSystemAssumption ==
  /\ HashOf \in [Lids -> Slots]
  /\ Config \in Seq(Boot!Entities) /\ Config # << >>
  /\ NULL \notin Lids /\ NULL \notin DriverTypes
  /\ NULL \notin Boot!Elements /\ NULL \notin DataEntries
  /\ Literals \in [Bufs -> Lids]
  /\ MaxOpen \in Nat /\ MaxRuns \in Nat \ {0}

-----------------------------------------------------------------------------
(* The operation layer, X.c above X_driver.c                               *)

(* Mutant: the indices are counted without the global element.             *)
GuardIndexShifted(api, op) == OpIndex(api, op) - 1

(* The index an operation asks has_operation_complemented for.             *)
GuardIndex(api, op) == Api[api][op]

(* Mutant: likewise, in the driver.                                        *)
FetchIndexShifted(type, op) == OpIndex(type, op) - 1

(* The index at which the driver fetches the operation's template data.    *)
FetchIndex(type, op) == DriverOps[type][op].index

(* Mutant: another function of flywheel_driver.c copied with its table.    *)
TemplatePasted(type, op) == IF type = "flywheel" THEN "set_speed" ELSE op

(* The operation whose template functions the driver indexes with the id.  *)
Template(type, op) == DriverOps[type][op].templates

(* What a template function does to the hardware.                          *)
Effect(type, template) ==
  CASE template = "open" -> IF type = "gyroscope" THEN "i2c write" ELSE "nothing"
    [] type = "gyroscope"       -> "i2c read"
    [] type = "magnetometer"    -> "ad read"
    [] type = "analogsunsensor" -> "ad read"
    [] type = "magnetorquer"    -> "da write"
    [] type = "flywheel"        -> IF template = "receive" THEN "assemble" ELSE "command"

(* find_device, and the device's entry of its private data                 *)
DeviceOf(lid) == devs[Boot!Hash!GetHashItem(lid2dev, Boot!LidMem, lid)]

Data(d, index) == tables[d.private].slot[index]

(* Mutant: the caller does not ask.                                        *)
NotAsked(d, index) == TRUE

HasOperationComplemented(d, index) == Data(d, index) # NULL

Call(api, op, lid, status, data, effect) ==
  [api |-> api, op |-> op, lid |-> lid, status |-> status, data |-> data,
   effect |-> effect]

NoCall == Call("none", "none", NULL, "none", NULL, "nothing")

-----------------------------------------------------------------------------
Init ==
  /\ Boot!Init
  /\ Table!Init
  /\ mem = Literals
  /\ runs = [l \in Lids |-> [op \in OpNames |-> 0]]
  /\ call = NoCall

(* init() runs before the application does anything else.                  *)
InitStep == Boot!Next /\ UNCHANGED << tableVars, runs, call >>

Operating == outcome = "SUCCESS" /\ running

(* The driver of an open device runs an operation of it.  A template that  *)
(* has no data to work on dereferences NULL.                               *)
Run(api, op, lid) ==
  LET d == DeviceOf(lid)
      data == Data(d, FetchIndex(d.operation, op))
      effect == Effect(d.operation, Template(d.operation, op))
  IN /\ runs' = [runs EXCEPT ![lid][op] = IF @ < MaxRuns THEN @ + 1 ELSE @]
     /\ call' = Call(api, op, lid, IF data = NULL THEN "crash" ELSE "ran",
                     data, effect)

(* Mutant: X_open ignores that open_device reports the device open already. *)
OpenRunsAgain(b) ==
  /\ Operating
  /\ Table!OpenAlready(b)
  /\ HasOperationComplemented(DeviceOf(mem[b]), 1)
  /\ Run("gyroscope", "open", mem[b])
  /\ UNCHANGED bootVars

(* X_open of a lid that is open, that finds the table full, or that no     *)
(* device has: open_device returns or exits and nothing else happens.      *)
OpenReturns(b) ==
  /\ Operating
  /\ Table!OpenAlready(b) \/ Table!OpenFull(b) \/ Table!OpenUnknown(b)
  /\ UNCHANGED << bootVars, runs, call >>

(* X_open of a device not open yet.  open_device ignores the type it is    *)
(* given, and what runs is the open function of the device's own driver.   *)
OpenDevice(api, b) ==
  LET lid == mem[b]
  IN /\ Operating
     /\ Table!OpenNew(b)
     /\ IF HasOperationComplemented(DeviceOf(lid), GuardIndex(api, "open"))
          THEN Run(api, "open", lid)
          ELSE UNCHANGED << runs, call >>
     /\ UNCHANGED bootVars

(* X_op(index): an empty entry ends the program, and a device of another   *)
(* type, or one without the operation, is refused.                         *)
NoDeviceAt(index) ==
  /\ Operating
  /\ openTable[index] = NULL
  /\ running' = FALSE
  /\ UNCHANGED << bootVars, mem, openTable, lid2idx, result, runs, call >>

OperateWrongType(api, op, index) ==
  /\ Operating
  /\ openTable[index] # NULL
  /\ DeviceOf(openTable[index]).type # api
  /\ call' = Call(api, op, openTable[index], "wrong type", NULL, "nothing")
  /\ UNCHANGED << bootVars, tableVars, runs >>

OperateNotConfigured(api, op, index) ==
  /\ Operating
  /\ openTable[index] # NULL
  /\ DeviceOf(openTable[index]).type = api
  /\ ~HasOperationComplemented(DeviceOf(openTable[index]), GuardIndex(api, op))
  /\ call' = Call(api, op, openTable[index], "not configured", NULL, "nothing")
  /\ UNCHANGED << bootVars, tableVars, runs >>

Operate(api, op, index) ==
  /\ Operating
  /\ openTable[index] # NULL
  /\ DeviceOf(openTable[index]).type = api
  /\ HasOperationComplemented(DeviceOf(openTable[index]), GuardIndex(api, op))
  /\ Run(api, op, openTable[index])
  /\ running' = (call'.status # "crash")
  /\ UNCHANGED << bootVars, mem, openTable, lid2idx, result >>

(* The operations an API has besides open.                                 *)
Operations(api) == { Ops[api][n] : n \in 2 .. Len(Ops[api]) }

Next ==
  \/ InitStep
  \/ \E b \in Bufs : OpenReturns(b)
  \/ \E api \in DriverTypes, b \in Bufs : OpenDevice(api, b)
  \/ \E index \in Table!Indices : NoDeviceAt(index)
  \/ \E api \in DriverTypes, index \in Table!Indices : \E op \in Operations(api) :
       \/ OperateWrongType(api, op, index)
       \/ OperateNotConfigured(api, op, index)
       \/ Operate(api, op, index)

Spec == Init /\ [][Next]_vars

-----------------------------------------------------------------------------
(***************************************************************************)
(* Properties                                                              *)
(***************************************************************************)

Opened(lid) == \E index \in Table!Indices : openTable[index] = lid

(* What the configuration says, without the program's tables: the element  *)
(* of a lid and the operations whose data a device of it has.              *)
EntityOf(lid) ==
  CHOOSE n \in DOMAIN Config :
    Config[n].lid = lid /\ \A k \in 1 .. n - 1 : Config[k].lid # lid

TypeOf(lid) == Config[EntityOf(lid)].type

Configured(lid) ==
  LET e == Config[EntityOf(lid)]
  IN { op \in { e.ops[n].name : n \in 1 .. e.length } : Collects(e.type, op) }

(* Whatever API a device is first opened through, and however often it is  *)
(* opened again, its open sequence is sent once, by the time its handle is *)
(* known, and never for a device that is not open (gyroscope.c:17-29).     *)
OpenSequenceOnce ==
  \A lid \in Lids :
    runs[lid]["open"] =
      IF Opened(lid) /\ "open" \in Configured(lid) THEN 1 ELSE 0

(* Only operations that the configuration gives a device are ever run on   *)
(* it, only through the API of its type and only while it is open.         *)
OnlyConfiguredOperations ==
  \A lid \in Lids, op \in OpNames :
    runs[lid][op] > 0 =>
      /\ Opened(lid)
      /\ HasOp(TypeOf(lid), op)
      /\ op \in Configured(lid)

(* The answer to a call is the one the configuration demands: an operation *)
(* is run exactly when its device has the API's type and configures it.    *)
CallAnswered ==
  call.status # "none" =>
    call.status =
      IF call.op = "open" THEN "ran"
      ELSE IF TypeOf(call.lid) # call.api THEN "wrong type"
      ELSE IF call.op \in Configured(call.lid) THEN "ran" ELSE "not configured"

(* The template of an operation works on the data collected for that very  *)
(* operation of that very device.                                          *)
DataBelongsToCall ==
  call.status = "ran" =>
    call.data = [entity |-> EntityOf(call.lid), op |-> call.op]

(* X_driver.c, X_op.c: an operation does to the hardware what its template *)
(* is there for; no operation but open may leave the hardware alone.       *)
EffectFits ==
  call.status = "ran" => call.effect = Effect(TypeOf(call.lid), call.op)

(* flywheel.c:75: flywheel_receive is "not implemented" on a flywheel that *)
(* does not configure it.                                                  *)
ReceiveOnlyIfConfigured ==
  call.api = "flywheel" /\ call.op = "receive"
    => (call.status \in {"ran", "crash"} => "receive" \in Configured(call.lid))

=============================================================================
