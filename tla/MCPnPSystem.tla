---------------------------- MODULE MCPnPSystem ----------------------------
(***************************************************************************)
(* Small instances of PnPSystem: four devices, two of them of one type and *)
(* two of them in one slot, a lid nothing is registered under, and a       *)
(* second string constant for one of the lids.                             *)
(***************************************************************************)
EXTENDS PnPSystem, TLC

CONSTANTS g1, g2, f1, m1, unknown, again

MCLids == {g1, g2, f1, m1, unknown}
MCBufs == MCLids \cup {again}
MCLiterals == [b \in MCBufs |-> IF b = again THEN g1 ELSE b]
MCSlots == {0, 1}
MCHashOf == (g1 :> 0) @@ (g2 :> 1) @@ (f1 :> 0) @@ (m1 :> 1) @@ (unknown :> 0)

Elem == [tid |-> 0, fill |-> "ok"]
Op(name) == [name |-> name, tid |-> 0, fill |-> "ok"]
Device(lid, type, interface, global, ops) ==
  [lid |-> lid, type |-> type, interface |-> interface, global |-> global,
   length |-> Len(ops), ops |-> ops]

(* Every operation is asked for by a guard of its own.                     *)
MCConfig ==
  << Device(g1, "gyroscope", I2C, Elem, << Op("open"), Op("getx") >>),
     Device(f1, "flywheel", RS422, NULL, << Op("receive"), Op("set_speed") >>),
     Device(g2, "gyroscope", I2C, Elem, << Op("getxyz"), Op("open") >>),
     Device(m1, "magnetometer", AD, NULL, << Op("getz") >>) >>

(* A flywheel that is told its speed and sends nothing back.               *)
MCSpeedOnly ==
  << Device(f1, "flywheel", RS422, NULL, << Op("set_speed") >>) >>

=============================================================================
