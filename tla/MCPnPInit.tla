----------------------------- MODULE MCPnPInit -----------------------------
(***************************************************************************)
(* Configurations for PnPInit: every sequence of up to MaxDevices devices  *)
(* of a pool, with distinct lids or with the last two sharing one.         *)
(***************************************************************************)
EXTENDS PnPInit

CONSTANTS l1, l2, l3, MaxDevices

MCLids == {l1, l2, l3}
MCSlots == {0, 1}
MCHashOf == [l \in MCLids |-> IF l = l3 THEN 1 ELSE 0]

Elem(fill) == [tid |-> 0, fill |-> fill]
Op(name, fill) == [name |-> name, tid |-> 0, fill |-> fill]
Device(type, interface, global, length, ops) ==
  [type |-> type, interface |-> interface, global |-> global,
   length |-> length, ops |-> ops]

(* Accepted and rejected devices, each rejected one for a reason of its own *)
Pool ==
  { Device("gyroscope", I2C, Elem("ok"), 2, << Op("open", "ok"), Op("getx", "ok") >>),
    Device("gyroscope", I2C, Elem("ok"), 1, << Op("getx", "ok"), Op("open", "ok") >>),
    Device("gyroscope", I2C, Elem("mismatch"), 1, << Op("open", "ok") >>),
    Device("gyroscope", I2C, Elem("ok"), 2, << Op("open", "ok"), Op("gety", "mismatch") >>),
    Device("flywheel", RS422, NULL, 2, << Op("set_speed", "ok"), Op("receive", "ok") >>),
    Device("flywheel", DA, NULL, 1, << Op("receive", "ok") >>),
    Device("analogsunsensor", AD, Elem("ok"), 3,
           << Op("read", "ok"), Op("open", "ok"), Op("read", "mismatch") >>),
    Device("magnetometer", AD, NULL, 2, << Op("getz", "ok") >>),
    Device("magnetorquer", DA, NULL, 1, << Op("setx", "invalid") >>),
    Device("magnetorquer", DA, [tid |-> 1, fill |-> "ok"], 0, << >>),
    Device("starsensor", AD, NULL, 0, << >>),
    Device("thruster", AD, NULL, 0, << >>) }

WithLid(d, l) ==
  [lid |-> l, type |-> d.type, interface |-> d.interface, global |-> d.global,
   length |-> d.length, ops |-> d.ops]

MCConfigs ==
  { << WithLid(a, l1) >> : a \in Pool }
  \cup { << WithLid(a, l1), WithLid(b, l) >> : a \in Pool, b \in Pool, l \in {l1, l2} }
  \cup IF MaxDevices < 3 THEN {}
       ELSE { << WithLid(a, l1), WithLid(b, l2), WithLid(c, l) >> :
                a \in Pool, b \in Pool, c \in Pool, l \in {l2, l3} }
=============================================================================
