---------------------------- MODULE MCDeviceOpen ----------------------------
(***************************************************************************)
(* Small instances of DeviceOpen.  d1 and d2 share a slot of the lookup    *)
(* table, d3 and the unregistered lid x share another.                     *)
(***************************************************************************)
EXTENDS DeviceOpen, TLC

CONSTANTS d1, d2, d3, x, b1, b2, b3, b4

MCLids == {d1, d2, d3, x}
MCRegistered == {d1, d2, d3}
MCBufs == {b1, b2, b3, b4}
MCSmallBufs == {b1, b2, b3}
MCSlots == {0, 1}
MCHashOf == (d1 :> 0) @@ (d2 :> 0) @@ (d3 :> 1) @@ (x :> 1)

MCBufSymmetry == Permutations(Bufs)
=============================================================================
