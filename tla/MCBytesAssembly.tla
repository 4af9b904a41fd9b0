-------------------------- MODULE MCBytesAssembly --------------------------
(***************************************************************************)
(* Schemes of two elements over arrays of four bytes of four values;       *)
(* words of two bytes and shorts of one.                                   *)
(***************************************************************************)
EXTENDS BytesAssembly

CONSTANTS v1, v2, s1

Element(start, num, id) == [start |-> start, num |-> num, id |-> id]

(* One element with a code block, two with one block (as in                *)
(* src/test/device.xml), and none.                                         *)
MCPlain == << Element(0, 2, -1), Element(3, 1, -1) >>
MCSchemes == { << Element(0, 2, -1), Element(2, 1, 0) >>,
               << Element(0, 2, 0), Element(2, 2, 0) >>,
               MCPlain }

MCPost == [id \in {0} |-> [w \in Words |-> Signed(3 * w + 1, WordBytes)]]

(* In all but the last only the first byte of an element is negative.      *)
MCArrays == { << 0, 1, -1, 1 >>, << -2, 1, 1, 0 >>, << 1, 0, 0, 1 >>, << 1, -1, 0, 1 >> }
MCHolds == { << 0, 1, -1, 1 >>, << -2, 1, 1, 0 >>, << 1, -1, 0, 1 >> }

MCVariables == {v1, v2, s1}
MCShorts == {s1}
=============================================================================
