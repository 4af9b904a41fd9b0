------------------------- MODULE MCCommandSequence -------------------------
(***************************************************************************)
(* Commands of five or six elements, bytes of four values and words of    *)
(* two bytes.                                                              *)
(***************************************************************************)
EXTENDS CommandSequence

CONSTANTS a1, a2

Constant(value) == [kind |-> "constant", size |-> 1, id |-> -1, value |-> value]
Computing(size, id) == [kind |-> "computed", size |-> size, id |-> id, value |-> 0]
Checksum == [kind |-> "checksum", size |-> 1, id |-> -1, value |-> 0]

(* A code block for each of two parameters, and a third without one.       *)
MCElements == << Constant(3), Computing(2, 0), Computing(1, 1), Constant(1),
                 Computing(1, -1), Checksum >>

(* Two parameters with the same code block, as in src/test/device.xml.     *)
MCShared == << Constant(3), Computing(2, 0), Constant(1), Computing(1, 0), Checksum >>

(* Block 0 is that of src/test/device.xml: result*2+1.                     *)
MCCompute == [id \in 0 .. 1 |-> [v \in Words |->
                IF id = 0 THEN (2 * v + 1) % 16 ELSE (v + 3) % 16]]

MCPutValues == {1, 6, 12}
MCAddrs == {a1, a2}
MCOneAddr == {a1}
=============================================================================
