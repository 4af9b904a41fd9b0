---------------------------- MODULE HandleTable ----------------------------
(***************************************************************************)
(* What open_device() promises its callers, without its two tables: every  *)
(* logical id (lid) is given at most one handle, two lids never share one, *)
(* a handle once given is the answer to every later open of that lid, and  *)
(* an open is refused only when every handle is taken.                     *)
(***************************************************************************)
EXTENDS Integers

CONSTANTS
  Lids,         \* the logical ids a caller may name
  Registered,   \* the lids of the devices of the configuration
  Handles,      \* the indices of the open table
  NULL          \* no lid: nothing has been asked yet

NoHandle == -1

VARIABLES
  handleOf,   \* the handle of each lid, NoHandle before its first open
  reply,      \* the answer to the last call of open_device
  alive       \* FALSE once the program has called exit(1)

htVars == << handleOf, reply, alive >>

Reply(lid, index, status) == [lid |-> lid, index |-> index, status |-> status]

Taken == { handleOf[l] : l \in Lids }

Init ==
  /\ handleOf = [l \in Lids |-> NoHandle]
  /\ reply = Reply(NULL, NoHandle, "NONE")
  /\ alive = TRUE

(* The first successful open of a registered lid: any free handle.         *)
Assign(l) ==
  /\ alive
  /\ handleOf[l] = NoHandle
  /\ l \in Registered
  /\ \E h \in Handles \ Taken :
       /\ handleOf' = [handleOf EXCEPT ![l] = h]
       /\ reply' = Reply(l, h, "NEWLY_OPEN")
  /\ UNCHANGED alive

(* A later open of the same lid.                                           *)
Reopen(l) ==
  /\ alive
  /\ handleOf[l] # NoHandle
  /\ reply' = Reply(l, handleOf[l], "ALREADY_OPEN")
  /\ UNCHANGED << handleOf, alive >>

(* No handle is left.                                                      *)
Refuse(l) ==
  /\ alive
  /\ handleOf[l] = NoHandle
  /\ Handles \subseteq Taken
  /\ reply' = Reply(l, NoHandle, "FAILED")
  /\ UNCHANGED << handleOf, alive >>

(* An unknown lid ends the program.                                        *)
Abort(l) ==
  /\ alive
  /\ l \notin Registered
  /\ alive' = FALSE
  /\ UNCHANGED << handleOf, reply >>

Next == \E l \in Lids : Assign(l) \/ Reopen(l) \/ Refuse(l) \/ Abort(l)

Spec == Init /\ [][Next]_htVars

=============================================================================
