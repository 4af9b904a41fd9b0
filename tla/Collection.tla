---------------------------- MODULE Collection ----------------------------
(***************************************************************************)
(* collect_code_block.c collects the code blocks of one data template from *)
(* the configuration, one child of <code_block_list> per step; the ids the *)
(* parameters designate are checked; then each call of the operation asks  *)
(* for the block of the precondition and, for each parameter, for the one  *)
(* it designates (command_sequence_generate.c, bytes_array_assembly.c).    *)
(* How a block is compiled and run is left to CodeBlocks.                  *)
(***************************************************************************)
EXTENDS Integers, Sequences

CONSTANTS Configs,      \* what <template_data> may hold, see below
          Calls,        \* how many times the operation is called
          Missing       \* what a configuration leaves out; not a value

(* A configuration: the length attribute of the list, its children in      *)
(* order, each with an id and a block, the ids the parameters designate,   *)
(* and the precondition's block.  strtoul reads the length and the ids.    *)
NO_NEED_CODE_BLOCK == -1
ASSUME CollectionAssumption ==
  /\ Missing \notin Int
  /\ \A c \in Configs : c.length \in Nat \cup {Missing} /\ c.uses \in Seq(Int)

VARIABLES
  config,    \* the configuration
  phase,     \* "collect", "check", "serve", "run", "done", "exit", or
             \* "refused" when the compiler has called exit(-1)
  cursor,    \* the child, the id or the request that comes next
  sources    \* code_block_src_array: from ids to children's positions
collection == <<config, sources>>
collectVars == <<config, phase, cursor, sources>>

Length == config.length
Child(i) == config.children[i]
(* The precondition has slot 1, the block with id n slot n + 2. *)
SlotOf(id) == id + 2
Terminate == phase' = "exit"

CollectInit ==
  /\ config \in Configs
  /\ phase = "collect" /\ cursor = 1
  /\ sources = <<>>

(***************************************************************************)
(* Collection.  It is skipped when no parameter designates a block.        *)
(***************************************************************************)
NeedToCollect == \E i \in 1 .. Len(config.uses) : config.uses[i] >= 0
Collecting == phase = "collect" /\ NeedToCollect
Skip ==
  /\ phase = "collect" /\ ~NeedToCollect
  /\ phase' = "serve" /\ cursor' = 1
  /\ UNCHANGED collection

(* One round of the loop of do_group_code_blocks_collection. *)
(* (Over: a mutant that lets an id be given twice.)                        *)
MayInstallOver(i) ==
  /\ i <= Len(config.children)
  /\ Child(i).block # Missing /\ Child(i).id # Missing
  /\ Child(i).id \in 0 .. Length - 1
MayInstall(i) ==
  /\ i <= Len(config.children)
  /\ Child(i).block # Missing
  /\ Child(i).id # Missing
  /\ Child(i).id \in 0 .. Length - 1
  /\ Child(i).id \notin DOMAIN sources
Added(s, id, i) == [k \in DOMAIN s \cup {id} |-> IF k = id THEN i ELSE s[k]]
Install ==
  /\ Collecting
  /\ config.children # Missing /\ Length # Missing /\ config.children # <<>>
  /\ cursor <= Length
  /\ IF MayInstall(cursor)
     THEN /\ sources' = Added(sources, Child(cursor).id, cursor)
          /\ cursor' = cursor + 1
          /\ UNCHANGED phase
     ELSE Terminate /\ UNCHANGED <<sources, cursor>>
  /\ UNCHANGED config
InstallNothing ==
  /\ Collecting
  /\ config.children = Missing \/ Length = Missing \/ config.children = <<>>
  /\ Terminate
  /\ UNCHANGED <<collection, cursor>>
Installed ==
  /\ Collecting
  /\ config.children # Missing /\ Length # Missing /\ config.children # <<>>
  /\ cursor > Length
  /\ phase' = "check" /\ cursor' = 1
  /\ UNCHANGED collection

(* check_code_block_ids_validity. *)
ValidId(id) == id >= NO_NEED_CODE_BLOCK /\ id < Length
CheckIds ==
  /\ phase = "check"
  /\ IF \A i \in 1 .. Len(config.uses) : ValidId(config.uses[i])
     THEN phase' = "serve" ELSE Terminate
  /\ UNCHANGED <<collection, cursor>>
Collect == Skip \/ Install \/ InstallNothing \/ Installed \/ CheckIds

(***************************************************************************)
(* A call asks for the precondition and then for each parameter's block.   *)
(***************************************************************************)
PerCall == Len(config.uses) + 1
CallNumber == (cursor - 1) \div PerCall + 1
(* The slot the next request runs, or 0. *)
Requested ==
  LET i == (cursor - 1) % PerCall
  IN IF i = 0 THEN IF config.single = Missing THEN 0 ELSE 1
     ELSE IF config.uses[i] > NO_NEED_CODE_BLOCK THEN SlotOf(config.uses[i]) ELSE 0
Serving == phase = "serve" /\ CallNumber <= Calls

AskForNone == Serving /\ Requested = 0 /\ cursor' = cursor + 1 /\ UNCHANGED <<collection, phase>>
(* The block is run, or compiled and refused. *)
Ask == Serving /\ Requested # 0 /\ phase' \in {"run", "refused"} /\ UNCHANGED <<collection, cursor>>
(* run_code returns. *)
Answered == phase = "run" /\ phase' = "serve" /\ cursor' = cursor + 1 /\ UNCHANGED collection
(* exit() and a signal end the whole program. *)
Died == phase = "run" /\ Terminate /\ UNCHANGED <<collection, cursor>>
Finished ==
  /\ phase = "serve" /\ CallNumber > Calls
  /\ phase' = "done"
  /\ UNCHANGED <<collection, cursor>>

CollectNext == Collect \/ AskForNone \/ Ask \/ Answered \/ Died \/ Finished
CollectSpec == CollectInit /\ [][CollectNext]_collectVars

(***************************************************************************)
(* Property.                                                               *)
(***************************************************************************)
(* When a parameter asks for a block, that block was collected, from the   *)
(* child that carries its id: do_computation never compiles a NULL source. *)
OwnSource ==
  phase = "serve" /\ CallNumber <= Calls /\ Requested > 1 =>
    /\ Requested - 2 \in DOMAIN sources
    /\ Child(sources[Requested - 2]).id = Requested - 2
=============================================================================
