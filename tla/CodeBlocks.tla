----------------------------- MODULE CodeBlocks -----------------------------
(***************************************************************************)
(* The code blocks of one data template: what Collection collects and asks *)
(* for is compiled when it first runs, and run.                            *)
(*                                                                         *)
(* The compiler keeps one environment (interpreter/parser.c) and one       *)
(* machine runs all blocks (executor.c): what one block leaves in them is  *)
(* there for the next.                                                     *)
(***************************************************************************)
EXTENDS BlockSemantics, Collection, TLC

CONSTANTS HostCells,    \* memory of the host: from addresses to first values
          Inputs,       \* what the host writes before call n
          TextPool, DataPool,   \* where the compiler's pools lie
          StaleTypes,   \* what the uninitialised tmp of expression() may be
          StaleReal     \* what the uninitialised bx of eval() may be

(* A configuration has the variables its blocks may use, too.  A block is  *)
(* its lexemes, and the tree they were written from when there is one.     *)
VARIABLES
  compiled,  \* the slots whose compiled code is kept
  env,       \* the compiler's environment
  want       \* history: the memory as the blocks mean it, or Missing when
             \* something ran that has no agreed meaning
vars == <<collectVars, compiled, env, want, code, mem, regs>>
machine == <<code, mem, regs>>

BlockOf(slot) == IF slot = 1 THEN config.single ELSE Child(sources[slot - 2]).block

Init ==
  /\ CollectInit
  /\ compiled = {}
  /\ \E tmp \in StaleTypes : env = InitialEnvironment(TextPool, DataPool, tmp)
  /\ want = HostCells
  /\ code = <<>> /\ mem = HostCells
  /\ \E bx \in StaleReal :
       regs = [pc |-> 0, ax |-> 0, bx |-> bx, sp |-> <<>>, fsp |-> <<>>, slot |-> 0,
               state |-> "idle"]

Collected == Collect /\ UNCHANGED <<compiled, env, want, machine>>

Fresh == (cursor - 1) % PerCall = 0
(* The variables the host sets at the start of a call. *)
WithInputs(m) == IF Fresh THEN Inputs[CallNumber] @@ m ELSE m

PassOver ==
  /\ AskForNone
  /\ mem' = WithInputs(mem)
  /\ want' = IF want = Missing THEN Missing ELSE WithInputs(want)
  /\ UNCHANGED <<compiled, env, code, regs>>

InPool(a) == a >= DataPool
(* compile_src_code: parse, relocate, reset; strings and arrays stay in    *)
(* the pool, and a block that ran may have written there.                  *)
CompiledBlock(slot) ==
  Compiled([env EXCEPT !.pool = [a \in {p \in DOMAIN mem : InPool(p)} |-> mem[a]]],
           config.deps, BlockOf(slot).lexemes)

(* What a block means, on a memory of its own with its variables behind    *)
(* ModelBase: it is run from the memory before and keeps its variables.    *)
ModelBase(slot) == 100000 * slot
NameAt(decls, n) == CHOOSE i \in 1 .. Len(decls) : decls[i].n = n
TypesOf(block) ==
  [n \in {block.decls[i].n : i \in 1 .. Len(block.decls)} \cup DOMAIN config.deps |->
     IF n \in DOMAIN config.deps THEN config.deps[n].type
     ELSE BaseOf(block.decls[NameAt(block.decls, n)].base)]
AddressesOf(slot, block) ==
  [n \in {block.decls[i].n : i \in 1 .. Len(block.decls)} \cup DOMAIN config.deps |->
     IF n \in DOMAIN config.deps THEN config.deps[n].addr
     ELSE ModelBase(slot) + NameAt(block.decls, n)]
FirstValues(slot, block) ==
  [a \in {ModelBase(slot) + i : i \in {j \in 1 .. Len(block.decls) : block.decls[j].init # <<>>}} |->
     block.decls[a - ModelBase(slot)].init[1]]
HasMeaning(block) == block.written /\ SoundBlock(block.decls, block.body, TypesOf(block))
Meant(slot, m) ==
  LET block == BlockOf(slot)
      start == IF slot \in compiled THEN m ELSE FirstValues(slot, block) @@ m
  IN IF m = Missing \/ ~HasMeaning(block) THEN Missing
     ELSE ExecAll(block.body, start, TypesOf(block), AddressesOf(slot, block))

(* run_code on the code kept from an earlier request. *)
Rerun ==
  /\ Serving /\ Requested \in compiled
  /\ mem' = WithInputs(mem)
  /\ want' = Meant(Requested, IF want = Missing THEN Missing ELSE WithInputs(want))
  /\ \E bx0 \in StaleReal : regs' = Started(Requested, bx0)
  /\ phase' = "run" /\ Ask
  /\ UNCHANGED <<compiled, env, code>>

(* The first request for a block compiles it; a syntax error is exit(-1).  *)
(* c is the environment after the compilation, m the memory at the call.   *)
RunOrRefuse(slot, c, m) ==
  IF c.failed
  THEN phase' = "refused" /\ UNCHANGED <<compiled, env, want, machine>>
  ELSE /\ code' = (slot :> RelocatedText(c, TextBase(slot), DataBase(slot))) @@ code
       /\ mem' = RelocatedData(c, DataBase(slot)) @@ Rewound(c).pool
                   @@ [a \in {p \in DOMAIN m : ~InPool(p)} |-> m[a]]
       /\ env' = [Rewound(c) EXCEPT !.pool = <<>>, !.syms = InitialSymbols]
       /\ compiled' = compiled \cup {slot}
       /\ want' = Meant(slot, IF want = Missing THEN Missing ELSE WithInputs(want))
       /\ \E bx0 \in StaleReal : regs' = Started(slot, bx0)
       /\ phase' = "run"
CompileAndRun ==
  /\ Serving /\ Requested # 0 /\ Requested \notin compiled
  /\ RunOrRefuse(Requested, CompiledBlock(Requested), WithInputs(mem))
  /\ Ask

Executing == phase = "run" /\ Execute /\ UNCHANGED <<collection, phase, cursor, compiled, env, want>>
Return ==
  /\ Answered /\ regs.state \in {"end", "unknown"}
  /\ regs' = [regs EXCEPT !.state = "idle"]
  /\ UNCHANGED <<compiled, env, want, code, mem>>
Die ==
  /\ Died /\ regs.state \in {"exit", "crash"}
  /\ UNCHANGED <<compiled, env, want, machine>>
End == Finished /\ UNCHANGED <<compiled, env, want, machine>>
Over == phase \in {"done", "exit", "refused"} /\ UNCHANGED vars

Next ==
  \/ Collected
  \/ PassOver \/ Rerun \/ CompileAndRun \/ Executing \/ Return \/ Die
  \/ End \/ Over
Spec == Init /\ [][Next]_vars

(***************************************************************************)
(* Properties.                                                             *)
(***************************************************************************)
HostAt(m) == [a \in DOMAIN HostCells |-> m[a]]
(* A block that means something is compiled, and once it has run, the      *)
(* variables of the host hold what its source                              *)
(* says: whatever was compiled before, however many blocks share the       *)
(* compiler, the machine and the pool, and whether it ran before.  (The    *)
(* grammar, label patching, type conversions and relocation of parser.c.)  *)
RunsAsWritten ==
  /\ phase = "refused" => ~HasMeaning(BlockOf(Requested))
  /\ phase = "run" /\ regs.state = "end" /\ want # Missing => HostAt(mem) = HostAt(want)

(* A block that means something stays in its own code, and reads and       *)
(* writes the host's cells and its own data only: every address it was     *)
(* compiled with has been relocated out of the compiler's pool             *)
(* (relocation.c).                                                         *)
OwnData(a) == \/ a \in DOMAIN HostCells
              \/ a \in DataBase(regs.slot) .. DataBase(regs.slot) + 999
StaysInBlock ==
  Running /\ want # Missing =>
    /\ InText(regs.pc)
    /\ Instruction \in Loads => OwnData(regs.ax)
    /\ Instruction \in {Op.SC, Op.SI, Op.SF, Op.SD} => regs.sp # <<>> /\ OwnData(Top)

(* Whatever was compiled, when it runs to its end both stacks are empty:   *)
(* each push of a left operand, an address or an argument, reserved as two *)
(* words or patched in place, has its pop on every path.                   *)
StacksBalanced == regs.state = "end" => regs.sp = <<>> /\ regs.fsp = <<>>
=============================================================================
