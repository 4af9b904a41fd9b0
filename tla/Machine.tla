------------------------------ MODULE Machine -------------------------------
(***************************************************************************)
(* interpreter/executor.c: eval(), the machine that runs a code block.     *)
(* ax holds integers and addresses, bx real numbers; each has a stack.     *)
(* One action per group of instructions; a step executes one instruction.  *)
(*                                                                         *)
(* Not emitted by the compiler, and left out: LEA, CALL and ENT, for       *)
(* functions a block cannot define.  malloc, memset and memcmp are left    *)
(* out too: what they return is typed FLOAT and lost (parser.c:1219).      *)
(***************************************************************************)
EXTENDS Compiler, Bitwise

CONSTANT StackSize      \* words on each stack (STACK_SIZE)
ASSUME MachineAssumption == StackSize \in Nat \ {0}

VARIABLES
  code,   \* the compiled blocks: from slots to sequences of words
  mem,    \* memory: from addresses to values; what is not there is 0
  regs    \* the registers, and the slot of the block that runs

(* Where the copies made by relocation() lie; nothing is mapped below 100. *)
TextBase(slot) == 2000 * slot
DataBase(slot) == TextBase(slot) + 1000
Mapped(a) == a >= 100
Cell(a) == IF a \in DOMAIN mem THEN mem[a] ELSE 0

Running == regs.state = "run"
IndexOf(a) == (a - TextBase(regs.slot)) \div 4 + 1
InText(a) == IndexOf(a) \in 1 .. Len(code[regs.slot]) /\ (a % 4) = 0
Word(n) == code[regs.slot][IndexOf(regs.pc) + n]
Instruction == Word(0)
Executes(ops) == Running /\ InText(regs.pc) /\ Instruction \in ops

(* The registers of run_code: empty stacks; ax, bx and bp keep what the    *)
(* last run left in them (bx is a local: it starts with any value, bx0).   *)
Started(slot, bx0) ==
  [regs EXCEPT !.slot = slot, !.pc = TextBase(slot) + 4, !.sp = <<>>, !.fsp = <<>>,
               !.bx = bx0, !.state = "run"]
After(n) == regs.pc + 4 * n
Crash == regs' = [regs EXCEPT !.state = "crash"]
Top == Head(regs.sp)

(***************************************************************************)
(* Conversions.                                                            *)
(***************************************************************************)
TowardZero(a, b) ==
  LET q == (IF a < 0 THEN -a ELSE a) \div (IF b < 0 THEN -b ELSE b)
  IN IF (a < 0) = (b < 0) THEN q ELSE -q
Truth(b) == IF b THEN 1 ELSE 0

(***************************************************************************)
(* Instructions that move data.                                            *)
(***************************************************************************)
Immediate ==
  \/ /\ Executes({Op.IMM})
     /\ regs' = [regs EXCEPT !.ax = Word(1), !.pc = After(2)]
     /\ UNCHANGED <<code, mem>>
  \/ /\ Executes({Op.FIMM})
     /\ regs' = [regs EXCEPT !.bx = Word(1), !.pc = After(3)]
     /\ UNCHANGED <<code, mem>>

Load ==
  /\ Executes({Op.LC, Op.LI, Op.LF, Op.LD})
  /\ IF ~Mapped(regs.ax) THEN Crash
     ELSE regs' = [IF Instruction \in {Op.LF, Op.LD}
                   THEN [regs EXCEPT !.bx = Cell(regs.ax)]
                   ELSE [regs EXCEPT !.ax = IF Instruction = Op.LC THEN FirstByte(Cell(@)) ELSE Cell(@)]
                     EXCEPT !.pc = After(1)]
  /\ UNCHANGED <<code, mem>>

(* A character replaces the first byte of its cell, and is left in ax.     *)
Store ==
  /\ Executes({Op.SC, Op.SI, Op.SF, Op.SD})
  /\ IF regs.sp = <<>> \/ ~Mapped(Top) THEN Crash /\ UNCHANGED mem
     ELSE /\ mem' = (Top :> CASE Instruction = Op.SI -> regs.ax
                              [] Instruction = Op.SC -> WithFirstByte(Cell(Top), regs.ax)
                              [] OTHER -> regs.bx) @@ mem
          /\ regs' = [regs EXCEPT !.sp = Tail(@), !.pc = After(1),
                                  !.ax = IF Instruction = Op.SC THEN Byte(@) ELSE @]
  /\ UNCHANGED code

Convert ==
  /\ Executes({Op.ATOB, Op.BTOA, Op.NOP})
  /\ regs' = [regs EXCEPT !.pc = After(1),
                          !.bx = IF Instruction = Op.ATOB THEN RealUnit * regs.ax ELSE @,
                          !.ax = IF Instruction = Op.BTOA
                                 THEN TowardZero(regs.bx, RealUnit) ELSE @]
  /\ UNCHANGED <<code, mem>>

Push ==
  /\ Executes({Op.PUSH, Op.PUSF})
  /\ LET grown == IF Instruction = Op.PUSH THEN [regs EXCEPT !.sp = <<regs.ax>> \o @]
                  ELSE [regs EXCEPT !.fsp = <<regs.bx>> \o @]
     IN IF Len(grown.sp) > StackSize \/ Len(grown.fsp) > StackSize THEN Crash
        ELSE regs' = [grown EXCEPT !.pc = After(1)]
  /\ UNCHANGED <<code, mem>>

(***************************************************************************)
(* Jumps.                                                                  *)
(***************************************************************************)
Jump ==
  /\ Executes({Op.JMP, Op.JZ, Op.JNZ})
  /\ regs' = [regs EXCEPT !.pc = IF \/ Instruction = Op.JMP
                                    \/ Instruction = Op.JZ /\ regs.ax = 0
                                    \/ Instruction = Op.JNZ /\ regs.ax # 0
                                 THEN Word(1) ELSE After(2)]
  /\ UNCHANGED <<code, mem>>

(***************************************************************************)
(* Arithmetic.  A division by zero ends the program, a modulo traps.       *)
(***************************************************************************)
IntOps == {Op.OR, Op.XOR, Op.AND, Op.EQ, Op.NE, Op.LT, Op.LE, Op.GT, Op.GE, Op.SHL,
           Op.SHR, Op.ADD, Op.SUB, Op.MUL, Op.DIV, Op.MOD}
IntResult(op, a, b) ==
  CASE op = Op.OR -> Int32((a % WordValues) | (b % WordValues))
    [] op = Op.XOR -> Int32((a % WordValues) ^^ (b % WordValues))
    [] op = Op.AND -> Int32((a % WordValues) & (b % WordValues))
    [] op = Op.EQ -> Truth(a = b)
    [] op = Op.NE -> Truth(a # b)
    [] op = Op.LT -> Truth(a < b)
    [] op = Op.LE -> Truth(a <= b)
    [] op = Op.GT -> Truth(a > b)
    [] op = Op.GE -> Truth(a >= b)
    [] op = Op.SHL -> Int32(a * 2^(b % WordBits))
    [] op = Op.SHR -> a \div 2^(b % WordBits)
    [] op = Op.ADD -> Int32(a + b)
    [] op = Op.SUB -> Int32(a - b)
    [] op = Op.MUL -> Int32(a * b)
    [] op = Op.DIV -> TowardZero(a, b)
    [] op = Op.MOD -> a - b * TowardZero(a, b)
Calculate ==
  /\ Executes(IntOps)
  /\ regs' = CASE Instruction = Op.DIV /\ regs.ax = 0 -> [regs EXCEPT !.state = "exit"]
               [] Instruction = Op.MOD /\ regs.ax = 0 -> [regs EXCEPT !.state = "crash"]
               [] regs.sp = <<>> -> [regs EXCEPT !.state = "crash"]
               [] OTHER -> [regs EXCEPT !.ax = IntResult(Instruction, Top, @),
                                        !.sp = Tail(@), !.pc = After(1)]
  /\ UNCHANGED <<code, mem>>

RealCompares == {Op.EQF, Op.NEF, Op.LTF, Op.LEF, Op.GTF, Op.GEF}
RealCompare(op, a, b) ==
  Truth(CASE op = Op.EQF -> a = b [] op = Op.NEF -> a # b [] op = Op.LTF -> a < b
          [] op = Op.LEF -> a <= b [] op = Op.GTF -> a > b [] op = Op.GEF -> a >= b)
RealResult(op, a, b) ==
  CASE op = Op.ADDF -> a + b
    [] op = Op.MULF -> TowardZero(a * b, RealUnit)
    [] op = Op.DIVF -> TowardZero(a * RealUnit, b)
CalculateReal ==
  /\ Executes(RealCompares \cup {Op.ADDF, Op.MULF, Op.DIVF})
  /\ regs' = CASE Instruction = Op.DIVF /\ regs.bx = 0 -> [regs EXCEPT !.state = "exit"]
               [] regs.fsp = <<>> -> [regs EXCEPT !.state = "crash"]
               [] OTHER ->
                    LET a == Head(regs.fsp)
                        next == [regs EXCEPT !.fsp = Tail(@), !.pc = After(1)]
                    IN IF Instruction \in RealCompares
                       THEN [next EXCEPT !.ax = RealCompare(Instruction, a, regs.bx)]
                       ELSE [next EXCEPT !.bx = RealResult(Instruction, a, @)]
  /\ UNCHANGED <<code, mem>>

(***************************************************************************)
(* printf and the instruction that drops its arguments; LEV reads the      *)
(* frame at bp, which no ENT has set; EXIT ends the run, and so does an    *)
(* instruction the machine does not know (open, read and close), wherever  *)
(* it stands.                                                              *)
(***************************************************************************)
CallLibrary ==
  \/ /\ Executes({Op.PRTF})
     /\ \E printed \in {0, 1} : regs' = [regs EXCEPT !.ax = printed, !.pc = After(1)]
     /\ UNCHANGED <<code, mem>>
  \/ /\ Executes({Op.ADJ})
     /\ regs' = [regs EXCEPT !.sp = SubSeq(@, Word(1) + 1, Len(@)), !.pc = After(2)]
     /\ UNCHANGED <<code, mem>>
Leave == Executes({Op.LEV}) /\ Crash /\ UNCHANGED <<code, mem>>
Finish ==
  /\ Executes({Op.EXIT, Op.OPEN, Op.READ, Op.CLOS})
  /\ regs' = [regs EXCEPT !.state = IF Instruction = Op.EXIT THEN "end" ELSE "unknown"]
  /\ UNCHANGED <<code, mem>>

Execute ==
  \/ Immediate \/ Load \/ Store \/ Convert \/ Push \/ Jump
  \/ Calculate \/ CalculateReal \/ CallLibrary \/ Leave \/ Finish
=============================================================================
