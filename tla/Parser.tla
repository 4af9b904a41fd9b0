------------------------------- MODULE Parser -------------------------------
(***************************************************************************)
(* parser.c, the grammar: expression(), statement(), global_declaration(), *)
(* parse_block_code() and compile_src_code().  A level is the token of the *)
(* weakest operator an expression may contain.                             *)
(***************************************************************************)
EXTENDS Compiler

RECURSIVE Expression(_, _), Infix(_, _), Arguments(_, _), Stars(_), Strings(_)

(***************************************************************************)
(* Prefix forms.                                                           *)
(***************************************************************************)
Constant(c) ==
  LET d == Match(c, Tk.Num)
  IN IF d.ntype = INT THEN [LoadInt(d, d.ival) EXCEPT !.etype = INT]
     ELSE [LoadReal(d, d.rval) EXCEPT !.etype = FLOAT]

(* Adjacent strings are joined; then data goes on to the next word. *)
Strings(c) == IF c.tk = Quote /\ ~c.failed THEN Strings(Match(c, Quote)) ELSE c
StringLiteral(c) ==
  LET d == Strings(Match(LoadInt(c, c.ival), Quote))
  IN [d EXCEPT !.dp = ((@ + 4) \div 4) * 4, !.etype = PTR]

SkipComma(c) == IF IsOp(c, ",") THEN MatchOp(c, ",") ELSE c
(* Arguments are pushed as integers, whatever their type. *)
Arguments(c, n) ==
  IF c.failed \/ IsOp(c, ")") THEN [c |-> c, n |-> n]
  ELSE Arguments(SkipComma(Emit(Expression(c, Tk.Assign), <<Op.PUSH>>)), n + 1)
(* A mutant: a single argument is left on the stack. *)
CleanupKeepingOne(n) == IF n > 1 THEN <<Op.ADJ, n>> ELSE <<>>
Cleanup(n) == IF n > 0 THEN <<Op.ADJ, n>> ELSE <<>>
Invoke(c, sym) ==
  CASE sym.class = Tk.Sys -> Emit(c, <<sym.value>>)
    [] sym.class = Tk.Fun -> Emit(c, <<Op.CALL, sym.value>>)
    [] OTHER -> Fail(c)
Invoked(args, id) ==
  LET c == MatchOp(args.c, ")")
  IN [Emit(Invoke(c, c.syms[id]), Cleanup(args.n)) EXCEPT !.etype = c.syms[id].type]
Call(c, id) == Invoked(Arguments(MatchOp(c, "("), 0), id)

(* A mutant: the address in the pool stays in the code. *)
VariableUnrelocated(c, id) ==
  IF c.syms[id].class \notin {Tk.Ext, Tk.Glo} THEN Fail(c)
  ELSE [Emit(c, <<Op.IMM, c.syms[id].value, LoadDirective(c.syms[id].type)>>)
          EXCEPT !.etype = c.syms[id].type]
(* A global's address is relocated with the data; an injected one is not. *)
Variable(c, id) ==
  LET sym == c.syms[id]
      d == CASE sym.class = Tk.Ext -> Emit(c, <<Op.IMM, sym.value>>)
             [] sym.class = Tk.Glo ->
                  Relocate(Emit(c, <<Op.IMM, sym.value>>), Here(c) + 1,
                           sym.value - c.dataPool, "data")
             [] OTHER -> Fail(c)
  IN [Emit(d, <<LoadDirective(sym.type)>>) EXCEPT !.etype = sym.type]

Named(c) ==
  CASE c.failed -> c
    [] ~c.failed /\ IsOp(c, "(") -> Call(c, c.id)
    [] ~c.failed /\ ~IsOp(c, "(") /\ c.syms[c.id].class = Tk.Num ->
         [LoadInt(c, c.syms[c.id].value) EXCEPT !.etype = INT]
    [] OTHER -> Variable(c, c.id)
Identifier(c) == Named(Match(c, Tk.Id))

(* The condition before a cast ends in "|| Double", a constant other than  *)
(* 0: every parenthesis opens a cast, to DOUBLE when no type follows.      *)
Stars(cast) ==
  IF cast.c.failed \/ ~IsOp(cast.c, "*") THEN cast
  ELSE Stars([c |-> MatchOp(cast.c, "*"), type |-> cast.type + PTR])
CastTo(c, type) ==
  IF c.failed THEN c ELSE [CheckAssignment(c, type, c.etype) EXCEPT !.etype = type]
Operand(cast) == CastTo(Expression(MatchOp(cast.c, ")"), Tk.Inc), cast.type)
TypeName(c) == Stars([c |-> Match(c, c.tk), type |-> TypeOfToken(c.tk)])
Parenthesis(c) == Operand(TypeName(MatchOp(c, "(")))

Loaded(c) ==
  IF c.failed \/ c.etype < PTR THEN Fail(c)
  ELSE [Emit(c, <<LoadDirective(c.etype - PTR)>>) EXCEPT !.etype = @ - PTR]
Dereference(c) == Loaded(Expression(MatchOp(c, "*"), Tk.Inc))

(* The load is taken back: what remains is the address. *)
Unloaded(c) ==
  IF c.failed \/ OnConstant(c) \/ LastWord(c) \notin Loads THEN Fail(c)
  ELSE [c EXCEPT !.text = SubSeq(@, 1, Len(@) - 1), !.etype = @ + PTR]
AddressOf(c) == Unloaded(Expression(MatchOp(c, "&"), Tk.Inc))

Negation(c) ==
  LET d == ToCondition(Expression(MatchOp(c, "!"), Tk.Inc))
  IN [Emit(d, <<Op.PUSH, Op.IMM, 0, Op.EQ>>) EXCEPT !.etype = INT]
IntegerResult(c, words) ==
  IF c.failed \/ IsReal(c.etype) THEN Fail(c) ELSE [Emit(c, words) EXCEPT !.etype = INT]
Complement(c) ==
  IntegerResult(Expression(MatchOp(c, "~"), Tk.Inc), <<Op.PUSH, Op.IMM, -1, Op.XOR>>)

(* -5 leaves expr_type as it was; -x multiplies ax, real or not. *)
Negated(c) ==
  CASE c.failed -> c
    [] ~c.failed /\ c.tk = Tk.Num ->
         Match(IF c.ntype \in {INT, CHAR} THEN LoadInt(c, -c.ival) ELSE LoadReal(c, -c.rval),
               Tk.Num)
    [] OTHER -> Emit(Expression(Emit(c, <<Op.IMM, -1, Op.PUSH>>), Tk.Inc), <<Op.MUL>>)
Minus(c) == Negated(MatchOp(c, "-"))

(* The load at the end of an lvalue becomes "push the address, then load". *)
KeepAddress(c) ==
  IF c.failed \/ LastWord(c) \notin {Op.LC, Op.LI} THEN Fail(c)
  ELSE Emit(SetWord(c, Len(c.text), Op.PUSH), <<LastWord(c)>>)
Step(c) == IF c.etype > PTR THEN 4 ELSE 1
StoreStepped(c, dir) ==
  Emit(c, <<Op.PUSH, Op.IMM, Step(c), dir, IF c.etype = CHAR THEN Op.SC ELSE Op.SI>>)
DirOf(tk) == IF tk = Tk.Inc THEN Op.ADD ELSE Op.SUB
UndoOf(tk) == IF tk = Tk.Inc THEN Op.SUB ELSE Op.ADD
SteppedFirst(c, dir) ==
  IF c.failed \/ OnConstant(c) \/ c.etype % PTR > INT THEN Fail(c)
  ELSE StoreStepped(KeepAddress(c), dir)
PrefixStep(c) == SteppedFirst(Expression(Match(c, c.tk), Tk.Inc), DirOf(c.tk))

Prefix(c) ==
  CASE c.failed \/ c.tk = 0 -> Fail(c)
    [] c.tk = Tk.Num -> Constant(c)
    [] c.tk = Quote -> StringLiteral(c)
    [] c.tk = Tk.Id -> Identifier(c)
    [] IsOp(c, "(") -> Parenthesis(c)
    [] IsOp(c, "*") -> Dereference(c)
    [] IsOp(c, "&") -> AddressOf(c)
    [] IsOp(c, "!") -> Negation(c)
    [] IsOp(c, "~") -> Complement(c)
    [] IsOp(c, "+") -> Expression(MatchOp(c, "+"), Tk.Inc)
    [] IsOp(c, "-") -> Minus(c)
    [] c.tk \in {Tk.Inc, Tk.Dec} -> PrefixStep(c)
    [] OTHER -> Fail(c)

(***************************************************************************)
(* Infix and postfix forms.                                                *)
(***************************************************************************)
Stored(c, type) == Emit(CastTo(c, type), <<StoreDirective(type)>>)
Assignment(c) ==
  IF LastWord(c) \notin Loads THEN Fail(c)
  ELSE Stored(Expression(SetWord(MatchOp(c, "="), Len(c.text), Op.PUSH), Tk.Assign), c.etype)

(* The word at b jumps to what comes next, or past a jump put here. *)
Land(c, b) == Label(c, b, Here(c))
JumpOver(c, b) == Emit(Label(c, b, Here(c) + 2), <<Op.JMP, 0>>)

CondElse(c) == Land(Expression(c, Tk.Cond), Len(c.text))
CondThen(c) == CondElse(JumpOver(MatchOp(Expression(c, Tk.Assign), ":"), Len(c.text)))
Conditional(c) == CondThen(Emit(ToCondition(MatchOp(c, "?")), <<Op.JZ, 0>>))

(* && and || : jump over the right operand, whose type is not looked at. *)
RightOperand(c, level) == [Land(Expression(c, level), Len(c.text)) EXCEPT !.etype = INT]
ShortCircuit(c, jump, level) ==
  RightOperand(Emit(ToCondition(Match(c, c.tk)), <<jump, 0>>), level)

(* | ^ & look at the type of the right operand only. *)
Bitwise(c, level, op) ==
  IntegerResult(Expression(Emit(Match(c, c.tk), <<Op.PUSH>>), level), <<op>>)

Shifted(c, left, op) ==
  IF c.failed \/ IsReal(left) \/ c.etype = FLOAT THEN Fail(c)
  ELSE [Emit(c, <<op>>) EXCEPT !.etype = INT]
Shift(c, op) ==
  Shifted(Expression(Emit(Match(c, c.tk), <<Op.PUSH>>), Tk.Add), c.etype, op)

(* The operators that have an instruction for real numbers; a right operand *)
(* added to is scaled when it is a pointer.                                 *)
ScaledBy4(c) ==
  IF c.failed \/ c.etype <= PTR THEN c ELSE Emit(c, <<Op.PUSH, Op.IMM, 4, Op.MUL>>)
Binary(c, level, opReal, opInt) ==
  LET d == BinaryLeft(Match(c, c.tk))
      e == Expression(d, level)
  IN BinaryRight(IF IsOp(c, "+") THEN ScaledBy4(e) ELSE e, opReal, opInt,
                 IF IsReal(c.etype) THEN 0 ELSE Len(d.text) - 1)
Relational(c, level, opReal, opInt) ==
  [Binary(c, level, opReal, opInt) EXCEPT !.etype = INT]

(* The type of the left operand is taken from tmp, which nothing assigns. *)
Subtracted(c) ==
  CASE c.failed -> c
    [] ~c.failed /\ c.tmp > PTR /\ c.tmp = c.etype ->
         [Emit(c, <<Op.SUB, Op.PUSH, Op.IMM, 4, Op.DIV>>) EXCEPT !.etype = INT]
    [] ~c.failed /\ c.tmp > PTR /\ c.tmp # c.etype ->
         [Emit(c, <<Op.PUSH, Op.IMM, 4, Op.MUL, Op.SUB>>) EXCEPT !.etype = c.tmp]
    [] OTHER -> [Emit(c, <<Op.SUB>>) EXCEPT !.etype = c.tmp]
Subtraction(c) == Subtracted(Expression(Emit(MatchOp(c, "-"), <<Op.PUSH>>), Tk.Mul))

Remainder(c, left) ==
  IF c.failed \/ {left, c.etype} \ {INT, CHAR} # {} THEN Fail(c)
  ELSE [Emit(c, <<Op.MOD>>) EXCEPT !.etype = INT]
Modulo(c) == Remainder(Expression(Emit(MatchOp(c, "%"), <<Op.PUSH>>), Tk.Inc), c.etype)

PostfixStep(c) ==
  LET d == StoreStepped(KeepAddress(c), DirOf(c.tk))
  IN Match(Emit(d, <<Op.PUSH, Op.IMM, Step(c), UndoOf(c.tk)>>), c.tk)

Indexed(c, base) ==
  IF c.failed \/ base < PTR THEN Fail(c)
  ELSE [Emit(c, IF base = PTR THEN <<Op.ADD, Op.LC>>
                ELSE <<Op.PUSH, Op.IMM, 4, Op.MUL, Op.ADD, Op.LI>>)
          EXCEPT !.etype = base - PTR]
Index(c) ==
  Indexed(MatchOp(Expression(Emit(MatchOp(c, "["), <<Op.PUSH>>), Tk.Assign), "]"), c.etype)

InfixStep(c) ==
  CASE IsOp(c, "=") -> Assignment(c)
    [] IsOp(c, "?") -> Conditional(c)
    [] IsOp(c, "||") -> ShortCircuit(c, Op.JNZ, Tk.Lan)
    [] IsOp(c, "&&") -> ShortCircuit(c, Op.JZ, Tk.Or)
    [] IsOp(c, "|") -> Bitwise(c, Tk.Xor, Op.OR)
    [] IsOp(c, "^") -> Bitwise(c, Tk.And, Op.XOR)
    [] IsOp(c, "&") -> Bitwise(c, Tk.Eq, Op.AND)
    [] IsOp(c, "==") -> Relational(c, Tk.Ne, Op.EQF, Op.EQ)
    [] IsOp(c, "!=") -> Relational(c, Tk.Lt, Op.NEF, Op.NE)
    [] IsOp(c, "<") -> Relational(c, Tk.Shl, Op.LTF, Op.LT)
    [] IsOp(c, ">") -> Relational(c, Tk.Shl, Op.GTF, Op.GT)
    [] IsOp(c, "<=") -> Relational(c, Tk.Shl, Op.LEF, Op.LE)
    [] IsOp(c, ">=") -> Relational(c, Tk.Shl, Op.GEF, Op.GE)
    [] IsOp(c, "<<") -> Shift(c, Op.SHL)
    [] IsOp(c, ">>") -> Shift(c, Op.SHR)
    [] IsOp(c, "+") -> Binary(c, Tk.Mul, Op.ADDF, Op.ADD)
    [] IsOp(c, "-") -> Subtraction(c)
    [] IsOp(c, "*") -> Binary(c, Tk.Inc, Op.MULF, Op.MUL)
    [] IsOp(c, "/") -> Binary(c, Tk.Inc, Op.DIVF, Op.DIV)
    [] IsOp(c, "%") -> Modulo(c)
    [] c.tk \in {Tk.Inc, Tk.Dec} -> PostfixStep(c)
    [] IsOp(c, "[") -> Index(c)
    [] OTHER -> Fail(c)

Infix(c, level) == IF c.failed \/ c.tk < level THEN c ELSE Infix(InfixStep(c), level)
Expression(c, level) == Infix(Prefix(c), level)

(***************************************************************************)
(* Statements.  A condition stands between MatchOp "(" and ")".            *)
(***************************************************************************)
RECURSIVE Statement(_), Statements(_)
ConditionCode(c) == ToCondition(MatchOp(Expression(MatchOp(c, "("), Tk.Assign), ")"))

ElseBody(c) == Land(Statement(c), Len(c.text))
ElsePart(c, b) ==
  IF c.failed \/ c.tk # Tk.Else THEN Land(c, b) ELSE ElseBody(JumpOver(Match(c, Tk.Else), b))
ThenPart(c) == ElsePart(Statement(c), Len(c.text))
IfStatement(c) ==
  ThenPart(Emit(ConditionCode(Match(c, Tk.If)), <<Op.JZ, 0>>))

LoopBack(c, exit, start) == Land(Label(c, Len(c.text), start), exit)
WhileBody(c, start) == LoopBack(Emit(Statement(c), <<Op.JMP, 0>>), Len(c.text), start)
WhileStatement(c) ==
  WhileBody(Emit(ConditionCode(Match(c, Tk.While)), <<Op.JZ, 0>>), Here(c))

ReturnValue(c) == IF IsOp(c, ";") THEN c ELSE Expression(c, Tk.Assign)
ReturnStatement(c) ==
  Emit(MatchOp(ReturnValue(Match(c, Tk.Return)), ";"), <<Op.LEV>>)

Statements(c) == IF c.failed \/ IsOp(c, "}") THEN c ELSE Statements(Statement(c))
Statement(c) ==
  CASE c.failed -> c
    [] c.tk = Tk.If -> IfStatement(c)
    [] c.tk = Tk.While -> WhileStatement(c)
    [] IsOp(c, "{") -> MatchOp(Statements(MatchOp(c, "{")), "}")
    [] c.tk = Tk.Return -> ReturnStatement(c)
    [] IsOp(c, ";") -> MatchOp(c, ";")
    [] OTHER -> MatchOp(Expression(c, Tk.Assign), ";")

(***************************************************************************)
(* Declarations in the use block.  Values go to the data segment, at dp.   *)
(***************************************************************************)
RECURSIVE Declarators(_), Initializers(_, _, _), MoreInitializers(_, _, _)
RECURSIVE PointerTo(_, _), Declarations(_)

ToInt(r) == IF r >= 0 THEN r \div RealUnit ELSE -((-r) \div RealUnit)
Poke(c, a, v) == [c EXCEPT !.pool = (a :> v) @@ @]
(* What is declared is the identifier that was read last. *)
Declare(c, type, value) ==
  [c EXCEPT !.syms[c.id] = [@ EXCEPT !.class = Tk.Glo, !.type = type, !.value = value]]

Initializers(c, a, n) ==
  IF c.failed \/ n = 0 THEN IF IsOp(c, "}") THEN MatchOp(c, "}") ELSE c
  ELSE MoreInitializers(Match(Poke(c, a, c.ival), Tk.Num), a + 4, n - 1)
MoreInitializers(c, a, n) ==
  IF IsOp(c, "}") THEN Initializers(MatchOp(c, "}"), a, 0) ELSE Initializers(SkipComma(c), a, n)

(* An array is a pointer, kept in data, to the elements behind it.  The    *)
(* pointer holds an address in the pool and is not relocated.              *)
ArrayDeclarator(c, type) ==
  LET d == Advance(c)
      keeper == d.dp
      e == Declare(Poke(d, keeper, keeper + 4), type + PTR, keeper)
      f == MatchOp(Match([e EXCEPT !.dp = keeper + 4 + 4 * d.ival], Tk.Num), "]")
  IN IF IsOp(f, "=")
     THEN Initializers(MatchOp(MatchOp(f, "="), "{"), keeper + 4, d.ival)
     ELSE f

(* The value of an initialiser, for the base type of the declaration. *)
Initial(c) ==
  IF IsReal(c.base) THEN IF c.ntype = FLOAT THEN c.rval ELSE RealUnit * c.ival
  ELSE IF c.ntype = INT THEN c.ival ELSE ToInt(c.rval)
(* A char is initialised as an int is, in the whole word. *)
ScalarDeclarator(c, type) ==
  LET d == Declare(c, type, c.dp)
      e == Advance(d)
      f == IF IsOp(d, "=") THEN Match(Poke(e, e.dp, Initial(e)), Tk.Num) ELSE d
      size == IF c.base \in {INT, CHAR, FLOAT} \/ type > PTR THEN 4 ELSE 8
  IN [f EXCEPT !.dp = @ + size]

PointerTo(c, type) ==
  IF c.failed \/ ~IsOp(c, "*") THEN [c |-> c, type |-> type]
  ELSE PointerTo(MatchOp(c, "*"), type + PTR)
(* current_id is looked at before match(Id) and written behind it: should  *)
(* another identifier follow, it is that one which is declared.            *)
Declarator(c) ==
  LET p == PointerTo(c, c.base)
      d == Match(p.c, Tk.Id)
      typed == [d EXCEPT !.syms[d.id].type = p.type]
      e == IF IsOp(d, "[") THEN ArrayDeclarator(typed, p.type) ELSE ScalarDeclarator(typed, p.type)
  IN IF p.c.failed \/ p.c.tk # Tk.Id \/ p.c.syms[p.c.id].class # 0 THEN Fail(p.c)
     ELSE IF IsOp(e, ",") THEN MatchOp(e, ",") ELSE e

Declarators(c) ==
  IF c.failed \/ IsOp(c, ";") \/ IsOp(c, "}") THEN c ELSE Declarators(Declarator(c))
GlobalDeclaration(c) ==
  Advance(Declarators(IF c.tk \in {Tk.Int, Tk.Char, Tk.Float, Tk.Double}
                      THEN [Match(c, c.tk) EXCEPT !.base = TypeOfToken(c.tk)] ELSE c))
Declarations(c) ==
  IF c.failed \/ IsOp(c, "}") THEN c ELSE Declarations(GlobalDeclaration(c))

(***************************************************************************)
(* One compilation: the symbol table is made anew, the dependencies are    *)
(* entered, the block is parsed and an EXIT put behind it.                 *)
(***************************************************************************)
Keywords ==
  ("char" :> Tk.Char) @@ ("int" :> Tk.Int) @@ ("float" :> Tk.Float) @@
  ("double" :> Tk.Double) @@ ("if" :> Tk.If) @@ ("else" :> Tk.Else) @@
  ("while" :> Tk.While) @@ ("return" :> Tk.Return) @@ ("void" :> Tk.Char)
Library ==
  ("open" :> Op.OPEN) @@ ("read" :> Op.READ) @@ ("close" :> Op.CLOS) @@
  ("printf" :> Op.PRTF) @@ ("malloc" :> Op.MALC) @@ ("memset" :> Op.MSET) @@
  ("memcmp" :> Op.MCMP) @@ ("exit" :> Op.EXIT)
InitialSymbols ==
  [n \in DOMAIN Keywords |-> [NoSymbol EXCEPT !.tk = Keywords[n]]] @@
  [n \in DOMAIN Library |->
     [tk |-> Tk.Id, class |-> Tk.Sys, type |-> FLOAT, value |-> Library[n]]]

(* deps: the variables of the host a block may use, by name. *)
Injected(deps) ==
  [n \in DOMAIN deps |->
     [tk |-> Tk.Id, class |-> Tk.Ext, type |-> deps[n].type, value |-> deps[n].addr]]

(* Without a use or an action block the parser returns, and what it has is *)
(* the code.                                                               *)
ActionBlock(c) ==
  IF c.failed \/ c.id # "action" THEN c
  ELSE MatchOp(Statements(MatchOp(Advance(c), "{")), "}")
UseBlock(c) ==
  IF c.id # "use" THEN c
  ELSE ActionBlock(MatchOp(Declarations(MatchOp(Advance(c), "{")), "}"))
BlockCode(c) == UseBlock(NextToken(c))

(* compile_src_code up to relocation, in an environment c. *)
Compiled(c, deps, src) ==
  Emit(BlockCode([c EXCEPT !.syms = Injected(deps) @@ InitialSymbols, !.src = src]),
       <<Op.EXIT>>)

(* relocation: text and data are copied; the words on the list get the     *)
(* addresses they have in the copies.  Code starts at the second word.     *)
RelocatedText(c, newText, newData) ==
  [i \in 1 .. Len(c.text) |->
     IF \E r \in 1 .. Len(c.rels) : c.rels[r].loc = i
     THEN LET r == CHOOSE r \in 1 .. Len(c.rels) :
                     /\ c.rels[r].loc = i
                     /\ \A q \in r + 1 .. Len(c.rels) : c.rels[q].loc # i
          IN c.rels[r].off + (IF c.rels[r].kind = "data" THEN newData ELSE newText)
     ELSE c.text[i]]
RelocatedData(c, newData) ==
  [a \in {newData + (p - c.dataPool) : p \in {q \in DOMAIN c.pool : q < c.dp}} |->
     c.pool[c.dataPool + (a - newData)]]

(* reset_complie_environment: clears behind text and data, then rewinds    *)
(* both.  What this block wrote to its data stays in the pool.             *)
Rewound(c) ==
  [c EXCEPT !.text = <<0>>, !.rels = <<>>, !.dp = c.dataPool,
            !.pool = [a \in {p \in DOMAIN @ : p < c.dp \/ p >= c.dp + (c.dp - c.dataPool)} |-> @[a]]]

(* parser_init, and what the static variables hold at first. *)
InitialEnvironment(textPool, dataPool, tmp) ==
  [src |-> <<>>, tk |-> 0, id |-> "", ival |-> 0, rval |-> 0, ntype |-> CHAR,
   etype |-> CHAR, base |-> CHAR, syms |-> InitialSymbols, text |-> <<0>>,
   rels |-> <<>>, pool |-> [a \in {} |-> 0], dp |-> dataPool,
   textPool |-> textPool, dataPool |-> dataPool, tmp |-> tmp, failed |-> FALSE]
=============================================================================
