--------------------------- MODULE BlockSemantics ---------------------------
(***************************************************************************)
(* What a code block means: the subset of C it is written in, given as     *)
(* syntax trees, their value and effect on a memory, and the lexemes they  *)
(* are written as.  The trees that the compiler gives another meaning are  *)
(* told apart by Sound; each conjunct there is a known departure from C.   *)
(*                                                                         *)
(* A tree is a record with the kind t.  No parentheses are written: a tree *)
(* must be one that C's precedences build.  A real literal is written with *)
(* a digit before its point and a blank behind it: next() ends the program *)
(* at any other than a blank, "," or ";" (lex.c:399) and reads .5 as 0     *)
(* (lex.c:388).                                                            *)
(***************************************************************************)
EXTENDS Parser, Machine

(***************************************************************************)
(* Trees and their lexemes.                                                *)
(***************************************************************************)
Lit(v) == [t |-> "int", v |-> v]
Dbl(v) == [t |-> "real", v |-> v]
Neg(v) == [t |-> "neg", v |-> v]
Var(n) == [t |-> "var", n |-> n]
Bin(op, l, r) == [t |-> "bin", op |-> op, l |-> l, r |-> r]
Un(op, e) == [t |-> "un", op |-> op, e |-> e]
Cast(base, stars, e) == [t |-> "cast", base |-> base, stars |-> stars, e |-> e]
Asg(l, r) == [t |-> "asg", l |-> l, r |-> r]
Cond(c, a, b) == [t |-> "cond", c |-> c, a |-> a, b |-> b]
Idx(l, i) == [t |-> "idx", l |-> l, i |-> i]
PreStep(op, l) == [t |-> "pre", op |-> op, l |-> l]
PostStep(op, l) == [t |-> "post", op |-> op, l |-> l]
If(c, a) == [t |-> "if", c |-> c, a |-> a]
IfElse(c, a, b) == [t |-> "ifelse", c |-> c, a |-> a, b |-> b]
While(c, a) == [t |-> "while", c |-> c, a |-> a]
Compound(ss) == [t |-> "compound", ss |-> ss]
Nop == [t |-> "nop"]
(* A variable of the use block; init is a sequence of at most one value. *)
Decl(base, n, init) == [base |-> base, n |-> n, init |-> init]

O(n) == [k |-> "op", n |-> n]
W(n) == [k |-> "id", n |-> n]
Number(e) == [k |-> e.t, v |-> e.v]
Blank == [k |-> "blank"]
Times(n, x) == [i \in 1 .. n |-> x]

RECURSIVE Lexemes(_), Terminated(_), LexemesOfAll(_)
Lexemes(e) ==
  CASE e.t = "int" -> <<Number(e)>>
    [] e.t = "real" -> <<Number(e), Blank>>
    [] e.t = "neg" -> <<O("-"), [k |-> "int", v |-> e.v]>>
    [] e.t = "var" -> <<W(e.n)>>
    [] e.t = "bin" -> Lexemes(e.l) \o <<O(e.op)>> \o Lexemes(e.r)
    [] e.t = "un" -> <<O(e.op)>> \o Lexemes(e.e)
    [] e.t = "cast" -> <<O("("), W(e.base)>> \o Times(e.stars, O("*")) \o <<O(")")>> \o Lexemes(e.e)
    [] e.t = "asg" -> Lexemes(e.l) \o <<O("=")>> \o Lexemes(e.r)
    [] e.t = "cond" -> Lexemes(e.c) \o <<O("?")>> \o Lexemes(e.a) \o <<O(":")>> \o Lexemes(e.b)
    [] e.t = "idx" -> Lexemes(e.l) \o <<O("[")>> \o Lexemes(e.i) \o <<O("]")>>
    [] e.t = "pre" -> <<O(e.op)>> \o Lexemes(e.l)
    [] e.t = "post" -> Lexemes(e.l) \o <<O(e.op)>>
    [] e.t = "if" -> <<W("if"), O("(")>> \o Lexemes(e.c) \o <<O(")")>> \o Terminated(e.a)
    [] e.t = "ifelse" -> Lexemes(If(e.c, e.a)) \o <<W("else")>> \o Terminated(e.b)
    [] e.t = "while" -> <<W("while"), O("(")>> \o Lexemes(e.c) \o <<O(")")>> \o Terminated(e.a)
    [] e.t = "compound" -> <<O("{")>> \o LexemesOfAll(e.ss) \o <<O("}")>>
    [] e.t = "nop" -> <<O(";")>>
IsStatement(e) == e.t \in {"if", "ifelse", "while", "compound", "nop"}
(* A statement that is an expression ends in ";". *)
Terminated(e) == IF IsStatement(e) THEN Lexemes(e) ELSE Lexemes(e) \o <<O(";")>>
LexemesOfAll(ss) == IF ss = <<>> THEN <<>> ELSE Terminated(Head(ss)) \o LexemesOfAll(Tail(ss))

DeclLexemes(d) ==
  <<W(d.base), W(d.n)>>
    \o (IF d.init = <<>> THEN <<>>
        ELSE <<O("="), [k |-> IF d.base \in {"float", "double"} THEN "real" ELSE "int",
                        v |-> d.init[1]]>>)
    \o <<O(";")>>
RECURSIVE DeclsLexemes(_)
DeclsLexemes(ds) == IF ds = <<>> THEN <<>> ELSE DeclLexemes(Head(ds)) \o DeclsLexemes(Tail(ds))

(* A block that uses nothing is written "use{;}". *)
BlockLexemes(decls, ss) ==
  <<W("use"), O("{")>> \o (IF decls = <<>> THEN <<O(";")>> ELSE DeclsLexemes(decls))
    \o <<O("}"), W("action"), O("{")>> \o LexemesOfAll(ss) \o <<O("}")>>

(***************************************************************************)
(* Types.  T gives the type of each variable.                              *)
(***************************************************************************)
BaseOf(base) == TypeOfToken(Keywords[base])
Integral(type) == type \in {CHAR, INT}
Boolean(e) ==
  \/ e.t = "bin" /\ e.op \in {"==", "!=", "<", ">", "<=", ">=", "&&", "||"}
  \/ e.t = "un" /\ e.op = "!"
RECURSIVE Type(_, _)
Type(e, T) ==
  CASE e.t \in {"int", "neg"} -> INT
    [] e.t = "real" -> DOUBLE
    [] e.t = "var" -> T[e.n]
    [] e.t = "bin" /\ e.op \in {"+", "*", "/"} ->
         IF IsReal(Type(e.l, T)) \/ IsReal(Type(e.r, T)) THEN DOUBLE
         ELSE IF Type(e.l, T) >= PTR THEN Type(e.l, T) ELSE INT
    [] e.t = "bin" /\ e.op \notin {"+", "*", "/"} -> INT
    [] e.t = "un" /\ e.op = "*" -> Type(e.e, T) - PTR
    [] e.t = "un" /\ e.op = "&" -> Type(e.e, T) + PTR
    [] e.t = "un" /\ e.op \in {"-", "+"} -> IF IsReal(Type(e.e, T)) THEN DOUBLE ELSE INT
    [] e.t = "un" /\ e.op \in {"!", "~"} -> INT
    [] e.t = "cast" -> BaseOf(e.base) + PTR * e.stars
    [] e.t \in {"asg", "pre", "post"} -> Type(e.l, T)
    [] e.t = "cond" -> Type(e.a, T)
    [] e.t = "idx" -> Type(e.l, T) - PTR

(***************************************************************************)
(* Values and effects.  at gives the address of each variable, m is the    *)
(* memory; an expression has a value v and leaves a memory m.              *)
(***************************************************************************)
LoadAs(m, a, type) ==
  LET w == IF a \in DOMAIN m THEN m[a] ELSE 0 IN IF type = CHAR THEN FirstByte(w) ELSE w
StoreAs(m, a, v, type) ==
  (a :> IF type = CHAR THEN WithFirstByte(IF a \in DOMAIN m THEN m[a] ELSE 0, v) ELSE v) @@ m
As(v, from, to) ==
  CASE IsReal(from) /\ IsReal(to) -> v
    [] IsReal(from) /\ ~IsReal(to) -> TowardZero(v, RealUnit)
    [] ~IsReal(from) /\ IsReal(to) -> RealUnit * v
    [] OTHER -> v
Scale(type) == IF type > PTR THEN 4 ELSE 1

Arithmetic(op, a, b) ==
  CASE op = "|" -> Int32((a % WordValues) | (b % WordValues))
    [] op = "^" -> Int32((a % WordValues) ^^ (b % WordValues))
    [] op = "&" -> Int32((a % WordValues) & (b % WordValues))
    [] op = "<<" -> Int32(a * 2^(b % WordBits))
    [] op = ">>" -> a \div 2^(b % WordBits)
    [] op = "+" -> Int32(a + b)
    [] op = "*" -> Int32(a * b)
    [] op = "/" -> IF b = 0 THEN 0 ELSE TowardZero(a, b)
    [] op = "%" -> IF b = 0 THEN 0 ELSE a - b * TowardZero(a, b)
RealArithmetic(op, a, b) ==
  CASE op = "+" -> a + b
    [] op = "*" -> TowardZero(a * b, RealUnit)
    [] op = "/" -> IF b = 0 THEN 0 ELSE TowardZero(a * RealUnit, b)
Comparison(op, a, b) ==
  Truth(CASE op = "==" -> a = b [] op = "!=" -> a # b [] op = "<" -> a < b
          [] op = ">" -> a > b [] op = "<=" -> a <= b [] op = ">=" -> a >= b)

(* ++ and -- at the address a.v; an assignment of x to it; a left and a    *)
(* right operand combined.                                                 *)
Stepped(e, a, type) ==
  LET old == LoadAs(a.m, a.v, type)
      n == StoreAs(a.m, a.v, Int32(old + Scale(type) * (IF e.op = "++" THEN 1 ELSE -1)), type)
  IN [v |-> IF e.t = "pre" THEN LoadAs(n, a.v, type) ELSE old, m |-> n]
Assigned(a, x, from, to) ==
  LET n == StoreAs(x.m, a.v, As(x.v, from, to), to) IN [v |-> LoadAs(n, a.v, to), m |-> n]
Combined(op, l, r, left, right) ==
  LET real == IsReal(left) \/ IsReal(right)
      a == As(l.v, left, IF real THEN DOUBLE ELSE INT)
      b == As(r.v, right, IF real THEN DOUBLE ELSE INT)
  IN [v |-> CASE op \in {"==", "!=", "<", ">", "<=", ">="} -> Comparison(op, a, b)
              [] op \in {"+", "*", "/"} /\ real -> RealArithmetic(op, a, b)
              [] OTHER -> Arithmetic(op, a, b),
      m |-> r.m]

RECURSIVE Eval(_, _, _, _), Address(_, _, _, _)
Address(e, m, T, at) ==
  CASE e.t = "var" -> [v |-> at[e.n], m |-> m]
    [] e.t = "un" -> Eval(e.e, m, T, at)
    [] e.t = "idx" -> LET l == Eval(e.l, m, T, at)
                          i == Eval(e.i, l.m, T, at)
                      IN [v |-> l.v + Scale(Type(e.l, T)) * i.v, m |-> i.m]
Eval(e, m, T, at) ==
  CASE e.t \in {"int", "real"} -> [v |-> e.v, m |-> m]
    [] e.t = "neg" -> [v |-> -e.v, m |-> m]
    [] e.t \in {"var", "idx"} \/ (e.t = "un" /\ e.op = "*") ->
         LET a == Address(e, m, T, at) IN [v |-> LoadAs(a.m, a.v, Type(e, T)), m |-> a.m]
    [] e.t = "un" /\ e.op = "&" -> Address(e.e, m, T, at)
    [] e.t = "un" /\ e.op \notin {"*", "&"} ->
         LET x == Eval(e.e, m, T, at)
         IN [x EXCEPT !.v = CASE e.op = "-" -> Int32(-@) [] e.op = "+" -> @
                              [] e.op = "!" -> Truth(@ = 0) [] e.op = "~" -> -@ - 1]
    [] e.t = "cast" ->
         LET x == Eval(e.e, m, T, at) IN [x EXCEPT !.v = As(@, Type(e.e, T), Type(e, T))]
    [] e.t = "asg" ->
         LET a == Address(e.l, m, T, at)
         IN Assigned(a, Eval(e.r, a.m, T, at), Type(e.r, T), Type(e.l, T))
    [] e.t = "cond" ->
         LET c == Eval(e.c, m, T, at)
         IN IF c.v # 0 THEN Eval(e.a, c.m, T, at) ELSE Eval(e.b, c.m, T, at)
    [] e.t \in {"pre", "post"} -> Stepped(e, Address(e.l, m, T, at), Type(e.l, T))
    [] e.t = "bin" /\ e.op \in {"&&", "||"} ->
         LET l == Eval(e.l, m, T, at)
             r == Eval(e.r, l.m, T, at)
         IN IF (l.v = 0) = (e.op = "&&") THEN [l EXCEPT !.v = Truth(@ # 0)]
            ELSE [r EXCEPT !.v = Truth(@ # 0)]
    [] OTHER ->
         LET l == Eval(e.l, m, T, at)
         IN Combined(e.op, l, Eval(e.r, l.m, T, at), Type(e.l, T), Type(e.r, T))

RECURSIVE Exec(_, _, _, _), ExecAll(_, _, _, _)
Exec(s, m, T, at) ==
  CASE s.t = "nop" -> m
    [] s.t = "compound" -> ExecAll(s.ss, m, T, at)
    [] s.t \in {"if", "ifelse"} ->
         LET c == Eval(s.c, m, T, at)
         IN IF c.v # 0 THEN Exec(s.a, c.m, T, at)
            ELSE IF s.t = "ifelse" THEN Exec(s.b, c.m, T, at) ELSE c.m
    [] s.t = "while" ->
         LET c == Eval(s.c, m, T, at)
         IN IF c.v = 0 THEN c.m ELSE Exec(s, Exec(s.a, c.m, T, at), T, at)
    [] OTHER -> Eval(s, m, T, at).m
ExecAll(ss, m, T, at) == IF ss = <<>> THEN m ELSE ExecAll(Tail(ss), Exec(Head(ss), m, T, at), T, at)

(***************************************************************************)
(* Sound: the trees whose compiled code means what C says.  What it leaves *)
(* out, with the line of parser.c that differs:                            *)
(*  - every "-" between two operands: its type is a variable nothing sets  *)
(*    (642, 658, 663), so only a block without one is sound;               *)
(*  - a == b != c groups to the right (493);                               *)
(*  - && and || leave the operand itself, not 0 or 1 (397 to 439), and do  *)
(*    not look whether the right one is real;                              *)
(*  - a real condition is truncated first, so 0.5 is false (220, 372, 405, *)
(*    426, 810, 864);                                                      *)
(*  - -5 keeps the type of what was compiled before it (274 to 280), -x    *)
(*    multiplies ax even when x is real (282 to 287);                      *)
(*  - | ^ & do not look at a real left operand (447, 462, 477), << and >>  *)
(*    not at a right one of type double (585, 604);                        *)
(*  - only a right operand of pointer type is scaled in a sum (627);       *)
(*  - a cast to char does not cut the value (156 to 161);                  *)
(*  - real elements of an array are loaded as integers (773);              *)
(*  - the value of c++ is stored and then taken back one (738 to 741).     *)
(***************************************************************************)
RECURSIVE Sound(_, _), SoundCondition(_, _)
(* Where a negative constant has the type of its left neighbour. *)
SoundAfter(type, e, T) == IF e.t = "neg" THEN Integral(type) ELSE Sound(e, T)
Sound(e, T) ==
  CASE e.t \in {"int", "real", "var"} -> TRUE
    [] e.t = "neg" -> FALSE
    [] e.t = "bin" /\ e.op \in {"&&", "||"} ->
         Boolean(e.l) /\ Boolean(e.r) /\ Sound(e.l, T) /\ Sound(e.r, T)
    [] e.t = "bin" /\ e.op \notin {"&&", "||"} ->
         LET l == Type(e.l, T)
             r == Type(e.r, T)
         IN /\ Sound(e.l, T) /\ SoundAfter(l, e.r, T)
            /\ e.op # "-"
            /\ ~(e.op = "!=" /\ e.l.t = "bin" /\ e.l.op = "==")
            /\ e.op \in {"|", "^", "&", "<<", ">>", "%"} => Integral(l) /\ Integral(r)
            /\ l >= PTR \/ r >= PTR => e.op = "+" /\ l = CHAR + PTR /\ Integral(r)
    [] e.t = "un" ->
         /\ Sound(e.e, T)
         /\ e.op \in {"-", "!", "~"} => Integral(Type(e.e, T))
         /\ e.op = "*" => Type(e.e, T) >= PTR
         /\ e.op = "&" => e.e.t = "var"
    [] e.t = "cast" ->
         LET from == Type(e.e, T)
             to == Type(e, T)
         IN /\ Sound(e.e, T)
            /\ from \div PTR = to \div PTR
            /\ to # CHAR
    [] e.t = "asg" ->
         /\ Sound(e.l, T) /\ SoundAfter(Type(e.l, T), e.r, T)
         /\ Type(e.l, T) \div PTR = Type(e.r, T) \div PTR
    [] e.t = "cond" ->
         /\ SoundCondition(e.c, T) /\ Sound(e.a, T) /\ Sound(e.b, T)
         /\ Integral(Type(e.a, T)) = Integral(Type(e.b, T))
    [] e.t = "idx" ->
         /\ Sound(e.l, T) /\ Sound(e.i, T) /\ Integral(Type(e.i, T))
         /\ Type(e.l, T) \in {CHAR + PTR, INT + PTR}
    [] e.t \in {"pre", "post"} ->
         /\ Sound(e.l, T)
         /\ Type(e.l, T) \in {INT, CHAR + PTR, INT + PTR} \/ (e.t = "pre" /\ Type(e.l, T) = CHAR)
SoundCondition(e, T) ==
  IF e.t = "bin" /\ e.op \in {"&&", "||"} THEN SoundCondition(e.l, T) /\ SoundCondition(e.r, T)
  ELSE Sound(e, T) /\ Integral(Type(e, T))
RECURSIVE SoundStatement(_, _)
SoundStatement(s, T) ==
  CASE s.t = "nop" -> TRUE
    [] s.t = "compound" -> \A i \in 1 .. Len(s.ss) : SoundStatement(s.ss[i], T)
    [] s.t = "if" \/ s.t = "while" -> SoundCondition(s.c, T) /\ SoundStatement(s.a, T)
    [] s.t = "ifelse" ->
         SoundCondition(s.c, T) /\ SoundStatement(s.a, T) /\ SoundStatement(s.b, T)
    [] OTHER -> Sound(s, T)
(* A variable without an initial value holds what the block compiled last  *)
(* left there (parser.c:1278): it must be assigned first.  The initial     *)
(* value of a char is stored as an int (parser.c:1071) and its first byte  *)
(* read (executor.c:72): another one when the first byte is the highest.   *)
SoundDecl(d) == d.init # <<>> /\ d.base = "char" => FirstByte(d.init[1]) = Byte(d.init[1])
SoundBlock(decls, ss, T) ==
  /\ \A d \in 1 .. Len(decls) : SoundDecl(decls[d])
  /\ \A i \in 1 .. Len(ss) : SoundStatement(ss[i], T)
  /\ \A d \in 1 .. Len(decls) :
       \/ decls[d].init # <<>>
       \/ \E i \in 1 .. Len(ss) : /\ i <= d
                                  /\ ss[i].t = "asg" /\ ss[i].l = Var(decls[d].n)
=============================================================================
