---------------------------- MODULE MCCodeBlocks ----------------------------
(***************************************************************************)
(* Small code blocks and configurations for CodeBlocks.                    *)
(***************************************************************************)
EXTENDS CodeBlocks

(* The variables a host injects, and the memory they point to. *)
Deps == [x |-> [type |-> INT, addr |-> 200], y |-> [type |-> INT, addr |-> 204],
         result |-> [type |-> INT, addr |-> 208], ch |-> [type |-> CHAR, addr |-> 212],
         f |-> [type |-> FLOAT, addr |-> 216], g |-> [type |-> DOUBLE, addr |-> 220],
         para |-> [type |-> CHAR + PTR, addr |-> 224],
         bytes_arr |-> [type |-> CHAR + PTR, addr |-> 228],
         var_addr |-> [type |-> CHAR + PTR, addr |-> 232],
         asm_val |-> [type |-> INT, addr |-> 236],
         ip |-> [type |-> INT + PTR, addr |-> 240]]
Host == (200 :> 5) @@ (204 :> -3) @@ (208 :> 0) @@ (212 :> OneByte(100)) @@ (216 :> 6) @@ (220 :> -10)
          @@ (224 :> 300) @@ (228 :> 400) @@ (232 :> 308) @@ (236 :> 9) @@ (240 :> 320)
          @@ (300 :> 7) @@ (308 :> 0) @@ (320 :> 11) @@ (324 :> -12) @@ (328 :> 13) @@ (332 :> 14)
          @@ (400 :> OneByte(0)) @@ (401 :> OneByte(65)) @@ (402 :> OneByte(-1))
(* The second call assembles another value, and its bytes start with 1. *)
CallInputs == <<(236 :> 9), (236 :> 10) @@ (400 :> OneByte(1))>>

Block(decls, body) ==
  [lexemes |-> BlockLexemes(decls, body), decls |-> decls, body |-> body, written |-> TRUE]
(* A source that no tree stands for. *)
Raw(lexemes) == [lexemes |-> lexemes, decls |-> <<>>, body |-> <<>>, written |-> FALSE]
RawBlock(decls, body) ==
  Raw(<<W("use"), O("{")>> \o decls \o <<O("}"), W("action"), O("{")>> \o body \o <<O("}")>>)

(***************************************************************************)
(* Every pair of operators: o1 op1 o2 op2 o3, grouped as C groups it.      *)
(***************************************************************************)
Precedence ==
  [op \in {"||", "&&", "|", "^", "&", "==", "!=", "<", ">", "<=", ">=", "<<", ">>", "+",
           "-", "*", "/", "%"} |->
     CASE op = "||" -> 1 [] op = "&&" -> 2 [] op = "|" -> 3 [] op = "^" -> 4 [] op = "&" -> 5
       [] op \in {"==", "!="} -> 6 [] op \in {"<", ">", "<=", ">="} -> 7
       [] op \in {"<<", ">>"} -> 8 [] op \in {"+", "-"} -> 9 [] OTHER -> 10]
Grouped(op1, op2, o) ==
  IF Precedence[op1] >= Precedence[op2] THEN Bin(op2, Bin(op1, o[1], o[2]), o[3])
  ELSE Bin(op1, o[1], Bin(op2, o[2], o[3]))
Operands == {<<Var("x"), Var("y"), Lit(2)>>, <<Var("ch"), Lit(3), Var("f")>>,
             <<Var("g"), Idx(Var("bytes_arr"), Lit(1)), Un("*", Var("ip"))>>,
             <<Un("!", Var("y")), Un("~", Var("ch")), Cast("int", 0, Var("g"))>>,
             <<Neg(4), Neg(1), Un("-", Var("y"))>>,
             <<Un("*", Cast("int", 1, Var("para"))), Neg(2), Idx(Var("ip"), Lit(2))>>,
             <<PreStep("++", Var("x")), Var("asm_val"), PostStep("--", Var("y"))>>}
PairBlocks ==
  {Block(<<>>, <<Asg(Var("result"), Grouped(op1, op2, o))>>) :
     op1 \in DOMAIN Precedence, op2 \in DOMAIN Precedence, o \in Operands}
ConditionBlocks ==
  {Block(<<>>, <<IfElse(Grouped(op1, op2, <<Bin("<", Var("x"), Lit(5)), Var("ch"), Var("y")>>),
                        Asg(Var("result"), Lit(1)), Asg(Var("result"), Lit(2)))>>) :
     op1 \in {"||", "&&"}, op2 \in {"||", "&&", "==", "<", "+"}}

(***************************************************************************)
(* Statements, assignments and conversions.                                *)
(***************************************************************************)
R == Var("result")
Assignments ==
  {<<Asg(Var(l), e)>> :
     l \in {"x", "ch", "f", "g"},
     e \in {Lit(300), Dbl(7), Neg(3), Var("y"), Var("f"), Var("g"), Un("-", Var("ch")),
            Un("~", Var("x")), Un("!", Var("y")), Cast("int", 0, Var("g")),
            Cast("float", 0, Var("ch")), Un("*", Cast("int", 1, Var("para"))),
            Asg(Var("y"), Var("ch")), Cond(Var("x"), Var("ch"), Lit(1)),
            Cond(Un("!", Var("x")), Var("f"), Dbl(1)), PreStep("++", Var("x")),
            PostStep("--", Var("y")), PostStep("++", Idx(Var("ip"), Lit(1))),
            PreStep("--", Un("*", Var("ip"))), Un("*", Un("&", Var("y"))), Un("+", Var("f")),
            Un("-", Var("f")), Un("!", Dbl(2)), Cast("char", 0, Lit(300))}}
Bodies == {
  <<Asg(R, Un("*", Cast("int", 1, Var("para")))), Asg(R, Bin("+", Bin("*", R, Lit(2)), Lit(1)))>>,
  <<IfElse(Bin("==", Idx(Var("bytes_arr"), Lit(0)), Lit(0)),
           Compound(<<Asg(R, Lit(1))>>), Compound(<<Asg(R, Lit(0))>>)), Nop>>,
  <<While(Bin("<", R, Lit(3)), Compound(<<PostStep("++", R), If(Bin("==", R, Lit(2)), Asg(Var("x"), R))>>))>>,
  <<While(Bin("&&", Var("y"), Bin("<", Var("y"), Lit(0))), PreStep("++", Var("y")))>>,
  <<PreStep("++", Var("bytes_arr")), Asg(R, Un("*", Var("bytes_arr")))>>,
  <<PostStep("++", Var("ip")), Asg(Un("*", Var("ip")), Bin("%", Var("y"), Lit(2))),
    Asg(Idx(Var("ip"), Lit(1)), Idx(Var("ip"), Lit(0)))>>,
  <<If(Var("x"), IfElse(Var("y"), Asg(R, Lit(1)), Asg(R, Lit(2))))>>,
  <<IfElse(Un("!", Var("x")), Asg(R, Lit(1)), While(Bin(">", Var("x"), Lit(3)), PreStep("--", Var("x"))))>>,
  <<Asg(R, Lit(0)), If(Dbl(2), Asg(R, Lit(1)))>>,
  <<Asg(Var("ch"), Lit(127)), Asg(R, PostStep("++", Var("ch")))>>,
  <<Asg(Var("f"), Bin("/", Var("x"), Lit(0)))>>, <<Asg(R, Bin("/", Dbl(4), Var("f")))>>}
Tmp == Var("tmp")
Scaled == Block(<<Decl("float", "tmp", <<>>)>>,
                <<Asg(Tmp, Var("asm_val")), Asg(Tmp, Bin("*", Tmp, Dbl(2))),
                  Asg(Un("*", Cast("float", 1, Var("var_addr"))), Tmp)>>)
Counting == Block(<<Decl("int", "n", <<5>>), Decl("double", "d", <<3>>), Decl("char", "c", <<>>)>>,
                  <<Asg(Var("c"), Lit(1)), PostStep("++", Var("n")), PreStep("++", Var("c")),
                    Asg(Var("d"), Bin("+", Var("d"), Var("n"))),
                    Asg(R, Bin("+", Var("c"), Var("n"))), Asg(Var("g"), Var("d"))>>)
Doubled == Block(<<>>, <<Asg(R, Un("*", Cast("int", 1, Var("para")))),
                         Asg(R, Bin("+", Bin("*", R, Lit(2)), Lit(1)))>>)
(* The int written for the initial value of a char is read by its first byte. *)
Initialised(v) == Block(<<Decl("char", "c", <<v>>)>>, <<Asg(R, Var("c"))>>)
Unless == Block(<<>>, <<IfElse(Bin("==", Idx(Var("bytes_arr"), Lit(0)), Lit(0)),
                               Compound(<<Asg(R, Lit(1))>>), Compound(<<Asg(R, Lit(0))>>)), Nop>>)

(***************************************************************************)
(* Sources that are no C, that the compiler refuses, or that it takes      *)
(* otherwise than C does.                                                  *)
(***************************************************************************)
N(v) == [k |-> "int", v |-> v]
D(v) == [k |-> "real", v |-> v]
Point(digits) == [k |-> "point", v |-> digits]
Bad == [k |-> "bad"]
Chr(v) == [k |-> "chr", v |-> v]
Str(s) == [k |-> "str", v |-> s]
Skipped == [k |-> "skip"]
Set(n, e) == <<W(n), O("=")>> \o e \o <<O(";")>>
RawBlocks == {
  Raw(<<>>), Raw(<<W("main"), O("{"), O("}")>>),
  Raw(<<W("use"), O("{"), O(";"), O("}"), W("result"), O("=")>>),
  RawBlock(<<O(";")>>, Set("result", <<O("("), W("x"), O("+"), N(1), O(")")>>)),
  RawBlock(<<O(";")>>, Set("result", <<W("unknown")>>)),
  RawBlock(<<O(";")>>, Set("result", <<W("x"), O("("), O(")")>>)),
  RawBlock(<<O(";")>>, <<N(1), O("="), N(2), O(";")>>),
  RawBlock(<<O(";")>>, Set("result", <<O("*"), W("x")>>)),
  RawBlock(<<O(";")>>, Set("result", <<O("&"), N(10)>>)),
  RawBlock(<<O(";")>>, Set("result", <<O("~"), W("f")>>)),
  RawBlock(<<O(";")>>, Set("result", <<O("++"), W("f")>>)),
  RawBlock(<<O(";")>>, Set("result", <<W("f"), O("++")>>)),
  RawBlock(<<O(";")>>, Set("result", <<W("x"), O("["), N(0), O("]")>>)),
  RawBlock(<<O(";")>>, Set("result", <<O("-"), W("f")>>)),
  RawBlock(<<O(";")>>, Set("f", <<O("-"), D(2)>>)),
  RawBlock(<<O(";")>>, Set("result", <<W("para")>>)),
  RawBlock(<<O(";")>>, Set("result", <<O("*"), O("("), W("int"), O("*"), O(")"), N(4)>>)),
  RawBlock(<<O(";")>>, Set("result", <<O("*"), O("*"), O("("), W("int"), O("*"), O("*"), O(")"), W("para")>>)),
  RawBlock(<<O(";")>>, <<W("return"), W("x"), O(";")>>),
  RawBlock(<<O(";")>>, <<W("return"), O(";")>>),
  RawBlock(<<O(";")>>, Set("result", <<W("x"), O("%"), N(0)>>)),
  RawBlock(<<O(";")>>, Set("x", <<D(6)>>) \o Set("result", <<Chr(65)>>)),
  RawBlock(<<O(";")>>, Set("x", <<N(6)>>) \o <<Skipped>> \o Set("result", <<Chr(65)>>)),
  RawBlock(<<O(";")>>, <<W("open"), O("("), N(1), O(","), N(2), O(")"), O(";")>>),
  RawBlock(<<O(";")>>, <<W("printf"), O("("), Str(<<65, 66>>), Str(<<67>>), O(","), W("x"), O(")"), O(";")>>),
  RawBlock(<<O(";")>>, <<W("printf"), O("("), O(")"), O(";"), W("printf"), O("("), W("x"), O(")"), O(";")>>),
  RawBlock(<<W("int"), W("a"), O("["), N(2), O("]"), O("="), O("{"), N(4), O(","), N(5), O("}"), O(";")>>,
           Set("result", <<W("a"), O("["), N(1), O("]")>>) \o <<W("a"), O("["), N(0), O("]"), O("="), N(1), O(";")>>),
  RawBlock(<<W("int"), W("a"), O("["), N(3), O("]"), O("="), O("{"), N(4), O("}"), O(","), O("*"), W("p"), O(";")>>,
           Set("p", <<W("ip")>>) \o Set("result", <<O("*"), W("p")>>)),
  RawBlock(<<W("int"), W("x"), O(";")>>, Set("result", <<W("x")>>)),
  RawBlock(<<W("int"), W("a"), W("b"), O(";")>>, Set("result", <<W("x")>>)),
  RawBlock(<<O(";")>>, Set("f", <<Point(<<5>>)>>)), RawBlock(<<O(";")>>, Set("f", <<Point(<<2, 5>>)>>)),
  RawBlock(<<O(";")>>, Set("f", <<D(6), O("+"), N(1)>>)), RawBlock(<<O(";")>>, Set("f", <<D(6), Skipped>>)),
  RawBlock(<<O(";")>>, Set("x", <<Bad>>)),
  RawBlock(<<W("int"), N(3), O(";")>>, Set("result", <<W("x")>>)),
  RawBlock(<<W("int"), W("n"), O("="), D(6), O(","), W("k"), O(";"), W("float"), W("h"), O("="), N(2), O(";")>>,
           Set("result", <<W("n")>>) \o Set("f", <<W("h")>>)),
  RawBlock(<<O(";")>>, Set("result", <<N(1), O("+"), N(1), O("+"), N(1), O("+"), W("x"), O("*"), W("x")>>))}

(***************************************************************************)
(* Configurations.                                                         *)
(***************************************************************************)
Entry(id, block) == [id |-> id, block |-> block]
Config(length, children, uses, single) ==
  [length |-> length, children |-> children, uses |-> uses, single |-> single, deps |-> Deps]
Alone(block) == Config(1, <<Entry(0, block)>>, <<0>>, Missing)
Alternating ==
  {Config(2, <<Entry(1, b), Entry(0, Counting)>>, <<0, 1>>, Missing) :
     b \in {Scaled, Unless, Initialised(1), Initialised(0)} \cup {c \in RawBlocks : c.lexemes # <<>>}}
Lists ==
  {Config(2, <<Entry(0, Doubled), Entry(1, Scaled)>>, <<1, 0, -1, 1>>, Unless),
   Config(2, <<Entry(1, Doubled), Entry(0, Scaled)>>, <<0, 1>>, Unless),
   Config(2, <<Entry(0, Doubled), Entry(0, Scaled)>>, <<0, 1>>, Missing),
   Config(2, <<Entry(0, Doubled), Entry(2, Scaled)>>, <<0>>, Missing),
   Config(2, <<Entry(0, Doubled)>>, <<0>>, Missing),
   Config(1, <<Entry(0, Doubled), Entry(0, Scaled)>>, <<0>>, Missing),
   Config(1, <<Entry(Missing, Doubled)>>, <<0>>, Missing),
   Config(1, <<Entry(0, Missing)>>, <<0>>, Missing),
   Config(1, <<Entry(-1, Doubled)>>, <<0>>, Missing),
   Config(1, <<Entry(0, Doubled)>>, <<0, 1>>, Missing),
   Config(1, <<Entry(0, Doubled)>>, <<0, -2>>, Missing),
   Config(0, <<Entry(0, Doubled)>>, <<0>>, Missing),
   Config(1, <<>>, <<0>>, Missing), Config(Missing, <<Entry(0, Doubled)>>, <<0>>, Missing),
   Config(1, Missing, <<0>>, Missing), Config(Missing, Missing, <<-1, -1>>, Unless)}
MCConfigs ==
  Lists \cup Alternating
    \cup {Alone(b) : b \in PairBlocks \cup ConditionBlocks \cup RawBlocks
                           \cup {Block(<<>>, s) : s \in Bodies \cup Assignments}}
=============================================================================
