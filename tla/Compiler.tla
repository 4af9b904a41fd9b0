------------------------------ MODULE Compiler ------------------------------
(***************************************************************************)
(* The compiler of code blocks: interpreter/lex.c, parser.c, relocation.c, *)
(* and dependency.c.  It is one pass of recursive descent                  *)
(* that emits words while it reads; its variables are the fields of one    *)
(* record, and each C function is an operator from record to record.       *)
(*                                                                         *)
(* A source is a sequence of lexemes, records with the kind k: "id" and    *)
(* "op" with a name n, "int", "real" and "chr" with a value v, "point" (a  *)
(* number that starts with its decimal point) with the sequence v of its   *)
(* digits, at least one, "str" with the sequence v of its characters,      *)
(* "bad" (a character constant that does not end), "blank", and "skip" (a  *)
(* new line, a comment, a macro, a character next() ignores).              *)
(*                                                                         *)
(* A word of text is a number: an instruction, an operand or an address,   *)
(* and nothing tells them apart.  A real number r is the integer           *)
(* RealUnit * r.  Addresses count bytes; memory is a function from the     *)
(* addresses of its cells to the words stored there.  A char is the first  *)
(* byte of a cell; what is one byte wide is a word whose other bytes are   *)
(* 0.  The bytes of a word behind the first have no address of their own.  *)
(***************************************************************************)
EXTENDS Naturals, Integers, Sequences, TLC

CONSTANTS WordBits,      \* bits of a word (32)
          BigEndian      \* the first byte of a word is its highest: SPARC
ASSUME WordAssumption == WordBits \in Nat /\ WordBits > 8 /\ BigEndian \in BOOLEAN
WordValues == 2^WordBits
RealUnit == 4

(***************************************************************************)
(* Words and their first bytes.                                            *)
(***************************************************************************)
Signed(v, n) == LET u == v % n IN IF u < n \div 2 THEN u ELSE u - n
Byte(v) == Signed(v, 256)
Int32(v) == Signed(v, WordValues)
OtherBytes == WordValues \div 256
FirstByte(w) == Byte(IF BigEndian THEN (w % WordValues) \div OtherBytes ELSE w)
WithFirstByte(w, v) ==
  Int32(IF BigEndian THEN (v % 256) * OtherBytes + (w % OtherBytes)
        ELSE (v % 256) + 256 * (w \div 256))
OneByte(v) == WithFirstByte(0, v)

(* symbol.h: instructions, tokens, types. *)
Op == [LEA |-> 0, IMM |-> 1, FIMM |-> 2, JMP |-> 3, CALL |-> 4, JZ |-> 5,
       JNZ |-> 6, ENT |-> 7, ADJ |-> 8, LEV |-> 9, LD |-> 10, LF |-> 11,
       LI |-> 12, LC |-> 13, SD |-> 14, SF |-> 15, SI |-> 16, SC |-> 17,
       ATOB |-> 18, BTOA |-> 19, PUSF |-> 20, PUSH |-> 21, OR |-> 22,
       XOR |-> 23, AND |-> 24, EQF |-> 25, EQ |-> 26, NEF |-> 27, NE |-> 28,
       LTF |-> 29, LT |-> 30, GTF |-> 31, GT |-> 32, LEF |-> 33, LE |-> 34,
       GEF |-> 35, GE |-> 36, SHL |-> 37, SHR |-> 38, ADDF |-> 39,
       ADD |-> 40, SUB |-> 41, MULF |-> 42, MUL |-> 43, DIVF |-> 44,
       DIV |-> 45, MOD |-> 46, NOP |-> 47, OPEN |-> 48, READ |-> 49,
       CLOS |-> 50, PRTF |-> 51, MALC |-> 52, MSET |-> 53, MCMP |-> 54,
       EXIT |-> 55]
Tk == [Num |-> 128, Fun |-> 129, Sys |-> 130, Glo |-> 131, Ext |-> 132,
       Id |-> 133, Char |-> 134, Int |-> 135, Float |-> 136, Double |-> 137,
       If |-> 138, Else |-> 139, While |-> 140, Return |-> 141,
       Assign |-> 256, Cond |-> 257, Lor |-> 258, Lan |-> 259, Or |-> 260,
       Xor |-> 261, And |-> 262, Eq |-> 263, Ne |-> 264, Lt |-> 265,
       Gt |-> 266, Le |-> 267, Ge |-> 268, Shl |-> 269, Shr |-> 270,
       Add |-> 271, Sub |-> 272, Mul |-> 273, Div |-> 274, Mod |-> 275,
       Inc |-> 276, Dec |-> 277, Brak |-> 278]
CHAR == 0
INT == 1
FLOAT == 2
DOUBLE == 3
PTR == 4
IsReal(type) == type \in {FLOAT, DOUBLE}

(* The tokens of operators, from Tk.Assign in the order of the enumeration, *)
(* and of punctuation, which are its characters.                           *)
Operators == <<"=", "?", "||", "&&", "|", "^", "&", "==", "!=", "<", ">", "<=", ">=", "<<",
               ">>", "+", "-", "*", "/", "%", "++", "--", "[">>
TokenOf ==
  [n \in {Operators[i] : i \in 1 .. Len(Operators)} |->
     255 + CHOOSE i \in 1 .. Len(Operators) : Operators[i] = n] @@
  ("!" :> 33) @@ ("~" :> 126) @@ (";" :> 59) @@ ("{" :> 123) @@ ("}" :> 125) @@ ("(" :> 40) @@
  (")" :> 41) @@ ("]" :> 93) @@ ("," :> 44) @@ (":" :> 58)
Quote == 34

(***************************************************************************)
(* lex.c.  The token goes to tk, a literal's value to ival or rval and its *)
(* type to ntype, an identifier to id; a string to the data segment.       *)
(***************************************************************************)
NoSymbol == [tk |-> Tk.Id, class |-> 0, type |-> 0, value |-> 0]

(* An identifier is looked up, and entered when it is new. *)
NextIdentifier(c, name) ==
  LET syms == (IF name \in DOMAIN c.syms THEN c.syms ELSE (name :> NoSymbol) @@ c.syms)
  IN [c EXCEPT !.syms = syms, !.id = name, !.tk = syms[name].tk]

(* exit(-1): the whole program ends. *)
Fail(c) == [c EXCEPT !.failed = TRUE]

(* process_fraction: what stands behind a real number must end it.         *)
EndsReal(src) ==
  /\ src # <<>>
  /\ \/ Head(src).k = "blank"
     \/ Head(src).k = "op" /\ Head(src).n \in {",", ";"}
Fraction(digits) ==
  LET n[i \in 0 .. Len(digits)] == IF i = 0 THEN 0 ELSE 10 * n[i - 1] + digits[i]
  IN (RealUnit * n[Len(digits)]) \div 10^Len(digits)
RealNumber(c, r, i) ==
  IF EndsReal(c.src) THEN [c EXCEPT !.tk = Tk.Num, !.rval = r, !.ival = i, !.ntype = FLOAT]
  ELSE Fail(c)

(* A number; only these set num_type, a character constant does not.  The  *)
(* first digit behind a leading point is passed over.                      *)
NextNumber(c, x) ==
  CASE x.k = "int" -> [c EXCEPT !.tk = Tk.Num, !.ival = x.v, !.ntype = INT]
    [] x.k = "real" -> RealNumber(c, x.v, x.v \div RealUnit)
    [] x.k = "point" -> RealNumber(c, Fraction(Tail(x.v)), c.ival)
NextCharacter(c, x) == IF x.k = "bad" THEN Fail(c) ELSE [c EXCEPT !.tk = Tk.Num, !.ival = x.v]

(* The characters of a string go to data; no '\0' is written behind them. *)
NextString(c, x) ==
  [c EXCEPT !.tk = Quote, !.ival = c.dp, !.dp = @ + Len(x.v),
            !.pool = [a \in c.dp .. c.dp + Len(x.v) - 1 |-> OneByte(x.v[a - c.dp + 1])] @@ @]

RECURSIVE NextToken(_)
NextToken(c) ==
  IF c.src = <<>> THEN [c EXCEPT !.tk = 0]
  ELSE LET x == Head(c.src)
           d == [c EXCEPT !.src = Tail(@)]
       IN CASE x.k \in {"skip", "blank"} -> NextToken(d)
            [] x.k = "id" -> NextIdentifier(d, x.n)
            [] x.k \in {"int", "real", "point"} -> NextNumber(d, x)
            [] x.k \in {"chr", "bad"} -> NextCharacter(d, x)
            [] x.k = "str" -> NextString(d, x)
            [] x.k = "op" -> [d EXCEPT !.tk = TokenOf[x.n]]

Advance(c) == IF c.failed THEN c ELSE NextToken(c)
Match(c, tk) == IF c.failed THEN c ELSE IF c.tk = tk THEN NextToken(c) ELSE Fail(c)
MatchOp(c, n) == Match(c, TokenOf[n])
IsOp(c, n) == c.tk = TokenOf[n]

(***************************************************************************)
(* The text.  "text" points to the word emitted last: Last(c); the word at *)
(* text_start is never used.                                               *)
(***************************************************************************)
Emit(c, words) == IF c.failed THEN c ELSE [c EXCEPT !.text = @ \o words]
LastWord(c) == c.text[Len(c.text)]
SetWord(c, i, w) == [c EXCEPT !.text[i] = w]

(* Where the next word goes, as an index into text and as its address in   *)
(* the pool; the word at index i has the offset 4 * (i - 1).               *)
Here(c) == Len(c.text) + 1
OffsetOf(i) == 4 * (i - 1)
Relocate(c, i, off, kind) ==
  IF c.failed THEN c ELSE [c EXCEPT !.rels = Append(@, [loc |-> i, off |-> off, kind |-> kind])]
(* The word at b becomes the address of the word at index i. *)
Label(c, b, i) ==
  IF c.failed THEN c
  ELSE SetWord(Relocate(c, b, OffsetOf(i), "text"), b, c.textPool + OffsetOf(i))

Loads == {Op.LC, Op.LI, Op.LF, Op.LD}
LoadDirective(type) ==
  IF type >= PTR THEN Op.LI
  ELSE CASE type = CHAR -> Op.LC [] type = INT -> Op.LI [] type = FLOAT -> Op.LF
         [] OTHER -> Op.LD
StoreDirective(type) ==
  IF type >= PTR THEN Op.SI
  ELSE CASE type = CHAR -> Op.SC [] type = INT -> Op.SI [] type = FLOAT -> Op.SF
         [] OTHER -> Op.SD
LoadInt(c, v) == Emit(c, <<Op.IMM, v>>)
(* The two words of a double; the second is no instruction's number. *)
LoadReal(c, v) == Emit(c, <<Op.FIMM, v, 1000000>>)
OnConstant(c) == c.text[Len(c.text) - 1] = Op.IMM \/ c.text[Len(c.text) - 2] = Op.FIMM
TypeOfToken(tk) ==
  CASE tk = Tk.Char -> CHAR [] tk = Tk.Int -> INT [] tk = Tk.Float -> FLOAT
    [] OTHER -> DOUBLE
ToCondition(c) == IF IsReal(c.etype) THEN Emit(c, <<Op.BTOA>>) ELSE c

(* A mutant: an integer is stored in a real variable as it is. *)
CheckAssignmentLoose(c, left, right) ==
  IF (left >= PTR \/ right >= PTR) /\ left \div PTR # right \div PTR THEN Fail(c)
  ELSE IF ~IsReal(left) /\ left < PTR /\ IsReal(right) THEN Emit(c, <<Op.BTOA>>) ELSE c
(* check_assignment_types: pointers of one level are compatible. *)
CheckAssignment(c, left, right) ==
  CASE left = right -> c
    [] left # right /\ (left >= PTR \/ right >= PTR) ->
         IF left \div PTR = right \div PTR THEN c ELSE Fail(c)
    [] left # right /\ IsReal(left) /\ ~IsReal(right) /\ right < PTR -> Emit(c, <<Op.ATOB>>)
    [] left # right /\ ~IsReal(left) /\ left < PTR /\ IsReal(right) -> Emit(c, <<Op.BTOA>>)
    [] OTHER -> c

(* The left operand is kept on the stack of its kind; for an integer two   *)
(* words are reserved, to convert it should the right operand be real.     *)
BinaryLeft(c) ==
  IF IsReal(c.etype) THEN Emit(c, <<Op.PUSF>>) ELSE Emit(c, <<Op.NOP, Op.PUSH>>)
(* r is the index of the first reserved word, or 0. *)
BinaryRight(c, opReal, opInt, r) ==
  CASE c.failed -> c
    [] ~c.failed /\ IsReal(c.etype) ->
         LET d == IF r = 0 THEN c
                  ELSE SetWord(SetWord(c, r, Op.ATOB), r + 1, Op.PUSF)
         IN [Emit(d, <<opReal>>) EXCEPT !.etype = DOUBLE]
    [] ~c.failed /\ ~IsReal(c.etype) /\ r = 0 ->
         [Emit(c, <<Op.ATOB, opReal>>) EXCEPT !.etype = DOUBLE]
    [] OTHER -> [Emit(c, <<opInt>>) EXCEPT !.etype = INT]
=============================================================================
