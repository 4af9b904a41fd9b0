--------------------------- MODULE BytesAssembly ---------------------------
(***************************************************************************)
(* flywheel_receive: the bytes a device sent are assembled into words, and *)
(* each word is stored in the variable a parameter of the application's    *)
(* package points to, by its type or by a code block of the configuration. *)
(*                                                                         *)
(* The code of a block is compiled when it is first needed, for the        *)
(* address of the stack slot that holds do_postprocession's argument       *)
(* var_addr (bytes_array_assembly.c:144).  A later call finds its own      *)
(* argument there if it is made from the same depth of the stack.          *)
(***************************************************************************)
EXTENDS Parameters, Sequences, SequencesExt

CONSTANTS
  Schemes,     \* the configured bytes_asm_descs: sequences of [start, num, id]
  Post,        \* what the code block of each id makes of an assembled word
  HasPrecondition,
  Holds,       \* the arrays for which the precondition's code says 1
  Arrays,      \* the byte arrays a device may send; a char is signed
  Byte,        \* the number of values of a byte
  WordBytes,   \* the bytes of an int
  ShortBytes,  \* the bytes of a short
  Variables,   \* the application's variables
  Shorts,      \* those of type int_l16; the others are ints
  Depths,      \* the depths of the stack the application calls from
  NULL

NoNeedPostprocession == -1

(* The number of values of so many bytes.                                  *)
ValuesOf[size \in Nat] == IF size = 0 THEN 1 ELSE ValuesOf[size - 1] * Byte

Signed(word, size) ==
  LET m == ValuesOf[size]
  IN IF word % m < m \div 2 THEN word % m ELSE (word % m) - m

Words == { Signed(w, WordBytes) : w \in 0 .. ValuesOf[WordBytes] - 1 }
Chars == { Signed(w, 1) : w \in 0 .. Byte - 1 }

IdsOf(descs) == { descs[k].id : k \in DOMAIN descs } \ {NoNeedPostprocession}

AllIds == UNION { IdsOf(descs) : descs \in Schemes }

(* What fill_bytes_array_assembly_scheme makes of an element               *)
ElementDescs == [start : Nat, num : 1 .. WordBytes, id : Nat \cup {NoNeedPostprocession}]

ASSUME BytesAssemblyAssumption ==
  /\ Byte \in Nat \ {0} /\ WordBytes \in Nat \ {0} /\ ShortBytes \in Nat \ {0}
  /\ \A descs \in Schemes : descs \in Seq(ElementDescs)
  /\ \A a \in Arrays : a \in Seq(Chars)
  /\ \A descs \in Schemes, a \in Arrays : \A k \in DOMAIN descs :
       descs[k].start + descs[k].num <= Len(a)
  /\ \A id \in AllIds : Post[id] \in [Words -> Words]
  /\ Shorts \subseteq Variables /\ NULL \notin Variables

VARIABLES
  scheme,   \* the scheme of the device, an element of Schemes
  memory,   \* what each variable of the application holds
  pkg,      \* the package: every parameter a pointer; paras holds variables
  code,     \* compiled_byte_code_array: NULL, or the call it was compiled in
  array,    \* bytes_arr of the present or last call
  depth,    \* the depth it was made from
  before,   \* memory when it was made
  n,        \* the parameter the loop is at
  answer,   \* what the last call returned
  pc        \* "idle", "loop", or "crash"

vars == << scheme, memory, pkg, code, array, depth, before, n, answer, pc >>

callVars == << scheme, array, depth, before >>

(* Packages of pointers to different variables, full                       *)
Pointing(targets) ==
  [NewPackage(Len(targets), PutWithoutPos, NULL) EXCEPT
     !.put = Len(targets), !.paras = [k \in 0 .. Len(targets) - 1 |-> targets[k + 1]]]

Packages ==
  { Pointing(t) : t \in { s \in UNION { [1 .. l -> Variables] :
                                         l \in Len(scheme) - 1 .. Len(scheme) } :
                            IsInjective(s) } }

Init ==
  /\ scheme \in Schemes
  /\ memory = [v \in Variables |-> 0]
  /\ pkg \in Packages
  /\ code = [id \in AllIds |-> NULL]
  /\ array \in Arrays
  /\ depth \in Depths
  /\ before = memory
  /\ n = 1
  /\ answer = "none"
  /\ pc = "idle"

(* The application destroys its package and fills another.                 *)
NewTargets(p) ==
  /\ pc = "idle"
  /\ pkg' = p
  /\ answer' = "none" /\ before' = memory
  /\ UNCHANGED << scheme, memory, code, array, depth, n, pc >>

-----------------------------------------------------------------------------
(* The call, from some depth of the stack, with what the device sent       *)
Receive(a, d) ==
  /\ pc = "idle"
  /\ array' = a /\ depth' = d /\ before' = memory
  /\ UNCHANGED scheme

IsPreconditionFailed(a) == HasPrecondition /\ a \notin Holds

(* The package has another size than the scheme, or the precondition's     *)
(* code, which reads static variables set before it runs, leaves 0.        *)
Refuse(a, d) ==
  /\ Receive(a, d)
  /\ pkg.num # Len(scheme) \/ IsPreconditionFailed(a)
  /\ answer' = "1"
  /\ UNCHANGED << memory, pkg, code, n, pc >>

Begin(a, d) ==
  /\ Receive(a, d)
  /\ pkg.num = Len(scheme) /\ ~IsPreconditionFailed(a)
  /\ n' = 1
  /\ answer' = "none"
  /\ pc' = "loop"
  /\ UNCHANGED << memory, pkg, code >>

(* The bytes of an item, shifted and ored.  A later byte that is negative   *)
(* has all its upper bits set and ors them in (line 207).                  *)
Temps(item) ==
  LET temp[j \in 1 .. Len(item)] ==
        IF j = 1 \/ item[j] < 0 THEN item[j]
        ELSE Signed(temp[j - 1] * Byte + item[j], WordBytes)
  IN temp
Assembled(item) == Temps(item)[Len(item)]

Item(k) == SubSeq(array, scheme[k].start + 1, scheme[k].start + scheme[k].num)

(* Mutant: the last byte first.                                            *)
AssembleLastFirst(k) == Assembled(Reverse(Item(k)))

(* assembly_item: the first byte first                                     *)
AssemblyItem(k) == Assembled(Item(k))

(* fill_bytes_array_assembly_scheme asks for the group of code blocks if   *)
(* an element has an id; need_postprocess reads it for every element.      *)
BlocksCollected == IdsOf(scheme) # {}

NeedPostprocess(k) == scheme[k].id > NoNeedPostprocession

(* store_data from an int to the type of a variable                        *)
Store(v, word) == Signed(word, IF v \in Shorts THEN ShortBytes ELSE WordBytes)

VarAddr == NextPara(pkg)

(* Mutant: the code is compiled for the address the argument holds.        *)
WritesCompiled(compiled) == {compiled.target}

(* Where compiled code writes: through the slot of the depth it was        *)
(* compiled at, which holds the present argument or anything.              *)
Writes(compiled) ==
  IF compiled.depth = depth THEN {VarAddr} ELSE Variables \cup {NULL}

AtElement == pc = "loop" /\ n <= Len(scheme)

Advance == pkg' = FetchPara(pkg) /\ n' = n + 1

StoreElement ==
  /\ AtElement /\ BlocksCollected /\ ~NeedPostprocess(n)
  /\ memory' = [memory EXCEPT ![VarAddr] = Store(VarAddr, AssemblyItem(n))]
  /\ Advance
  /\ UNCHANGED << code, callVars, answer, pc >>

Code(id) == IF code[id] = NULL THEN [depth |-> depth, target |-> VarAddr] ELSE code[id]

PostprocessElement ==
  LET id == scheme[n].id
      word == Post[id][AssemblyItem(n)]
  IN /\ AtElement /\ BlocksCollected /\ NeedPostprocess(n)
     /\ code' = [code EXCEPT ![id] = Code(id)]
     /\ \E v \in Writes(Code(id)) :
          memory' = IF v = NULL THEN memory ELSE [memory EXCEPT ![v] = Store(v, word)]
     /\ Advance
     /\ UNCHANGED << callVars, answer, pc >>

(* No element has an id: the group of code blocks is NULL.                 *)
NoBlocks ==
  /\ AtElement /\ ~BlocksCollected
  /\ pc' = "crash"
  /\ UNCHANGED << memory, pkg, code, callVars, n, answer >>

Finish ==
  /\ pc = "loop" /\ n > Len(scheme)
  /\ pkg' = ReuseParameterPackage(pkg)
  /\ answer' = "0"
  /\ pc' = "idle"
  /\ UNCHANGED << memory, code, callVars, n >>

Next ==
  \/ \E p \in Packages : NewTargets(p)
  \/ \E a \in Arrays, d \in Depths : Refuse(a, d)
  \/ \E a \in Arrays, d \in Depths : Begin(a, d)
  \/ StoreElement \/ PostprocessElement \/ NoBlocks
  \/ Finish

Spec == Init /\ [][Next]_vars

-----------------------------------------------------------------------------
Targets == { pkg.paras[k] : k \in DOMAIN pkg.paras }

(* The word of an element: the sum of its bytes, each by its position.     *)
Sums(k) ==
  LET sum[j \in 0 .. scheme[k].num] ==
        IF j = 0 THEN 0
        ELSE sum[j - 1] + array[scheme[k].start + j] * ValuesOf[scheme[k].num - j]
  IN sum
BigEndian(k) == Signed(Sums(k)[scheme[k].num], WordBytes)

Expected(k) ==
  LET v == pkg.paras[k - 1]
  IN Store(v, IF NeedPostprocess(k) THEN Post[scheme[k].id][BigEndian(k)]
              ELSE BigEndian(k))

(* The depth of the call is that of the calls the code was compiled in.    *)
UsualDepth ==
  \A id \in IdsOf(scheme) : code[id] # NULL => code[id].depth = depth

(* assembly_item ors sign-extended bytes (line 207): what it makes is the  *)
(* word only where no byte behind the first of an element is negative.     *)
SignOnlyFirst ==
  \A k \in DOMAIN scheme : \A j \in 2 .. scheme[k].num : array[scheme[k].start + j] >= 0

(* bytes_array_assembly.h:13: the assembled values are in the variables    *)
(* the package points to, each in the one of its element and by this call, *)
(* however often and for whatever variables the code blocks ran before, in *)
(* calls from this depth and others.                                       *)
AssembledInPlace ==
  answer = "0" /\ UsualDepth /\ SignOnlyFirst =>
    \A k \in DOMAIN scheme : memory[pkg.paras[k - 1]] = Expected(k)

(* A call changes no variable that its package does not point to, and none *)
(* at all when it is refused, from whatever depth.                         *)
OthersUntouched ==
  \A v \in Variables :
    (v \notin Targets /\ UsualDepth) \/ answer = "1" => memory[v] = before[v]

(* The loop fetches one parameter for each element, and every call begins  *)
(* with the first one, after a refused call too.                           *)
FetchAligned == pkg.fetch = IF pc = "loop" THEN n - 1 ELSE 0

=============================================================================
