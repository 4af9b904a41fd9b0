-------------------------- MODULE CommandSequence --------------------------
(***************************************************************************)
(* flywheel_set_speed: the application puts parameters into a package, and *)
(* fill_cmd_seq_dynamically turns them into the bytes of a command.        *)
(*                                                                         *)
(* The computed elements of a command run a code block of the              *)
(* configuration, compiled when it is first needed and kept from then on.  *)
(* The compiled code holds the address of the parameter it was compiled    *)
(* for: an address of the heap, which the application may free and malloc  *)
(* may give out again.                                                     *)
(***************************************************************************)
EXTENDS Parameters, Sequences, FiniteSetsExt

CONSTANTS
  Elements,    \* the command: a sequence of [kind, size, id, value]
  Byte,        \* the number of values of a byte
  WordBytes,   \* the bytes of an unsigned int
  Compute,     \* what the code block of each id makes of a parameter
  PutValues,   \* the values the application works with
  ByAddress,   \* the parameters it puts by address; the others by value
  Addrs,       \* the addresses malloc may give a package
  MayDestroy,  \* does the application destroy packages and make new ones?
  NULL

NoNeedComputation == -1

Words == 0 .. Byte ^ WordBytes - 1

Ids == { Elements[n].id : n \in DOMAIN Elements } \ {NoNeedComputation}

(* What fill_cmd_seq_desc makes of an element: one byte, or a word's bytes *)
ElementDescs ==
  { e \in [kind : {"constant", "computed", "checksum"}, size : 1 .. WordBytes,
            id : Nat \cup {NoNeedComputation}, value : 0 .. Byte - 1] :
      e.kind # "computed" => e.size = 1 }

Computed == { n \in DOMAIN Elements : Elements[n].kind = "computed" }

(* The packages the application makes: one parameter per computed element  *)
Params == [value : PutValues \cup {0}, pointer : BOOLEAN]

Packages ==
  LET size == Cardinality(Computed)
  IN [num : {size}, strategy : {PutWithoutPos}, put : 0 .. size, fetch : 0 .. size,
      paras : [0 .. size - 1 -> Params \cup {NULL}]]

ASSUME CommandSequenceAssumption ==
  /\ Byte \in Nat /\ WordBytes \in Nat
  /\ Elements \in Seq(ElementDescs)
  /\ PutValues \subseteq Words
  /\ \A id \in Ids : Compute[id] \in [Words -> Words]
  /\ NULL \notin Addrs /\ NULL \notin Packages

(* The position of the first byte of each element, and of the end          *)
Start == [n \in 1 .. Len(Elements) + 1 |->
            Cardinality({ kb \in (1 .. n - 1) \X (1 .. WordBytes) :
                            kb[2] <= Elements[kb[1]].size })]

BytesSize == Start[Len(Elements) + 1]

(* alloc_cmd_seq and do_fill_cmd_seq: the constant bytes are filled in once *)
ConfiguredBytes ==
  [p \in 0 .. BytesSize - 1 |->
     LET k == CHOOSE k \in DOMAIN Elements : Start[k] <= p /\ p < Start[k + 1]
     IN IF Elements[k].kind = "constant" THEN Elements[k].value ELSE 0]

VARIABLES
  heap,       \* the package at each address, or NULL
  pkg,        \* the address of the application's package, or NULL
  variable,   \* the application's variable, behind every pointer parameter
  code,       \* compiled_byte_code_array: NULL, or what a code block reads
  bytes,      \* bytes_value
  n,          \* the element the loop is at
  pc          \* "idle", "fill", and "sent" when the bytes are complete

vars == << heap, pkg, variable, code, bytes, n, pc >>

appVars == << heap, pkg, variable >>

Init ==
  /\ heap = [a \in Addrs |-> NULL]
  /\ pkg = NULL
  /\ variable \in PutValues
  /\ code = [id \in Ids |-> NULL]
  /\ bytes = ConfiguredBytes
  /\ n = 1
  /\ pc = "idle"

-----------------------------------------------------------------------------
(* The application                                                         *)

MakePackage(a) ==
  /\ pc = "idle" /\ pkg = NULL /\ heap[a] = NULL
  /\ heap' = [heap EXCEPT ![a] = NewPackage(Cardinality(Computed), PutWithoutPos, NULL)]
  /\ pkg' = a
  /\ UNCHANGED << variable, code, bytes, n, pc >>

(* put_value or put_address of the next parameter                          *)
Put(value) ==
  /\ pc = "idle" /\ pkg # NULL
  /\ ~CanNotPut(heap[pkg], MeaninglessPutPos, PutWithoutPos)
  /\ LET para == IF heap[pkg].put \in ByAddress
                   THEN Parameter(0, TRUE) ELSE Parameter(value, FALSE)
     IN heap' = [heap EXCEPT ![pkg] = FillParameterPackage(@, para, MeaninglessPutPos,
                                                           PutWithoutPos)]
  /\ UNCHANGED << pkg, variable, code, bytes, n, pc >>

ResetPackage ==
  /\ pc = "idle" /\ pkg # NULL
  /\ heap' = [heap EXCEPT ![pkg] = ResetParameterPackage(@)]
  /\ UNCHANGED << pkg, variable, code, bytes, n, pc >>

DestroyPackage ==
  /\ MayDestroy
  /\ pc = "idle" /\ pkg # NULL
  /\ heap' = [heap EXCEPT ![pkg] = NULL]
  /\ pkg' = NULL
  /\ UNCHANGED << variable, code, bytes, n, pc >>

SetVariable(value) ==
  /\ pc = "idle"
  /\ variable' = value
  /\ UNCHANGED << heap, pkg, code, bytes, n, pc >>

(* The application calls with a full package of one parameter for each     *)
(* computed element; the code does not check (the TODO of lines 16-17).    *)
SetSpeed ==
  /\ pc = "idle" /\ pkg # NULL
  /\ IsAllParameterSet(heap[pkg])
  /\ pc' = "fill" /\ n' = 1
  /\ UNCHANGED << appVars, code, bytes >>

(* The call returns; the template function has printed the bytes.          *)
Return ==
  /\ pc = "sent"
  /\ pc' = "idle"
  /\ UNCHANGED << appVars, code, bytes, n >>

-----------------------------------------------------------------------------
(* fill_cmd_seq_dynamically                                                *)

(* The number a code block finds where it was told its parameter is        *)
Resolve(para) == IF para.pointer THEN variable ELSE para.value

(* What the compiled code reads: the parameter at the address it holds, if *)
(* that is (again) a parameter of the kind it was compiled for; anything   *)
(* otherwise.                                                              *)
Readings(c) ==
  IF heap[c.addr] # NULL /\ heap[c.addr].paras[c.index].pointer = c.pointer
    THEN { Resolve(heap[c.addr].paras[c.index]) }
    ELSE Words

(* Mutant: the code is compiled for the first parameter of the package.    *)
CompiledForFirst ==
  [addr |-> pkg, index |-> 0, pointer |-> heap[pkg].paras[0].pointer]

(* compile_src_code with the fetched parameter as its dependency           *)
CompiledFor ==
  [addr |-> pkg, index |-> heap[pkg].fetch, pointer |-> NextPara(heap[pkg]).pointer]

(* do_computation: the code of an id is compiled once                      *)
Code(id) == IF code[id] = NULL THEN CompiledFor ELSE code[id]

(* Mutant: one byte more than the element has is written.                  *)
SplitWide(word, size) == [b \in 0 .. size |-> (word \div Byte ^ b) % Byte]

(* Mutant: the bytes are split from the other end.                         *)
SplitHighFirst(word, size) ==
  [b \in 0 .. size - 1 |-> (word \div Byte ^ (size - 1 - b)) % Byte]

(* split_uint32_into_bytes: the low byte first                             *)
Split(word, size) == [b \in 0 .. size - 1 |-> (word \div Byte ^ b) % Byte]

PutBytes(position, split) ==
  [p \in DOMAIN bytes |->
     IF p - position \in DOMAIN split THEN split[p - position] ELSE bytes[p]]

AtElement(kind) == pc = "fill" /\ n <= Len(Elements) /\ Elements[n].kind = kind

ConstantElement ==
  /\ AtElement("constant")
  /\ n' = n + 1
  /\ UNCHANGED << appVars, code, bytes, pc >>

ComputedElement ==
  LET id == Elements[n].id
      send(word) == bytes' = PutBytes(Start[n], Split(word, Elements[n].size))
  IN /\ AtElement("computed")
     /\ \/ /\ id # NoNeedComputation
           /\ code' = [code EXCEPT ![id] = Code(id)]
           /\ \E v \in Readings(Code(id)) : send(Compute[id][v])
        \/ /\ id = NoNeedComputation
           /\ \E v \in Words : send(v)
           /\ UNCHANGED code
     /\ heap' = [heap EXCEPT ![pkg] = FetchPara(@)]
     /\ n' = n + 1
     /\ UNCHANGED << pkg, variable, pc >>

SumBelow(limit) == SumFunction([p \in 0 .. limit - 1 |-> bytes[p]])

(* Mutant: the checksum is kept from the last command.                     *)
RunningChecksum == (bytes[Start[n]] + SumBelow(Start[n])) % Byte

CalculateChecksum == SumBelow(Start[n]) % Byte

(* Mutant: the loop does not go on behind the checksum.                    *)
ChecksumStays ==
  /\ AtElement("checksum")
  /\ bytes' = PutBytes(Start[n], [b \in {0} |-> CalculateChecksum])
  /\ UNCHANGED << appVars, n, code, pc >>

ChecksumElement ==
  /\ AtElement("checksum")
  /\ bytes' = PutBytes(Start[n], [b \in {0} |-> CalculateChecksum])
  /\ n' = n + 1
  /\ UNCHANGED << appVars, code, pc >>

Finish ==
  /\ pc = "fill" /\ n > Len(Elements)
  /\ heap' = [heap EXCEPT ![pkg] = ReuseParameterPackage(@)]
  /\ pc' = "sent"
  /\ UNCHANGED << pkg, variable, code, bytes, n >>

Fill == ConstantElement \/ ComputedElement \/ ChecksumElement \/ Finish

Next ==
  \/ \E a \in Addrs : MakePackage(a)
  \/ \E value \in PutValues : Put(value)
  \/ ResetPackage
  \/ DestroyPackage
  \/ \E value \in PutValues : SetVariable(value)
  \/ SetSpeed
  \/ ConstantElement \/ ComputedElement \/ ChecksumElement \/ Finish
  \/ Return

(* The call is one thread's: once in the loop it goes on.                  *)
Spec == Init /\ [][Next]_vars /\ WF_vars(Fill)

-----------------------------------------------------------------------------
Param(element) == Cardinality({ k \in Computed : k < element })

(* The word an element stands for, by its parameter as it is now           *)
Meant(element) ==
  Compute[Elements[element].id][Resolve(heap[pkg].paras[Param(element)])]

(* The bytes of every element are made from the parameter put for that     *)
(* element, with the value it or its variable has at this call, however    *)
(* often the code blocks have run before (command_sequence_generate.c:     *)
(* 155-186, test_device_open.c:28).                                        *)
BytesCurrent ==
  pc = "sent" =>
    \A k \in Computed : Elements[k].id # NoNeedComputation =>
      \A b \in 0 .. Elements[k].size - 1 :
        bytes[Start[k] + b] = (Meant(k) \div Byte ^ b) % Byte

(* A checksum is the sum of all the bytes sent before it, and the constant *)
(* bytes are those of the configuration.                                   *)
FrameSound ==
  pc = "sent" =>
    \A k \in DOMAIN Elements \ Computed :
      bytes[Start[k]] =
        IF Elements[k].kind = "constant" THEN Elements[k].value
        ELSE SumBelow(Start[k]) % Byte

(* Each computed element fetches the parameter of its own number, never    *)
(* one beyond the package, and every call begins with the first.           *)
FetchAligned ==
  pkg # NULL =>
    heap[pkg].fetch = IF pc = "fill" THEN Cardinality({ k \in Computed : k < n }) ELSE 0

(* A call of the driver ends.                                              *)
FillEnds == pc = "fill" ~> pc = "sent"

(* command_sequence_generate.c:149: the parameter to be computed is what a *)
(* code block is given.                                                    *)
ParameterInjected ==
  pc = "fill" /\ n <= Len(Elements) /\ n \in Computed =>
    LET id == Elements[n].id
    IN id # NoNeedComputation => Code(id) = CompiledFor

=============================================================================
