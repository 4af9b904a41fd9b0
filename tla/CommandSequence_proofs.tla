----------------------- MODULE CommandSequence_proofs -----------------------
(***************************************************************************)
(* Theorems about the commands of flywheel_set_speed: any command, any     *)
(* width of a byte and of a word, any code blocks and any application.     *)
(***************************************************************************)
EXTENDS CommandSequence, FiniteSetTheorems, SequenceTheorems, TLAPS

-----------------------------------------------------------------------------
(* The layout of a command                                                 *)

LEMMA ElementsTyped ==
  /\ Len(Elements) \in Nat /\ DOMAIN Elements = 1 .. Len(Elements)
  /\ \A k \in DOMAIN Elements :
       /\ Elements[k].kind \in {"constant", "computed", "checksum"}
       /\ Elements[k].size \in 1 .. WordBytes /\ Elements[k].size \in Nat \ {0}
       /\ Elements[k].kind # "computed" => Elements[k].size = 1
       /\ Elements[k].id # NoNeedComputation => Elements[k].id \in Ids
<1>1. /\ Elements \in Seq(ElementDescs) /\ WordBytes \in Nat
      /\ Len(Elements) \in Nat /\ DOMAIN Elements = 1 .. Len(Elements)
  BY CommandSequenceAssumption
<1>2. \A k \in DOMAIN Elements : Elements[k] \in ElementDescs
  BY <1>1
<1> QED
  BY <1>1, <1>2 DEF ElementDescs, Ids

(* The bytes of the elements before one, as pairs of element and byte      *)
BytesBefore(k) ==
  { kb \in (1 .. k - 1) \X (1 .. WordBytes) : kb[2] <= Elements[kb[1]].size }

LEMMA StartIs ==
  ASSUME NEW k \in 1 .. Len(Elements) + 1
  PROVE  /\ Start[k] = Cardinality(BytesBefore(k)) /\ Start[k] \in Nat
         /\ IsFiniteSet(BytesBefore(k))
<1>1. k \in Int /\ WordBytes \in Int
  BY ElementsTyped, CommandSequenceAssumption
<1>2. IsFiniteSet(1 .. k - 1) /\ IsFiniteSet(1 .. WordBytes)
  BY <1>1, FS_Interval
<1>3. IsFiniteSet((1 .. k - 1) \X (1 .. WordBytes))
  BY <1>2, FS_Product
<1>4. IsFiniteSet(BytesBefore(k))
  BY <1>3, FS_Subset DEF BytesBefore
<1>5. Cardinality(BytesBefore(k)) \in Nat
  BY <1>4, FS_CardinalityType
<1> QED
  BY <1>4, <1>5 DEF Start, BytesBefore

(* An element ends where the next one starts, and they come in order.      *)
LEMMA StartNext ==
  ASSUME NEW k \in DOMAIN Elements
  PROVE  Start[k + 1] = Start[k] + Elements[k].size
<1> DEFINE own == {k} \X (1 .. Elements[k].size)
<1>1. /\ k \in 1 .. Len(Elements) + 1 /\ k + 1 \in 1 .. Len(Elements) + 1 /\ k \in Nat
      /\ Elements[k].size \in 1 .. WordBytes /\ Elements[k].size \in Nat
      /\ WordBytes \in Nat
  BY ElementsTyped, CommandSequenceAssumption
<1>2. IsFiniteSet(own) /\ Cardinality(own) = Elements[k].size
  <2>1. IsFiniteSet({k}) /\ Cardinality({k}) = 1
    BY FS_Singleton
  <2>2. IsFiniteSet(1 .. Elements[k].size)
        /\ Cardinality(1 .. Elements[k].size) = Elements[k].size
    <3>1. PICK w \in Nat : w = Elements[k].size /\ ~(1 > w)
      BY <1>1
    <3>2. 1 \in Int /\ w \in Int
      BY <3>1
    <3>3. IsFiniteSet(1 .. w) /\ Cardinality(1 .. w) = IF 1 > w THEN 0 ELSE w - 1 + 1
      BY ONLY <3>2, FS_Interval
    <3> QED
      BY <3>1, <3>3
  <2>3. IsFiniteSet(own) /\ Cardinality(own) = 1 * Elements[k].size
    BY <2>1, <2>2, FS_Product
  <2> QED
    BY <2>3, <1>1
<1>3. BytesBefore(k + 1) = BytesBefore(k) \cup own /\ BytesBefore(k) \cap own = {}
  <2>1. 1 .. (k + 1) - 1 = (1 .. k - 1) \cup {k} /\ k \notin 1 .. k - 1
    BY <1>1
  <2>2. \A b \in 1 .. WordBytes : b <= Elements[k].size <=> b \in 1 .. Elements[k].size
    BY <1>1
  <2>3. 1 .. Elements[k].size \subseteq 1 .. WordBytes
    BY <1>1
  <2> QED
    BY <2>1, <2>2, <2>3 DEF BytesBefore
<1>4. IsFiniteSet(BytesBefore(k)) /\ Start[k] = Cardinality(BytesBefore(k))
      /\ Start[k + 1] = Cardinality(BytesBefore(k + 1)) /\ Start[k] \in Nat
  BY <1>1, StartIs
<1>5. Cardinality(BytesBefore(k) \cup own) = Start[k] + Elements[k].size - Cardinality({})
  BY <1>2, <1>3, <1>4, FS_Union
<1>6. Cardinality({}) = 0
  BY FS_EmptySet
<1>7. Start[k + 1] = Cardinality(BytesBefore(k) \cup own)
  BY <1>3, <1>4
<1> HIDE DEF own
<1>8. PICK w \in Nat : w = Elements[k].size
  BY <1>1
<1>9. PICK u \in Nat : u = Start[k]
  BY <1>4
<1> QED
  BY <1>5, <1>6, <1>7, <1>8, <1>9

LEMMA StartInOrder ==
  ASSUME NEW j \in 1 .. Len(Elements) + 1, NEW k \in 1 .. Len(Elements) + 1, j <= k
  PROVE  Start[j] <= Start[k]
<1>1. BytesBefore(j) \in SUBSET BytesBefore(k)
  <2>1. 1 .. j - 1 \subseteq 1 .. k - 1
    BY ElementsTyped
  <2> QED
    BY <2>1 DEF BytesBefore
<1> QED
  BY <1>1, StartIs, FS_Subset

(* Where the bytes of an element are, and no other element's               *)
LEMMA BytesApart ==
  ASSUME NEW k \in DOMAIN Elements, NEW p \in Start[k] .. Start[k + 1] - 1
  PROVE  /\ p \in 0 .. BytesSize - 1 /\ p \in Nat
         /\ \A j \in DOMAIN Elements : Start[j] <= p /\ p < Start[j + 1] => j = k
<1>1. /\ \A j \in DOMAIN Elements : j \in 1 .. Len(Elements) + 1
           /\ j + 1 \in 1 .. Len(Elements) + 1 /\ j \in Nat
      /\ Len(Elements) + 1 \in 1 .. Len(Elements) + 1
      /\ \A j \in 1 .. Len(Elements) + 1 : j <= Len(Elements) + 1
  BY ElementsTyped
<1>2. \A j \in 1 .. Len(Elements) + 1 : Start[j] \in Nat
  BY StartIs
<1>3. Start[k + 1] <= BytesSize /\ BytesSize \in Nat
  BY <1>1, <1>2, StartInOrder DEF BytesSize
<1>4. \A j \in DOMAIN Elements : j < k => Start[j + 1] <= Start[k]
  BY <1>1, StartInOrder
<1>5. \A j \in DOMAIN Elements : k < j => Start[k + 1] <= Start[j]
  BY <1>1, StartInOrder
<1>6. /\ p \in Nat /\ Start[k] \in Nat /\ Start[k + 1] \in Nat
      /\ Start[k] <= p /\ p < Start[k + 1]
  BY <1>1, <1>2
<1>7. ASSUME NEW j \in DOMAIN Elements, Start[j] <= p, p < Start[j + 1]
      PROVE  j = k
  <2>1. j \in Nat /\ k \in Nat /\ Start[j] \in Nat /\ Start[j + 1] \in Nat
    BY <1>1, <1>2
  <2>2. ~(j < k) /\ ~(k < j)
    BY <1>4, <1>5, <1>6, <1>7, <2>1
  <2> QED
    BY <2>1, <2>2
<1>8. p \in 0 .. BytesSize - 1
  BY <1>3, <1>6
<1> QED
  BY <1>6, <1>7, <1>8

(* The parameters are numbered in the order of the computed elements.      *)
Size == Cardinality(Computed)

LEMMA ParamIs ==
  /\ Size \in Nat /\ Param(1) = 0
  /\ \A k \in 1 .. Len(Elements) + 1 : Param(k) \in Nat /\ Param(k) <= Size
  /\ \A k \in DOMAIN Elements :
       Param(k + 1) = IF k \in Computed THEN Param(k) + 1 ELSE Param(k)
<1> DEFINE Below(k) == { j \in Computed : j < k }
<1>1. /\ Len(Elements) \in Nat /\ DOMAIN Elements = 1 .. Len(Elements)
      /\ Computed \subseteq 1 .. Len(Elements)
  BY ElementsTyped DEF Computed
<1>2. IsFiniteSet(Computed)
  <2>1. 1 \in Int /\ Len(Elements) \in Int
    BY <1>1
  <2>2. IsFiniteSet(1 .. Len(Elements))
    BY ONLY <2>1, FS_Interval
  <2> QED
    BY <1>1, <2>2, FS_Subset
<1>3. Size \in Nat
  BY <1>2, FS_CardinalityType DEF Size
<1>4. ASSUME NEW k \in 1 .. Len(Elements) + 1
      PROVE  /\ IsFiniteSet(Below(k)) /\ Param(k) = Cardinality(Below(k))
             /\ Param(k) \in Nat /\ Param(k) <= Size
  <2>1. IsFiniteSet(Below(k)) /\ Cardinality(Below(k)) <= Size
    BY <1>2, FS_Subset DEF Size
  <2>2. Cardinality(Below(k)) \in Nat
    BY <2>1, FS_CardinalityType
  <2> QED
    BY <2>1, <2>2 DEF Param
<1>5. Param(1) = 0
  <2>1. \A j \in Computed : ~(j < 1)
    BY <1>1
  <2>2. Below(1) = {}
    BY <2>1
  <2> QED
    BY <2>2, FS_EmptySet DEF Param
<1>6. ASSUME NEW k \in DOMAIN Elements
      PROVE  Param(k + 1) = IF k \in Computed THEN Param(k) + 1 ELSE Param(k)
  <2>1. k \in Nat /\ k \in 1 .. Len(Elements) + 1 /\ k + 1 \in 1 .. Len(Elements) + 1
    BY <1>1
  <2>2. Below(k + 1) = IF k \in Computed THEN Below(k) \cup {k} ELSE Below(k)
    <3>1. \A j \in Computed : j < k + 1 <=> j < k \/ j = k
      BY <1>1, <2>1
    <3> QED
      BY <3>1
  <2>3. k \notin Below(k)
    BY <2>1
  <2>4. /\ IsFiniteSet(Below(k)) /\ Param(k) = Cardinality(Below(k))
        /\ Param(k + 1) = Cardinality(Below(k + 1))
    BY <1>4, <2>1
  <2>5. Cardinality(Below(k) \cup {k}) = Cardinality(Below(k)) + 1
    BY <2>3, <2>4, FS_AddElement
  <2> HIDE DEF Below
  <2> QED
    BY <2>2, <2>4, <2>5
<1> QED
  BY <1>3, <1>4, <1>5, <1>6

(* split_uint32_into_bytes and calculate_checksum write the bytes of their *)
(* element and no others.                                                  *)
LEMMA PutBytesIs ==
  ASSUME NEW k \in DOMAIN Elements, NEW split, DOMAIN split = 0 .. Elements[k].size - 1,
         DOMAIN bytes = 0 .. BytesSize - 1, bytes' = PutBytes(Start[k], split)
  PROVE  /\ DOMAIN bytes' = 0 .. BytesSize - 1
         /\ \A b \in 0 .. Elements[k].size - 1 : bytes'[Start[k] + b] = split[b]
         /\ \A p \in 0 .. BytesSize - 1 :
              p < Start[k] \/ Start[k + 1] <= p => bytes'[p] = bytes[p]
<1>1. PICK u \in Nat : u = Start[k]
  BY ElementsTyped, StartIs
<1>2. PICK w \in Nat : w = Elements[k].size
  BY ElementsTyped
<1>3. Start[k + 1] = u + w
  BY <1>1, <1>2, StartNext
<1>4. \A b \in 0 .. w - 1 : u + b \in u .. (u + w) - 1 /\ (u + b) - u = b
  BY <1>1, <1>2
<1>5. \A b \in 0 .. w - 1 : u + b \in 0 .. BytesSize - 1
  BY <1>1, <1>3, <1>4, BytesApart
<1>6. DOMAIN bytes' = 0 .. BytesSize - 1
      /\ \A p \in 0 .. BytesSize - 1 :
           bytes'[p] = IF p - u \in 0 .. w - 1 THEN split[p - u] ELSE bytes[p]
  BY <1>1, <1>2 DEF PutBytes
<1>7. \A b \in 0 .. w - 1 : bytes'[u + b] = split[b]
  BY <1>4, <1>5, <1>6
<1>8. \A p \in 0 .. BytesSize - 1 : p < u \/ u + w <= p => ~(p - u \in 0 .. w - 1)
  <2>1. BytesSize \in Nat
    BY ElementsTyped, StartIs DEF BytesSize
  <2> QED
    BY <2>1
<1> QED
  BY <1>1, <1>2, <1>3, <1>6, <1>7, <1>8

LEMMA SumKept ==
  ASSUME NEW limit, \A p \in 0 .. limit - 1 : bytes'[p] = bytes[p]
  PROVE  SumBelow(limit)' = SumBelow(limit)
<1>1. [p \in 0 .. limit - 1 |-> bytes'[p]] = [p \in 0 .. limit - 1 |-> bytes[p]]
  OBVIOUS
<1> QED
  BY <1>1 DEF SumBelow

LEMMA WriteKeeps ==
  ASSUME NEW k \in DOMAIN Elements, NEW split, DOMAIN split = 0 .. Elements[k].size - 1,
         DOMAIN bytes = 0 .. BytesSize - 1, bytes' = PutBytes(Start[k], split)
  PROVE  /\ \A j \in DOMAIN Elements \ {k} : \A b \in 0 .. Elements[j].size - 1 :
              bytes'[Start[j] + b] = bytes[Start[j] + b]
         /\ \A j \in DOMAIN Elements : j <= k => SumBelow(Start[j])' = SumBelow(Start[j])
<1>1. /\ \A p \in 0 .. BytesSize - 1 :
           p < Start[k] \/ Start[k + 1] <= p => bytes'[p] = bytes[p]
      /\ \A j \in DOMAIN Elements : j \in 1 .. Len(Elements) + 1 /\ Start[j] \in Nat
      /\ k + 1 \in 1 .. Len(Elements) + 1 /\ Start[k + 1] \in Nat
  BY ElementsTyped, StartIs, PutBytesIs
<1>2. ASSUME NEW j \in DOMAIN Elements \ {k}, NEW b \in 0 .. Elements[j].size - 1
      PROVE  bytes'[Start[j] + b] = bytes[Start[j] + b]
  <2>1. PICK p : p = Start[j] + b
    OBVIOUS
  <2>2. p \in Start[j] .. Start[j + 1] - 1
    <3>1. Start[j + 1] = Start[j] + Elements[j].size /\ Elements[j].size \in Nat
          /\ Start[j] \in Nat
      BY <1>1, StartNext, ElementsTyped
    <3> QED
      BY <2>1, <3>1
  <2>3. p \in 0 .. BytesSize - 1 /\ p \in Nat /\ ~(Start[k] <= p /\ p < Start[k + 1])
    BY <2>2, BytesApart
  <2> QED
    BY <1>1, <2>1, <2>3
<1>3. ASSUME NEW j \in DOMAIN Elements, j <= k
      PROVE  SumBelow(Start[j])' = SumBelow(Start[j])
  <2>1. PICK limit \in Nat : limit = Start[j]
    BY <1>1
  <2>2. limit <= Start[k]
    BY <1>1, <1>3, <2>1, StartInOrder
  <2>3. Start[k] \in Nat /\ Start[k] < BytesSize /\ BytesSize \in Nat
    <3>1. Start[k] \in Start[k] .. Start[k + 1] - 1
      BY <1>1, StartNext, ElementsTyped
    <3>2. BytesSize \in Nat
      BY ElementsTyped, StartIs DEF BytesSize
    <3> QED
      BY <1>1, <3>1, <3>2, BytesApart
  <2>4. \A p \in 0 .. limit - 1 : p \in 0 .. BytesSize - 1 /\ p < Start[k]
    BY <2>2, <2>3
  <2>5. SumBelow(limit)' = SumBelow(limit)
    BY <1>1, <2>4, SumKept
  <2> QED
    BY <2>1, <2>5
<1> QED
  BY <1>2, <1>3

(* fill_cmd_seq_desc (fill_command_sequence.c:59-112) enters each constant *)
(* at the start of its element.                                            *)
LEMMA ConfiguredBytesAre ==
  /\ DOMAIN ConfiguredBytes = 0 .. BytesSize - 1
  /\ \A k \in DOMAIN Elements :
       Elements[k].kind = "constant" => ConfiguredBytes[Start[k]] = Elements[k].value
<1>1. ASSUME NEW k \in DOMAIN Elements, Elements[k].kind = "constant"
      PROVE  ConfiguredBytes[Start[k]] = Elements[k].value
  <2>1. PICK p : p = Start[k]
    OBVIOUS
  <2>2. p \in Start[k] .. Start[k + 1] - 1 /\ Start[k] <= p /\ p < Start[k + 1]
    <3>1. Start[k] \in Nat /\ Start[k + 1] = Start[k] + Elements[k].size
          /\ Elements[k].size \in Nat \ {0}
      BY ElementsTyped, StartIs, StartNext
    <3> QED
      BY <2>1, <3>1
  <2>3. p \in 0 .. BytesSize - 1
        /\ \A j \in DOMAIN Elements : Start[j] <= p /\ p < Start[j + 1] => j = k
    BY <2>2, BytesApart
  <2>4. (CHOOSE j \in DOMAIN Elements : Start[j] <= p /\ p < Start[j + 1]) = k
    BY <2>2, <2>3
  <2> QED
    BY <1>1, <2>1, <2>3, <2>4 DEF ConfiguredBytes
<1> QED
  BY <1>1 DEF ConfiguredBytes

-----------------------------------------------------------------------------
(* The inductive invariant                                                 *)

TypeOK ==
  /\ pkg \in Addrs \cup {NULL}
  /\ heap \in [Addrs -> Packages \cup {NULL}]
  /\ DOMAIN code = Ids
  /\ DOMAIN bytes = 0 .. BytesSize - 1
  /\ n \in 1 .. Len(Elements) + 1
  /\ pc \in {"idle", "fill", "sent"}

(* The application has a package, full while it is used, fetched as far as *)
(* the loop has come.                                                      *)
PackageSound ==
  /\ pkg # NULL => heap[pkg] \in Packages
  /\ pc # "idle" => pkg # NULL /\ heap[pkg].put = Size
  /\ pc = "sent" => n = Len(Elements) + 1
  /\ FetchAligned

(* The constants are never written, and the checksums behind the loop are  *)
(* those of the bytes before them.                                         *)
FrameKept ==
  /\ \A k \in DOMAIN Elements :
       Elements[k].kind = "constant" => bytes[Start[k]] = Elements[k].value
  /\ pc # "idle" =>
       \A k \in DOMAIN Elements : Elements[k].kind = "checksum" /\ k < n =>
         bytes[Start[k]] = SumBelow(Start[k]) % Byte

Inv == TypeOK /\ PackageSound /\ FrameKept

LEMMA PackageTyped ==
  ASSUME Inv, pkg # NULL
  PROVE  /\ pkg \in Addrs /\ heap[pkg] \in Packages /\ heap[pkg] # NULL
         /\ heap[pkg].num = Size /\ heap[pkg].strategy = PutWithoutPos
         /\ heap[pkg].put \in 0 .. Size /\ heap[pkg].fetch \in 0 .. Size
         /\ heap[pkg].paras \in [0 .. Size - 1 -> Params \cup {NULL}]
         /\ heap[pkg].fetch = IF pc = "fill" THEN Param(n) ELSE 0
<1>1. pkg \in Addrs /\ heap[pkg] \in Packages
  BY DEF Inv, TypeOK, PackageSound
<1>2. heap[pkg].fetch = IF pc = "fill" THEN Param(n) ELSE 0
  BY DEF Inv, PackageSound, FetchAligned, Param
<1> QED
  BY <1>1, <1>2, CommandSequenceAssumption DEF Packages, Size

LEMMA InvInit == Init => Inv
<1> SUFFICES ASSUME Init
             PROVE  Inv
  OBVIOUS
<1>1. TypeOK
  BY ElementsTyped, ConfiguredBytesAre DEF Init, TypeOK
<1>2. PackageSound
  BY DEF Init, PackageSound, FetchAligned
<1>3. FrameKept
  BY ConfiguredBytesAre DEF Init, FrameKept
<1> QED
  BY <1>1, <1>2, <1>3 DEF Inv

-----------------------------------------------------------------------------
(* The operations on a package, and the elements of the loop               *)

LEMMA PackageFields ==
  ASSUME NEW p \in Packages
  PROVE  /\ p = [num |-> p.num, strategy |-> p.strategy, put |-> p.put,
                 fetch |-> p.fetch, paras |-> p.paras]
         /\ p.num = Size /\ p.strategy = PutWithoutPos
         /\ p.put \in 0 .. Size /\ p.fetch \in 0 .. Size
         /\ p.paras \in [0 .. Size - 1 -> Params \cup {NULL}]
         /\ p # NULL
BY CommandSequenceAssumption DEF Packages, Size

LEMMA NewPackageIs ==
  LET p == NewPackage(Size, PutWithoutPos, NULL)
  IN p \in Packages /\ p.put = 0 /\ p.fetch = 0
<1>1. Size \in Nat
  BY ParamIs
<1> QED
  BY <1>1 DEF NewPackage, Packages, Size

LEMMA ResetIs ==
  ASSUME NEW p \in Packages
  PROVE  /\ ResetParameterPackage(p) \in Packages
         /\ ResetParameterPackage(p).fetch = 0 /\ ResetParameterPackage(p).put = 0
         /\ ReuseParameterPackage(p) \in Packages
         /\ ReuseParameterPackage(p).fetch = 0 /\ ReuseParameterPackage(p).put = p.put
         /\ ReuseParameterPackage(p).paras = p.paras
<1>1. Size \in Nat /\ 0 \in 0 .. Size
  BY ParamIs
<1> QED
  BY <1>1, PackageFields
  DEF Packages, Size, ResetParameterPackage, ReuseParameterPackage

LEMMA FetchIs ==
  ASSUME NEW p \in Packages, p.fetch + 1 \in 0 .. Size
  PROVE  /\ FetchPara(p) \in Packages
         /\ FetchPara(p).fetch = p.fetch + 1 /\ FetchPara(p).put = p.put
         /\ FetchPara(p).paras = p.paras
BY PackageFields DEF Packages, Size, FetchPara

LEMMA FillIs ==
  ASSUME NEW p \in Packages, NEW para \in Params,
         ~CanNotPut(p, MeaninglessPutPos, PutWithoutPos)
  PROVE  LET q == FillParameterPackage(p, para, MeaninglessPutPos, PutWithoutPos)
         IN /\ q \in Packages /\ q.fetch = p.fetch /\ q.put = p.put + 1
            /\ p.put \in 0 .. Size - 1
            /\ q.paras = [p.paras EXCEPT ![p.put] = para]
<1> DEFINE q == FillParameterPackage(p, para, MeaninglessPutPos, PutWithoutPos)
<1>1. p.put # Size /\ p.put \in 0 .. Size /\ Size \in Nat
  BY PackageFields, ParamIs DEF CanNotPut, IsAllParameterSet
<1>2. p.put \in 0 .. Size - 1 /\ p.put + 1 \in 0 .. Size
  BY <1>1
<1>3. q = [p EXCEPT !.paras[p.put] = para, !.put = p.put + 1]
  BY DEF FillParameterPackage, UpdatePutTracer
<1>4. [p.paras EXCEPT ![p.put] = para] \in [0 .. Size - 1 -> Params \cup {NULL}]
  BY <1>2, PackageFields
<1>5. q = [num |-> p.num, strategy |-> p.strategy, put |-> p.put + 1, fetch |-> p.fetch,
           paras |-> [p.paras EXCEPT ![p.put] = para]]
  BY <1>3, PackageFields
<1> HIDE DEF q
<1>6. q \in Packages
  BY <1>2, <1>4, <1>5, PackageFields DEF Packages, Size
<1> QED
  BY <1>2, <1>5, <1>6 DEF q

-----------------------------------------------------------------------------
(* The application's steps                                                 *)

LEMMA InvMakePackage ==
  ASSUME Inv, NEW a \in Addrs, MakePackage(a)
  PROVE  Inv'
<1>1. heap' = [heap EXCEPT ![a] = NewPackage(Size, PutWithoutPos, NULL)] /\ pkg' = a
      /\ pc = "idle" /\ UNCHANGED << code, bytes, n, pc >>
  BY DEF MakePackage, Size
<1>2. heap'[a] = NewPackage(Size, PutWithoutPos, NULL) /\ heap'[a] \in Packages
      /\ heap'[a].fetch = 0
  BY <1>1, NewPackageIs DEF Inv, TypeOK
<1>3. TypeOK'
  BY <1>1, NewPackageIs DEF Inv, TypeOK
<1>4. PackageSound'
  BY <1>1, <1>2 DEF PackageSound, FetchAligned
<1>5. FrameKept'
  BY <1>1 DEF Inv, FrameKept
<1> QED
  BY <1>3, <1>4, <1>5 DEF Inv

LEMMA InvPut ==
  ASSUME Inv, NEW value \in PutValues, Put(value)
  PROVE  Inv'
<1> DEFINE para == IF heap[pkg].put \in ByAddress
                     THEN Parameter(0, TRUE) ELSE Parameter(value, FALSE)
           q == FillParameterPackage(heap[pkg], para, MeaninglessPutPos, PutWithoutPos)
<1>1. /\ heap' = [heap EXCEPT ![pkg] = q]
      /\ ~CanNotPut(heap[pkg], MeaninglessPutPos, PutWithoutPos)
      /\ pc = "idle" /\ pkg # NULL /\ UNCHANGED << pkg, variable, code, bytes, n, pc >>
  BY DEF Put
<1>2. para \in Params
  BY DEF Params, Parameter
<1>3. pkg \in Addrs /\ heap[pkg] \in Packages /\ heap[pkg].fetch = 0
  BY <1>1, PackageTyped
<1>4. q \in Packages /\ q.fetch = 0
  BY <1>1, <1>2, <1>3, FillIs
<1> HIDE DEF q
<1>5. heap'[pkg] = q
  BY <1>1, <1>3 DEF Inv, TypeOK
<1>6. TypeOK'
  BY <1>1, <1>4 DEF Inv, TypeOK
<1>7. PackageSound'
  BY <1>1, <1>4, <1>5 DEF PackageSound, FetchAligned
<1>8. FrameKept'
  BY <1>1 DEF Inv, FrameKept
<1> QED
  BY <1>6, <1>7, <1>8 DEF Inv

LEMMA InvResetPackage ==
  ASSUME Inv, ResetPackage
  PROVE  Inv'
<1>1. /\ heap' = [heap EXCEPT ![pkg] = ResetParameterPackage(heap[pkg])]
      /\ pc = "idle" /\ pkg # NULL /\ UNCHANGED << pkg, variable, code, bytes, n, pc >>
  BY DEF ResetPackage
<1>2. pkg \in Addrs /\ heap[pkg] \in Packages
  BY <1>1, PackageTyped
<1>3. heap'[pkg] \in Packages /\ heap'[pkg].fetch = 0
  BY <1>1, <1>2, ResetIs DEF Inv, TypeOK
<1>4. TypeOK'
  BY <1>1, <1>2, ResetIs DEF Inv, TypeOK
<1>5. PackageSound'
  BY <1>1, <1>3 DEF PackageSound, FetchAligned
<1>6. FrameKept'
  BY <1>1 DEF Inv, FrameKept
<1> QED
  BY <1>4, <1>5, <1>6 DEF Inv

LEMMA InvDestroyPackage ==
  ASSUME Inv, DestroyPackage
  PROVE  Inv'
<1>1. /\ heap' = [heap EXCEPT ![pkg] = NULL] /\ pkg' = NULL
      /\ pc = "idle" /\ UNCHANGED << variable, code, bytes, n, pc >>
  BY DEF DestroyPackage
<1>2. TypeOK'
  BY <1>1 DEF Inv, TypeOK
<1>3. PackageSound'
  BY <1>1 DEF PackageSound, FetchAligned
<1>4. FrameKept'
  BY <1>1 DEF Inv, FrameKept
<1> QED
  BY <1>2, <1>3, <1>4 DEF Inv

LEMMA InvSetSpeed ==
  ASSUME Inv, SetSpeed
  PROVE  Inv'
<1>1. /\ pc' = "fill" /\ n' = 1 /\ pkg # NULL /\ pc = "idle"
      /\ IsAllParameterSet(heap[pkg])
      /\ UNCHANGED << heap, pkg, variable, code, bytes >>
  BY DEF SetSpeed, appVars
<1>2. heap[pkg] \in Packages /\ heap[pkg].put = Size /\ heap[pkg].fetch = 0
  BY <1>1, PackageTyped DEF IsAllParameterSet
<1>3. TypeOK'
  BY <1>1, ElementsTyped DEF Inv, TypeOK
<1>4. Param(1) = 0
  BY ParamIs
<1>5. PackageSound'
  BY <1>1, <1>2, <1>4 DEF PackageSound, FetchAligned, Param
<1>6. FrameKept'
  BY <1>1, ElementsTyped DEF Inv, FrameKept
<1> QED
  BY <1>3, <1>5, <1>6 DEF Inv

LEMMA InvUnchanged ==
  ASSUME Inv, UNCHANGED vars
  PROVE  Inv'
BY DEF Inv, TypeOK, PackageSound, FetchAligned, FrameKept, SumBelow, vars

LEMMA InvSetVariable ==
  ASSUME Inv, NEW value \in PutValues, SetVariable(value)
  PROVE  Inv'
BY DEF Inv, TypeOK, PackageSound, FetchAligned, FrameKept, SumBelow, SetVariable

LEMMA InvReturn ==
  ASSUME Inv, Return
  PROVE  Inv'
<1>1. pc = "sent" /\ pc' = "idle" /\ UNCHANGED << heap, pkg, variable, code, bytes, n >>
  BY DEF Return, appVars
<1>2. TypeOK'
  BY <1>1 DEF Inv, TypeOK
<1>3. PackageSound'
  BY <1>1 DEF Inv, PackageSound, FetchAligned
<1>4. FrameKept'
  BY <1>1 DEF Inv, FrameKept
<1> QED
  BY <1>2, <1>3, <1>4 DEF Inv

-----------------------------------------------------------------------------
(* The loop of fill_cmd_seq_dynamically                                    *)

(* What the loop writes for an element keeps the frame of the command.     *)
LEMMA FrameStep ==
  ASSUME Inv, pc = "fill", NEW k \in DOMAIN Elements, k = n,
         Elements[k].kind # "constant",
         NEW split, DOMAIN split = 0 .. Elements[k].size - 1,
         Elements[k].kind = "checksum" => split[0] = SumBelow(Start[k]) % Byte,
         bytes' = PutBytes(Start[k], split), n' = n + 1
  PROVE  FrameKept' /\ DOMAIN bytes' = 0 .. BytesSize - 1
<1>1. DOMAIN bytes = 0 .. BytesSize - 1
  BY DEF Inv, TypeOK
<1>2. /\ DOMAIN bytes' = 0 .. BytesSize - 1
      /\ \A b \in 0 .. Elements[k].size - 1 : bytes'[Start[k] + b] = split[b]
  BY <1>1, PutBytesIs
<1>3. /\ \A j \in DOMAIN Elements \ {k} : \A b \in 0 .. Elements[j].size - 1 :
           bytes'[Start[j] + b] = bytes[Start[j] + b]
      /\ \A j \in DOMAIN Elements : j <= k => SumBelow(Start[j])' = SumBelow(Start[j])
  BY <1>1, WriteKeeps
<1>4. \A j \in DOMAIN Elements :
        /\ 0 \in 0 .. Elements[j].size - 1 /\ Start[j] + 0 = Start[j] /\ j \in Nat
  BY ElementsTyped, StartIs
<1>5. \A j \in DOMAIN Elements \ {k} : bytes'[Start[j]] = bytes[Start[j]]
  BY <1>3, <1>4
<1>6. ASSUME NEW j \in DOMAIN Elements, Elements[j].kind = "constant"
      PROVE  bytes'[Start[j]] = Elements[j].value
  BY <1>5, <1>6 DEF Inv, FrameKept
<1>7. ASSUME NEW j \in DOMAIN Elements, Elements[j].kind = "checksum", j < k + 1
      PROVE  bytes'[Start[j]] = (SumBelow(Start[j]) % Byte)'
  <2>1. CASE j = k
    BY <1>2, <1>3, <1>4, <1>7, <2>1
  <2>2. CASE j # k
    <3>1. j < k /\ j <= k
      BY <1>4, <1>7, <2>2
    <3>2. bytes[Start[j]] = SumBelow(Start[j]) % Byte
      BY <1>7, <3>1 DEF Inv, FrameKept
    <3> QED
      BY <1>3, <1>5, <2>2, <3>1, <3>2
  <2> QED
    BY <2>1, <2>2
<1> QED
  BY <1>2, <1>6, <1>7 DEF FrameKept

LEMMA InvConstantElement ==
  ASSUME Inv, ConstantElement
  PROVE  Inv'
<1>1. /\ pc = "fill" /\ n <= Len(Elements) /\ Elements[n].kind = "constant"
      /\ n' = n + 1 /\ UNCHANGED << heap, pkg, variable, code, bytes, pc >>
  BY DEF ConstantElement, AtElement, appVars
<1>2. PICK k \in DOMAIN Elements : k = n
  BY <1>1, ElementsTyped DEF Inv, TypeOK
<1>3. k + 1 \in 1 .. Len(Elements) + 1 /\ k \notin Computed
      /\ \A j \in DOMAIN Elements : j < k + 1 => j < k \/ j = k
  BY <1>1, <1>2, ElementsTyped DEF Computed
<1>4. Param(k + 1) = Param(k)
  BY <1>3, ParamIs
<1>5. TypeOK'
  BY <1>1, <1>2, <1>3 DEF Inv, TypeOK
<1>6. PackageSound'
  BY <1>1, <1>2, <1>4 DEF Inv, PackageSound, FetchAligned, Param
<1>7. FrameKept'
  BY <1>1, <1>2, <1>3 DEF Inv, FrameKept, SumBelow
<1> QED
  BY <1>5, <1>6, <1>7 DEF Inv

LEMMA InvComputedElement ==
  ASSUME Inv, ComputedElement
  PROVE  Inv'
<1>1. /\ pc = "fill" /\ n <= Len(Elements) /\ Elements[n].kind = "computed"
      /\ n' = n + 1 /\ heap' = [heap EXCEPT ![pkg] = FetchPara(heap[pkg])]
      /\ UNCHANGED << pkg, variable, pc >>
  BY DEF ComputedElement, AtElement
<1>2. PICK k \in DOMAIN Elements : k = n
  BY <1>1, ElementsTyped DEF Inv, TypeOK
<1>3. PICK word : bytes' = PutBytes(Start[n], Split(word, Elements[n].size))
  BY DEF ComputedElement
<1>4. DOMAIN code' = Ids
  BY DEF ComputedElement, Inv, TypeOK
<1>5. k \in Computed /\ k + 1 \in 1 .. Len(Elements) + 1 /\ k \in 1 .. Len(Elements) + 1
  BY <1>1, <1>2, ElementsTyped DEF Computed
<1>6. Param(k + 1) = Param(k) + 1 /\ Param(k + 1) \in 0 .. Size
  BY <1>5, <1>2, ParamIs
<1>7. pkg # NULL /\ pkg \in Addrs /\ heap[pkg] \in Packages
      /\ heap[pkg].fetch = Param(k) /\ heap[pkg].put = Size
  BY <1>1, <1>2, PackageTyped DEF Inv, PackageSound
<1>8. FetchPara(heap[pkg]) \in Packages /\ FetchPara(heap[pkg]).fetch = Param(k + 1)
      /\ FetchPara(heap[pkg]).put = Size
  BY <1>6, <1>7, FetchIs
<1>9. heap'[pkg] = FetchPara(heap[pkg])
  BY <1>1, <1>7 DEF Inv, TypeOK
<1>10. FrameKept' /\ DOMAIN bytes' = 0 .. BytesSize - 1
  <2> DEFINE split == Split(word, Elements[k].size)
  <2>1. DOMAIN split = 0 .. Elements[k].size - 1
    BY DEF Split
  <2>2. bytes' = PutBytes(Start[k], split)
    BY <1>2, <1>3
  <2>3. Elements[k].kind # "constant" /\ Elements[k].kind # "checksum"
    BY <1>1, <1>2
  <2> HIDE DEF split
  <2> QED
    BY <1>1, <1>2, <2>1, <2>2, <2>3, FrameStep
<1>11. TypeOK'
  BY <1>1, <1>2, <1>4, <1>5, <1>8, <1>10 DEF Inv, TypeOK
<1>12. PackageSound'
  BY <1>1, <1>2, <1>7, <1>8, <1>9 DEF PackageSound, FetchAligned, Param
<1> QED
  BY <1>10, <1>11, <1>12 DEF Inv

LEMMA InvChecksumElement ==
  ASSUME Inv, ChecksumElement
  PROVE  Inv'
<1>1. /\ pc = "fill" /\ n <= Len(Elements) /\ Elements[n].kind = "checksum"
      /\ bytes' = PutBytes(Start[n], [b \in {0} |-> CalculateChecksum])
      /\ n' = n + 1 /\ UNCHANGED << heap, pkg, variable, code, pc >>
  BY DEF ChecksumElement, AtElement, appVars
<1>2. PICK k \in DOMAIN Elements : k = n
  BY <1>1, ElementsTyped DEF Inv, TypeOK
<1>3. k \notin Computed /\ k + 1 \in 1 .. Len(Elements) + 1 /\ Elements[k].size = 1
  BY <1>1, <1>2, ElementsTyped DEF Computed
<1>4. Param(k + 1) = Param(k)
  BY <1>3, ParamIs
<1>5. FrameKept' /\ DOMAIN bytes' = 0 .. BytesSize - 1
  <2> DEFINE split == [b \in {0} |-> CalculateChecksum]
  <2>1. DOMAIN split = 0 .. Elements[k].size - 1
    BY <1>3
  <2>2. split[0] = SumBelow(Start[k]) % Byte
    BY <1>2 DEF CalculateChecksum
  <2>3. bytes' = PutBytes(Start[k], split)
    BY <1>1, <1>2
  <2>4. Elements[k].kind # "constant"
    BY <1>1, <1>2
  <2> HIDE DEF split
  <2> QED
    BY <1>1, <1>2, <2>1, <2>2, <2>3, <2>4, FrameStep
<1>6. TypeOK'
  BY <1>1, <1>2, <1>3, <1>5 DEF Inv, TypeOK
<1>7. PackageSound'
  BY <1>1, <1>2, <1>4 DEF Inv, PackageSound, FetchAligned, Param
<1> QED
  BY <1>5, <1>6, <1>7 DEF Inv

LEMMA InvFinish ==
  ASSUME Inv, Finish
  PROVE  Inv'
<1>1. /\ pc = "fill" /\ n > Len(Elements) /\ pc' = "sent"
      /\ heap' = [heap EXCEPT ![pkg] = ReuseParameterPackage(heap[pkg])]
      /\ UNCHANGED << pkg, variable, code, bytes, n >>
  BY DEF Finish
<1>2. pkg # NULL /\ pkg \in Addrs /\ heap[pkg] \in Packages /\ heap[pkg].put = Size
  BY <1>1, PackageTyped DEF Inv, PackageSound
<1>3. /\ heap'[pkg] \in Packages /\ heap'[pkg].fetch = 0 /\ heap'[pkg].put = Size
  BY <1>1, <1>2, ResetIs DEF Inv, TypeOK
<1>4. n = Len(Elements) + 1
  BY <1>1, ElementsTyped DEF Inv, TypeOK
<1>5. TypeOK'
  BY <1>1, <1>2, ResetIs DEF Inv, TypeOK
<1>6. PackageSound'
  BY <1>1, <1>2, <1>3, <1>4 DEF PackageSound, FetchAligned
<1>7. FrameKept'
  BY <1>1 DEF Inv, FrameKept, SumBelow
<1> QED
  BY <1>5, <1>6, <1>7 DEF Inv

LEMMA InvNext == Inv /\ [Next]_vars => Inv'
<1> SUFFICES ASSUME Inv, [Next]_vars
             PROVE  Inv'
  OBVIOUS
<1>1. CASE \E a \in Addrs : MakePackage(a)
  BY <1>1, InvMakePackage
<1>2. CASE \E value \in PutValues : Put(value)
  BY <1>2, InvPut
<1>3. CASE ResetPackage
  BY <1>3, InvResetPackage
<1>4. CASE DestroyPackage
  BY <1>4, InvDestroyPackage
<1>5. CASE \E value \in PutValues : SetVariable(value)
  BY <1>5, InvSetVariable
<1>6. CASE SetSpeed
  BY <1>6, InvSetSpeed
<1>7. CASE ConstantElement
  BY <1>7, InvConstantElement
<1>8. CASE ComputedElement
  BY <1>8, InvComputedElement
<1>9. CASE ChecksumElement
  BY <1>9, InvChecksumElement
<1>10. CASE Finish
  BY <1>10, InvFinish
<1>11. CASE Return
  BY <1>11, InvReturn
<1>12. CASE UNCHANGED vars
  BY <1>12, InvUnchanged
<1> QED
  BY <1>1, <1>2, <1>3, <1>4, <1>5, <1>6, <1>7, <1>8, <1>9, <1>10, <1>11, <1>12 DEF Next

(* In every state the application's package is one that init and the puts  *)
(* can have made, and everything below holds together.                     *)
THEOREM InvAlways == Spec => []Inv
BY InvInit, InvNext, PTL DEF Spec

(* FetchAligned: each computed element fetches the parameter of its own    *)
(* number, and every call begins with the first.                           *)
THEOREM FetchAlwaysAligned == Spec => []FetchAligned
<1>1. Inv => FetchAligned
  BY DEF Inv, PackageSound
<1> QED
  BY <1>1, InvAlways, PTL

(* FrameSound: in a command that is sent the constants are those of the    *)
(* configuration and a checksum is the sum of the bytes before it.         *)
THEOREM FrameAlwaysSound == Spec => []FrameSound
<1>1. Inv => FrameSound
  <2> SUFFICES ASSUME Inv, pc = "sent", NEW k \in DOMAIN Elements \ Computed
               PROVE  bytes[Start[k]] = IF Elements[k].kind = "constant"
                                          THEN Elements[k].value
                                          ELSE SumBelow(Start[k]) % Byte
    BY DEF FrameSound
  <2>1. Elements[k].kind \in {"constant", "checksum"} /\ k < Len(Elements) + 1
    BY ElementsTyped DEF Computed
  <2>2. n = Len(Elements) + 1
    BY DEF Inv, PackageSound
  <2> QED
    BY <2>1, <2>2 DEF Inv, FrameKept
<1> QED
  BY <1>1, InvAlways, PTL

-----------------------------------------------------------------------------
(* What the compiled code reads                                            *)

(* The two conditions under which a code block compiled once serves every  *)
(* later call: it belongs to one element (two of src/test/device.xml share *)
(* one, which is what the run Shared shows), and malloc gives a package    *)
(* made anew the place of the one it replaces.                             *)
OwnCodeBlocks ==
  \A j, k \in Computed :
    Elements[j].id = Elements[k].id /\ Elements[j].id # NoNeedComputation => j = k

SamePlace == MayDestroy => \A a, b \in Addrs : a = b

Kind(j) == IF j \in ByAddress THEN TRUE ELSE FALSE

CompiledAt(a, k) == [addr |-> a, index |-> Param(k), pointer |-> Kind(Param(k))]

Blocks == { k \in Computed : Elements[k].id # NoNeedComputation }

(* The parameters put are of the kinds of their numbers.                   *)
KindsKept ==
  pkg # NULL => \A j \in 0 .. heap[pkg].put - 1 : heap[pkg].paras[j].pointer = Kind(j)

(* Compiled code reads the parameter of its own element in the package of  *)
(* the application.                                                        *)
CodeOwn ==
  \A k \in Blocks :
    code[Elements[k].id] # NULL =>
      /\ \E a \in Addrs : code[Elements[k].id] = CompiledAt(a, k) /\ (pkg # NULL => a = pkg)
      /\ ~MayDestroy => pkg # NULL

(* The bytes behind the loop are those meant by the parameters.            *)
BytesMeant ==
  pc # "idle" =>
    \A k \in Blocks : k < n =>
      \A b \in 0 .. Elements[k].size - 1 :
        bytes[Start[k] + b] = (Meant(k) \div Byte ^ b) % Byte

CodeInv == KindsKept /\ CodeOwn /\ BytesMeant

LEMMA CodeInvInit == Init => CodeInv
<1> SUFFICES ASSUME Init
             PROVE  CodeInv
  OBVIOUS
<1>1. \A k \in Blocks : Elements[k].id \in Ids
  BY ElementsTyped DEF Blocks, Computed
<1> QED
  BY <1>1 DEF Init, CodeInv, KindsKept, CodeOwn, BytesMeant

LEMMA CodeInvMakePackage ==
  ASSUME SamePlace, Inv, CodeInv, NEW a \in Addrs, MakePackage(a)
  PROVE  CodeInv'
<1>1. /\ heap' = [heap EXCEPT ![a] = NewPackage(Size, PutWithoutPos, NULL)] /\ pkg' = a
      /\ pc = "idle" /\ pkg = NULL /\ UNCHANGED << code, bytes, n, pc >>
  BY DEF MakePackage, Size
<1>2. heap'[a].put = 0
  BY <1>1, NewPackageIs DEF Inv, TypeOK
<1>3. KindsKept'
  BY <1>1, <1>2 DEF KindsKept
<1>4. CodeOwn'
  <2> SUFFICES ASSUME NEW k \in Blocks, code[Elements[k].id] # NULL
               PROVE  /\ code[Elements[k].id] = CompiledAt(a, k) /\ a # NULL
    BY <1>1 DEF CodeOwn
  <2>1. PICK a1 \in Addrs : code[Elements[k].id] = CompiledAt(a1, k)
    BY DEF CodeInv, CodeOwn
  <2>2. MayDestroy
    BY <1>1 DEF CodeInv, CodeOwn
  <2>3. a1 = a
    BY <2>2 DEF SamePlace
  <2> QED
    BY <2>1, <2>3, CommandSequenceAssumption
<1>5. BytesMeant'
  BY <1>1 DEF BytesMeant
<1> QED
  BY <1>3, <1>4, <1>5 DEF CodeInv

LEMMA CodeInvPut ==
  ASSUME Inv, CodeInv, NEW value \in PutValues, Put(value)
  PROVE  CodeInv'
<1> DEFINE para == IF heap[pkg].put \in ByAddress
                     THEN Parameter(0, TRUE) ELSE Parameter(value, FALSE)
           q == FillParameterPackage(heap[pkg], para, MeaninglessPutPos, PutWithoutPos)
<1>1. /\ heap' = [heap EXCEPT ![pkg] = q]
      /\ ~CanNotPut(heap[pkg], MeaninglessPutPos, PutWithoutPos)
      /\ pc = "idle" /\ pkg # NULL /\ UNCHANGED << pkg, variable, code, bytes, n, pc >>
  BY DEF Put
<1>2. para \in Params /\ para.pointer = Kind(heap[pkg].put)
  BY DEF Params, Parameter, Kind
<1>3. pkg \in Addrs /\ heap[pkg] \in Packages
  BY <1>1, PackageTyped
<1> HIDE DEF para
<1>4. /\ q.put = heap[pkg].put + 1 /\ heap[pkg].put \in 0 .. Size - 1
      /\ q.paras = [heap[pkg].paras EXCEPT ![heap[pkg].put] = para]
      /\ heap[pkg].paras \in [0 .. Size - 1 -> Params \cup {NULL}]
      /\ heap[pkg].put \in 0 .. Size
  BY <1>1, <1>2, <1>3, FillIs, PackageFields
<1> HIDE DEF q
<1>5. heap'[pkg] = q
  BY <1>1, <1>3 DEF Inv, TypeOK
<1>6. KindsKept'
  <2> SUFFICES ASSUME NEW j \in 0 .. q.put - 1
               PROVE  q.paras[j].pointer = Kind(j)
    BY <1>1, <1>5 DEF KindsKept
  <2>1. Size \in Nat
    BY ParamIs
  <2>2. PICK u \in Nat : u = heap[pkg].put
    BY <1>4
  <2>3. j \in 0 .. Size - 1 /\ (j = u \/ j \in 0 .. u - 1)
    BY <1>4, <2>1, <2>2
  <2>4. q.paras[j] = IF j = u THEN para ELSE heap[pkg].paras[j]
    BY <1>4, <2>2, <2>3
  <2>5. j \in 0 .. u - 1 => heap[pkg].paras[j].pointer = Kind(j)
    BY <1>1, <2>2 DEF CodeInv, KindsKept
  <2> QED
    BY <1>2, <2>2, <2>3, <2>4, <2>5
<1>7. CodeOwn' /\ BytesMeant'
  BY <1>1 DEF CodeInv, CodeOwn, BytesMeant
<1> QED
  BY <1>6, <1>7 DEF CodeInv

LEMMA CodeInvResetPackage ==
  ASSUME Inv, CodeInv, ResetPackage
  PROVE  CodeInv'
<1>1. /\ heap' = [heap EXCEPT ![pkg] = ResetParameterPackage(heap[pkg])]
      /\ pc = "idle" /\ pkg # NULL /\ UNCHANGED << pkg, variable, code, bytes, n, pc >>
  BY DEF ResetPackage
<1>2. pkg \in Addrs /\ heap[pkg] \in Packages
  BY <1>1, PackageTyped
<1>3. heap'[pkg].put = 0
  BY <1>1, <1>2, ResetIs DEF Inv, TypeOK
<1> QED
  BY <1>1, <1>3 DEF CodeInv, KindsKept, CodeOwn, BytesMeant

LEMMA CodeInvDestroyPackage ==
  ASSUME CodeInv, DestroyPackage
  PROVE  CodeInv'
BY DEF DestroyPackage, CodeInv, KindsKept, CodeOwn, BytesMeant

LEMMA CodeInvSetVariable ==
  ASSUME CodeInv, NEW value \in PutValues, SetVariable(value)
  PROVE  CodeInv'
BY DEF SetVariable, CodeInv, KindsKept, CodeOwn, BytesMeant

LEMMA CodeInvSetSpeed ==
  ASSUME CodeInv, SetSpeed
  PROVE  CodeInv'
<1>1. pc' = "fill" /\ n' = 1 /\ UNCHANGED << heap, pkg, variable, code, bytes >>
  BY DEF SetSpeed, appVars
<1>2. \A k \in Blocks : ~(k < 1)
  BY ElementsTyped DEF Blocks, Computed
<1> QED
  BY <1>1, <1>2 DEF CodeInv, KindsKept, CodeOwn, BytesMeant

LEMMA CodeInvReturn ==
  ASSUME CodeInv, Return
  PROVE  CodeInv'
BY DEF Return, appVars, CodeInv, KindsKept, CodeOwn, BytesMeant

LEMMA CodeInvUnchanged ==
  ASSUME CodeInv, UNCHANGED vars
  PROVE  CodeInv'
BY DEF vars, CodeInv, KindsKept, CodeOwn, BytesMeant, Meant, Resolve

(* A step of the loop writes the bytes of one element and leaves those the *)
(* elements before it are meant to have.                                   *)
LEMMA MeantStep ==
  ASSUME Inv, BytesMeant, pc = "fill", NEW k \in DOMAIN Elements, k = n,
         NEW split, DOMAIN split = 0 .. Elements[k].size - 1,
         bytes' = PutBytes(Start[k], split), n' = n + 1,
         \A j \in Blocks : Meant(j)' = Meant(j),
         k \in Blocks => split = Split(Meant(k), Elements[k].size)
  PROVE  BytesMeant'
<1>1. DOMAIN bytes = 0 .. BytesSize - 1
  BY DEF Inv, TypeOK
<1>2. \A b \in 0 .. Elements[k].size - 1 : bytes'[Start[k] + b] = split[b]
  BY <1>1, PutBytesIs
<1>3. \A j \in DOMAIN Elements \ {k} : \A b \in 0 .. Elements[j].size - 1 :
        bytes'[Start[j] + b] = bytes[Start[j] + b]
  BY <1>1, WriteKeeps
<1>4. SUFFICES ASSUME NEW j \in Blocks, j < k + 1, NEW b \in 0 .. Elements[j].size - 1
               PROVE  bytes'[Start[j] + b] = (Meant(j) \div Byte ^ b) % Byte
  BY DEF BytesMeant
<1>5. CASE j = k
  BY <1>2, <1>4, <1>5 DEF Split
<1>6. CASE j # k
  <2>1. j \in DOMAIN Elements \ {k}
    BY <1>6 DEF Blocks, Computed
  <2>2. j < k
    BY <1>4, <1>6, <2>1, ElementsTyped
  <2>3. bytes[Start[j] + b] = (Meant(j) \div Byte ^ b) % Byte
    BY <2>2 DEF BytesMeant
  <2> QED
    BY <1>3, <2>1, <2>3
<1> QED
  BY <1>5, <1>6

LEMMA CodeInvConstantElement ==
  ASSUME Inv, CodeInv, ConstantElement
  PROVE  CodeInv'
<1>1. /\ pc = "fill" /\ n <= Len(Elements) /\ Elements[n].kind = "constant"
      /\ n' = n + 1 /\ UNCHANGED << heap, pkg, variable, code, bytes, pc >>
  BY DEF ConstantElement, AtElement, appVars
<1>2. \A j \in Blocks : j < n + 1 => j < n
  BY <1>1, ElementsTyped DEF Inv, TypeOK, Blocks, Computed
<1>3. KindsKept' /\ CodeOwn'
  BY <1>1 DEF CodeInv, KindsKept, CodeOwn
<1>4. BytesMeant'
  BY <1>1, <1>2 DEF CodeInv, BytesMeant, Meant, Resolve
<1> QED
  BY <1>3, <1>4 DEF CodeInv

LEMMA CodeInvChecksumElement ==
  ASSUME Inv, CodeInv, ChecksumElement
  PROVE  CodeInv'
<1>1. /\ pc = "fill" /\ n <= Len(Elements) /\ Elements[n].kind = "checksum"
      /\ bytes' = PutBytes(Start[n], [b \in {0} |-> CalculateChecksum])
      /\ n' = n + 1 /\ UNCHANGED << heap, pkg, variable, code, pc >>
  BY DEF ChecksumElement, AtElement, appVars
<1>2. PICK k \in DOMAIN Elements : k = n
  BY <1>1, ElementsTyped DEF Inv, TypeOK
<1>3. k \notin Blocks /\ Elements[k].size = 1
  BY <1>1, <1>2, ElementsTyped DEF Blocks, Computed
<1>4. KindsKept' /\ CodeOwn'
  BY <1>1 DEF CodeInv, KindsKept, CodeOwn
<1>5. BytesMeant'
  <2> DEFINE split == [b \in {0} |-> CalculateChecksum]
  <2>1. DOMAIN split = 0 .. Elements[k].size - 1
    BY <1>3
  <2>2. bytes' = PutBytes(Start[k], split)
    BY <1>1, <1>2
  <2>3. \A j \in Blocks : Meant(j)' = Meant(j)
    BY <1>1 DEF Meant, Resolve
  <2> HIDE DEF split
  <2> QED
    BY <1>1, <1>2, <1>3, <2>1, <2>2, <2>3, MeantStep DEF CodeInv
<1> QED
  BY <1>4, <1>5 DEF CodeInv

LEMMA CodeInvFinish ==
  ASSUME Inv, CodeInv, Finish
  PROVE  CodeInv'
<1>1. /\ pc = "fill" /\ pc' = "sent"
      /\ heap' = [heap EXCEPT ![pkg] = ReuseParameterPackage(heap[pkg])]
      /\ UNCHANGED << pkg, variable, code, bytes, n >>
  BY DEF Finish
<1>2. pkg # NULL /\ pkg \in Addrs /\ heap[pkg] \in Packages
  BY <1>1, PackageTyped DEF Inv, PackageSound
<1>3. heap'[pkg].put = heap[pkg].put /\ heap'[pkg].paras = heap[pkg].paras
  BY <1>1, <1>2, ResetIs DEF Inv, TypeOK
<1>4. \A j \in Blocks : Meant(j)' = Meant(j)
  BY <1>1, <1>3 DEF Meant, Resolve
<1> QED
  BY <1>1, <1>3, <1>4 DEF CodeInv, KindsKept, CodeOwn, BytesMeant

(* A computed element with a code block sends what its parameter means,    *)
(* whether the block is compiled now or was compiled for an earlier call.  *)
LEMMA CodeReads ==
  ASSUME OwnCodeBlocks, Inv, CodeInv, pc = "fill", NEW k \in Blocks, k = n
  PROVE  LET id == Elements[k].id
         IN Code(id) = CompiledAt(pkg, k)
            /\ \A v \in Readings(Code(id)) : Compute[id][v] = Meant(k)
<1> DEFINE id == Elements[k].id
           para == heap[pkg].paras[Param(k)]
<1>1. /\ k \in DOMAIN Elements /\ k \in 1 .. Len(Elements) + 1
      /\ k + 1 \in 1 .. Len(Elements) + 1 /\ k \in Computed
  BY ElementsTyped DEF Blocks, Computed
<1>2. Param(k) \in 0 .. Size - 1
  BY <1>1, ParamIs
<1>3. /\ pkg # NULL /\ pkg \in Addrs /\ heap[pkg] # NULL /\ heap[pkg].put = Size
      /\ heap[pkg].fetch = Param(k)
  BY PackageTyped DEF Inv, PackageSound
<1>4. para.pointer = Kind(Param(k))
  BY <1>2, <1>3 DEF CodeInv, KindsKept
<1>5. CompiledFor = CompiledAt(pkg, k)
  BY <1>3, <1>4 DEF CompiledFor, CompiledAt, NextPara
<1>6. code[id] # NULL => code[id] = CompiledAt(pkg, k)
  BY <1>3 DEF CodeInv, CodeOwn
<1>7. Code(id) = CompiledAt(pkg, k)
  BY <1>5, <1>6 DEF Code
<1>8. Readings(CompiledAt(pkg, k)) = { Resolve(para) }
  BY <1>3, <1>4 DEF Readings, CompiledAt
<1> QED
  BY <1>7, <1>8 DEF Meant

LEMMA CodeInvComputedElement ==
  ASSUME OwnCodeBlocks, Inv, CodeInv, ComputedElement
  PROVE  CodeInv'
<1>1. /\ pc = "fill" /\ n <= Len(Elements) /\ Elements[n].kind = "computed"
      /\ n' = n + 1 /\ heap' = [heap EXCEPT ![pkg] = FetchPara(heap[pkg])]
      /\ UNCHANGED << pkg, variable, pc >>
  BY DEF ComputedElement, AtElement
<1>2. PICK k \in DOMAIN Elements : k = n
  BY <1>1, ElementsTyped DEF Inv, TypeOK
<1>3. k \in Computed /\ k + 1 \in 1 .. Len(Elements) + 1 /\ k \in 1 .. Len(Elements) + 1
  BY <1>1, <1>2, ElementsTyped DEF Computed
<1>4. pkg # NULL /\ pkg \in Addrs /\ heap[pkg] \in Packages /\ heap[pkg].fetch = Param(k)
  BY <1>1, <1>2, PackageTyped DEF Inv, PackageSound
<1>5. Param(k) + 1 \in 0 .. Size
  BY <1>3, <1>2, ParamIs
<1>6. heap'[pkg].put = heap[pkg].put /\ heap'[pkg].paras = heap[pkg].paras
  BY <1>1, <1>4, <1>5, FetchIs DEF Inv, TypeOK
<1>7. \A j \in Blocks : Meant(j)' = Meant(j)
  BY <1>1, <1>6 DEF Meant, Resolve
<1>8. KindsKept'
  BY <1>1, <1>6 DEF CodeInv, KindsKept
<1>9. CASE k \in Blocks
  <2> DEFINE id == Elements[k].id
             split == Split(Meant(k), Elements[k].size)
  <2>1. id # NoNeedComputation /\ id \in Ids
    BY <1>9, ElementsTyped DEF Blocks
  <2>2. PICK v \in Readings(Code(id)) :
          bytes' = PutBytes(Start[k], Split(Compute[id][v], Elements[k].size))
    BY <1>2, <2>1 DEF ComputedElement
  <2>3. /\ Code(id) = CompiledAt(pkg, k) /\ bytes' = PutBytes(Start[k], split)
        /\ code' = [code EXCEPT ![id] = Code(id)]
    BY <1>1, <1>2, <1>9, <2>1, <2>2, CodeReads DEF ComputedElement
  <2>4. DOMAIN split = 0 .. Elements[k].size - 1
    BY DEF Split
  <2> HIDE DEF split
  <2>5. BytesMeant'
    BY <1>1, <1>2, <1>7, <2>3, <2>4, MeantStep DEF CodeInv, split
  <2>6. CodeOwn'
    <3> SUFFICES ASSUME NEW j \in Blocks, code'[Elements[j].id] # NULL
                 PROVE  \E a \in Addrs : /\ code'[Elements[j].id] = CompiledAt(a, j)
                                         /\ a = pkg
      BY <1>1, <1>4 DEF CodeOwn
    <3>1. CASE j = k
      BY <1>4, <2>1, <2>3, <3>1 DEF Inv, TypeOK
    <3>2. CASE j # k
      <4>1. Elements[j].id # id
        BY <1>3, <2>1, <3>2 DEF OwnCodeBlocks, Blocks
      <4>2. code'[Elements[j].id] = code[Elements[j].id]
        BY <2>3, <4>1
      <4> QED
        BY <1>4, <4>2 DEF CodeInv, CodeOwn
    <3> QED
      BY <3>1, <3>2
  <2> QED
    BY <1>8, <2>5, <2>6 DEF CodeInv
<1>10. CASE k \notin Blocks
  <2>1. Elements[n].id = NoNeedComputation
    BY <1>2, <1>3, <1>10 DEF Blocks
  <2>2. PICK v : bytes' = PutBytes(Start[k], Split(v, Elements[k].size))
    BY <1>2 DEF ComputedElement
  <2>3. UNCHANGED code
    BY <2>1 DEF ComputedElement
  <2> DEFINE split == Split(v, Elements[k].size)
  <2>4. DOMAIN split = 0 .. Elements[k].size - 1 /\ bytes' = PutBytes(Start[k], split)
    BY <2>2 DEF Split
  <2> HIDE DEF split
  <2>5. BytesMeant'
    BY <1>1, <1>2, <1>7, <1>10, <2>4, MeantStep DEF CodeInv
  <2>6. CodeOwn'
    BY <1>1, <2>3 DEF CodeInv, CodeOwn
  <2> QED
    BY <1>8, <2>5, <2>6 DEF CodeInv
<1> QED
  BY <1>9, <1>10

LEMMA CodeInvNext ==
  ASSUME OwnCodeBlocks, SamePlace
  PROVE  Inv /\ CodeInv /\ [Next]_vars => CodeInv'
<1> SUFFICES ASSUME Inv, CodeInv, [Next]_vars
             PROVE  CodeInv'
  OBVIOUS
<1>1. CASE \E a \in Addrs : MakePackage(a)
  BY <1>1, CodeInvMakePackage
<1>2. CASE \E value \in PutValues : Put(value)
  BY <1>2, CodeInvPut
<1>3. CASE ResetPackage
  BY <1>3, CodeInvResetPackage
<1>4. CASE DestroyPackage
  BY <1>4, CodeInvDestroyPackage
<1>5. CASE \E value \in PutValues : SetVariable(value)
  BY <1>5, CodeInvSetVariable
<1>6. CASE SetSpeed
  BY <1>6, CodeInvSetSpeed
<1>7. CASE ConstantElement
  BY <1>7, CodeInvConstantElement
<1>8. CASE ComputedElement
  BY <1>8, CodeInvComputedElement
<1>9. CASE ChecksumElement
  BY <1>9, CodeInvChecksumElement
<1>10. CASE Finish
  BY <1>10, CodeInvFinish
<1>11. CASE Return
  BY <1>11, CodeInvReturn
<1>12. CASE UNCHANGED vars
  BY <1>12, CodeInvUnchanged
<1> QED
  BY <1>1, <1>2, <1>3, <1>4, <1>5, <1>6, <1>7, <1>8, <1>9, <1>10, <1>11, <1>12 DEF Next

(* BytesCurrent: where every code block belongs to one element and a       *)
(* package made anew lies where the last one did, the bytes sent for an    *)
(* element are made from the parameter put for it in this call, whenever   *)
(* its code block was compiled.                                            *)
THEOREM BytesAlwaysCurrent ==
  ASSUME OwnCodeBlocks, SamePlace
  PROVE  Spec => []BytesCurrent
<1>1. Inv /\ CodeInv /\ [Next]_vars => CodeInv'
  BY CodeInvNext
<1>2. Inv /\ CodeInv => BytesCurrent
  <2> SUFFICES ASSUME Inv, CodeInv, pc = "sent", NEW k \in Computed,
                      Elements[k].id # NoNeedComputation,
                      NEW b \in 0 .. Elements[k].size - 1
               PROVE  bytes[Start[k] + b] = (Meant(k) \div Byte ^ b) % Byte
    BY DEF BytesCurrent
  <2>1. k \in Blocks /\ k < Len(Elements) + 1 /\ n = Len(Elements) + 1
    BY ElementsTyped DEF Blocks, Computed, Inv, PackageSound
  <2> QED
    BY <2>1 DEF CodeInv, BytesMeant
<1> QED
  BY <1>1, <1>2, CodeInvInit, InvAlways, PTL DEF Spec

=============================================================================
