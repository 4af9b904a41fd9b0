------------------------- MODULE DeviceOpen_proofs -------------------------
(***************************************************************************)
(* Theorems about device_open.c for every number of devices, buffers,      *)
(* entries and slots, and every hash function.                             *)
(***************************************************************************)
EXTENDS DeviceOpen, WellFoundedInduction, SequenceTheorems, TLAPS

(* A non-empty set of naturals has a least element: the searches of        *)
(* get_unused_index and get_hash_item, which stop at the first match,      *)
(* return something whenever something matches.                            *)
LEMMA LeastElement ==
  ASSUME NEW S \in SUBSET Nat, S # {}
  PROVE  \E m \in S : \A k \in S : m <= k
<1>1. IsWellFoundedOn(OpToRel(<, Nat), Nat)
  BY NatLessThanWellFounded
<1>2. PICK m \in S : \A y \in S : <<y, m>> \notin OpToRel(<, Nat)
  BY <1>1, WFMin
<1>3. \A k \in S : ~(k < m)
  BY <1>2 DEF OpToRel
<1> QED
  BY <1>3

LEMMA ElementType ==
  ASSUME NEW S, NEW q \in Seq(S), NEW i \in DOMAIN q
  PROVE  q[i] \in S
<1>1. i \in 1 .. Len(q)
  OBVIOUS
<1> QED
  BY <1>1, ElementOfSeq

(* get_unused_index (device_open.c:48-58) returns a free entry if any is.  *)
LEMMA UnusedIndexIsFree ==
  ASSUME Unused # {}
  PROVE  UnusedIndex \in Indices /\ openTable[UnusedIndex] = NULL
<1>1. Unused \in SUBSET Nat
  BY DeviceOpenAssumption DEF Unused, Indices
<1>2. \E i \in Unused : \A j \in Unused : i <= j
  BY <1>1, LeastElement
<1>3. UnusedIndex \in Unused
  BY <1>2 DEF UnusedIndex
<1> QED
  BY <1>3 DEF Unused

(* get_hash_item (hashstr.c:79-105) returns the value of an equal item of  *)
(* the chain whenever the chain has one.                                   *)
LEMMA LookupFindsItem ==
  ASSUME TypeOK, NEW l \in Lids, IsOpen(l)
  PROVE  \E i \in Items(HashOf[l]) :
           /\ mem[lid2idx[HashOf[l]][i].key] = l
           /\ OpenIndex(l) = lid2idx[HashOf[l]][i].value
           /\ OpenIndex(l) \in Indices
<1> DEFINE H == Hash!Hits(lid2idx, mem, l)
<1>1. lid2idx[HashOf[l]] \in Seq([key : Bufs, value : Indices])
  BY DeviceOpenAssumption DEF TypeOK
<1>2. H # {} /\ H \in SUBSET Nat
  BY <1>1 DEF IsOpen, Hash!IsMapped, Hash!Hits
<1>3. \E i \in H : \A j \in H : i <= j
  BY <1>2, LeastElement
<1>4. Hash!FirstHit(lid2idx, mem, l) \in H
  BY <1>3 DEF Hash!FirstHit
<1>5. Hash!FirstHit(lid2idx, mem, l) \in Items(HashOf[l])
      /\ mem[lid2idx[HashOf[l]][Hash!FirstHit(lid2idx, mem, l)].key] = l
  BY <1>4 DEF Hash!Hits, Items
<1>6. \A i \in Items(HashOf[l]) :
        lid2idx[HashOf[l]][i] \in [key : Bufs, value : Indices]
  BY <1>1, ElementType DEF Items
<1>7. lid2idx[HashOf[l]][Hash!FirstHit(lid2idx, mem, l)].value \in Indices
  BY <1>5, <1>6
<1> QED
  BY <1>5, <1>7 DEF OpenIndex, Hash!GetHashItem

-----------------------------------------------------------------------------
(* The tables hold entries of their kinds in every reachable state, even   *)
(* when the application rewrites its buffers.                              *)
LEMMA TypeInit == Init => TypeOK
  BY DeviceOpenAssumption
     DEF Init, TypeOK, Result, Hash!EmptyTable, Statuses

LEMMA TypeStep == TypeOK /\ [Next]_vars => TypeOK'
<1> SUFFICES ASSUME TypeOK, [Next]_vars
             PROVE  TypeOK'
  OBVIOUS
<1>1. ASSUME NEW b \in Bufs, OpenAlready(b)
      PROVE  TypeOK'
  <2>1. mem[b] \in Lids
    BY DEF TypeOK
  <2>2. OpenIndex(mem[b]) \in Indices
    BY <1>1, <2>1, LookupFindsItem DEF OpenAlready
  <2> QED
    BY <1>1, <2>1, <2>2 DEF OpenAlready, TypeOK, Result, Statuses
<1>2. ASSUME NEW b \in Bufs, OpenFull(b)
      PROVE  TypeOK'
  BY <1>2 DEF OpenFull, TypeOK, Result, Statuses
<1>3. ASSUME NEW b \in Bufs, OpenUnknown(b)
      PROVE  TypeOK'
  BY <1>3 DEF OpenUnknown, TypeOK
<1>4. ASSUME NEW b \in Bufs, OpenNew(b)
      PROVE  TypeOK'
  <2>1. UnusedIndex \in Indices
    BY <1>4, UnusedIndexIsFree DEF OpenNew
  <2>2. mem[b] \in Lids /\ mem[b] \in Registered /\ HashOf[mem[b]] \in Slots
    BY <1>4, DeviceOpenAssumption DEF OpenNew, TypeOK
  <2>3. openTable' \in [Indices -> Registered \cup {NULL}]
    BY <1>4, <2>1, <2>2 DEF OpenNew, TypeOK
  <2>4. lid2idx' \in [Slots -> Seq([key : Bufs, value : Indices])]
    <3>1. Hash!Item(b, UnusedIndex) \in [key : Bufs, value : Indices]
      BY <2>1 DEF Hash!Item
    <3>2. lid2idx[HashOf[mem[b]]] \in Seq([key : Bufs, value : Indices])
      BY <2>2 DEF TypeOK
    <3>3. Append(lid2idx[HashOf[mem[b]]], Hash!Item(b, UnusedIndex))
            \in Seq([key : Bufs, value : Indices])
      BY <3>1, <3>2
    <3> QED
      BY <1>4, <3>3 DEF OpenNew, TypeOK, Hash!AddHashItem
  <2>5. result' \in [lid : Lids \cup {NULL}, index : Indices \cup {-1},
                     status : Statuses]
    BY <1>4, <2>1, <2>2 DEF OpenNew, Result, Statuses
  <2> QED
    BY <1>4, <2>3, <2>4, <2>5 DEF OpenNew, TypeOK
<1>5. ASSUME NEW b \in Bufs, NEW lid \in Lids, Rewrite(b, lid)
      PROVE  TypeOK'
  BY <1>5 DEF Rewrite, TypeOK
<1>6. CASE UNCHANGED vars
  BY <1>6 DEF vars, TypeOK
<1> QED
  BY <1>1, <1>2, <1>3, <1>4, <1>5, <1>6 DEF Next

THEOREM TypeCorrect == Spec => []TypeOK
<1> QED
  BY TypeInit, TypeStep, PTL DEF Spec

-----------------------------------------------------------------------------
(* Under the chain invariant an item found is the only one of its lid, so  *)
(* the lookup answers its value.                                           *)
LEMMA LookupIsExact ==
  ASSUME TypeOK, ChainsInv, NEW l \in Lids, NEW i \in Items(HashOf[l]),
         mem[lid2idx[HashOf[l]][i].key] = l
  PROVE  IsOpen(l) /\ OpenIndex(l) = lid2idx[HashOf[l]][i].value
<1>1. IsOpen(l)
  BY DEF IsOpen, Hash!IsMapped, Hash!Hits, Items
<1>2. PICK j \in Items(HashOf[l]) :
        /\ mem[lid2idx[HashOf[l]][j].key] = l
        /\ OpenIndex(l) = lid2idx[HashOf[l]][j].value
  BY <1>1, LookupFindsItem
<1>3. i = j
  BY <1>2, DeviceOpenAssumption DEF ChainsInv, ItemsDistinct
<1> QED
  BY <1>1, <1>2, <1>3

(* What a new open does to the chains: one item more, at the tail of the   *)
(* chain of its lid, that points to the entry just filled.                 *)
LEMMA NewItem ==
  ASSUME TypeOK, NEW b \in Bufs, OpenNew(b)
  PROVE  LET h == HashOf[mem[b]]
             n == Len(lid2idx[h])
         IN /\ h \in Slots /\ n \in Nat
            /\ Items(h) = 1 .. n /\ DOMAIN lid2idx'[h] = 1 .. n + 1
            /\ lid2idx'[h][n + 1] = [key |-> b, value |-> UnusedIndex]
            /\ \A i \in 1 .. n : lid2idx'[h][i] = lid2idx[h][i]
            /\ \A s \in Slots \ {h} : lid2idx'[s] = lid2idx[s]
<1> DEFINE h == HashOf[mem[b]]
           q == lid2idx[h]
           it == [key |-> b, value |-> UnusedIndex]
<1>1. h \in Slots
  BY DeviceOpenAssumption DEF TypeOK
<1>2. UnusedIndex \in Indices
  BY UnusedIndexIsFree DEF OpenNew
<1>3. q \in Seq([key : Bufs, value : Indices]) /\ it \in [key : Bufs, value : Indices]
  BY <1>1, <1>2 DEF TypeOK
<1>4. lid2idx' = [lid2idx EXCEPT ![h] = Append(q, it)]
  <2>1. Hash!AddHashItem(lid2idx, mem, b, UnusedIndex)
          = [lid2idx EXCEPT ![h] = Append(q, it)]
    BY DEF OpenNew, IsOpen, Hash!AddHashItem, Hash!Item
  <2> QED
    BY <2>1 DEF OpenNew
<1>5. lid2idx'[h] = Append(q, it)
      /\ \A s \in Slots \ {h} : lid2idx'[s] = lid2idx[s]
  BY <1>1, <1>4 DEF TypeOK
<1>6. /\ Len(q) \in Nat
      /\ DOMAIN q = 1 .. Len(q)
      /\ DOMAIN Append(q, it) = 1 .. Len(q) + 1
      /\ Append(q, it)[Len(q) + 1] = it
      /\ \A i \in 1 .. Len(q) : Append(q, it)[i] = q[i]
  BY <1>3
<1> QED
  BY <1>1, <1>5, <1>6 DEF Items

(* ChainsInv: the invariant of hashstr.c's chains under stable keys.       *)
LEMMA ChainsInit == Init => ChainsInv
<1> SUFFICES ASSUME Init
             PROVE  ChainsInv
  OBVIOUS
<1>1. \A s \in Slots : Items(s) = {}
  BY DEF Init, Hash!EmptyTable, Items
<1> QED
  BY <1>1 DEF Init, ChainsInv, ItemsPlaced, EntriesMapped, ItemsDistinct

LEMMA ChainsStep ==
  ASSUME ~Reuse
  PROVE  TypeOK /\ ChainsInv /\ [Next]_vars => ChainsInv'
<1> SUFFICES ASSUME TypeOK, ChainsInv, [Next]_vars
             PROVE  ChainsInv'
  OBVIOUS
<1> USE DEF ChainsInv
<1>1. ASSUME UNCHANGED << mem, openTable, lid2idx >>
      PROVE  ChainsInv'
  BY <1>1 DEF ItemsPlaced, EntriesMapped, ItemsDistinct, Items
<1>2. ASSUME NEW b \in Bufs, OpenNew(b)
      PROVE  ChainsInv'
  <2> DEFINE h == HashOf[mem[b]]
             n == Len(lid2idx[h])
             e == UnusedIndex
  <2>1. /\ h \in Slots /\ n \in Nat
        /\ Items(h) = 1 .. n /\ DOMAIN lid2idx'[h] = 1 .. n + 1
        /\ lid2idx'[h][n + 1] = [key |-> b, value |-> e]
        /\ \A i \in 1 .. n : lid2idx'[h][i] = lid2idx[h][i]
        /\ \A s \in Slots \ {h} : lid2idx'[s] = lid2idx[s]
    BY <1>2, NewItem
  <2>2. e \in Indices /\ openTable[e] = NULL /\ mem[b] \in Registered
    BY <1>2, UnusedIndexIsFree DEF OpenNew
  <2>3. openTable' = [openTable EXCEPT ![e] = mem[b]] /\ mem' = mem
    BY <1>2 DEF OpenNew
  <2>4. openTable'[e] = mem[b]
        /\ \A k \in Indices \ {e} : openTable'[k] = openTable[k]
    BY <2>2, <2>3 DEF TypeOK
  <2>5. \A i \in 1 .. n : mem[lid2idx[h][i].key] # mem[b]
    BY <1>2, <2>1 DEF OpenNew, IsOpen, Hash!IsMapped, Hash!Hits, Items
  <2>6. \A s \in Slots : \A i \in Items(s) :
          lid2idx[s][i].key \in Bufs /\ lid2idx[s][i].value \in Indices
    <3> SUFFICES ASSUME NEW s \in Slots, NEW i \in Items(s)
                 PROVE  lid2idx[s][i] \in [key : Bufs, value : Indices]
      OBVIOUS
    <3> QED
      BY ElementType DEF TypeOK, Items
  <2>7. \A s \in Slots : \A i \in Items(s) : lid2idx[s][i].value # e
    <3> SUFFICES ASSUME NEW s \in Slots, NEW i \in Items(s),
                        lid2idx[s][i].value = e
                 PROVE  FALSE
      OBVIOUS
    <3>1. openTable[e] = mem[lid2idx[s][i].key]
      BY DEF ItemsPlaced
    <3> QED
      BY <3>1, <2>2, <2>6, DeviceOpenAssumption DEF TypeOK
  <2>8. \A s \in Slots \ {h} : DOMAIN lid2idx'[s] = Items(s)
    BY <2>1 DEF Items
  <2>9. ItemsPlaced'
    <3> SUFFICES ASSUME NEW s \in Slots, NEW i \in DOMAIN lid2idx'[s]
                 PROVE  /\ HashOf[mem[lid2idx'[s][i].key]] = s
                        /\ openTable'[lid2idx'[s][i].value]
                             = mem[lid2idx'[s][i].key]
      BY <2>3 DEF ItemsPlaced, Items
    <3>1. CASE s = h /\ i = n + 1
      BY <3>1, <2>1, <2>4
    <3>2. CASE ~(s = h /\ i = n + 1)
      <4>1. i \in Items(s) /\ lid2idx'[s][i] = lid2idx[s][i]
        BY <3>2, <2>1, <2>8
      <4> QED
        BY <4>1, <2>4, <2>6, <2>7 DEF ItemsPlaced
    <3> QED
      BY <3>1, <3>2
  <2>10. EntriesMapped'
    <3> SUFFICES ASSUME NEW k \in Indices, openTable'[k] # NULL
                 PROVE  \E i \in DOMAIN lid2idx'[HashOf[openTable'[k]]] :
                          lid2idx'[HashOf[openTable'[k]]][i].value = k
      BY DEF EntriesMapped, Items
    <3>1. CASE k = e
      <4>1. HashOf[openTable'[k]] = h /\ n + 1 \in DOMAIN lid2idx'[h]
        BY <3>1, <2>1, <2>4
      <4> QED
        BY <4>1, <3>1, <2>1
    <3>2. CASE k # e
      <4>1. openTable'[k] = openTable[k]
        BY <3>2, <2>4
      <4>2. PICK i \in Items(HashOf[openTable[k]]) :
              lid2idx[HashOf[openTable[k]]][i].value = k
        BY <4>1 DEF EntriesMapped
      <4>3. HashOf[openTable[k]] \in Slots
        BY <4>1, DeviceOpenAssumption DEF TypeOK
      <4>4. i \in DOMAIN lid2idx'[HashOf[openTable[k]]]
            /\ lid2idx'[HashOf[openTable[k]]][i]
                 = lid2idx[HashOf[openTable[k]]][i]
        BY <4>2, <4>3, <2>1, <2>8
      <4> QED
        BY <4>1, <4>2, <4>4
    <3> QED
      BY <3>1, <3>2
  <2>11. ItemsDistinct'
    <3> SUFFICES ASSUME NEW s \in Slots,
                        NEW i \in DOMAIN lid2idx'[s], NEW j \in DOMAIN lid2idx'[s],
                        mem[lid2idx'[s][i].key] = mem[lid2idx'[s][j].key]
                 PROVE  i = j
      BY <2>3 DEF ItemsDistinct, Items
    <3>1. CASE s # h
      BY <3>1, <2>1, <2>8 DEF ItemsDistinct
    <3>2. CASE s = h
      <4>1. i \in 1 .. n + 1 /\ j \in 1 .. n + 1
        BY <3>2, <2>1
      <4>2. CASE i \in 1 .. n /\ j \in 1 .. n
        BY <3>2, <4>2, <2>1 DEF ItemsDistinct
      <4>3. lid2idx'[h][n + 1].key = b
            /\ \A k \in 1 .. n : mem[lid2idx'[h][k].key] # mem[b]
        BY <2>1, <2>5
      <4>4. CASE i = n + 1 /\ j \in 1 .. n
        BY <3>2, <4>3, <4>4
      <4>5. CASE j = n + 1 /\ i \in 1 .. n
        BY <3>2, <4>3, <4>5
      <4> QED
        BY <4>1, <4>2, <4>4, <4>5, <2>1
    <3> QED
      BY <3>1, <3>2
  <2> QED
    BY <2>9, <2>10, <2>11
<1> QED
  BY <1>1, <1>2
     DEF Next, OpenAlready, OpenFull, OpenUnknown, Rewrite, vars

(* In every reachable state of a program whose lid buffers are stable the  *)
(* chains of lid2idx_table and the open table agree (device_open.c:17-45). *)
THEOREM ChainsCorrect ==
  ASSUME ~Reuse
  PROVE  Spec => []ChainsInv
<1>1. TypeOK /\ ChainsInv /\ [Next]_vars => ChainsInv'
  BY ChainsStep
<1> QED
  BY <1>1, ChainsInit, TypeCorrect, PTL DEF Spec

(* TablesAgree: an open device is found by its lid at the entry it was     *)
(* given, and whatever is found is an entry of that lid.                   *)
LEMMA ChainsImplyAgreement == TypeOK /\ ChainsInv => TablesAgree
<1> SUFFICES ASSUME TypeOK, ChainsInv
             PROVE  TablesAgree
  OBVIOUS
<1>1. ASSUME NEW i \in Indices, openTable[i] # NULL
      PROVE  IsOpen(openTable[i]) /\ OpenIndex(openTable[i]) = i
  <2>1. openTable[i] \in Lids
    BY <1>1, DeviceOpenAssumption DEF TypeOK
  <2>2. PICK k \in Items(HashOf[openTable[i]]) :
          lid2idx[HashOf[openTable[i]]][k].value = i
    BY <1>1 DEF ChainsInv, EntriesMapped
  <2>3. mem[lid2idx[HashOf[openTable[i]]][k].key] = openTable[i]
    BY <2>1, <2>2, DeviceOpenAssumption DEF ChainsInv, ItemsPlaced
  <2> QED
    BY <2>1, <2>2, <2>3, LookupIsExact
<1>2. ASSUME NEW l \in Lids, IsOpen(l)
      PROVE  openTable[OpenIndex(l)] = l
  <2>1. PICK k \in Items(HashOf[l]) :
          /\ mem[lid2idx[HashOf[l]][k].key] = l
          /\ OpenIndex(l) = lid2idx[HashOf[l]][k].value
    BY <1>2, LookupFindsItem
  <2> QED
    BY <2>1, DeviceOpenAssumption DEF ChainsInv, ItemsPlaced
<1> QED
  BY <1>1, <1>2 DEF TablesAgree

THEOREM TablesAlwaysAgree ==
  ASSUME ~Reuse
  PROVE  Spec => []TablesAgree
<1> QED
  BY ChainsImplyAgreement, ChainsCorrect, TypeCorrect, PTL

-----------------------------------------------------------------------------
(* AnswerNamesDevice: the index returned by open_device is an entry of the *)
(* device that was asked for.                                              *)
THEOREM AnswersNameDevices ==
  ASSUME ~Reuse
  PROVE  Spec => []AnswerNamesDevice
<1>1. Init => AnswerNamesDevice
  BY DEF Init, AnswerNamesDevice, Result
<1>2. TypeOK /\ TablesAgree /\ AnswerNamesDevice /\ [Next]_vars
        => AnswerNamesDevice'
  <2> SUFFICES ASSUME TypeOK, TablesAgree, AnswerNamesDevice, [Next]_vars
               PROVE  AnswerNamesDevice'
    OBVIOUS
  <2> USE DEF AnswerNamesDevice
  <2>1. ASSUME NEW b \in Bufs, OpenAlready(b)
        PROVE  AnswerNamesDevice'
    <3>1. mem[b] \in Lids
      BY DEF TypeOK
    <3>2. openTable[OpenIndex(mem[b])] = mem[b]
      BY <2>1, <3>1 DEF TablesAgree, OpenAlready
    <3> QED
      BY <2>1, <3>2 DEF OpenAlready, Result
  <2>2. ASSUME NEW b \in Bufs, OpenFull(b)
        PROVE  AnswerNamesDevice'
    BY <2>2 DEF OpenFull, Result
  <2>3. ASSUME NEW b \in Bufs, OpenUnknown(b)
        PROVE  AnswerNamesDevice'
    BY <2>3 DEF OpenUnknown
  <2>4. ASSUME NEW b \in Bufs, OpenNew(b)
        PROVE  AnswerNamesDevice'
    <3>1. UnusedIndex \in Indices
      BY <2>4, UnusedIndexIsFree DEF OpenNew
    <3>2. openTable'[UnusedIndex] = mem[b]
      BY <2>4, <3>1 DEF OpenNew, TypeOK
    <3> QED
      BY <2>4, <3>2 DEF OpenNew, Result
  <2>5. CASE UNCHANGED vars
    BY <2>5 DEF vars
  <2> QED
    BY <2>1, <2>2, <2>3, <2>4, <2>5 DEF Next, Rewrite
<1> QED
  BY <1>1, <1>2, TypeCorrect, TablesAlwaysAgree, PTL DEF Spec

(* RefusedOnlyWhenFull: -1 means that MaxOpen different devices are open,  *)
(* none of them the one asked for.                                         *)
THEOREM RefusalsAreJustified ==
  ASSUME ~Reuse
  PROVE  Spec => []RefusedOnlyWhenFull
<1>1. Init => RefusedOnlyWhenFull
  BY DEF Init, RefusedOnlyWhenFull, Result
<1>2. TypeOK /\ TablesAgree /\ RefusedOnlyWhenFull /\ [Next]_vars
        => RefusedOnlyWhenFull'
  <2> SUFFICES ASSUME TypeOK, TablesAgree, RefusedOnlyWhenFull, [Next]_vars
               PROVE  RefusedOnlyWhenFull'
    OBVIOUS
  <2> USE DEF RefusedOnlyWhenFull
  <2>1. ASSUME NEW b \in Bufs, OpenAlready(b)
        PROVE  RefusedOnlyWhenFull'
    BY <2>1 DEF OpenAlready, Result
  <2>2. ASSUME NEW b \in Bufs, OpenFull(b)
        PROVE  RefusedOnlyWhenFull'
    <3>1. \A i \in Indices : openTable[i] # NULL
      BY <2>2 DEF OpenFull, Unused
    <3>2. \A i \in Indices : openTable[i] # mem[b]
      BY <2>2, <3>1 DEF OpenFull, TablesAgree
    <3>3. \A i, j \in Indices : openTable[i] = openTable[j] => i = j
      BY <3>1 DEF TablesAgree
    <3> QED
      BY <2>2, <3>1, <3>2, <3>3 DEF OpenFull, Result
  <2>3. ASSUME NEW b \in Bufs, OpenUnknown(b)
        PROVE  RefusedOnlyWhenFull'
    BY <2>3 DEF OpenUnknown
  <2>4. ASSUME NEW b \in Bufs, OpenNew(b)
        PROVE  RefusedOnlyWhenFull'
    BY <2>4 DEF OpenNew, Result
  <2>5. CASE UNCHANGED vars
    BY <2>5 DEF vars
  <2> QED
    BY <2>1, <2>2, <2>3, <2>4, <2>5 DEF Next, Rewrite
<1> QED
  BY <1>1, <1>2, TypeCorrect, TablesAlwaysAgree, PTL DEF Spec

-----------------------------------------------------------------------------
(* The lookup table and the open table answer alike: the handle of a lid   *)
(* is the entry that holds it, and a lid no entry holds has no handle.     *)
HandlesAreEntries ==
  /\ HandleOf \in [Lids -> Indices \cup {-1}]
  /\ \A l \in Lids : IsOpen(l) <=> HandleOf[l] # -1
  /\ \A l \in Lids : IsOpen(l) => HandleOf[l] = OpenIndex(l)
  /\ \A l \in Lids, i \in Indices : HandleOf[l] = i <=> openTable[i] = l

LEMMA HandleIsEntry == TypeOK /\ TablesAgree => HandlesAreEntries
<1> SUFFICES ASSUME TypeOK, TablesAgree
             PROVE  HandlesAreEntries
  OBVIOUS
<1>1. \A l \in Lids : IsOpen(l) => OpenIndex(l) \in Indices
  BY LookupFindsItem
<1>2. \A i \in Indices : i # -1
  BY DEF Indices
<1>3. \A l \in Lids : HandleOf[l] = IF IsOpen(l) THEN OpenIndex(l) ELSE -1
  BY DEF HandleOf
<1>4. HandleOf \in [Lids -> Indices \cup {-1}]
  BY <1>1 DEF HandleOf
<1>5. ASSUME NEW l \in Lids, NEW i \in Indices
      PROVE  HandleOf[l] = i <=> openTable[i] = l
  <2>1. l # NULL
    BY DeviceOpenAssumption
  <2>2. openTable[i] = l => IsOpen(l) /\ OpenIndex(l) = i
    BY <2>1 DEF TablesAgree
  <2>3. IsOpen(l) => openTable[OpenIndex(l)] = l
    BY DEF TablesAgree
  <2> QED
    BY <1>2, <1>3, <2>2, <2>3
<1> QED
  BY <1>1, <1>2, <1>3, <1>4, <1>5 DEF HandlesAreEntries

(* open_device implements the promise of HandleTable.                      *)
THEOREM ImplementsHandleTable ==
  ASSUME ~Reuse
  PROVE  Spec => HandlePromise
<1>1. Init => Promise!Init
  <2> SUFFICES ASSUME Init
               PROVE  Promise!Init
    OBVIOUS
  <2>1. \A l \in Lids : ~IsOpen(l)
    BY DeviceOpenAssumption
       DEF Init, IsOpen, Hash!IsMapped, Hash!Hits, Hash!EmptyTable
  <2>2. HandleOf = [l \in Lids |-> -1]
    BY <2>1 DEF HandleOf
  <2> QED
    BY <2>2 DEF Init, Result, Promise!Init, Promise!NoHandle, Promise!Reply
<1>2. TypeOK /\ TablesAgree /\ TypeOK' /\ TablesAgree' /\ [Next]_vars
        => [Promise!Next]_(Promise!htVars)
  <2> SUFFICES ASSUME TypeOK, TablesAgree, TypeOK', TablesAgree', [Next]_vars
               PROVE  [Promise!Next]_(Promise!htVars)
    OBVIOUS
  <2> USE DEF Promise!NoHandle, Promise!Reply, Result
  <2>1. /\ HandleOf \in [Lids -> Indices \cup {-1}]
        /\ \A l \in Lids : IsOpen(l) <=> HandleOf[l] # -1
        /\ \A l \in Lids : IsOpen(l) => HandleOf[l] = OpenIndex(l)
        /\ \A l \in Lids, i \in Indices : HandleOf[l] = i <=> openTable[i] = l
    BY HandleIsEntry DEF HandlesAreEntries
  <2>2. /\ HandleOf' \in [Lids -> Indices \cup {-1}]
        /\ \A l \in Lids, i \in Indices :
             HandleOf'[l] = i <=> openTable'[i] = l
    <3>1. TypeOK' /\ TablesAgree' => HandlesAreEntries'
      BY HandleIsEntry, PTL
    <3> QED
      BY <3>1 DEF HandlesAreEntries
  <2>3. \A b \in Bufs : mem[b] \in Lids
    BY DEF TypeOK
  <2>4. UNCHANGED << mem, lid2idx >> => HandleOf' = HandleOf
    BY DEF HandleOf, IsOpen, OpenIndex, Hash!IsMapped, Hash!GetHashItem,
           Hash!FirstHit, Hash!Hits
  <2>5. ASSUME NEW b \in Bufs, OpenAlready(b)
        PROVE  Promise!Next
    <3>1. Promise!Reopen(mem[b])
      BY <2>1, <2>3, <2>4, <2>5 DEF OpenAlready, Promise!Reopen
    <3> QED
      BY <2>3, <3>1 DEF Promise!Next
  <2>6. ASSUME NEW b \in Bufs, OpenFull(b)
        PROVE  Promise!Next
    <3>1. HandleOf[mem[b]] = -1
      BY <2>1, <2>3, <2>6 DEF OpenFull
    <3>2. Indices \subseteq Promise!Taken
      <4> SUFFICES ASSUME NEW i \in Indices
                   PROVE  \E l \in Lids : HandleOf[l] = i
        BY DEF Promise!Taken
      <4>1. openTable[i] \in Lids
        BY <2>6, DeviceOpenAssumption DEF OpenFull, Unused, TypeOK
      <4> QED
        BY <4>1, <2>1
    <3>3. Promise!Refuse(mem[b])
      BY <2>4, <2>6, <3>1, <3>2 DEF OpenFull, Promise!Refuse
    <3> QED
      BY <2>3, <3>3 DEF Promise!Next
  <2>7. ASSUME NEW b \in Bufs, OpenUnknown(b)
        PROVE  Promise!Next
    <3>1. Promise!Abort(mem[b])
      BY <2>4, <2>7 DEF OpenUnknown, Promise!Abort
    <3> QED
      BY <2>3, <3>1 DEF Promise!Next
  <2>8. ASSUME NEW b \in Bufs, OpenNew(b)
        PROVE  Promise!Next
    <3> DEFINE e == UnusedIndex
    <3>1. e \in Indices /\ openTable[e] = NULL
      BY <2>8, UnusedIndexIsFree DEF OpenNew
    <3>2. openTable'[e] = mem[b]
          /\ \A k \in Indices \ {e} : openTable'[k] = openTable[k]
      BY <2>8, <3>1 DEF OpenNew, TypeOK
    <3>3. HandleOf[mem[b]] = -1
      BY <2>1, <2>3, <2>8 DEF OpenNew
    <3>4. e \notin Promise!Taken
      BY <2>1, <3>1, DeviceOpenAssumption DEF Promise!Taken
    <3>5. HandleOf' = [HandleOf EXCEPT ![mem[b]] = e]
      <4>1. HandleOf'[mem[b]] = e
        BY <2>2, <2>3, <3>1, <3>2
      <4>2. ASSUME NEW l \in Lids, l # mem[b]
            PROVE  HandleOf'[l] = HandleOf[l]
        <5>1. \A k \in Indices : openTable'[k] = l <=> openTable[k] = l
          BY <3>1, <3>2, <4>2, DeviceOpenAssumption
        <5>2. \A k \in Indices : HandleOf'[l] = k <=> HandleOf[l] = k
          BY <5>1, <2>1, <2>2
        <5>3. HandleOf'[l] \in Indices \cup {-1} /\ HandleOf[l] \in Indices \cup {-1}
          BY <2>1, <2>2
        <5> QED
          BY <5>2, <5>3
      <4> QED
        BY <4>1, <4>2, <2>1, <2>2, <2>3
    <3>6. Promise!Assign(mem[b])
      BY <2>8, <3>1, <3>3, <3>4, <3>5 DEF OpenNew, Promise!Assign
    <3> QED
      BY <2>3, <3>6 DEF Promise!Next
  <2>9. CASE UNCHANGED vars
    BY <2>4, <2>9 DEF vars, Promise!htVars
  <2> QED
    BY <2>5, <2>6, <2>7, <2>8, <2>9 DEF Next, Rewrite
<1> QED
  BY <1>1, <1>2, TypeCorrect, TablesAlwaysAgree, PTL
     DEF Spec, HandlePromise, Promise!Spec

-----------------------------------------------------------------------------
(* The entries of the table are filled from the first one on, and the      *)
(* items of the chains point one to one to the filled entries.  It names   *)
(* no buffer: it survives every rewriting of the caller's lids.            *)
FilledInOrder ==
  \A i, j \in Indices : i < j /\ openTable[j] # NULL => openTable[i] # NULL

ItemsPointToEntries ==
  \A s \in Slots : \A k \in Items(s) : openTable[lid2idx[s][k].value] # NULL

EntriesHaveItems ==
  \A e \in Indices : openTable[e] # NULL =>
    \E s \in Slots : \E k \in Items(s) : lid2idx[s][k].value = e

ItemsPointApart ==
  \A s, t \in Slots : \A k \in Items(s), j \in Items(t) :
    lid2idx[s][k].value = lid2idx[t][j].value => s = t /\ k = j

EntriesInv ==
  FilledInOrder /\ ItemsPointToEntries /\ EntriesHaveItems /\ ItemsPointApart

LEMMA EntriesInit == Init => EntriesInv
<1> SUFFICES ASSUME Init
             PROVE  EntriesInv
  OBVIOUS
<1>1. \A s \in Slots : Items(s) = {}
  BY DEF Init, Items, Hash!EmptyTable
<1>2. \A e \in Indices : openTable[e] = NULL
  BY DEF Init
<1> QED
  BY <1>1, <1>2
     DEF EntriesInv, FilledInOrder, ItemsPointToEntries, EntriesHaveItems,
         ItemsPointApart

(* get_unused_index passes over filled entries only.                       *)
LEMMA UnusedIndexIsFirst ==
  ASSUME NEW i \in Indices, i < UnusedIndex
  PROVE  Unused # {} => openTable[i] # NULL
<1> SUFFICES ASSUME Unused # {}, openTable[i] = NULL
             PROVE  FALSE
  OBVIOUS
<1>1. Unused \in SUBSET Nat
  BY DeviceOpenAssumption DEF Unused, Indices
<1>2. \E k \in Unused : \A j \in Unused : k <= j
  BY <1>1, LeastElement
<1>3. UnusedIndex \in Unused /\ \A j \in Unused : UnusedIndex <= j
  BY <1>2 DEF UnusedIndex
<1>4. i \in Unused
  BY DEF Unused
<1>5. i \in Nat /\ UnusedIndex \in Nat
  BY <1>1, <1>3, <1>4
<1> QED
  BY <1>3, <1>4, <1>5

LEMMA EntriesStep == TypeOK /\ EntriesInv /\ [Next]_vars => EntriesInv'
<1> SUFFICES ASSUME TypeOK, EntriesInv, [Next]_vars
             PROVE  EntriesInv'
  OBVIOUS
<1> USE DEF EntriesInv
<1>1. ASSUME UNCHANGED << openTable, lid2idx >>
      PROVE  EntriesInv'
  BY <1>1 DEF FilledInOrder, ItemsPointToEntries, EntriesHaveItems,
              ItemsPointApart, Items
<1>2. ASSUME NEW b \in Bufs, OpenNew(b)
      PROVE  EntriesInv'
  <2> DEFINE h == HashOf[mem[b]]
             n == Len(lid2idx[h])
             e == UnusedIndex
  <2>1. /\ h \in Slots /\ n \in Nat
        /\ Items(h) = 1 .. n /\ DOMAIN lid2idx'[h] = 1 .. n + 1
        /\ lid2idx'[h][n + 1] = [key |-> b, value |-> e]
        /\ \A i \in 1 .. n : lid2idx'[h][i] = lid2idx[h][i]
        /\ \A s \in Slots \ {h} : lid2idx'[s] = lid2idx[s]
    BY <1>2, NewItem
  <2>2. e \in Indices /\ openTable[e] = NULL /\ mem[b] \in Registered
    BY <1>2, UnusedIndexIsFree DEF OpenNew
  <2>3. openTable'[e] # NULL
        /\ \A k \in Indices \ {e} : openTable'[k] = openTable[k]
    BY <1>2, <2>2, DeviceOpenAssumption DEF OpenNew, TypeOK
  <2>4. \A i \in Indices : i < e => openTable[i] # NULL
    BY <1>2, UnusedIndexIsFirst DEF OpenNew
  <2>5. \A s \in Slots : \A i \in Items(s) : lid2idx[s][i].value \in Indices \ {e}
    <3> SUFFICES ASSUME NEW s \in Slots, NEW i \in Items(s)
                 PROVE  lid2idx[s][i].value \in Indices \ {e}
      OBVIOUS
    <3>1. lid2idx[s][i] \in [key : Bufs, value : Indices]
      BY ElementType DEF TypeOK, Items
    <3> QED
      BY <3>1, <2>2 DEF ItemsPointToEntries
  <2>6. \A s \in Slots : \A i \in DOMAIN lid2idx'[s] :
          \/ s = h /\ i = n + 1 /\ lid2idx'[s][i].value = e
          \/ i \in Items(s) /\ lid2idx'[s][i].value = lid2idx[s][i].value
    BY <2>1 DEF Items
  <2>7. \A s \in Slots : \A i \in Items(s) :
          i \in DOMAIN lid2idx'[s] /\ lid2idx'[s][i].value = lid2idx[s][i].value
    BY <2>1 DEF Items
  <2>8. FilledInOrder'
    <3> SUFFICES ASSUME NEW i \in Indices, NEW j \in Indices, i < j,
                        openTable'[j] # NULL
                 PROVE  openTable'[i] # NULL
      BY DEF FilledInOrder
    <3>1. CASE j = e
      BY <3>1, <2>3, <2>4
    <3>2. CASE j # e
      BY <3>2, <2>3 DEF FilledInOrder
    <3> QED
      BY <3>1, <3>2
  <2>9. ItemsPointToEntries'
    BY <2>3, <2>5, <2>6 DEF ItemsPointToEntries, Items
  <2>10. EntriesHaveItems'
    <3> SUFFICES ASSUME NEW k \in Indices, openTable'[k] # NULL
                 PROVE  \E s \in Slots : \E i \in DOMAIN lid2idx'[s] : lid2idx'[s][i].value = k
      BY DEF EntriesHaveItems, Items
    <3>1. CASE k = e
      <4>1. n + 1 \in DOMAIN lid2idx'[h]
        BY <2>1 DEF Items
      <4> QED
        BY <4>1, <3>1, <2>1
    <3>2. CASE k # e
      BY <3>2, <2>3, <2>7 DEF EntriesHaveItems
    <3> QED
      BY <3>1, <3>2
  <2>11. ItemsPointApart'
    <3> SUFFICES ASSUME NEW s \in Slots, NEW t \in Slots,
                        NEW k \in DOMAIN lid2idx'[s], NEW j \in DOMAIN lid2idx'[t],
                        lid2idx'[s][k].value = lid2idx'[t][j].value
                 PROVE  s = t /\ k = j
      BY DEF ItemsPointApart, Items
    <3>1. CASE k \in Items(s) /\ lid2idx'[s][k].value = lid2idx[s][k].value
      <4>1. CASE j \in Items(t) /\ lid2idx'[t][j].value = lid2idx[t][j].value
        <5>1. lid2idx[s][k].value = lid2idx[t][j].value
          BY <3>1, <4>1
        <5> QED
          BY <5>1, <3>1, <4>1 DEF ItemsPointApart
      <4>2. CASE t = h /\ j = n + 1 /\ lid2idx'[t][j].value = e
        BY <3>1, <4>2, <2>5
      <4> QED
        BY <4>1, <4>2, <2>6
    <3>2. CASE s = h /\ k = n + 1 /\ lid2idx'[s][k].value = e
      BY <3>2, <2>5, <2>6
    <3> QED
      BY <3>1, <3>2, <2>6
  <2> QED
    BY <2>8, <2>9, <2>10, <2>11
<1> QED
  BY <1>1, <1>2
     DEF Next, OpenAlready, OpenFull, OpenUnknown, Rewrite, vars

(* EntriesAccountedFor: whatever the application writes into its lid       *)
(* buffers, open_device (device_open.c:17-45) fills the entries in order   *)
(* and each filled entry has exactly one item that leads to it.            *)
LEMMA EntriesImplyAccount == EntriesInv => EntriesAccountedFor
<1> SUFFICES ASSUME EntriesInv
             PROVE  EntriesAccountedFor
  OBVIOUS
<1> USE DEF EntriesInv
<1> DEFINE Owners(i) == { si \in UNION { {s} \X Items(s) : s \in Slots } :
                            lid2idx[si[1]][si[2]].value = i }
<1>1. \A i \in Indices, s \in Slots : \A k \in Items(s) :
        lid2idx[s][k].value = i => << s, k >> \in Owners(i)
  OBVIOUS
<1>2. \A i \in Indices : \A si \in Owners(i) :
        /\ si = << si[1], si[2] >>
        /\ si[1] \in Slots /\ si[2] \in Items(si[1])
        /\ lid2idx[si[1]][si[2]].value = i
  OBVIOUS
<1>3. ASSUME NEW i \in Indices
      PROVE  IF openTable[i] = NULL THEN Owners(i) = {}
             ELSE \E si \in Owners(i) : Owners(i) = {si}
  <2>1. CASE openTable[i] = NULL
    BY <2>1, <1>2 DEF ItemsPointToEntries
  <2>2. CASE openTable[i] # NULL
    <3>0. PICK s \in Slots : \E k \in Items(s) : lid2idx[s][k].value = i
      BY <2>2 DEF EntriesHaveItems
    <3>1. PICK k \in Items(s) : lid2idx[s][k].value = i
      BY <3>0
    <3>2. << s, k >> \in Owners(i)
      BY <1>1, <3>1
    <3>3. \A si \in Owners(i) : si = << s, k >>
      BY <1>2, <3>1 DEF ItemsPointApart
    <3>4. Owners(i) = {<< s, k >>}
      BY <3>2, <3>3
    <3> QED
      BY <2>2, <3>2, <3>4
  <2> QED
    BY <2>1, <2>2
<1> QED
  BY <1>3 DEF EntriesAccountedFor, FilledInOrder

THEOREM EntriesAlwaysAccountedFor == Spec => []EntriesAccountedFor
<1>1. TypeOK /\ EntriesInv /\ [Next]_vars => EntriesInv'
  BY EntriesStep
<1> QED
  BY <1>1, EntriesInit, EntriesImplyAccount, TypeCorrect, PTL DEF Spec

=============================================================================
