----------------------------- MODULE DeviceOpen -----------------------------
(***************************************************************************)
(* device_open.c: the table of open devices and the hash table that finds  *)
(* an entry of it again by logical id.  There is no close in this system:  *)
(* entries are only ever filled.                                           *)
(*                                                                         *)
(* The caller passes a lid as a char*; lid2idx_mapping stores that pointer *)
(* as the key.  The caller's buffers are therefore part of the state.      *)
(* Reuse says whether the application writes another lid into a buffer it  *)
(* has already used (FALSE: every lid is a string constant, as in          *)
(* src/test/test_device_open.c).                                                       *)
(***************************************************************************)
EXTENDS Integers, Sequences

CONSTANTS
  Lids,         \* the strings a lid buffer may hold
  Registered,   \* the lids find_device knows; a device is named by its lid
  Bufs,         \* the caller's lid buffers
  MaxOpen,      \* MAX_DEVICES_OPEN
  Slots,        \* the slots of lid2idx_table
  HashOf,       \* hashstr() on the lids
  Reuse,        \* may the application overwrite a lid buffer?
  NULL

ASSUME DeviceOpenAssumption ==
  /\ Registered \subseteq Lids
  /\ NULL \notin Lids
  /\ MaxOpen \in Nat
  /\ Reuse \in BOOLEAN
  /\ HashOf \in [Lids -> Slots]

Indices == 0 .. MaxOpen - 1

VARIABLES
  mem,         \* the string each buffer holds
  openTable,   \* device_open_index_table
  lid2idx,     \* lid2idx_table: chains of items keyed by a buffer
  result,      \* lid, returned index and *os of the last open_device
  running      \* FALSE once exit(1) was called

vars == << mem, openTable, lid2idx, result, running >>

Hash == INSTANCE HashStr WITH Strings <- Lids

IsOpen(lid) == Hash!IsMapped(lid2idx, mem, lid)

OpenIndex(lid) == Hash!GetHashItem(lid2idx, mem, lid)

Unused == { i \in Indices : openTable[i] = NULL }

(* Mutant: the search runs downwards from one entry too far.               *)
UnusedIndexPastEnd == 1 + CHOOSE i \in Unused : \A j \in Unused : j <= i

(* Mutant: the search runs downwards.                                      *)
UnusedIndexLast == CHOOSE i \in Unused : \A j \in Unused : j <= i

(* get_unused_index: the first free entry.                                 *)
UnusedIndex == CHOOSE i \in Unused : \A j \in Unused : i <= j

Result(lid, index, status) == [lid |-> lid, index |-> index, status |-> status]

Init ==
  /\ mem \in [Bufs -> Lids]
  /\ openTable = [i \in Indices |-> NULL]
  /\ lid2idx = Hash!EmptyTable
  /\ result = Result(NULL, -1, "NONE")
  /\ running = TRUE

(* Mutant: *os is not set when the device is open already.                 *)
OpenAlreadyAsNew(b) ==
  /\ running
  /\ IsOpen(mem[b])
  /\ result' = Result(mem[b], OpenIndex(mem[b]), "NEWLY_OPEN")
  /\ UNCHANGED << mem, openTable, lid2idx, running >>

(* Mutant: the mapping of the new entry is forgotten.                      *)
OpenNewUnmapped(b) ==
  /\ running
  /\ ~IsOpen(mem[b])
  /\ Unused # {}
  /\ mem[b] \in Registered
  /\ openTable' = [openTable EXCEPT ![UnusedIndex] = mem[b]]
  /\ result' = Result(mem[b], UnusedIndex, "NEWLY_OPEN")
  /\ UNCHANGED << mem, lid2idx, running >>

(***************************************************************************)
(* open_device(b), one action per way out of it, in the order of the code: *)
(* the lid is found open; no entry is free (before the lid is looked up);  *)
(* find_device exits on an unknown lid; a new entry is filled and mapped.  *)
(***************************************************************************)
OpenAlready(b) ==
  /\ running
  /\ IsOpen(mem[b])
  /\ result' = Result(mem[b], OpenIndex(mem[b]), "ALREADY_OPEN")
  /\ UNCHANGED << mem, openTable, lid2idx, running >>

OpenFull(b) ==
  /\ running
  /\ ~IsOpen(mem[b])
  /\ Unused = {}
  /\ result' = Result(mem[b], -1, "FAILED")
  /\ UNCHANGED << mem, openTable, lid2idx, running >>

OpenUnknown(b) ==
  /\ running
  /\ ~IsOpen(mem[b])
  /\ Unused # {}
  /\ mem[b] \notin Registered
  /\ running' = FALSE
  /\ UNCHANGED << mem, openTable, lid2idx, result >>

OpenNew(b) ==
  /\ running
  /\ ~IsOpen(mem[b])
  /\ Unused # {}
  /\ mem[b] \in Registered
  /\ openTable' = [openTable EXCEPT ![UnusedIndex] = mem[b]]
  /\ lid2idx' = Hash!AddHashItem(lid2idx, mem, b, UnusedIndex)
  /\ result' = Result(mem[b], UnusedIndex, "NEWLY_OPEN")
  /\ UNCHANGED << mem, running >>

(* The application writes another lid into one of its buffers.             *)
Rewrite(b, lid) ==
  /\ Reuse
  /\ running
  /\ mem' = [mem EXCEPT ![b] = lid]
  /\ UNCHANGED << openTable, lid2idx, result, running >>

Open(b) == OpenAlready(b) \/ OpenFull(b) \/ OpenUnknown(b) \/ OpenNew(b)

Next ==
  \/ \E b \in Bufs : OpenAlready(b)
  \/ \E b \in Bufs : OpenFull(b)
  \/ \E b \in Bufs : OpenUnknown(b)
  \/ \E b \in Bufs : OpenNew(b)
  \/ \E b \in Bufs, lid \in Lids : Rewrite(b, lid)

Spec == Init /\ [][Next]_vars

-----------------------------------------------------------------------------
(***************************************************************************)
(* Properties                                                              *)
(***************************************************************************)

Items(s) == DOMAIN lid2idx[s]

Statuses == {"NONE", "NEWLY_OPEN", "ALREADY_OPEN", "FAILED"}

(* Every table holds entries of its kind: an item's value is an index.     *)
TypeOK ==
  /\ mem \in [Bufs -> Lids]
  /\ openTable \in [Indices -> Registered \cup {NULL}]
  /\ lid2idx \in [Slots -> Seq([key : Bufs, value : Indices])]
  /\ result \in [lid : Lids \cup {NULL}, index : Indices \cup {-1},
                 status : Statuses]
  /\ running \in BOOLEAN

(* The two tables agree (device_open.c:36-39 fills one and then the other):*)
(* looking an open device's lid up gives back the entry that holds it, and *)
(* every lid that is found open is found at an entry that holds it.        *)
TablesAgree ==
  /\ \A i \in Indices : openTable[i] # NULL =>
       IsOpen(openTable[i]) /\ OpenIndex(openTable[i]) = i
  /\ \A l \in Lids : IsOpen(l) => openTable[OpenIndex(l)] = l

(* Why the tables agree, as an inductive invariant of a program whose      *)
(* buffers are stable: every item sits in the chain of the lid its buffer  *)
(* holds and points to the entry of that lid; every entry has such an      *)
(* item; no chain holds two items of one lid (hashstr.c:61-65).            *)
ItemsPlaced ==
  \A s \in Slots : \A i \in Items(s) :
    /\ HashOf[mem[lid2idx[s][i].key]] = s
    /\ openTable[lid2idx[s][i].value] = mem[lid2idx[s][i].key]

EntriesMapped ==
  \A e \in Indices : openTable[e] # NULL =>
    \E i \in Items(HashOf[openTable[e]]) :
      lid2idx[HashOf[openTable[e]]][i].value = e

ItemsDistinct ==
  \A s \in Slots : \A i, j \in Items(s) :
    mem[lid2idx[s][i].key] = mem[lid2idx[s][j].key] => i = j

ChainsInv == ItemsPlaced /\ EntriesMapped /\ ItemsDistinct

(* An answer names the device that was asked for: the index open_device    *)
(* returned, new or old, is an entry that holds the device of that lid.    *)
AnswerNamesDevice ==
  result.status \in {"NEWLY_OPEN", "ALREADY_OPEN"} =>
    openTable[result.index] = result.lid

(* -1 is returned only when MAX_DEVICES_OPEN different devices are open    *)
(* and the one asked for is not among them (device_open.c:29-30).          *)
RefusedOnlyWhenFull ==
  result.status = "FAILED" =>
    /\ \A i \in Indices : openTable[i] \notin {NULL, result.lid}
    /\ \A i, j \in Indices : openTable[i] = openTable[j] => i = j

(* Whatever the application does to its buffers, the entries are filled in *)
(* order, and the items of lid2idx_table and the filled entries correspond *)
(* one to one: no entry is lost to the lookup table or reachable twice.    *)
EntriesAccountedFor ==
  /\ \A i, j \in Indices : i < j /\ openTable[j] # NULL => openTable[i] # NULL
  /\ \A i \in Indices :
       LET Owners == { si \in UNION { {s} \X Items(s) : s \in Slots } :
                         lid2idx[si[1]][si[2]].value = i }
       IN IF openTable[i] = NULL THEN Owners = {}
          ELSE \E si \in Owners : Owners = {si}

(* The handle of each lid, as the lookup table gives it.                   *)
HandleOf == [l \in Lids |-> IF IsOpen(l) THEN OpenIndex(l) ELSE -1]

(* The promise the tables implement.                                       *)
Promise == INSTANCE HandleTable WITH
  Handles  <- Indices,
  handleOf <- HandleOf,
  reply    <- result,
  alive    <- running

(* Refinement: with stable buffers, open_device implements HandleTable.    *)
HandlePromise == Promise!Spec

=============================================================================
