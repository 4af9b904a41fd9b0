------------------------------ MODULE HashStr ------------------------------
(***************************************************************************)
(* The open-chaining hash table of utility/hashstr.c.  Three tables of the *)
(* system are such tables: type2major_table, lid2dev_table, lid2idx_table. *)
(*                                                                         *)
(* An item keeps the POINTER it was given as its key, never a copy of the  *)
(* string (hashstr.c:47): the chain an item sits in was chosen from what   *)
(* the pointed-to buffer held at insertion, while every later comparison   *)
(* reads what it holds now.  The operators therefore take the memory, a    *)
(* function from pointers to the strings they point to, as an argument.    *)
(* Strings are elements of a set; hashstr() is a function on them.         *)
(***************************************************************************)
EXTENDS Naturals, Sequences

CONSTANTS
  Strings,   \* the strings a key buffer may hold
  Slots,     \* the slots of a table
  HashOf     \* hashstr(): the slot of each string, in [Strings -> Slots]

EmptyTable == [s \in Slots |-> << >>]

Item(key, value) == [key |-> key, value |-> value]

(* The items of the chain of str whose key buffer now compares equal to it. *)
Hits(table, mem, str) ==
  { i \in DOMAIN table[HashOf[str]] : mem[table[HashOf[str]][i].key] = str }

IsMapped(table, mem, str) == Hits(table, mem, str) # {}

FirstHit(table, mem, str) ==
  CHOOSE i \in Hits(table, mem, str) :
    \A j \in Hits(table, mem, str) : i <= j

(* get_hash_item: the first equal item of the chain; defined when IsMapped. *)
GetHashItem(table, mem, str) ==
  table[HashOf[str]][FirstHit(table, mem, str)].value

(* Mutant: every item goes to the chain of one slot.                       *)
AddHashItemOneChain(table, mem, key, value) ==
  [table EXCEPT ![CHOOSE s \in Slots : TRUE] = Append(@, Item(key, value))]

(* Mutant: a new item goes to the head of its chain and hides an old one.  *)
AddHashItemHead(table, mem, key, value) ==
  [table EXCEPT ![HashOf[mem[key]]] = << Item(key, value) >> \o @]

(* add_hash_item: the first value put under a string is kept.              *)
AddHashItem(table, mem, key, value) ==
  IF IsMapped(table, mem, mem[key])
    THEN table
    ELSE [table EXCEPT ![HashOf[mem[key]]] = Append(@, Item(key, value))]

=============================================================================
