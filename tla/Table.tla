------------------------------- MODULE Table -------------------------------
(***************************************************************************)
(* The slot array of table::Table (src/src/table.h, src/src/table.cpp): an *)
(* open-addressing hash table with linear probing, tombstones and a fixed  *)
(* number of slots.  This module holds the operators on the array; module  *)
(* HashTable runs them one probe at a time, and module VM uses the closed  *)
(* form FindEntry of the probe loop for its globals and interned strings.  *)
(*                                                                         *)
(* A key stands for the contents of a StringObject (find_entry compares    *)
(* keys with is_equal, that is by contents), Null for a null shared_ptr.   *)
(***************************************************************************)
EXTENDS Integers

CONSTANTS
  Keys,      \* the strings used as keys
  Values,    \* the objects and null pointers stored with a key
  Null,      \* nullptr
  Nil,       \* a NullObject
  True,      \* the BooleanObject(true) that marks a tombstone
  NoSlot,    \* no tombstone met yet, or no slot at all
  Capacity,  \* number of slots: k_initial_capacity, which never changes
  Hash,      \* StringObject::hash_string
  EmptyString   \* the string of length 0

ASSUME CapacityAssumption == Capacity \in Nat \ {0}
ASSUME HashAssumption     == Hash \in [Keys -> Nat]
ASSUME NullAssumption     == /\ Null \notin Keys
                             /\ {Null, Nil, True} \subseteq Values
                             /\ True \notin {Null, Nil}
ASSUME NoSlotAssumption   == NoSlot \notin 0 .. (Capacity - 1)

Slots == 0 .. (Capacity - 1)
Entry == [key : Keys \union {Null}, value : Values]

\* Table::Table: k_initial_capacity value-initialised entries.
EmptyTable == [s \in Slots |-> [key |-> Null, value |-> Null]]

\* Mutants: the ring is not closed; the loop stays in the last slot.
NextSlotUnwrapped(s) == s + 1
NextSlotClamped(s)   == IF s + 1 = Capacity THEN s ELSE s + 1

\* The first slot of a key's probe sequence, and the slot after s.
Home(k)     == Hash[k] % Capacity
NextSlot(s) == (s + 1) % Capacity

\* Mutant: a deleted slot is taken for one that was never used.
TombstoneIfNoKey(e) == e.key = Null

\* A slot that ends every probe sequence that reaches it, and one that was
\* deleted and does not.
IsEmpty(e)     == e.key = Null /\ e.value \in {Null, Nil}
IsTombstone(e) == e.key = Null /\ e.value \notin {Null, Nil}

StoredAt(tab, k) == {s \in Slots : tab[s].key = k}
EmptySlots(tab)  == {s \in Slots : IsEmpty(tab[s])}

\* How far slot s is along the probe sequence of k, and the slot of S met first.
Ahead(k, s) == (s - Home(k)) % Capacity
Nearest(k, S) == CHOOSE s \in S : \A t \in S : Ahead(k, s) <= Ahead(k, t)

\* Mutants: no probing; the key is not compared.
FindEntryHome(tab, k)  == Home(k)
FindEntryEmpty(tab, k) == IF EmptySlots(tab) = {} THEN NoSlot ELSE Nearest(k, EmptySlots(tab))

(***************************************************************************)
(* The result of the probe loop of find_entry in closed form: the nearest  *)
(* slot, going round from the home slot, that holds the key, or else the   *)
(* first tombstone before the nearest empty slot, or else that empty slot; *)
(* NoSlot when the loop never returns.                                     *)
(***************************************************************************)
FindEntry(tab, k) ==
  LET stops == StoredAt(tab, k) \union EmptySlots(tab)
      stop  == Nearest(k, stops)
      tombs == {s \in Slots : IsTombstone(tab[s]) /\ Ahead(k, s) < Ahead(k, stop)}
  IN  IF stops = {} THEN NoSlot
      ELSE IF tab[stop].key = k \/ tombs = {} THEN stop
      ELSE Nearest(k, tombs)

\* The same for find_string, which takes no note of tombstones and never
\* matches an empty string: the slot of the string or else an empty slot.
FindString(tab, k) ==
  LET stops == EmptySlots(tab) \union (IF k = EmptyString THEN {} ELSE StoredAt(tab, k))
  IN  IF stops = {} THEN NoSlot ELSE Nearest(k, stops)

\* Mutants: del leaves no tombstone; del leaves the entry.
EraseLeavesHole(tab, s) == [tab EXCEPT ![s] = [key |-> Null, value |-> Null]]
EraseNothing(tab, s)    == tab

\* What set and del write into the slot that find_entry returned.
Store(tab, s, k, v) == [tab EXCEPT ![s] = [key |-> k, value |-> v]]
Erase(tab, s) ==
  IF tab[s].key = Null THEN tab ELSE [tab EXCEPT ![s] = [key |-> Null, value |-> True]]
=============================================================================
