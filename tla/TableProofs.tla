---------------------------- MODULE TableProofs ----------------------------
(***************************************************************************)
(* Proofs about the closed form FindEntry of the probe loop, for every     *)
(* capacity, hash function and set of keys: in a table whose chains are    *)
(* whole it finds the key if it is there, and what set and del write keeps *)
(* chains whole and keys unique.                                           *)
(***************************************************************************)
EXTENDS Table, WellFoundedInduction, TLAPS

USE CapacityAssumption, HashAssumption, NullAssumption, NoSlotAssumption

\* A set of naturals that is not empty has a least member.
LEMMA LeastNatural ==
  ASSUME NEW S \in SUBSET Nat, S # {}
  PROVE  \E x \in S : \A y \in S : x <= y
<1>1. PICK x \in S : \A y \in S : <<y, x>> \notin OpToRel(<, Nat)
  BY NatLessThanWellFounded, WFMin
<1>2. \A y \in S : ~(y < x)
  BY <1>1 DEF OpToRel
<1>3. QED
  BY <1>2

\* Slots are ordered on the way round from the home slot of a key.
LEMMA AheadOrders ==
  ASSUME NEW k \in Keys, NEW s \in Slots, NEW t \in Slots
  PROVE  /\ Ahead(k, s) \in Nat
         /\ Ahead(k, s) = Ahead(k, t) => s = t
<1>1. Home(k) \in Slots
  BY DEF Home, Slots
<1>2. \A r \in Slots : Ahead(k, r) = IF r < Home(k) THEN r - Home(k) + Capacity ELSE r - Home(k)
  BY <1>1 DEF Ahead, Slots
<1>3. QED
  BY <1>1, <1>2 DEF Slots

\* The slot met first is in the set, and no other is met before it.
LEMMA NearestIsFirst ==
  ASSUME NEW k \in Keys, NEW S \in SUBSET Slots, S # {}
  PROVE  /\ Nearest(k, S) \in S
         /\ \A t \in S : Ahead(k, Nearest(k, S)) <= Ahead(k, t)
<1> DEFINE A == {Ahead(k, s) : s \in S}
<1>1. A \in SUBSET Nat /\ A # {}
  BY AheadOrders
<1>2. \E x \in A : \A y \in A : x <= y
  BY <1>1, LeastNatural
<1>3. \E s \in S : \A t \in S : Ahead(k, s) <= Ahead(k, t)
  BY <1>2
<1>4. QED
  BY <1>3 DEF Nearest

-----------------------------------------------------------------------------
(***************************************************************************)
(* Tables that sets and deletes can leave: no key has two slots, and no    *)
(* slot between the home slot of a stored key and its slot is empty.       *)
(***************************************************************************)
KeysOnce(tab) ==
  \A s, t \in Slots : tab[s].key # Null /\ tab[s].key = tab[t].key => s = t
ChainsWhole(tab) ==
  \A s, t \in Slots :
    tab[s].key # Null /\ Ahead(tab[s].key, t) < Ahead(tab[s].key, s) => ~IsEmpty(tab[t])
IsTable(tab) == tab \in [Slots -> Entry] /\ KeysOnce(tab) /\ ChainsWhole(tab)

\* The new table is one.
LEMMA EmptyIsTable == IsTable(EmptyTable)
  BY DEF IsTable, KeysOnce, ChainsWhole, EmptyTable, Entry

\* find_entry finds a key that is stored, whatever tombstones it passes.
LEMMA FindsKey ==
  ASSUME NEW tab, IsTable(tab), NEW s \in Slots, NEW k \in Keys, tab[s].key = k
  PROVE  FindEntry(tab, k) = s
<1> DEFINE stops == StoredAt(tab, k) \union EmptySlots(tab)
           stop  == Nearest(k, stops)
<1>1. s \in stops /\ stops \in SUBSET Slots
  BY DEF StoredAt, EmptySlots
<1>2. stop \in stops /\ Ahead(k, stop) <= Ahead(k, s)
  BY <1>1, NearestIsFirst
<1>3. stop \in StoredAt(tab, k)
  <2> SUFFICES ASSUME IsEmpty(tab[stop]) PROVE stop = s
    BY <1>1, <1>2 DEF EmptySlots, StoredAt
  <2>1. ~(Ahead(k, stop) < Ahead(k, s))
    BY <1>1, <1>2 DEF IsTable, ChainsWhole
  <2>2. QED
    BY <1>1, <1>2, <2>1, AheadOrders
<1>4. stop = s
  BY <1>1, <1>3 DEF IsTable, KeysOnce, StoredAt
<1>5. QED
  BY <1>1, <1>4 DEF FindEntry

\* Otherwise it finds a slot for it, if any, that no empty slot comes before.
LEMMA FindsRoom ==
  ASSUME NEW tab, IsTable(tab), NEW k \in Keys, StoredAt(tab, k) = {},
         FindEntry(tab, k) # NoSlot
  PROVE  /\ FindEntry(tab, k) \in Slots
         /\ tab[FindEntry(tab, k)].key = Null
         /\ \A t \in Slots : Ahead(k, t) < Ahead(k, FindEntry(tab, k)) => ~IsEmpty(tab[t])
<1> DEFINE stops == StoredAt(tab, k) \union EmptySlots(tab)
           stop  == Nearest(k, stops)
           tombs == {s \in Slots : IsTombstone(tab[s]) /\ Ahead(k, s) < Ahead(k, stop)}
<1>1. stops # {} /\ stops \in SUBSET Slots
  BY DEF FindEntry, StoredAt, EmptySlots
<1>2. stop \in stops /\ \A t \in stops : Ahead(k, stop) <= Ahead(k, t)
  BY <1>1, NearestIsFirst
<1>3. stop \in Slots /\ IsEmpty(tab[stop]) /\ tab[stop].key # k
  BY <1>1, <1>2 DEF EmptySlots, IsEmpty
<1>4. \A t \in Slots : Ahead(k, t) < Ahead(k, stop) => ~IsEmpty(tab[t])
  BY <1>2, <1>3, AheadOrders DEF EmptySlots
<1>5. CASE tombs = {}
  <2>1. FindEntry(tab, k) = stop
    BY <1>1, <1>3, <1>5 DEF FindEntry
  <2>2. QED
    BY <1>3, <1>4, <2>1 DEF IsEmpty
<1>6. CASE tombs # {}
  <2>1. FindEntry(tab, k) = Nearest(k, tombs)
    BY <1>1, <1>3, <1>6 DEF FindEntry
  <2>2. FindEntry(tab, k) \in tombs
    BY <1>6, <2>1, NearestIsFirst
  <2>3. QED
    BY <1>3, <1>4, <2>2, AheadOrders DEF IsTombstone
<1>7. QED
  BY <1>5, <1>6

\* The result of find_entry is a slot or none.
LEMMA FindEntryType ==
  ASSUME NEW tab, IsTable(tab), NEW k \in Keys
  PROVE  FindEntry(tab, k) \in Slots \union {NoSlot}
  BY FindsKey, FindsRoom DEF StoredAt

\* What set leaves is a table.
LEMMA StoreKeeps ==
  ASSUME NEW tab, IsTable(tab), NEW k \in Keys, NEW v \in Values,
         FindEntry(tab, k) # NoSlot
  PROVE  IsTable(Store(tab, FindEntry(tab, k), k, v))
<1> DEFINE slot == FindEntry(tab, k)
           new  == Store(tab, slot, k, v)
<1>1. /\ slot \in Slots
      /\ \A s \in Slots : s # slot => tab[s].key # k
      /\ \A t \in Slots : Ahead(k, t) < Ahead(k, slot) => ~IsEmpty(tab[t])
  <2>1. CASE StoredAt(tab, k) = {}
    BY <2>1, FindsRoom DEF StoredAt
  <2>2. CASE StoredAt(tab, k) # {}
    <3>1. PICK s \in Slots : tab[s].key = k
      BY <2>2 DEF StoredAt
    <3>2. slot = s
      BY <3>1, FindsKey
    <3>3. QED
      BY <3>1, <3>2 DEF IsTable, KeysOnce, ChainsWhole
  <2>3. QED
    BY <2>1, <2>2
<1>2. /\ new \in [Slots -> Entry]
      /\ new[slot] = [key |-> k, value |-> v]
      /\ \A s \in Slots : s # slot => new[s] = tab[s]
  BY <1>1 DEF IsTable, Store, Entry
<1>3. KeysOnce(new)
  BY <1>1, <1>2 DEF IsTable, KeysOnce
<1>4. \A t \in Slots : IsEmpty(new[t]) => IsEmpty(tab[t])
  BY <1>1, <1>2 DEF IsEmpty
<1>5. ChainsWhole(new)
  BY <1>1, <1>2, <1>4 DEF IsTable, ChainsWhole
<1> HIDE DEF slot, new
<1>6. IsTable(new)
  BY <1>2, <1>3, <1>5 DEF IsTable
<1>7. QED
  BY <1>6 DEF slot, new

\* What del leaves is a table.
LEMMA EraseKeeps ==
  ASSUME NEW tab, IsTable(tab), NEW s \in Slots
  PROVE  IsTable(Erase(tab, s))
<1> DEFINE new == Erase(tab, s)
<1>1. new \in [Slots -> Entry]
  BY DEF IsTable, Erase, Entry
<1>2. \A t \in Slots : /\ new[t].key # Null => new[t] = tab[t]
                       /\ IsEmpty(new[t]) => IsEmpty(tab[t])
  BY DEF IsTable, Erase, IsEmpty
<1>3. KeysOnce(new)
  BY <1>2 DEF IsTable, KeysOnce
<1>4. ChainsWhole(new)
  BY <1>2 DEF IsTable, ChainsWhole
<1>5. QED
  BY <1>1, <1>3, <1>4 DEF IsTable

\* The slot that find_entry returns holds the key or none, and only it can.
LEMMA FoundSlot ==
  ASSUME NEW tab, IsTable(tab), NEW k \in Keys, FindEntry(tab, k) # NoSlot
  PROVE  /\ FindEntry(tab, k) \in Slots
         /\ tab[FindEntry(tab, k)].key \in {k, Null}
<1>1. CASE StoredAt(tab, k) = {}
  BY <1>1, FindsRoom
<1>2. CASE StoredAt(tab, k) # {}
  BY <1>2, FindsKey DEF StoredAt
<1>3. QED
  BY <1>1, <1>2

\* It returns one if there is an empty slot.
LEMMA RoomIsFound ==
  ASSUME NEW tab, NEW k \in Keys, EmptySlots(tab) # {}
  PROVE  FindEntry(tab, k) # NoSlot
<1> DEFINE stops == StoredAt(tab, k) \union EmptySlots(tab)
           stop  == Nearest(k, stops)
           tombs == {s \in Slots : IsTombstone(tab[s]) /\ Ahead(k, s) < Ahead(k, stop)}
<1>1. stops # {} /\ stop \in Slots
  BY NearestIsFirst DEF StoredAt, EmptySlots
<1>2. tombs # {} => Nearest(k, tombs) \in Slots
  BY NearestIsFirst
<1>3. QED
  BY <1>1, <1>2 DEF FindEntry, Slots

\* A set of a new key that is undone by a del leaves a tombstone and nothing
\* else: del finds the slot that set has used.
LEMMA StoreThenErase ==
  ASSUME NEW tab, IsTable(tab), NEW k \in Keys, NEW v \in Values,
         FindEntry(tab, k) # NoSlot, tab[FindEntry(tab, k)].key = Null,
         NEW stored, stored = Store(tab, FindEntry(tab, k), k, v)
  PROVE  /\ IsTable(Erase(stored, FindEntry(stored, k)))
         /\ Erase(stored, FindEntry(stored, k))
              = [tab EXCEPT ![FindEntry(tab, k)] = [key |-> Null, value |-> True]]
<1> DEFINE slot == FindEntry(tab, k)
<1>1. slot \in Slots /\ IsTable(stored)
  BY FoundSlot, StoreKeeps
<1>2. stored[slot] = [key |-> k, value |-> v]
  BY <1>1 DEF Store, IsTable
<1>3. FindEntry(stored, k) = slot
  BY <1>1, <1>2, FindsKey
<1>4. Erase(stored, slot) = [tab EXCEPT ![slot] = [key |-> Null, value |-> True]]
  BY <1>1, <1>2 DEF Erase, Store, IsTable
<1>5. QED
  BY <1>1, <1>3, <1>4, EraseKeeps
=============================================================================
