-------------------------- MODULE HashTableProofs --------------------------
(***************************************************************************)
(* Proofs about HashTable for every capacity, hash function, set of keys   *)
(* and set of values: the inductive invariant that makes linear probing    *)
(* with tombstones correct, and the refinement of Dictionary that follows. *)
(***************************************************************************)
EXTENDS HashTable, TableProofs, FiniteSetTheorems

USE CapacityAssumption, HashAssumption, NullAssumption, NoSlotAssumption, DictAssumption

-----------------------------------------------------------------------------
(***************************************************************************)
(* Arithmetic of the slot ring.                                            *)
(***************************************************************************)

\* A probe sequence starts inside the table.
LEMMA HomeIsSlot == \A k \in Keys : Home(k) \in Slots
  BY DEF Home, Slots

\* Going to the next slot wraps at the end of the table.
LEMMA NextSlotWraps ==
  ASSUME NEW s \in Slots
  PROVE  /\ NextSlot(s) \in Slots
         /\ NextSlot(s) = IF s + 1 = Capacity THEN 0 ELSE s + 1
  BY DEF NextSlot, Slots

\* Nothing lies between a slot and itself.
LEMMA BetweenNothing == ASSUME NEW h \in Slots PROVE Between(h, h) = {}
  BY DEF Between, Slots

\* A step of the loop adds only the slot it leaves to those behind it.
LEMMA BetweenNext ==
  ASSUME NEW h \in Slots, NEW s \in Slots
  PROVE  Between(h, NextSlot(s)) \subseteq Between(h, s) \union {s}
  BY NextSlotWraps DEF Between, Slots

\* Of two slots, one is met first on the way round from h.
LEMMA BetweenTotal ==
  ASSUME NEW h \in Slots, NEW s \in Slots, NEW t \in Slots, s # t
  PROVE  s \in Between(h, t) \/ t \in Between(h, s)
  BY DEF Between, Slots

\* What lies between two slots are slots.
LEMMA BetweenSlots ==
  ASSUME NEW h \in Slots, NEW s \in Slots
  PROVE  Between(h, s) \subseteq Slots
  BY DEF Between, Slots

-----------------------------------------------------------------------------
(***************************************************************************)
(* Type correctness.                                                       *)
(***************************************************************************)

\* The slot that find_entry returns is a slot of the table.
LEMMA SlotIsSlot ==
  ASSUME TypeOK
  PROVE  Slot \in Slots
  BY DEF TypeOK, Slot

\* A return leaves the loop's variables in their types.
LEMMA ReturnTypes ==
  ASSUME TypeOK,
         NEW tab \in [Slots -> Entry], NEW ok \in BOOLEAN, NEW value \in Values,
         Return(tab, ok, value)
  PROVE  TypeOK'
  BY DEF TypeOK, Return, Slots

\* Every step keeps the fields of the table in their types.
LEMMA TypeStep == TypeOK /\ [Next]_vars => TypeOK'
<1> SUFFICES ASSUME TypeOK, [Next]_vars PROVE TypeOK'
  OBVIOUS
<1> USE SlotIsSlot
<1>1. CASE Invoke
  <2>1. call'.key \in Keys
    BY <1>1 DEF Invoke, Calls
  <2>2. QED
    BY <1>1, <2>1, HomeIsSlot DEF Invoke, TypeOK
<1>2. CASE PassTombstone
  BY <1>2, NextSlotWraps DEF PassTombstone, TypeOK
<1>3. CASE PassKey
  BY <1>3, NextSlotWraps DEF PassKey, TypeOK
<1>4. CASE ReturnSet
  <2>1. call.key \in Keys /\ call.value \in Values
    BY <1>4 DEF ReturnSet, Stopped, TypeOK, Calls
  <2>2. Store(entries, Slot, call.key, call.value) \in [Slots -> Entry]
    BY <2>1 DEF Store, TypeOK, Entry
  <2>3. QED
    BY <1>4, <2>2, ReturnTypes DEF ReturnSet
<1>5. CASE ReturnGet
  <2>1. entries[Slot].value \in Values
    BY DEF TypeOK, Entry
  <2>2. QED
    BY <1>5, <2>1, ReturnTypes DEF ReturnGet, TypeOK
<1>6. CASE ReturnDel
  <2>1. Erase(entries, Slot) \in [Slots -> Entry]
    BY DEF Erase, TypeOK, Entry
  <2>2. QED
    BY <1>6, <2>1, ReturnTypes DEF ReturnDel
<1>7. CASE ReturnFind
  BY <1>7, ReturnTypes DEF ReturnFind, TypeOK
<1>8. CASE UNCHANGED vars
  BY <1>8 DEF vars, TypeOK
<1>9. QED
  BY <1>1, <1>2, <1>3, <1>4, <1>5, <1>6, <1>7, <1>8 DEF Next, Step

\* The table starts well typed.
LEMMA TypeInit == Init => TypeOK
  BY DEF Init, TypeOK, EmptyTable, Entry, Slots, Calls

\* TypeOK holds in every reachable state, for every capacity and hash.
THEOREM TypeCorrect == Spec => []TypeOK
  BY TypeInit, TypeStep, PTL DEF Spec

-----------------------------------------------------------------------------
(***************************************************************************)
(* The inductive invariant.  NoDuplicateKeys alone is not inductive: that  *)
(* set may use the slot it found depends on the key not lying further on,  *)
(* which is what the chains and the state of the probe loop exclude.       *)
(***************************************************************************)
IInv == TypeOK /\ NoDuplicateKeys /\ ChainsUnbroken /\ ProbeConsistent

\* When a probe loop reaches an empty slot, the key it looks for is nowhere in
\* the table; only find_string's search for "" passes the key it looks for.
LEMMA EmptyMeansAbsent ==
  ASSUME IInv, call # Idle, IsEmpty(Here),
         ~(call.op = "find" /\ call.key = EmptyString)
  PROVE  StoredAt(entries, call.key) = {}
<1>1. call.key \in Keys /\ index \in Slots
  BY DEF IInv, TypeOK, Calls
<1>2. SUFFICES ASSUME NEW s \in Slots, entries[s].key = call.key
               PROVE  FALSE
  BY DEF StoredAt
<1>3. entries[s].key # Null /\ s # index
  BY <1>1, <1>2 DEF IsEmpty, Here
<1>4. index \notin Between(Home(call.key), s)
  BY <1>1, <1>2, <1>3 DEF IInv, ChainsUnbroken, Here
<1>5. s \notin Between(Home(call.key), index)
  BY <1>1, <1>2 DEF IInv, ProbeConsistent, Passed
<1>6. QED
  BY <1>1, <1>3, <1>4, <1>5, HomeIsSlot, BetweenTotal

\* Where set stores a new key, the key is not stored elsewhere and its chain
\* from the home slot is unbroken; where it finds the key, it is the key's slot.
LEMMA StopSlot ==
  ASSUME IInv, call # Idle, call.op # "find", IsEmpty(Here) \/ Matches
  PROVE  /\ Slot \in Slots
         /\ Passed(Slot)
         /\ \/ entries[Slot].key = call.key
            \/ entries[Slot].key = Null /\ StoredAt(entries, call.key) = {}
<1>1. Slot \in Slots
  BY SlotIsSlot DEF IInv
<1>2. Passed(Slot)
  BY DEF IInv, ProbeConsistent, Slot
<1>3. CASE IsEmpty(Here)
  <2>1. StoredAt(entries, call.key) = {}
    BY <1>3, EmptyMeansAbsent
  <2>2. entries[Slot].key = Null
    BY <1>3 DEF Slot, IInv, ProbeConsistent, IsTombstone, IsEmpty, Here
  <2>3. QED
    BY <1>1, <1>2, <2>1, <2>2
<1>4. CASE ~IsEmpty(Here) /\ Matches
  BY <1>1, <1>2, <1>4 DEF Slot, Matches, Here
<1>5. QED
  BY <1>3, <1>4

\* Nothing changes for the slots while a loop goes round.
LEMMA PassKeepsChains ==
  ASSUME IInv, PassTombstone \/ PassKey
  PROVE  NoDuplicateKeys' /\ ChainsUnbroken'
  BY DEF IInv, PassTombstone, PassKey, NoDuplicateKeys, ChainsUnbroken, IsEmpty

\* Passing a tombstone or another key keeps what the loop knows of the slots
\* behind it: none of them is empty or holds the key.
LEMMA PassKeepsProbe ==
  ASSUME IInv, PassTombstone \/ PassKey
  PROVE  ProbeConsistent'
<1>1. /\ call # Idle /\ call' = call /\ entries' = entries
      /\ call.key \in Keys /\ Home(call.key) \in Slots /\ index \in Slots
      /\ index' = NextSlot(index)
  BY HomeIsSlot DEF IInv, TypeOK, Calls, PassTombstone, PassKey
<1>2. ~IsEmpty(Here)
  BY DEF PassTombstone, PassKey, IsTombstone, IsEmpty
<1>3. Here.key = call.key => call.op = "find" /\ call.key = EmptyString
  BY <1>1 DEF PassTombstone, PassKey, IsTombstone, Matches
<1>4. Passed(index)
  BY <1>1 DEF IInv, ProbeConsistent
<1>5. Passed(index)'
  BY <1>1, <1>2, <1>3, <1>4, BetweenNext DEF Passed, Here, IsEmpty
<1>6. tombstone' # NoSlot => IsTombstone(entries[tombstone])' /\ Passed(tombstone)'
  <2>1. CASE tombstone' = tombstone
    BY <1>1, <2>1 DEF IInv, ProbeConsistent, Passed, IsTombstone, IsEmpty
  <2>2. CASE tombstone' # tombstone
    <3>1. tombstone' = index /\ IsTombstone(Here)
      BY <2>2 DEF PassTombstone, PassKey
    <3>2. QED
      BY <1>1, <1>4, <3>1 DEF Passed, IsTombstone, IsEmpty, Here
  <2>3. QED
    BY <2>1, <2>2
<1>7. QED
  BY <1>5, <1>6 DEF ProbeConsistent

\* A call starts with no slot behind it.
LEMMA InvokeKeeps ==
  ASSUME IInv, Invoke
  PROVE  NoDuplicateKeys' /\ ChainsUnbroken' /\ ProbeConsistent'
<1>1. call'.key \in Keys /\ entries' = entries
  BY DEF Invoke, Calls
<1>2. NoDuplicateKeys' /\ ChainsUnbroken'
  BY <1>1 DEF IInv, NoDuplicateKeys, ChainsUnbroken, IsEmpty
<1>3. Between(Home(call'.key), index') = {}
  BY <1>1, HomeIsSlot, BetweenNothing DEF Invoke
<1>4. ProbeConsistent'
  BY <1>1, <1>3 DEF Invoke, ProbeConsistent, Passed
<1>5. QED
  BY <1>2, <1>4

\* A set adds no second slot for its key and cuts no chain.
LEMMA SetKeeps ==
  ASSUME IInv, ReturnSet
  PROVE  NoDuplicateKeys' /\ ChainsUnbroken' /\ ProbeConsistent'
<1> DEFINE k == call.key
<1>1. /\ call # Idle /\ call.op = "set" /\ (IsEmpty(Here) \/ Matches)
      /\ entries' = Store(entries, Slot, k, call.value)
      /\ call' = Idle
      /\ k \in Keys /\ k # Null /\ entries \in [Slots -> Entry]
  BY DEF ReturnSet, Stopped, Return, IInv, TypeOK, Calls
<1>2. /\ Slot \in Slots
      /\ Passed(Slot)
      /\ \/ entries[Slot].key = k
         \/ entries[Slot].key = Null /\ StoredAt(entries, k) = {}
  BY <1>1, StopSlot
<1>3. /\ entries'[Slot].key = k
      /\ \A s \in Slots : s # Slot => entries'[s] = entries[s]
  BY <1>1, <1>2 DEF Store
<1>4. \A s \in Slots : s # Slot => entries[s].key # k
  BY <1>1, <1>2 DEF IInv, NoDuplicateKeys, StoredAt
<1>5. NoDuplicateKeys'
  BY <1>3, <1>4 DEF IInv, NoDuplicateKeys
<1>6. \A t \in Slots : IsEmpty(entries'[t]) => IsEmpty(entries[t])
  BY <1>1, <1>3 DEF IsEmpty
<1>7. ChainsUnbroken'
  <2> SUFFICES ASSUME NEW s \in Slots, entries'[s].key # Null,
                      NEW t \in Between(Home(entries'[s].key), s)
               PROVE  ~IsEmpty(entries'[t])
    BY DEF ChainsUnbroken, IsEmpty
  <2>1. CASE s = Slot
    <3>1. Home(k) \in Slots
      BY <1>1, HomeIsSlot
    <3>2. t \in Slots
      BY <1>3, <2>1, <3>1, BetweenSlots
    <3>3. ~IsEmpty(entries[t])
      BY <1>2, <1>3, <2>1 DEF Passed
    <3>4. QED
      BY <1>6, <3>2, <3>3
  <2>2. CASE s # Slot
    <3>1. entries'[s] = entries[s]
      BY <1>3, <2>2
    <3>2. Home(entries[s].key) \in Slots
      BY <1>1, <3>1, HomeIsSlot DEF Entry
    <3>3. t \in Slots
      BY <3>1, <3>2, BetweenSlots
    <3>4. ~IsEmpty(entries[t])
      BY <3>1 DEF IInv, ChainsUnbroken
    <3>5. QED
      BY <1>6, <3>3, <3>4
  <2>3. QED
    BY <2>1, <2>2
<1>8. ProbeConsistent'
  BY <1>1 DEF ProbeConsistent
<1>9. QED
  BY <1>5, <1>7, <1>8

\* A del leaves a tombstone, so that it cuts no chain.
LEMMA DelKeeps ==
  ASSUME IInv, ReturnDel
  PROVE  NoDuplicateKeys' /\ ChainsUnbroken' /\ ProbeConsistent'
<1>1. /\ call' = Idle /\ entries' = Erase(entries, Slot)
      /\ entries \in [Slots -> Entry] /\ Slot \in Slots
  BY SlotIsSlot DEF ReturnDel, Return, IInv, TypeOK
<1>2. \A s \in Slots : /\ entries'[s].key # Null => entries'[s] = entries[s]
                       /\ IsEmpty(entries'[s]) => IsEmpty(entries[s])
  BY <1>1 DEF Erase, IsEmpty
<1>3. NoDuplicateKeys'
  BY <1>2 DEF IInv, NoDuplicateKeys
<1>4. ChainsUnbroken'
  <2> SUFFICES ASSUME NEW s \in Slots, entries'[s].key # Null,
                      NEW t \in Between(Home(entries'[s].key), s)
               PROVE  ~IsEmpty(entries'[t])
    BY DEF ChainsUnbroken, IsEmpty
  <2>1. entries'[s] = entries[s] /\ Home(entries[s].key) \in Slots
    BY <1>1, <1>2, HomeIsSlot DEF Entry
  <2>2. t \in Slots
    BY <2>1, BetweenSlots
  <2>3. ~IsEmpty(entries[t])
    BY <2>1 DEF IInv, ChainsUnbroken
  <2>4. QED
    BY <1>2, <2>2, <2>3
<1>5. ProbeConsistent'
  BY <1>1 DEF ProbeConsistent
<1>6. QED
  BY <1>3, <1>4, <1>5

\* Every step keeps the inductive invariant.
LEMMA InvStep == IInv /\ [Next]_vars => IInv'
<1> SUFFICES ASSUME IInv, [Next]_vars PROVE IInv'
  OBVIOUS
<1>1. TypeOK'
  BY TypeStep DEF IInv
<1>2. CASE Invoke
  BY <1>1, <1>2, InvokeKeeps DEF IInv
<1>3. CASE PassTombstone \/ PassKey
  BY <1>1, <1>3, PassKeepsChains, PassKeepsProbe DEF IInv
<1>4. CASE ReturnSet
  BY <1>1, <1>4, SetKeeps DEF IInv
<1>5. CASE ReturnDel
  BY <1>1, <1>5, DelKeeps DEF IInv
<1>6. CASE ReturnGet \/ ReturnFind
  <2>1. entries' = entries /\ call' = Idle
    BY <1>6 DEF ReturnGet, ReturnFind, Return
  <2>2. NoDuplicateKeys' /\ ChainsUnbroken' /\ ProbeConsistent'
    BY <2>1 DEF IInv, NoDuplicateKeys, ChainsUnbroken, ProbeConsistent, IsEmpty
  <2>3. QED
    BY <1>1, <2>2 DEF IInv
<1>7. CASE UNCHANGED vars
  <2>1. NoDuplicateKeys' /\ ChainsUnbroken' /\ ProbeConsistent'
    BY <1>7 DEF vars, IInv, NoDuplicateKeys, ChainsUnbroken, ProbeConsistent,
                Passed, IsEmpty, IsTombstone
  <2>2. QED
    BY <1>1, <2>1 DEF IInv
<1>8. QED
  BY <1>2, <1>3, <1>4, <1>5, <1>6, <1>7 DEF Next, Step

\* The empty table satisfies the inductive invariant.
LEMMA InvInit == Init => IInv
  BY TypeInit DEF Init, IInv, EmptyTable, NoDuplicateKeys, ChainsUnbroken, ProbeConsistent

\* The invariant, for every capacity, hash function and sequence of calls.
LEMMA Invariance == Spec => []IInv
  BY InvInit, InvStep, PTL DEF Spec

\* No key is ever in two slots: set never stores a key in front of the slot
\* that has it already.
THEOREM KeysAreOnce == Spec => []NoDuplicateKeys
<1>1. IInv => NoDuplicateKeys
  BY DEF IInv
<1>2. QED
  BY <1>1, Invariance, PTL

\* No stored key is ever cut off from its home slot, whatever was deleted.
THEOREM ChainsAreUnbroken == Spec => []ChainsUnbroken
<1>1. IInv => ChainsUnbroken
  BY DEF IInv
<1>2. QED
  BY <1>1, Invariance, PTL

\* A probe loop never passes the key it looks for, nor an empty slot.
THEOREM ProbesAreConsistent == Spec => []ProbeConsistent
<1>1. IInv => ProbeConsistent
  BY DEF IInv
<1>2. QED
  BY <1>1, Invariance, PTL

-----------------------------------------------------------------------------
(***************************************************************************)
(* The refinement of Dictionary.                                           *)
(***************************************************************************)

\* The contents are read off any slot that holds the key, as there is only one.
LEMMA ContentsStored ==
  ASSUME IInv, NEW s \in Slots, entries[s].key \in Keys
  PROVE  /\ Contents[entries[s].key] = entries[s].value
         /\ Contents[entries[s].key] # Absent
<1>1. StoredAt(entries, entries[s].key) = {s}
  BY DEF IInv, NoDuplicateKeys, StoredAt
<1>2. entries[s].value \in Values
  BY DEF IInv, TypeOK, Entry
<1>3. QED
  BY <1>1, <1>2 DEF Contents

\* A key in no slot is absent from the contents.
LEMMA ContentsAbsent ==
  ASSUME NEW k \in Keys, StoredAt(entries, k) = {}
  PROVE  Contents[k] = Absent
  BY DEF Contents

\* A slot that holds no other key before and after a step leaves the contents
\* of all other keys alone.
LEMMA ContentsElsewhere ==
  ASSUME NEW slot \in Slots, NEW k \in Keys,
         \A s \in Slots : s # slot => entries'[s] = entries[s],
         entries[slot].key \in {k, Null}, entries'[slot].key \in {k, Null}
  PROVE  \A q \in Keys : q # k => Contents'[q] = Contents[q]
<1> SUFFICES ASSUME NEW q \in Keys, q # k PROVE Contents'[q] = Contents[q]
  OBVIOUS
<1>1. StoredAt(entries', q) = StoredAt(entries, q)
  BY DEF StoredAt
<1>2. \A s \in StoredAt(entries, q) : s \in Slots /\ s # slot
  BY DEF StoredAt
<1>3. CASE StoredAt(entries, q) = {}
  BY <1>1, <1>3 DEF Contents
<1>4. CASE StoredAt(entries, q) # {}
  <2> DEFINE at == CHOOSE s \in StoredAt(entries, q) : TRUE
  <2>1. at \in StoredAt(entries, q)
    BY <1>4
  <2>2. entries'[at] = entries[at]
    BY <1>2, <2>1
  <2>3. Contents[q] = entries[at].value /\ Contents'[q] = entries'[at].value
    BY <1>1, <1>4 DEF Contents
  <2>4. QED
    BY <2>2, <2>3
<1>5. QED
  BY <1>3, <1>4

\* A set that returns is the dictionary's.
LEMMA SetRefines ==
  ASSUME IInv, IInv', ReturnSet
  PROVE  Dict!ReturnSet
<1> DEFINE k == call.key
<1>1. /\ call # Idle /\ call.op = "set" /\ (IsEmpty(Here) \/ Matches)
      /\ entries' = Store(entries, Slot, k, call.value)
      /\ reply' = [ok |-> entries[Slot].key = Null, value |-> Null]
      /\ call' = Idle
      /\ k \in Keys /\ entries \in [Slots -> Entry]
  BY DEF ReturnSet, Stopped, Return, IInv, TypeOK, Calls
<1>2. /\ Slot \in Slots
      /\ \/ entries[Slot].key = k
         \/ entries[Slot].key = Null /\ StoredAt(entries, k) = {}
  BY <1>1, StopSlot
<1>3. (entries[Slot].key = Null) <=> ~Dict!Has(k)
  BY <1>1, <1>2, ContentsStored, ContentsAbsent DEF Dict!Has
<1>4. entries'[Slot] = [key |-> k, value |-> call.value]
  BY <1>1, <1>2 DEF Store
<1>5. Contents'[k] = call.value
  <2>1. StoredAt(entries', k) = {Slot}
    BY <1>1, <1>2, <1>4 DEF IInv, NoDuplicateKeys, StoredAt
  <2>2. QED
    BY <1>1, <1>4, <2>1 DEF Contents
<1>6. \A q \in Keys : q # k => Contents'[q] = Contents[q]
  BY <1>1, <1>2, <1>4, ContentsElsewhere DEF Store
<1>7. Contents' = [Contents EXCEPT ![k] = call.value]
  BY <1>1, <1>5, <1>6 DEF Contents
<1>8. reply' = [ok |-> ~Dict!Has(k), value |-> Null]
  BY <1>1, <1>3 DEF Dict!Has
<1>9. QED
  BY <1>1, <1>7, <1>8 DEF Dict!ReturnSet

\* A get that returns answers as the dictionary does.
LEMMA GetRefines ==
  ASSUME IInv, ReturnGet
  PROVE  Dict!ReturnGet
<1> DEFINE k == call.key
           found == entries[Slot].key # Null
<1>1. /\ call # Idle /\ call.op = "get" /\ (IsEmpty(Here) \/ Matches)
      /\ entries' = entries
      /\ reply' = [ok |-> found, value |-> IF found THEN entries[Slot].value ELSE Null]
      /\ call' = Idle
      /\ k \in Keys
  BY DEF ReturnGet, Stopped, Return, IInv, TypeOK, Calls
<1>2. /\ Slot \in Slots
      /\ \/ entries[Slot].key = k
         \/ entries[Slot].key = Null /\ StoredAt(entries, k) = {}
  BY <1>1, StopSlot
<1>3. found <=> Dict!Has(k)
  BY <1>1, <1>2, ContentsStored, ContentsAbsent DEF Dict!Has
<1>4. found => entries[Slot].value = Contents[k]
  BY <1>1, <1>2, ContentsStored
<1>5. reply' = [ok |-> Dict!Has(k), value |-> IF Dict!Has(k) THEN Contents[k] ELSE Null]
  <2>1. found = Dict!Has(k)
    BY <1>3 DEF Dict!Has
  <2>2. QED
    BY <1>1, <1>4, <2>1
<1>6. Contents' = Contents
  BY <1>1 DEF Contents
<1>7. QED
  BY <1>1, <1>5, <1>6 DEF Dict!ReturnGet

\* A del that returns is the dictionary's.
LEMMA DelRefines ==
  ASSUME IInv, IInv', ReturnDel
  PROVE  Dict!ReturnDel
<1> DEFINE k == call.key
<1>1. /\ call # Idle /\ call.op = "del" /\ (IsEmpty(Here) \/ Matches)
      /\ entries' = Erase(entries, Slot)
      /\ reply' = [ok |-> entries[Slot].key # Null, value |-> Null]
      /\ call' = Idle
      /\ k \in Keys /\ entries \in [Slots -> Entry]
  BY DEF ReturnDel, Stopped, Return, IInv, TypeOK, Calls
<1>2. /\ Slot \in Slots
      /\ \/ entries[Slot].key = k
         \/ entries[Slot].key = Null /\ StoredAt(entries, k) = {}
  BY <1>1, StopSlot
<1>3. (entries[Slot].key # Null) <=> Dict!Has(k)
  BY <1>1, <1>2, ContentsStored, ContentsAbsent DEF Dict!Has
<1>4. entries'[Slot].key = Null /\ \A s \in Slots : s # Slot => entries'[s] = entries[s]
  BY <1>1, <1>2 DEF Erase
<1>5. Contents'[k] = Absent
  <2>1. StoredAt(entries', k) = {}
    BY <1>1, <1>2, <1>4 DEF IInv, NoDuplicateKeys, StoredAt
  <2>2. QED
    BY <1>1, <2>1 DEF Contents
<1>6. \A q \in Keys : q # k => Contents'[q] = Contents[q]
  BY <1>1, <1>2, <1>4, ContentsElsewhere
<1>7. Contents' = [Contents EXCEPT ![k] = Absent]
  BY <1>1, <1>5, <1>6 DEF Contents
<1>8. reply' = [ok |-> Dict!Has(k), value |-> Null]
  BY <1>1, <1>3 DEF Dict!Has
<1>9. QED
  BY <1>1, <1>7, <1>8 DEF Dict!ReturnDel

\* A find_string that returns answers as the dictionary does.
LEMMA FindRefines ==
  ASSUME IInv, ReturnFind
  PROVE  Dict!ReturnFind
<1> DEFINE k == call.key
<1>1. /\ call # Idle /\ call.op = "find" /\ (IsEmpty(Here) \/ Matches)
      /\ entries' = entries /\ call' = Idle
      /\ reply' = [ok |-> Here.key # Null, value |-> Null]
      /\ k \in Keys /\ index \in Slots
  BY DEF ReturnFind, Stopped, Return, IInv, TypeOK, Calls
<1>2. CASE IsEmpty(Here)
  <2>1. Here.key = Null
    BY <1>2 DEF IsEmpty
  <2>2. k # EmptyString => ~Dict!Has(k)
    BY <1>1, <1>2, EmptyMeansAbsent, ContentsAbsent DEF Dict!Has
  <2>3. QED
    BY <1>1, <2>1, <2>2 DEF Dict!ReturnFind, Contents
<1>3. CASE Matches
  <2>1. Here.key = k /\ k # EmptyString
    BY <1>1, <1>3 DEF Matches
  <2>2. Dict!Has(k)
    BY <1>1, <2>1, ContentsStored DEF Dict!Has, Here
  <2>3. QED
    BY <1>1, <2>1, <2>2 DEF Dict!ReturnFind, Contents
<1>4. QED
  BY <1>1, <1>2, <1>3

\* A step of the table is a step of the dictionary, or leaves it alone.
LEMMA StepRefines == IInv /\ IInv' /\ [Next]_vars => [Dict!Next]_(Dict!dvars)
<1> SUFFICES ASSUME IInv, IInv', [Next]_vars
             PROVE  Dict!Next \/ Dict!dvars' = Dict!dvars
  OBVIOUS
<1>1. CASE Invoke
  BY <1>1 DEF Invoke, Contents, Calls, Dict!Invoke, Dict!Calls, Dict!Next
<1>2. CASE PassTombstone \/ PassKey
  <2>1. entries' = entries /\ call' = call /\ reply' = reply
    BY <1>2 DEF PassTombstone, PassKey
  <2>2. QED
    BY <2>1 DEF Contents, Dict!dvars
<1>3. CASE ReturnSet
  BY <1>3, SetRefines DEF Dict!Next
<1>4. CASE ReturnGet
  BY <1>4, GetRefines DEF Dict!Next
<1>5. CASE ReturnDel
  BY <1>5, DelRefines DEF Dict!Next
<1>6. CASE ReturnFind
  BY <1>6, FindRefines DEF Dict!Next
<1>7. CASE UNCHANGED vars
  BY <1>7 DEF vars, Contents, Dict!dvars
<1>8. QED
  BY <1>1, <1>2, <1>3, <1>4, <1>5, <1>6, <1>7 DEF Next, Step

\* The empty table is the empty dictionary.
LEMMA InitRefines == Init => Dict!Init
  BY DEF Init, EmptyTable, Dict!Init, Contents, StoredAt

\* The table implements the abstract dictionary: for every capacity and hash,
\* each set, get, del and find_string answers as the map would.
THEOREM TableIsDictionary == Spec => ImplementsDictionary
<1>1. Spec => []IInv
  BY InvInit, InvStep, PTL DEF Spec
<1>2. QED
  BY <1>1, InitRefines, StepRefines, PTL DEF Spec, ImplementsDictionary, Dict!Spec

-----------------------------------------------------------------------------
(***************************************************************************)
(* The closed forms of the probe loops.  The loop is compared with them    *)
(* where it stops; that it stops at the first slot that could stop it      *)
(* follows from ProbeConsistent, that it remembers the first tombstone is  *)
(* an invariant of its own.                                                *)
(***************************************************************************)
Stops == StoredAt(entries, call.key) \union EmptySlots(entries)
FirstTombstone ==
  call # Idle /\ call.op # "find" =>
    /\ tombstone = NoSlot =>
         \A t \in Between(Home(call.key), index) : ~IsTombstone(entries[t])
    /\ tombstone # NoSlot =>
         /\ \A t \in Between(Home(call.key), tombstone) : ~IsTombstone(entries[t])
         /\ \A s \in Stops : tombstone \in Between(Home(call.key), s)

\* Two ways to say that slot t comes before slot s for key k.
LEMMA BetweenIsAhead ==
  ASSUME NEW k \in Keys, NEW s \in Slots, NEW t \in Slots
  PROVE  t \in Between(Home(k), s) <=> Ahead(k, t) < Ahead(k, s)
<1>1. Home(k) \in Slots
  BY HomeIsSlot
<1>2. \A r \in Slots : Ahead(k, r) = IF r < Home(k) THEN r - Home(k) + Capacity ELSE r - Home(k)
  BY <1>1 DEF Ahead, Slots
<1>3. QED
  BY <1>1, <1>2 DEF Between, Slots

\* A slot of S that no slot of S comes before is the nearest one.
LEMMA NearestIs ==
  ASSUME NEW k \in Keys, NEW S \in SUBSET Slots, NEW s \in S,
         \A t \in S : t \notin Between(Home(k), s)
  PROVE  Nearest(k, S) = s
<1>1. Nearest(k, S) \in S /\ Ahead(k, Nearest(k, S)) <= Ahead(k, s)
  BY NearestIsFirst
<1>2. ~(Ahead(k, Nearest(k, S)) < Ahead(k, s))
  BY <1>1, BetweenIsAhead
<1>3. QED
  BY <1>1, <1>2, AheadOrders

\* The loop remembers the first tombstone it passes.
LEMMA RemembersFirst == IInv /\ FirstTombstone /\ [Next]_vars => FirstTombstone'
<1> SUFFICES ASSUME IInv, FirstTombstone, [Next]_vars PROVE FirstTombstone'
  OBVIOUS
<1>1. CASE Invoke
  <2>1. call'.key \in Keys
    BY <1>1 DEF Invoke, Calls
  <2>2. Between(Home(call'.key), index') = {}
    BY <1>1, <2>1, HomeIsSlot, BetweenNothing DEF Invoke
  <2>3. QED
    BY <1>1, <2>2 DEF Invoke, FirstTombstone
<1>2. CASE PassTombstone \/ PassKey
  <2> SUFFICES ASSUME call.op # "find" PROVE FirstTombstone'
    BY <1>2 DEF PassTombstone, PassKey, FirstTombstone
  <2> DEFINE home == Home(call.key)
  <2>1. /\ call # Idle /\ call' = call /\ entries' = entries
        /\ call.key \in Keys /\ home \in Slots /\ index \in Slots
        /\ index' = NextSlot(index)
    BY <1>2, HomeIsSlot DEF IInv, TypeOK, Calls, PassTombstone, PassKey
  <2>2. Stops' = Stops
    BY <2>1 DEF Stops
  <2>3. CASE tombstone # NoSlot
    <3>1. tombstone' = tombstone
      BY <1>2, <2>3 DEF PassTombstone, PassKey
    <3>2. QED
      BY <2>1, <2>2, <2>3, <3>1 DEF FirstTombstone, IsTombstone
  <2>4. CASE tombstone = NoSlot /\ PassKey
    <3>1. ~IsTombstone(Here) /\ tombstone' = NoSlot
      BY <2>4 DEF PassKey, IsTombstone
    <3>2. \A t \in Between(home, index') : ~IsTombstone(entries[t])
      BY <2>1, <2>4, <3>1, BetweenNext DEF FirstTombstone, Here
    <3>3. QED
      BY <2>1, <3>1, <3>2 DEF FirstTombstone, IsTombstone
  <2>5. CASE tombstone = NoSlot /\ PassTombstone
    <3>1. tombstone' = index /\ IsTombstone(Here)
      BY <2>5 DEF PassTombstone
    <3>2. \A t \in Between(home, index) : ~IsTombstone(entries[t])
      BY <2>1, <2>5 DEF FirstTombstone
    <3>3. ASSUME NEW s \in Stops PROVE index \in Between(home, s)
      <4>1. s \in Slots /\ s # index
        BY <2>1, <3>1 DEF Stops, StoredAt, EmptySlots, IsTombstone, IsEmpty, Here
      <4>2. s \notin Between(home, index)
        BY <2>1, <3>3 DEF Stops, StoredAt, EmptySlots, IInv, ProbeConsistent, Passed
      <4>3. QED
        BY <2>1, <4>1, <4>2, BetweenTotal
    <3>4. index # NoSlot
      BY <2>1 DEF Slots
    <3>5. QED
      BY <2>1, <2>2, <3>1, <3>2, <3>3, <3>4 DEF FirstTombstone, IsTombstone
  <2>6. QED
    BY <1>2, <2>3, <2>4, <2>5
<1>3. CASE ReturnSet \/ ReturnGet \/ ReturnDel \/ ReturnFind
  BY <1>3 DEF ReturnSet, ReturnGet, ReturnDel, ReturnFind, Return, FirstTombstone
<1>4. CASE UNCHANGED vars
  BY <1>4 DEF vars, FirstTombstone, Stops, IsTombstone
<1>5. QED
  BY <1>1, <1>2, <1>3, <1>4 DEF Next, Step

\* Where a loop stops the closed form says the same.
LEMMA StopIsClosedForm == IInv /\ FirstTombstone => LoopIsClosedForm
<1> SUFFICES ASSUME IInv, FirstTombstone, call # Idle, IsEmpty(Here) \/ Matches
             PROVE  IF call.op = "find" THEN FindString(entries, call.key) = index
                                        ELSE FindEntry(entries, call.key) = Slot
  BY DEF LoopIsClosedForm
<1> DEFINE k == call.key
<1>1. k \in Keys /\ k # Null /\ index \in Slots /\ Passed(index)
  BY DEF IInv, TypeOK, Calls, ProbeConsistent
<1>2. CASE call.op = "find"
  <2> DEFINE stops == EmptySlots(entries) \union
                        (IF k = EmptyString THEN {} ELSE StoredAt(entries, k))
  <2>1. stops \in SUBSET Slots /\ index \in stops
    BY <1>1, <1>2 DEF EmptySlots, StoredAt, Here, Matches
  <2>2. \A t \in stops : t \notin Between(Home(k), index)
    BY <1>1 DEF EmptySlots, StoredAt, Passed
  <2>3. Nearest(k, stops) = index
    BY <1>1, <2>1, <2>2, NearestIs
  <2>4. QED
    BY <1>2, <2>1, <2>3 DEF FindString
<1>3. CASE call.op # "find"
  <2>1. Stops \in SUBSET Slots /\ index \in Stops
    BY <1>1 DEF Stops, EmptySlots, StoredAt, Here, Matches
  <2>2. \A t \in Stops : t \notin Between(Home(k), index)
    BY <1>1, <1>3 DEF Stops, EmptySlots, StoredAt, Passed
  <2>3. Nearest(k, Stops) = index
    BY <1>1, <2>1, <2>2, NearestIs
  <2> DEFINE tombs == {s \in Slots : IsTombstone(entries[s]) /\ Ahead(k, s) < Ahead(k, index)}
  <2>4. FindEntry(entries, k) = IF Here.key = k \/ tombs = {} THEN index ELSE Nearest(k, tombs)
    BY <2>1, <2>3 DEF FindEntry, Stops, Here
  <2>5. CASE Here.key = k
    BY <1>1, <1>3, <2>4, <2>5 DEF Slot, IsEmpty
  <2>6. CASE Here.key # k
    <3>1. IsEmpty(Here)
      BY <2>6 DEF Matches
    <3>2. \A s \in tombs : s \in Between(Home(k), index)
      BY <1>1, BetweenIsAhead
    <3>3. CASE tombstone = NoSlot
      <4>1. tombs = {}
        BY <1>3, <3>2, <3>3 DEF FirstTombstone
      <4>2. QED
        BY <1>3, <2>4, <3>3, <4>1 DEF Slot
    <3>4. CASE tombstone # NoSlot
      <4>1. tombstone \in Slots /\ IsTombstone(entries[tombstone])
        BY <3>4 DEF IInv, TypeOK, ProbeConsistent
      <4>2. tombstone \in Between(Home(k), index)
        BY <1>3, <2>1, <3>4 DEF FirstTombstone
      <4>3. tombstone \in tombs
        BY <1>1, <4>1, <4>2, BetweenIsAhead
      <4>4. \A t \in tombs : t \notin Between(Home(k), tombstone)
        BY <1>3, <3>4 DEF FirstTombstone
      <4>5. Nearest(k, tombs) = tombstone
        BY <1>1, <4>3, <4>4, NearestIs
      <4>6. QED
        BY <1>3, <2>4, <2>6, <3>1, <3>4, <4>3, <4>5 DEF Slot
    <3>5. QED
      BY <3>3, <3>4
  <2>7. QED
    BY <2>5, <2>6
<1>4. QED
  BY <1>2, <1>3

\* The probe loops of find_entry and find_string compute the closed forms that
\* module VM uses, for every capacity and hash.
THEOREM LoopComputesClosedForm == Spec => []LoopIsClosedForm
<1>1. Init => IInv /\ FirstTombstone
  BY InvInit DEF Init, FirstTombstone
<1>2. (IInv /\ FirstTombstone) /\ [Next]_vars => (IInv /\ FirstTombstone)'
  BY InvStep, RemembersFirst
<1>3. QED
  BY <1>1, <1>2, StopIsClosedForm, PTL DEF Spec
-----------------------------------------------------------------------------
(***************************************************************************)
(* Tombstones never take up more slots than there are names.  Each slot in *)
(* use is charged to a name of its own, from whose home slot no empty slot *)
(* leads to it: a stored key to itself, a tombstone to some name that is   *)
(* not stored.  When set reuses a tombstone, the name that was charged for *)
(* it takes over the one that the new key was charged for.                 *)
(***************************************************************************)
Used == {s \in Slots : ~IsEmpty(entries[s])}

Charged(owner) ==
  /\ owner \in [Used -> Keys]
  /\ \A s, t \in Used : owner[s] = owner[t] => s = t
  /\ \A s \in Used : entries[s].key # Null => owner[s] = entries[s].key
  /\ \A s \in Used : Between(Home(owner[s]), s) \subseteq Used

SlotsCharged == \E owner : Charged(owner)

\* The way round to t, by another slot.
LEMMA BetweenVia ==
  ASSUME NEW h \in Slots, NEW s \in Slots, NEW t \in Slots
  PROVE  /\ Between(h, t) \subseteq Between(h, s) \union Between(s, t)
         /\ s \in Between(h, t) => Between(s, t) \subseteq Between(h, t)
  BY DEF Between, Slots

\* What a delete leaves is in use as before.
LEMMA ChargedWithoutSet ==
  ASSUME IInv, SlotsCharged, NEW tab \in {entries, Erase(entries, Slot)}, entries' = tab
  PROVE  SlotsCharged'
<1>1. PICK owner : Charged(owner)
  BY DEF SlotsCharged
<1>2. Slot \in Slots /\ entries \in [Slots -> Entry]
  BY SlotIsSlot DEF IInv, TypeOK
<1>3. \A s \in Slots : /\ IsEmpty(tab[s]) = IsEmpty(entries[s])
                       /\ tab[s].key # Null => tab[s].key = entries[s].key
  <2>1. CASE tab = entries
    BY <2>1
  <2>2. CASE tab = Erase(entries, Slot)
    BY <1>2, <2>2 DEF Erase, IsEmpty, Entry
  <2>3. QED
    BY <2>1, <2>2
<1>4. Used' = Used
  BY <1>3 DEF Used
<1>5. Charged(owner)'
  BY <1>1, <1>3, <1>4 DEF Charged, Used
<1>6. QED
  BY <1>5 DEF SlotsCharged

\* set finds the key, or a tombstone, or else the empty slot where the probe
\* stopped, which is charged to the key.
LEMMA ChargedSet ==
  ASSUME IInv, FirstTombstone, SlotsCharged, ReturnSet
  PROVE  SlotsCharged'
<1> DEFINE k == call.key
           h == Home(k)
<1>1. PICK owner : Charged(owner)
  BY DEF SlotsCharged
<1>2. /\ k \in Keys /\ k # Null /\ h \in Slots /\ index \in Slots
      /\ entries \in [Slots -> Entry] /\ Slot \in Slots
  BY HomeIsSlot, SlotIsSlot DEF ReturnSet, Stopped, IInv, TypeOK, Calls
<1>3. /\ entries' = [entries EXCEPT ![Slot] = [key |-> k, value |-> call.value]]
      /\ call # Idle /\ call.op = "set" /\ (IsEmpty(Here) \/ Matches)
  BY DEF ReturnSet, Return, Store, Stopped
<1>4. Used' = Used \union {Slot}
  BY <1>2, <1>3 DEF Used, IsEmpty
<1>5. \A s \in Slots : entries'[s].key = IF s = Slot THEN k ELSE entries[s].key
  BY <1>2, <1>3
<1>6. \A t \in Between(h, Slot) : t \in Used
  BY <1>2, <1>3, StopSlot, BetweenSlots DEF Passed, Used
<1>7. CASE entries[Slot].key = k
  <2>1. Slot \in Used /\ Used' = Used
    BY <1>2, <1>4, <1>7 DEF Used, IsEmpty
  <2>2. Charged(owner)'
    BY <1>1, <1>2, <1>5, <1>7, <2>1 DEF Charged, Used
  <2>3. QED
    BY <2>2 DEF SlotsCharged
<1>8. CASE entries[Slot].key # k
  <2>1. StoredAt(entries, k) = {} /\ IsEmpty(Here)
    BY <1>2, <1>3, <1>8, StopSlot DEF Slot, Matches, Here
  <2>2. ASSUME NEW t \in Used, owner[t] = k
        PROVE  /\ IsTombstone(entries[t]) /\ t \in Slots /\ t \in Between(h, index)
               /\ Between(h, t) \subseteq Used
    <3>1. t \in Slots /\ IsTombstone(entries[t])
      BY <1>1, <2>1, <2>2 DEF Charged, Used, StoredAt, IsTombstone, IsEmpty
    <3>2. Between(h, t) \subseteq Used
      BY <1>1, <2>2 DEF Charged
    <3>3. index \notin Between(h, t) /\ index # t
      BY <2>1, <3>1, <3>2 DEF Used, Here, IsTombstone, IsEmpty
    <3>4. QED
      BY <1>2, <3>1, <3>2, <3>3, BetweenTotal
  <2>3. CASE tombstone = NoSlot
    <3>1. Slot = index /\ Slot \notin Used
      BY <2>1, <2>3 DEF Slot, Used, Here
    <3>2. \A t \in Used : owner[t] # k
      BY <1>3, <2>2, <2>3 DEF FirstTombstone
    <3>0. PICK new : new = [s \in Used \union {Slot} |-> IF s = Slot THEN k ELSE owner[s]]
      OBVIOUS
    <3>3. /\ \A s \in Used : new[s] = owner[s] /\ s # Slot
          /\ new[Slot] = k /\ new \in [Used \union {Slot} -> Keys]
      BY <1>1, <1>2, <3>0, <3>1 DEF Charged
    <3>4. \A s, t \in Used \union {Slot} : new[s] = new[t] => s = t
      BY <1>1, <3>2, <3>3 DEF Charged
    <3>5. \A s \in Used \union {Slot} : entries'[s].key # Null => new[s] = entries'[s].key
      BY <1>1, <1>2, <1>5, <3>3 DEF Charged, Used
    <3>6. \A s \in Used \union {Slot} : Between(Home(new[s]), s) \subseteq Used \union {Slot}
      BY <1>1, <1>6, <3>3 DEF Charged
    <3>7. Charged(new)'
      BY <1>4, <3>3, <3>4, <3>5, <3>6 DEF Charged
    <3>8. QED
      BY <3>7 DEF SlotsCharged
  <2>4. CASE tombstone # NoSlot
    <3>1. Slot = tombstone /\ IsTombstone(entries[Slot]) /\ Slot \in Used /\ Used' = Used
      BY <1>2, <1>3, <1>4, <2>1, <2>4 DEF Slot, IInv, ProbeConsistent, Used, IsTombstone, IsEmpty
    <3> DEFINE was == owner[Slot]
    <3>0. PICK new : new = [s \in Used |-> IF s = Slot THEN k ELSE IF owner[s] = k THEN was ELSE owner[s]]
      OBVIOUS
    <3>2. was \in Keys /\ Between(Home(was), Slot) \subseteq Used /\ Home(was) \in Slots
      BY <1>1, <3>1, HomeIsSlot DEF Charged
    <3>3. /\ new \in [Used -> Keys] /\ new[Slot] = k
          /\ \A s \in Used : s # Slot => new[s] = IF owner[s] = k THEN was ELSE owner[s]
      BY <1>1, <1>2, <3>0, <3>1, <3>2 DEF Charged
    <3>4. \A s \in Used : owner[s] = was => s = Slot
      BY <1>1, <3>1 DEF Charged
    <3> HIDE DEF was
    <3>5. \A s, t \in Used : new[s] = new[t] => s = t
      <4>1. \A s, t \in Used : owner[s] = owner[t] => s = t
        BY <1>1 DEF Charged
      <4>2. \A s \in Used : s # Slot => new[s] # k
        BY <3>1, <3>3, <3>4 DEF was
      <4>3. QED
        BY <3>3, <3>4, <4>1, <4>2
    <3>6. \A s \in Used : entries'[s].key # Null => new[s] = entries'[s].key
      <4>1. \A s \in Used : s \in Slots /\ entries[s].key # k
        BY <2>1 DEF Used, StoredAt
      <4>2. QED
        BY <1>1, <1>5, <3>3, <4>1 DEF Charged
    <3>7. ASSUME NEW s \in Used PROVE Between(Home(new[s]), s) \subseteq Used
      <4>1. CASE s = Slot
        BY <1>6, <3>3, <4>1
      <4>2. CASE s # Slot /\ owner[s] # k
        BY <1>1, <3>3, <4>2 DEF Charged
      <4>3. CASE s # Slot /\ owner[s] = k
        <5>1. IsTombstone(entries[s]) /\ s \in Slots /\ Between(h, s) \subseteq Used
          BY <2>2, <4>3
        <5>2. s \notin Between(h, Slot)
          BY <1>3, <2>4, <3>1, <5>1 DEF FirstTombstone
        <5>3. Slot \in Between(h, s)
          BY <1>2, <4>3, <5>1, <5>2, BetweenTotal
        <5>4. Between(Slot, s) \subseteq Used
          BY <1>2, <5>1, <5>3, BetweenVia
        <5>5. Between(Home(was), s) \subseteq Used
          BY <1>2, <3>2, <5>1, <5>4, BetweenVia
        <5>6. QED
          BY <3>3, <4>3, <5>5
      <4>4. QED
        BY <4>1, <4>2, <4>3
    <3>8. Charged(new)'
      BY <3>1, <3>3, <3>5, <3>6, <3>7 DEF Charged
    <3>9. QED
      BY <3>8 DEF SlotsCharged
  <2>5. QED
    BY <2>3, <2>4
<1>9. QED
  BY <1>7, <1>8

\* As long as there are more slots than names, an empty slot is left, so that
\* every probe loop ends: although del only ever leaves tombstones behind and
\* nothing clears them.
THEOREM RoomIsLeft ==
  ASSUME IsFiniteSet(Keys)
  PROVE  Spec => []EmptySlotLeft
<1>1. Init => IInv /\ FirstTombstone /\ SlotsCharged
  <2>1. ASSUME Init PROVE SlotsCharged
    <3>1. Used = {}
      BY <2>1 DEF Init, EmptyTable, Used, IsEmpty
    <3>2. Charged([s \in {} |-> s])
      BY <3>1 DEF Charged
    <3>3. QED
      BY <3>2 DEF SlotsCharged
  <2>2. QED
    BY <2>1, InvInit DEF Init, FirstTombstone
<1>2. (IInv /\ FirstTombstone /\ SlotsCharged) /\ [Next]_vars
        => (IInv /\ FirstTombstone /\ SlotsCharged)'
  <2> SUFFICES ASSUME IInv, FirstTombstone, SlotsCharged, [Next]_vars PROVE SlotsCharged'
    BY InvStep, RemembersFirst
  <2>1. CASE Invoke \/ PassTombstone \/ PassKey \/ ReturnGet \/ ReturnFind \/ UNCHANGED vars
    <3>1. entries' = entries
      BY <2>1 DEF Invoke, PassTombstone, PassKey, ReturnGet, ReturnFind, Return, vars
    <3>2. QED
      BY <3>1, ChargedWithoutSet
  <2>2. CASE ReturnDel
    BY <2>2, ChargedWithoutSet DEF ReturnDel, Return
  <2>3. CASE ReturnSet
    BY <2>3, ChargedSet
  <2>4. QED
    BY <2>1, <2>2, <2>3 DEF Next, Step
<1>3. SlotsCharged => EmptySlotLeft
  <2> SUFFICES ASSUME SlotsCharged, Cardinality(Keys) < Capacity, EmptySlots(entries) = {}
               PROVE  FALSE
    BY DEF EmptySlotLeft
  <2>1. PICK owner : Charged(owner)
    BY DEF SlotsCharged
  <2>2. Used = Slots
    BY DEF Used, EmptySlots
  <2>3. IsFiniteSet(Slots) /\ Cardinality(Slots) = Capacity
    BY FS_Interval DEF Slots
  <2>4. owner \in [Slots -> Keys]
    BY <2>1, <2>2 DEF Charged
  <2>5. \E s, t \in Slots : s # t /\ owner[s] = owner[t]
    BY <2>3, <2>4, FS_PigeonHole
  <2>6. QED
    BY <2>1, <2>2, <2>5 DEF Charged
<1>4. QED
  BY <1>1, <1>2, <1>3, PTL DEF Spec
=============================================================================
