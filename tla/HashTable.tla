----------------------------- MODULE HashTable -----------------------------
(***************************************************************************)
(* table::Table at the grain of its probe loops (src/src/table.cpp): one   *)
(* call of set, get, del or find_string at a time, one slot visited per    *)
(* step.  The early returns on m_entries.size() = 0 never fire (the vector *)
(* is built with k_initial_capacity entries and never shrinks), and no     *)
(* code calls add_all, so neither is here.                                 *)
(***************************************************************************)
EXTENDS Table, FiniteSets

CONSTANTS
  Absent,  \* in Contents: the key is not stored
  Idle     \* no call is in progress

ASSUME DictAssumption == Absent \notin Values

VARIABLES
  entries,    \* m_entries
  call,       \* the call in progress, or Idle
  reply,      \* what the last finished call returned
  index,      \* the slot the probe loop looks at
  tombstone   \* the first tombstone it has passed

vars == <<entries, call, reply, index, tombstone>>

Calls == [op : {"set"}, key : Keys, value : Values]
           \union [op : {"get", "del", "find"}, key : Keys, value : {Null}]

Init ==
  /\ entries   = EmptyTable
  /\ call      = Idle
  /\ reply     = [ok |-> FALSE, value |-> Null]
  /\ index     = 0
  /\ tombstone = NoSlot

Here == entries[index]

\* find_entry compares contents; find_string never matches an empty string.
Matches ==
  /\ Here.key = call.key
  /\ call.op = "find" => call.key # EmptyString

\* Mutants: a tombstone is reused although the key was found; tombstones are
\* never reused.
SlotFirstTombstone   == IF tombstone # NoSlot THEN tombstone ELSE index
SlotIgnoresTombstone == index

\* The slot find_entry returns when it stops at index.
Slot == IF IsEmpty(Here) /\ tombstone # NoSlot THEN tombstone ELSE index

\* A caller enters set, get, del or find_string.
Invoke ==
  /\ call = Idle
  /\ call' \in Calls
  /\ index' = Home(call'.key)
  /\ tombstone' = NoSlot
  /\ UNCHANGED <<entries, reply>>

\* The loop passes a tombstone; find_entry remembers the first one.
PassTombstone ==
  /\ call # Idle
  /\ IsTombstone(Here)
  /\ index' = NextSlot(index)
  /\ tombstone' = IF call.op # "find" /\ tombstone = NoSlot THEN index ELSE tombstone
  /\ UNCHANGED <<entries, call, reply>>

\* The loop passes a slot with another key.
PassKey ==
  /\ call # Idle
  /\ Here.key # Null
  /\ ~Matches
  /\ index' = NextSlot(index)
  /\ UNCHANGED <<entries, call, reply, tombstone>>

\* The loop stops: the whole effect of the call, and its return value.
Return(tab, ok, value) ==
  /\ entries' = tab
  /\ reply' = [ok |-> ok, value |-> value]
  /\ call' = Idle
  /\ index' = 0
  /\ tombstone' = NoSlot

Stopped(op) == call # Idle /\ call.op = op /\ (IsEmpty(Here) \/ Matches)

ReturnSet ==
  /\ Stopped("set")
  /\ Return(Store(entries, Slot, call.key, call.value), entries[Slot].key = Null, Null)

ReturnGet ==
  /\ Stopped("get")
  /\ LET found == entries[Slot].key # Null
     IN  Return(entries, found, IF found THEN entries[Slot].value ELSE Null)

ReturnDel ==
  /\ Stopped("del")
  /\ Return(Erase(entries, Slot), entries[Slot].key # Null, Null)

ReturnFind ==
  /\ Stopped("find")
  /\ Return(entries, Here.key # Null, Null)

Step == PassTombstone \/ PassKey \/ ReturnSet \/ ReturnGet \/ ReturnDel \/ ReturnFind
Next == Invoke \/ Step
Spec == Init /\ [][Next]_vars

\* The loop runs in the caller's thread and waits for nothing.
FairSpec == Spec /\ WF_vars(Step)

-----------------------------------------------------------------------------
(***************************************************************************)
(* Properties.                                                             *)
(***************************************************************************)

\* The variables hold what their declarations in table.h and the locals of
\* find_entry and find_string can hold.
TypeOK ==
  /\ entries \in [Slots -> Entry]
  /\ call \in Calls \union {Idle}
  /\ reply \in [ok : BOOLEAN, value : Values]
  /\ index \in Slots
  /\ tombstone \in Slots \union {NoSlot}

\* No key sits in two slots, whatever set, del and tombstone reuse did before:
\* set looks past a tombstone for the key before it reuses the slot.
NoDuplicateKeys ==
  \A s, t \in Slots : entries[s].key # Null /\ entries[s].key = entries[t].key => s = t

\* The slots visited on the way from slot h round to slot s, s excluded.
Between(h, s) == IF h <= s THEN h .. (s - 1) ELSE Slots \ (s .. (h - 1))

\* No stored key is cut off from its home slot by an empty slot: del leaves a
\* tombstone and set fills only a slot that the key's own probes reach.
ChainsUnbroken ==
  \A s \in Slots : entries[s].key # Null =>
    \A t \in Between(Home(entries[s].key), s) : ~IsEmpty(entries[t])

\* While a call probes, the slots behind it neither end a chain nor hold the
\* key, and the remembered tombstone is still one, which the key's own probes
\* reach.
Passed(s) ==
  \A t \in Between(Home(call.key), s) :
    /\ ~IsEmpty(entries[t])
    /\ entries[t].key = call.key => call.op = "find" /\ call.key = EmptyString

ProbeConsistent ==
  call # Idle =>
    /\ Passed(index)
    /\ tombstone # NoSlot => IsTombstone(entries[tombstone]) /\ Passed(tombstone)

\* The loops that visit one slot at a time stop exactly where the closed forms
\* FindEntry and FindString say, and never when these say that they do not
\* return.
LoopIsClosedForm ==
  call # Idle /\ (IsEmpty(Here) \/ Matches) =>
    IF call.op = "find" THEN FindString(entries, call.key) = index
                        ELSE FindEntry(entries, call.key) = Slot

\* The map that the slots represent.
Contents ==
  [k \in Keys |-> LET at == StoredAt(entries, k)
                  IN  IF at = {} THEN Absent ELSE entries[CHOOSE s \in at : TRUE].value]

Dict == INSTANCE Dictionary WITH dict <- Contents

\* Seen from its callers, the table is the abstract dictionary: every answer
\* of set, get, del and find_string is the map's.
ImplementsDictionary == Dict!Spec

\* Every call of the table returns.
CallsReturn == call # Idle ~> call = Idle

\* An empty slot is left to end the probe loops as long as fewer names are in
\* use than there are slots: tombstones never take up more slots than names.
EmptySlotLeft == Cardinality(Keys) < Capacity => EmptySlots(entries) # {}
=============================================================================
