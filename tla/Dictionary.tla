----------------------------- MODULE Dictionary -----------------------------
(***************************************************************************)
(* What a caller of table::Table relies on: a finite map with one call in  *)
(* progress at a time, whose answers are those of the map at the moment    *)
(* the call returns.  Nothing is said of slots, probing or tombstones.     *)
(***************************************************************************)
CONSTANTS Keys, Values, Null, Absent, EmptyString, Idle

VARIABLES
  dict,    \* the map: dict[k] is Absent when k is not in it
  call,    \* the call in progress, or Idle
  reply    \* what the last finished call returned

dvars == <<dict, call, reply>>

Calls == [op : {"set"}, key : Keys, value : Values]
           \union [op : {"get", "del", "find"}, key : Keys, value : {Null}]

Replies == [ok : BOOLEAN, value : Values]

Init ==
  /\ dict  = [k \in Keys |-> Absent]
  /\ call  = Idle
  /\ reply = [ok |-> FALSE, value |-> Null]

Has(k) == dict[k] # Absent

Invoke ==
  /\ call = Idle
  /\ call' \in Calls
  /\ UNCHANGED <<dict, reply>>

\* set answers whether the key is new.
ReturnSet ==
  /\ call # Idle
  /\ call.op = "set"
  /\ dict'  = [dict EXCEPT ![call.key] = call.value]
  /\ reply' = [ok |-> ~Has(call.key), value |-> Null]
  /\ call'  = Idle

\* get answers whether the key is there, and its value.
ReturnGet ==
  /\ call # Idle
  /\ call.op = "get"
  /\ reply' = [ok |-> Has(call.key), value |-> IF Has(call.key) THEN dict[call.key] ELSE Null]
  /\ call'  = Idle
  /\ UNCHANGED dict

\* del answers whether there was something to delete.
ReturnDel ==
  /\ call # Idle
  /\ call.op = "del"
  /\ dict'  = [dict EXCEPT ![call.key] = Absent]
  /\ reply' = [ok |-> Has(call.key), value |-> Null]
  /\ call'  = Idle

\* find_string answers whether the string is there; it never finds "".
ReturnFind ==
  /\ call # Idle
  /\ call.op = "find"
  /\ reply' = [ok |-> Has(call.key) /\ call.key # EmptyString, value |-> Null]
  /\ call'  = Idle
  /\ UNCHANGED dict

Next == Invoke \/ ReturnSet \/ ReturnGet \/ ReturnDel \/ ReturnFind

Spec == Init /\ [][Next]_dvars
=============================================================================
