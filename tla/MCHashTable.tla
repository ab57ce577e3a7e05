---------------------------- MODULE MCHashTable ----------------------------
(***************************************************************************)
(* Small instances of HashTable.  The hashes make keys collide, probe      *)
(* sequences overlap, and one of them wrap from the last slot to slot 0.   *)
(***************************************************************************)
EXTENDS HashTable

CONSTANTS a, b, c, d, v

MCHash == [k \in Keys |-> CASE k = a -> 7
                            [] k = b -> 2
                            [] k = c -> 3
                            [] OTHER -> 9]
=============================================================================
