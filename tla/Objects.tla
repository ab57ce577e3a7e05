------------------------------ MODULE Objects -------------------------------
(***************************************************************************)
(* The values of the language (src/src/object.cpp): nil, booleans, numbers *)
(* and strings, each a value of its own here, so that equality of values   *)
(* is is_equal.  What the arithmetic on doubles yields is a parameter; NaN, *)
(* which differs from itself, is left out.  Strings are the keys of        *)
(* Table, and Null stands for a null shared_ptr.                           *)
(***************************************************************************)
EXTENDS Table

CONSTANTS
  False,      \* BooleanObject(false); Table has True
  Numbers,    \* the doubles in use
  Zero,       \* 0.0
  Arithmetic, \* Arithmetic[op][x, y]: the double operators of the VM
  Less,       \* Less[x, y]: the order of doubles
  Minus,      \* Minus[x]: negation
  Concat      \* Concat[s, t]: concatenation of strings

ASSUME ObjectsAssumption ==
  /\ {False, EmptyString} \union Numbers \union Keys \subseteq Values
  /\ EmptyString \in Keys
  /\ Zero \in Numbers
  /\ Null \notin {Nil, False}
  /\ Numbers \intersect Keys = {}
  /\ {Null, Nil, True, False} \intersect (Numbers \union Keys) = {}
  /\ Less \in [Numbers \X Numbers -> BOOLEAN]
  /\ Minus \in [Numbers -> Numbers]
  /\ Concat \in [Keys \X Keys -> Keys]

\* is_falsey of each class: zero and the empty string count as false.
Falsey == {Nil, False, Zero, EmptyString}

Bool(b) == IF b THEN True ELSE False
=============================================================================
