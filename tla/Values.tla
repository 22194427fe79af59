------------------------------- MODULE Values -------------------------------
(***************************************************************************)
(* NaN-tagged values: a number, or the address of an object.  Null is the  *)
(* null pointer; false and true are objects like any other.  Addresses are *)
(* multiples of eight, as the allocator keeps them.                        *)
(***************************************************************************)
EXTENDS Integers

Number(n) == [object |-> FALSE, bits |-> n]
Object(address) == [object |-> TRUE, bits |-> address]

NullVal == Object(0)
FalseVal == Object(8)
TrueVal == Object(16)

(* What the conditional jumps of compiled code test.                        *)
IsTruthy(value) == value \notin {NullVal, FalseVal}
=============================================================================
