------------------------------ MODULE MachineInt ------------------------------
(***************************************************************************)
(* The width of a C++ int, and what static_cast<int> makes of a wider      *)
(* integer: the cast wraps.                                                *)
(***************************************************************************)
EXTENDS Integers

CONSTANT IntBound  \* an int is in -IntBound .. IntBound - 1

ASSUME IntAssumption == IntBound \in Nat \ {0}

CastToInt(n) == ((n + IntBound) % (2 * IntBound)) - IntBound
===============================================================================
