---- MODULE MachineInts ----
(***************************************************************************)
(* Go's int: two's complement of a fixed width, whose sums wrap around.    *)
(***************************************************************************)
EXTENDS Integers

CONSTANT MaxInt   \* the largest int, 2^63 - 1 in the program

ASSUME MaxIntConstant == MaxInt \in Nat \ {0}

Ints == (-MaxInt - 1)..MaxInt

\* A positive number added to an int: a sum that does not fit comes out at the
\* other end, negative.
Fits(a, b) == a + b <= MaxInt
Plus(a, b) == IF Fits(a, b) THEN a + b ELSE a + b - 2 * (MaxInt + 1)
====
