------------------------------- MODULE Morton -------------------------------
(***************************************************************************)
(* Morton codes (src/include/pgm/morton_nd.hpp, MortonNDBmi): the bits of  *)
(* Dimensions fields of FieldBits bits each, interleaved. A point is the   *)
(* sequence of its coordinates; fields are counted from 0 as in the code.  *)
(***************************************************************************)
EXTENDS Integers, Sequences, FiniteSetsExt

CONSTANTS Dimensions, FieldBits

ASSUME FieldsAssumption == Dimensions \in Nat \ {0} /\ FieldBits \in Nat \ {0}

Bit(x, b) == (x \div 2^b) % 2

\* BuildSelector<FieldBits>(Dimensions) << field: the bits of a code that are the field's.
Selector(field) == {i * Dimensions + field : i \in 0..(FieldBits - 1)}

\* Deposit<field>, the instruction pdep: the i-th bit to the i-th bit selected.
Deposit(x, field) ==
    MapThenSumSet(LAMBDA i : Bit(x, i) * 2^(i * Dimensions + field), 0..(FieldBits - 1))

\* Extract<field>, the instruction pext: the i-th bit selected becomes the i-th bit.
Extract(code, field) ==
    MapThenSumSet(LAMBDA b : Bit(code, b) * 2^(b \div Dimensions), Selector(field))

Codes == 0..(2^(Dimensions * FieldBits) - 1)
Points == [1..Dimensions -> 0..(2^FieldBits - 1)]

Encode == [point \in Points |-> MapThenSumSet(LAMBDA d : Deposit(point[d], d - 1), 1..Dimensions)]

Decode == [code \in Codes |-> [d \in 1..Dimensions |-> Extract(code, d - 1)]]
=============================================================================
