----------------------------- MODULE CppIntegers -----------------------------
(* The integers of C++, as far as the modules that compute with them need it. *)
EXTENDS Integers

(* The types of 16 bits. *)
MaxUInt16 == 65535
UInt16 == 0..MaxUInt16

MinInt16 == -32768
MaxInt16 == 32767
Int16 == MinInt16..MaxInt16

(* Division truncates towards zero. *)
TruncDiv(a, b) == IF a >= 0 THEN a \div b ELSE -((-a) \div b)

Magnitude(v) == IF v < 0 THEN -v ELSE v
=============================================================================
