------------------------------- MODULE Readout -------------------------------
(***************************************************************************)
(* The numbers on the panel (src/display_manager.cpp): how a value in      *)
(* hundredths becomes one in tenths, and the elapsed seconds a clock.      *)
(***************************************************************************)
EXTENDS CppIntegers

(* The sign and the digits are formatted apart, so -0.04 reads "-0.0". *)
TemperatureTenths(v) == [sign |-> IF v < 0 THEN -1 ELSE 1, tenths |-> (Magnitude(v) + 5) \div 10]

(* Variant: truncated to a step instead of rounded. *)
HumidityTenthsCutOff(h) == (h \div 20) * 2

(* The humidity is shown in steps of 0.2 %. *)
HumidityTenths(h) == ((h + 10) \div 20) * 2

(* A difference or an offset, rounded half away from zero. *)
SignedTenths(v) == TruncDiv(IF v >= 0 THEN v + 5 ELSE v - 5, 10)

MinutesSeconds(s) == <<s \div 60, s % 60>>

(* The filled bars; without a connection a dash takes their place. *)
Bars(signal) == IF signal.connected THEN {i \in 0..3 : i <= signal.lqi} ELSE {}
=============================================================================
