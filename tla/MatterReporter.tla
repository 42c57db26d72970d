---------------------------- MODULE MatterReporter ----------------------------
(***************************************************************************)
(* MatterReporter (src/matter_reporter.cpp) and the attributes of the two  *)
(* measurement clusters, whose defaults and bounds come from the data      *)
(* model (src/default_zap).  Values are in hundredths, as integers of the  *)
(* 16 bits that the attributes have.  A reading is a set of at most one    *)
(* value.                                                                  *)
(***************************************************************************)
EXTENDS CppIntegers, Sequences

CONSTANT ServerFaults  \* the calls on the Matter server that may fail

ASSUME ServerFaultAssumption == ServerFaults \subseteq {"bounds", "set"}

VARIABLES
    loaded,       \* how many of the four bounds are loaded; the others are 0
    temperature,  \* MeasuredValue of the temperature cluster
    humidity      \* MeasuredValue of the humidity cluster

reporterVars == <<loaded, temperature, humidity>>

(* kTemperatureInvalidValue (0x8000 as int16_t) and kHumidityInvalidValue. *)
TemperatureNull == -32768
HumidityNull == 65535

(* MinMeasuredValue and MaxMeasuredValue of the two clusters, in the order *)
(* in which LoadValidityRanges takes them.                                 *)
DataModelBounds == <<-4000, 12500, 0, 10000>>

(* mTemperatureMin, mTemperatureMax, mHumidityMin and mHumidityMax *)
Bound(i) == IF i <= loaded THEN DataModelBounds[i] ELSE 0

TemperatureMin == Bound(1)
TemperatureMax == Bound(2)
HumidityMin == Bound(3)
HumidityMax == Bound(4)

(* A bound that cannot be loaded leaves it and those behind it alone. *)
LoadValidityRanges == loaded' = 4

LoadValidityRangesFails ==
    /\ "bounds" \in ServerFaults
    /\ loaded' \in 0..3

(* Variant: only the lower bound is looked at. *)
ReportedAboveMin(reading, min, max, null) ==
    LET valid == {v \in reading : min <= v}
    IN  IF valid = {} THEN null ELSE CHOOSE v \in valid : TRUE

(* A reading that is missing or out of its bounds is reported as null. *)
Reported(reading, min, max, null) ==
    LET valid == {v \in reading : min <= v /\ v <= max}
    IN  IF valid = {} THEN null ELSE CHOOSE v \in valid : TRUE

(* MeasuredValue::Set; a failure is logged. *)
SetTo(value, old) == {value} \cup (IF "set" \in ServerFaults THEN {old} ELSE {})

Publish(t, h) ==
    /\ temperature' \in SetTo(Reported(t, TemperatureMin, TemperatureMax, TemperatureNull),
                              temperature)
    /\ humidity' \in SetTo(Reported(h, HumidityMin, HumidityMax, HumidityNull), humidity)
    /\ UNCHANGED loaded

(* The attributes are not kept over a reset. *)
ReporterStart ==
    /\ loaded = 0
    /\ temperature = TemperatureNull
    /\ humidity = HumidityNull

ReporterReset ==
    /\ loaded' = 0
    /\ temperature' = TemperatureNull
    /\ humidity' = HumidityNull

ReporterTypeOK ==
    /\ loaded \in 0..4
    /\ temperature \in Int16
    /\ humidity \in UInt16

=============================================================================
