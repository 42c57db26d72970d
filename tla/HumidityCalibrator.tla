-------------------------- MODULE HumidityCalibrator --------------------------
(***************************************************************************)
(* HDC302xHumidityCalibrator (src/hdc302x_humidity_calibrator.cpp) and the *)
(* HDC302x as it sees it: the measurement mode, and the offset that the    *)
(* device keeps in its EEPROM as a number of steps of 0.1953125 %.  Apply  *)
(* talks to the device in up to four commands, each of which may fail, and *)
(* a command that reports a failure may have had its effect.               *)
(*                                                                         *)
(* Humidities are in hundredths of a percent, so a step is 625/32 of them. *)
(***************************************************************************)
EXTENDS CppIntegers

CONSTANTS
    SensorFaults,  \* the kinds of commands that may fail
    InitialSteps   \* the offsets that an HDC302x comes with

ASSUME SensorFaultAssumption == SensorFaults \subseteq {"mode", "offset", "fetch"}

Steps == -127..127

ASSUME InitialStepsAssumption == InitialSteps \subseteq Steps

VARIABLES
    mode,        \* of the device: "auto" measures on its own, "manual" on command
    steps,       \* of the offset in the EEPROM of the device
    phase,       \* where Apply is
    request,     \* the arguments of Apply
    offset,      \* newHundredths
    applied,     \* what Apply returns
    modeFailed,  \* the last command that sets the mode has failed
    clamped      \* the driver has met an offset that the device cannot hold

deviceVars == <<mode, steps, modeFailed, clamped>>
callVars == <<phase, request, offset, applied>>
calibratorVars == <<deviceVars, callVars>>

Modes == {"auto", "manual"}
Phases == {"idle", "enter", "read", "write", "leave", "returned"}
Percentages == 0..10000

Call(reference, target) == [reference |-> reference, target |-> target]
NoCall == Call(0, 0)

-----------------------------------------------------------------------------

(***************************************************************************)
(* The driver.  It reports an offset in millionths, of which Apply keeps   *)
(* the hundredths, and it programs one of the two steps next to a value.     *)
(***************************************************************************)
OffsetHundredths(s) == TruncDiv(625 * s, 32)

Clamps(hundredths) == 32 * Magnitude(hundredths) > 625 * 127

Programmed(hundredths) ==
    IF Clamps(hundredths)
    THEN {IF hundredths < 0 THEN -127 ELSE 127}
    ELSE {s \in Steps : Magnitude(625 * s - 32 * hundredths) < 625}

(* The humidity that the device reports when it senses raw. *)
Corrected(raw, s) ==
    LET sum == raw + (625 * s) \div 32
    IN  IF sum < 0 THEN 0 ELSE IF sum > 10000 THEN 10000 ELSE sum

(* ConfigureHdc302xAutomaticMeasurementMode and ...ManualMeasurementMode. *)
SetMode(wanted) == mode' = wanted /\ modeFailed' = FALSE

SetModeFails(wanted) ==
    /\ "mode" \in SensorFaults
    /\ mode' \in {mode, wanted}
    /\ modeFailed' = TRUE

-----------------------------------------------------------------------------

(* Apply: without both readings the device is left alone. *)
Apply(reference, target) ==
    /\ phase = "idle"
    /\ applied' = FALSE
    /\ offset' = 0
    /\ \/ /\ reference = {} \/ target = {}
          /\ phase' = "returned"
          /\ request' = NoCall
       \/ \E r \in reference, t \in target :
             /\ phase' = "enter"
             /\ request' = Call(r, t)
    /\ UNCHANGED deviceVars

(* The constructor of ManualMeasurementScope. *)
EnterManual ==
    /\ phase = "enter"
    /\ SetMode("manual")
    /\ phase' = "read"
    /\ UNCHANGED <<steps, clamped, request, offset, applied>>

EnterManualFails ==
    /\ phase = "enter"
    /\ SetModeFails("manual")
    /\ phase' = "returned"
    /\ UNCHANGED <<steps, clamped, request, offset, applied>>

(* kMaxAbsOffsetHundredths *)
MaxAbsOffsetHundredths == 2480

(* Variant: the limit is the one of the device, rounded to a tenth. *)
InRangeOfTenths(hundredths) == Magnitude(hundredths) <= 2490

InRange(hundredths) == Magnitude(hundredths) <= MaxAbsOffsetHundredths

(* Variant: the offset in the device is taken for zero. *)
NewHundredthsAfresh == request.reference - request.target

(* The correction at hand comes on top of the one in the device. *)
NewHundredths == OffsetHundredths(steps) + request.reference - request.target

ReadOffset ==
    /\ phase = "read"
    /\ offset' = NewHundredths
    /\ phase' = IF InRange(NewHundredths) THEN "write" ELSE "leave"
    /\ UNCHANGED <<deviceVars, request, applied>>

(* Variant: the early return does not restore the mode. *)
ReadOffsetFailsInManual ==
    /\ phase = "read"
    /\ "offset" \in SensorFaults
    /\ phase' = "returned"
    /\ UNCHANGED <<deviceVars, request, offset, applied>>

ReadOffsetFails ==
    /\ phase = "read"
    /\ "offset" \in SensorFaults
    /\ phase' = "leave"
    /\ UNCHANGED <<deviceVars, request, offset, applied>>

Program ==
    /\ steps' \in Programmed(offset)
    /\ clamped' = (clamped \/ Clamps(offset))

WriteOffset ==
    /\ phase = "write"
    /\ Program
    /\ applied' = TRUE
    /\ phase' = "leave"
    /\ UNCHANGED <<mode, modeFailed, request, offset>>

WriteOffsetFails ==
    /\ phase = "write"
    /\ "offset" \in SensorFaults
    /\ Program \/ UNCHANGED <<steps, clamped>>
    /\ phase' = "leave"
    /\ UNCHANGED <<mode, modeFailed, request, offset, applied>>

(* The destructor of ManualMeasurementScope; nobody looks at its result. *)
Leave ==
    /\ phase = "leave"
    /\ SetMode("auto") \/ SetModeFails("auto")
    /\ phase' = "returned"
    /\ UNCHANGED <<steps, clamped, request, offset, applied>>

ApplyStep ==
    \/ EnterManual \/ EnterManualFails
    \/ ReadOffset \/ ReadOffsetFails
    \/ WriteOffset \/ WriteOffsetFails
    \/ Leave

(* The caller has the result. *)
Returned ==
    /\ phase = "returned"
    /\ phase' = "idle"
    /\ request' = NoCall
    /\ offset' = 0
    /\ applied' = FALSE
    /\ UNCHANGED deviceVars

-----------------------------------------------------------------------------

(* A device that has just been powered, or that an earlier run has left. *)
CalibratorInit ==
    /\ mode \in Modes
    /\ steps \in InitialSteps
    /\ phase = "idle"
    /\ request = NoCall
    /\ offset = 0
    /\ applied = FALSE
    /\ modeFailed = FALSE
    /\ clamped = FALSE

(* A reset of the microcontroller ends the call where it is. *)
CalibratorReset ==
    /\ phase' = "idle"
    /\ request' = NoCall
    /\ offset' = 0
    /\ applied' = FALSE
    /\ UNCHANGED deviceVars

(* Of the readings that are compared, one is a percentage that the device  *)
(* has corrected, the other a reading of the other sensor.                 *)
CalibratorTypeOK ==
    /\ mode \in Modes
    /\ steps \in Steps
    /\ phase \in Phases
    /\ request \in [reference : UInt16, target : UInt16]
    /\ offset \in Int
    /\ applied \in BOOLEAN
    /\ modeFailed \in BOOLEAN
    /\ clamped \in BOOLEAN

=============================================================================
