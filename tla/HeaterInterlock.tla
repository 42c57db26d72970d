--------------------------- MODULE HeaterInterlock ---------------------------
(***************************************************************************)
(* What the decontamination of the HDC302x promises the rest of the        *)
(* system: its heater and the measurement ticks exclude each other, so     *)
(* that nothing measured while the sensor is heated reaches the Matter     *)
(* cluster (the class comment of HDC302xDecontaminationController).        *)
(*                                                                         *)
(* A measurement is abstracted to whether the heater was on when it was    *)
(* taken.                                                                  *)
(***************************************************************************)
VARIABLES
    heating,    \* the heater is on
    sampling,   \* a tick is reading the sensors
    collected,  \* the measurements blended in averages or on their way
    published   \* the measurements behind the Matter attribute

interlockVars == <<heating, sampling, collected, published>>

Init ==
    /\ heating = FALSE
    /\ sampling = FALSE
    /\ collected = {}
    /\ published = {}

SwitchOn ==
    /\ ~sampling
    /\ heating' = TRUE
    /\ UNCHANGED <<sampling, collected, published>>

SwitchOff ==
    /\ heating' = FALSE
    /\ UNCHANGED <<sampling, collected, published>>

BeginTick ==
    /\ ~heating
    /\ sampling' = TRUE
    /\ UNCHANGED <<heating, collected, published>>

(* One of the reads of a tick, which the tick may or may not end. *)
Measure ==
    /\ sampling
    /\ sampling' \in BOOLEAN
    /\ collected' \in SUBSET (collected \cup {heating})
    /\ UNCHANGED <<heating, published>>

(* An average restarts, or a reading is lost. *)
Forget ==
    /\ collected' \in SUBSET collected
    /\ UNCHANGED <<heating, sampling, published>>

Report ==
    /\ published' \in SUBSET collected
    /\ collected' \in SUBSET collected
    /\ UNCHANGED <<heating, sampling>>

Next == SwitchOn \/ SwitchOff \/ BeginTick \/ Measure \/ Forget \/ Report

Spec == Init /\ [][Next]_interlockVars

(* No measurement of a heated sensor is published. *)
NothingHeatedPublished == TRUE \notin published

=============================================================================
