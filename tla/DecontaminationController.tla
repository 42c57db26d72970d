---------------------- MODULE DecontaminationController ----------------------
(***************************************************************************)
(* HDC302xDecontaminationController: the heater of the HDC302x, the        *)
(* session that drives it and the periodic RunCycle.  Start and the public *)
(* Stop run on the worker; RunCycle, and the Stop it ends in, runs on the  *)
(* app thread, because the expiry function of the timer posts it with      *)
(* Nrf::PostTask.                                                          *)
(*                                                                         *)
(* Time advances in units of one timer period (kIntervalMs, 2 s).          *)
(***************************************************************************)
EXTENDS DisplayManager

CONSTANTS
    MaxAge,           \* kMaxDurationMs in timer periods (150 in the code)
    DisplayInterval,  \* kDisplayUpdateInterval (10 in the code)
    Faults            \* which calls on a device may fail

FaultKinds ==
    {"fetch",    \* sensor_sample_fetch
     "channel",  \* sensor_channel_get
     "heater",   \* sensor_attr_set of the heater level
     "offset",   \* the calls on the offset of the HDC302x
     "set"}      \* MeasuredValue::Set of the cluster

ASSUME MaxAgeIsPositive == MaxAge \in Nat \ {0}
ASSUME DisplayIntervalIsPositive == DisplayInterval \in Nat \ {0}
ASSUME FaultsAreKnown == Faults \subseteq FaultKinds

VARIABLES
    heater,      \* the heater of the HDC302x is on
    active,      \* mActive
    age,         \* periods since mStartUptimeMs, stuck at MaxAge
    cycleCount,  \* mCycleCount modulo DisplayInterval
    deconTimer,  \* mTimer is running
    cycle        \* the locals of RunCycle: its humidity and whether
                 \* elapsedMs >= kMaxDurationMs

controllerVars == <<heater, active, age, cycleCount, deconTimer, cycle>>

(* A humidity below kHumidityExitHundredths is dry. *)
Humidities == {"none", "humid", "dry"}

NoCycle == [humidity |-> "none", expired |-> FALSE]

(***************************************************************************)
(* Start, from the check of the caller on: SetHeater, the fields of the    *)
(* session with mActive last, the timer (and the LED), the display.        *)
(* A failed SetHeater is logged and the session starts all the same.       *)
(***************************************************************************)
Start == Goto("worker", "heaterOn")

HeaterOn ==
    /\ At("worker", "heaterOn")
    /\ heater' \in {TRUE} \cup (IF "heater" \in Faults THEN {heater} ELSE {})
    /\ Goto("worker", "activate")
    /\ UNCHANGED <<resume, workQueue, taskQueue, displayVars,
                   active, age, cycleCount, deconTimer, cycle>>

Activate ==
    /\ At("worker", "activate")
    /\ active' = TRUE
    /\ age' = 0
    /\ cycleCount' = 0
    /\ Goto("worker", "armTimer")
    /\ UNCHANGED <<resume, workQueue, taskQueue, displayVars,
                   heater, deconTimer, cycle>>

ArmTimer ==
    /\ At("worker", "armTimer")
    /\ deconTimer' = TRUE
    /\ Goto("worker", "showStart")
    /\ UNCHANGED <<resume, workQueue, taskQueue, displayVars,
                   heater, active, age, cycleCount, cycle>>

ShowStart ==
    /\ At("worker", "showStart")
    /\ ShowAndRefresh("worker", SetDecontaminationStatus(cur, TRUE), "idle")
    /\ UNCHANGED <<workQueue, taskQueue, displayState, last, labels, panel,
                   controllerVars>>

(***************************************************************************)
(* Stop(reason), by either thread: nothing unless mActive; then the timer, *)
(* SetHeater, mActive (and the LED), the display.  A failed SetHeater is   *)
(* logged and the session ends all the same.                               *)
(***************************************************************************)
(* Variant: the heater is left as it is. *)
StopKeepingHeater(t) ==
    IF active
    THEN deconTimer' = FALSE /\ Goto(t, "deactivate")
    ELSE Goto(t, "idle") /\ UNCHANGED deconTimer

Stop(t) ==
    IF active
    THEN deconTimer' = FALSE /\ Goto(t, "heaterOff")
    ELSE Goto(t, "idle") /\ UNCHANGED deconTimer

HeaterOff(t) ==
    /\ At(t, "heaterOff")
    /\ heater' \in {FALSE} \cup (IF "heater" \in Faults THEN {heater} ELSE {})
    /\ Goto(t, "deactivate")
    /\ UNCHANGED <<resume, workQueue, taskQueue, displayVars,
                   active, age, cycleCount, deconTimer, cycle>>

Deactivate(t) ==
    /\ At(t, "deactivate")
    /\ active' = FALSE
    /\ Goto(t, "showStop")
    /\ UNCHANGED <<resume, workQueue, taskQueue, displayVars,
                   heater, age, cycleCount, deconTimer, cycle>>

ShowStop(t) ==
    /\ At(t, "showStop")
    /\ ShowAndRefresh(t, SetDecontaminationStatus(cur, FALSE), "idle")
    /\ UNCHANGED <<workQueue, taskQueue, displayState, last, labels, panel,
                   controllerVars>>

StopStep(t) == HeaterOff(t) \/ Deactivate(t) \/ ShowStop(t)

(***************************************************************************)
(* RunCycle on the app thread.                                             *)
(***************************************************************************)
RunCycle ==
    /\ TakeTask("cycle")
    /\ Goto("app", IF active THEN "fetch" ELSE "idle")
    /\ UNCHANGED <<resume, workQueue, displayVars, controllerVars>>

(* The fetch failed: RunCycle returns. *)
CycleFetchFails ==
    /\ At("app", "fetch")
    /\ "fetch" \in Faults
    /\ Goto("app", "idle")
    /\ UNCHANGED <<resume, workQueue, taskQueue, displayVars, controllerVars>>

(* The fetch succeeded: the readings, then the elapsed time. *)
CycleFetch ==
    /\ At("app", "fetch")
    /\ \E humidity \in {"humid", "dry"} \cup
                       (IF "channel" \in Faults THEN {"none"} ELSE {}) :
          cycle' = [humidity |-> humidity, expired |-> age >= MaxAge]
    /\ Goto("app", "cycleShow")
    /\ UNCHANGED <<resume, workQueue, taskQueue, displayVars,
                   heater, active, age, cycleCount, deconTimer>>

CycleShow ==
    /\ At("app", "cycleShow")
    /\ IF cycleCount = 0
       THEN LET measured == UpdateMeasurements(cur,
                    IF cycle.humidity = "none" THEN NoSource ELSE "hdc")
            IN  ShowAndRefresh("app", SetDecontaminationStatus(measured, TRUE), "decide")
       ELSE Goto("app", "decide") /\ UNCHANGED <<cur, resume>>
    /\ UNCHANGED <<workQueue, taskQueue, displayState, last, labels, panel,
                   controllerVars>>

(* Variant: only the humidity ends a session. *)
StopOnHumidity == cycle.humidity = "dry"

StopDue == cycle.humidity = "dry" \/ cycle.expired

CycleDecide ==
    /\ At("app", "decide")
    /\ cycleCount' = (cycleCount + 1) % DisplayInterval
    /\ IF StopDue
       THEN Stop("app")
       ELSE Goto("app", "idle") /\ UNCHANGED deconTimer
    /\ cycle' = NoCycle
    /\ UNCHANGED <<resume, workQueue, taskQueue, displayVars, heater, active, age>>

CycleStep == CycleFetchFails \/ CycleFetch \/ CycleShow \/ CycleDecide

(* Variant: a timer that expires only once. *)
TimePassesOnce ==
    /\ StrictPriority => AllWait
    /\ age' = IF age < MaxAge THEN age + 1 ELSE MaxAge
    /\ IF deconTimer THEN PostTask(Task("cycle", {})) ELSE UNCHANGED taskQueue
    /\ deconTimer' = FALSE
    /\ UNCHANGED <<pc, resume, workQueue, displayVars,
                   heater, active, cycleCount, cycle>>

(***************************************************************************)
(* Two seconds pass.  The expiry function of the timer posts RunCycle.     *)
(* Where priorities are strict this happens while both threads wait: what  *)
(* they do between two waits takes much less than a period.                *)
(***************************************************************************)
TimePasses ==
    /\ StrictPriority => AllWait
    /\ age' = IF age < MaxAge THEN age + 1 ELSE MaxAge
    /\ IF deconTimer THEN PostTask(Task("cycle", {})) ELSE UNCHANGED taskQueue
    /\ UNCHANGED <<pc, resume, workQueue, displayVars,
                   heater, active, cycleCount, deconTimer, cycle>>

-----------------------------------------------------------------------------

ControllerInit ==
    /\ heater = FALSE
    /\ active = FALSE
    /\ age = MaxAge
    /\ cycleCount = 0
    /\ deconTimer = FALSE
    /\ cycle = NoCycle

=============================================================================
