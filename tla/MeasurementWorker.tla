-------------------------- MODULE MeasurementWorker --------------------------
(***************************************************************************)
(* MeasurementWorker (src/measurement_worker.cpp) with everything it       *)
(* drives: the two threads and their queues (IoWorker), the display        *)
(* (DisplayManager), the decontamination of the HDC302x                    *)
(* (DecontaminationController), the two sensors with their moving averages *)
(* and the Matter attribute that MatterReporter writes.                    *)
(*                                                                         *)
(* A reading is the set of samples that a moving average blends.  A sample *)
(* is what matters about one humidity measurement: the sensor it came      *)
(* from, whether the heater was on, and, for the HDC302x, how often its    *)
(* offset had been reprogrammed.  The empty set is std::nullopt.           *)
(***************************************************************************)
EXTENDS DecontaminationController

CONSTANTS
    Maintenance,     \* CONFIG_APP_HDC302X_MAINTENANCE_FEATURES
    Available,       \* the sensors whose device is ready
    Buttons,         \* the requests a user makes
    MaxCalibrations  \* bound on how often the offset is programmed

ASSUME MaintenanceIsBoolean == Maintenance \in BOOLEAN
ASSUME SomeSensor == Available # {} /\ Available \subseteq {"hdc", "sht"}
ASSUME KnownButtons ==
    Buttons \subseteq {"toggle"} \cup (IF Maintenance THEN {"calibrate", "decon"} ELSE {})
ASSUME MaxCalibrationsIsNat == MaxCalibrations \in Nat

VARIABLES
    primary,       \* mPrimarySensor
    secondary,     \* mSecondarySensor, "none" for nullptr
    average,       \* humidityAverage of each sensor; {} after reset()
    calRequested,  \* mCalibrationRequested
    cachedOffset,  \* mHdc302xHumidityOffsetHundredths
    epoch,         \* how often the offset in the HDC302x was programmed
    unnoticed,     \* the last time by a call that reported a failure
    reads,         \* the locals of Tick: the two humidities read
    attribute      \* MeasuredValue of the humidity cluster; {} when null

measurementVars ==
    <<primary, secondary, average, calRequested, cachedOffset, epoch, unnoticed,
      reads, attribute>>

vars == <<threadVars, displayVars, controllerVars, measurementVars>>

Sensors == {"hdc", "sht"}

Samples == [sensor : Sensors, heated : BOOLEAN, epoch : 0..MaxCalibrations]

NoReads == [primary |-> {}, secondary |-> {}]

Present(device) == IF device \in Available THEN device ELSE "none"

-----------------------------------------------------------------------------

(***************************************************************************)
(* Sensor::Read on one of the sensors: the sample enters the average,      *)
(* whose new value is the reading.  channel is whether the humidity could  *)
(* be taken from the driver after the fetch.                               *)
(***************************************************************************)
SampleOf(sensor) ==
    [sensor |-> sensor,
     heated |-> sensor = "hdc" /\ heater,
     epoch  |-> IF sensor = "hdc" THEN epoch ELSE 0]

Channel == {TRUE} \cup (IF "channel" \in Faults THEN {FALSE} ELSE {})

Averaged(sensor) == average[sensor] \cup {SampleOf(sensor)}

Blend(sensor, channel) ==
    average' = IF channel THEN [average EXCEPT ![sensor] = Averaged(sensor)] ELSE average

ReadingOf(sensor, channel) == IF channel THEN Averaged(sensor) ELSE {}

(***************************************************************************)
(* Tick, from its first line: nothing while a decontamination is active.   *)
(***************************************************************************)
(* Variant: an active decontamination does not pause the ticks. *)
EnterTickAlways == Goto("worker", "readPrimary")

EnterTick == Goto("worker", IF Maintenance /\ active THEN "idle" ELSE "readPrimary")

RunTick ==
    /\ TakeWork("tick")
    /\ EnterTick
    /\ UNCHANGED <<resume, taskQueue, displayVars, controllerVars, measurementVars>>

(* The location of Tick behind the reads. *)
AfterReads == IF Maintenance THEN "calibrate" ELSE "publish"

(* Variant: the display is refreshed although nothing was read. *)
ReadPrimaryFailsRefreshing ==
    /\ At("worker", "readPrimary")
    /\ "fetch" \in Faults
    /\ Goto("worker", "refresh")
    /\ UNCHANGED <<resume, workQueue, taskQueue, displayVars, controllerVars, measurementVars>>

(* A primary that cannot be fetched ends the tick. *)
ReadPrimaryFails ==
    /\ At("worker", "readPrimary")
    /\ "fetch" \in Faults
    /\ Goto("worker", "idle")
    /\ UNCHANGED <<resume, workQueue, taskQueue, displayVars, controllerVars, measurementVars>>

ReadPrimary ==
    /\ At("worker", "readPrimary")
    /\ \E channel \in Channel :
          /\ Blend(primary, channel)
          /\ reads' = [reads EXCEPT !.primary = ReadingOf(primary, channel)]
    /\ Goto("worker", IF secondary # "none" THEN "readSecondary" ELSE AfterReads)
    /\ UNCHANGED <<resume, workQueue, taskQueue, displayVars, controllerVars,
                   primary, secondary, calRequested, cachedOffset, epoch, unnoticed,
                   attribute>>

(* A secondary that cannot be fetched leaves its reading absent. *)
ReadSecondaryFails ==
    /\ At("worker", "readSecondary")
    /\ "fetch" \in Faults
    /\ Goto("worker", AfterReads)
    /\ UNCHANGED <<resume, workQueue, taskQueue, displayVars, controllerVars, measurementVars>>

ReadSecondary ==
    /\ At("worker", "readSecondary")
    /\ secondary # "none"
    /\ \E channel \in Channel :
          /\ Blend(secondary, channel)
          /\ reads' = [reads EXCEPT !.secondary = ReadingOf(secondary, channel)]
    /\ Goto("worker", AfterReads)
    /\ UNCHANGED <<resume, workQueue, taskQueue, displayVars, controllerVars,
                   primary, secondary, calRequested, cachedOffset, epoch, unnoticed,
                   attribute>>

(***************************************************************************)
(* The pending calibration request, taken up with the readings at hand.    *)
(* The request is spent whatever comes of it.                              *)
(***************************************************************************)
CalibrationPossible ==
    /\ primary = "sht"
    /\ "hdc" \in Available
    /\ reads.primary # {}
    /\ reads.secondary # {}

(* Variant: the offset is shown whichever sensor is primary. *)
PushOffsetAlways(content, sensor, offset) == SetHumidityCalibrationOffset(content, offset)

(* PushHumidityCalibrationOffsetToDisplay *)
PushOffset(content, sensor, offset) ==
    SetHumidityCalibrationOffset(content, IF sensor = "hdc" THEN offset ELSE NoOffset)

(* Variant: the cache is kept. *)
OffsetKept(programmed) == {IF programmed = 0 THEN {0} ELSE cachedOffset}

(* Reading the offset back into the cache may fail. *)
OffsetRead(programmed) ==
    {{programmed}} \cup (IF "offset" \in Faults THEN {NoOffset} ELSE {})

(* No request, or one that HDC302xHumidityCalibrator::Apply turns down:    *)
(* readings missing, the new offset out of range, a command that fails.    *)
CalibrateNothing ==
    /\ At("worker", "calibrate")
    /\ calRequested' = FALSE
    /\ Goto("worker", "publish")
    /\ UNCHANGED <<resume, workQueue, taskQueue, displayVars, controllerVars,
                   primary, secondary, average, cachedOffset, epoch, unnoticed, reads,
                   attribute>>

(* Variant: the average goes on. *)
AverageKept == average

(* mHdc302xSensor.humidityAverage.reset() *)
AverageRestarted == [average EXCEPT !["hdc"] = {}]

(* Apply succeeds: the average of the HDC302x restarts, the cache follows. *)
CalibrateApplied ==
    /\ At("worker", "calibrate")
    /\ calRequested /\ CalibrationPossible
    /\ epoch < MaxCalibrations
    /\ calRequested' = FALSE
    /\ epoch' = epoch + 1
    /\ unnoticed' = FALSE
    /\ average' = AverageRestarted
    /\ IF Display
       THEN /\ cachedOffset' \in OffsetRead(epoch + 1)
            /\ cur' = PushOffset(cur, primary, cachedOffset')
       ELSE UNCHANGED <<cachedOffset, cur>>
    /\ Goto("worker", "publish")
    /\ UNCHANGED <<resume, workQueue, taskQueue, controllerVars,
                   displayState, last, labels, panel,
                   primary, secondary, reads, attribute>>

(* The offset reaches the device, but the call reports a failure. *)
CalibrateUnacknowledged ==
    /\ At("worker", "calibrate")
    /\ calRequested /\ CalibrationPossible
    /\ "offset" \in Faults
    /\ epoch < MaxCalibrations
    /\ calRequested' = FALSE
    /\ epoch' = epoch + 1
    /\ unnoticed' = TRUE
    /\ Goto("worker", "publish")
    /\ UNCHANGED <<resume, workQueue, taskQueue, displayVars, controllerVars,
                   primary, secondary, average, cachedOffset, reads, attribute>>

Calibrate == CalibrateNothing \/ CalibrateApplied \/ CalibrateUnacknowledged

(* Variant: the other reading is published. *)
PublishSecondary ==
    /\ At("worker", "publish")
    /\ PostTask(Task("publish", reads.secondary))
    /\ Goto("worker", "show")
    /\ UNCHANGED <<resume, workQueue, displayVars, controllerVars, measurementVars>>

(* mPublish: the callback of AppTask::Init posts the reading to the app.   *)
Publish ==
    /\ At("worker", "publish")
    /\ PostTask(Task("publish", reads.primary))
    /\ Goto("worker", "show")
    /\ UNCHANGED <<resume, workQueue, displayVars, controllerVars, measurementVars>>

(* The content with the readings of this tick, each under its sensor. *)
Source(reading, sensor) == IF reading = {} THEN NoSource ELSE sensor

WithPrimary(content) == UpdateMeasurements(content, Source(reads.primary, primary))

(* Variant: the last reading of the secondary stays when there is no new one. *)
WithFreshSecondary(content) ==
    IF reads.secondary = {} THEN content
    ELSE SetSecondaryHumidity(content, Source(reads.secondary, secondary))

WithSecondary(content) ==
    IF secondary = "none" THEN content
    ELSE SetSecondaryHumidity(content, Source(reads.secondary, secondary))

(* The end of Tick: the readings go to the display. *)
Show ==
    /\ At("worker", "show")
    /\ ShowAndRefresh("worker", WithSecondary(WithPrimary(cur)), "idle")
    /\ reads' = NoReads
    /\ UNCHANGED <<workQueue, taskQueue, displayState, last, labels, panel, controllerVars,
                   primary, secondary, average, calRequested, cachedOffset, epoch, unnoticed,
                   attribute>>

TickStep ==
    \/ ReadPrimaryFails \/ ReadPrimary
    \/ ReadSecondaryFails \/ ReadSecondary
    \/ Calibrate \/ Publish \/ Show

(***************************************************************************)
(* The other work items.                                                   *)
(***************************************************************************)
(* Variant: a session does not keep the sensors in place. *)
ToggleAlwaysAllowed == secondary # "none"

ToggleAllowed == ~(Maintenance /\ active) /\ secondary # "none"

(* TogglePrimary swaps the sensors and names the new primary. *)
RunTogglePrimary ==
    /\ TakeWork("toggle")
    /\ IF ToggleAllowed
       THEN /\ primary' = secondary
            /\ secondary' = primary
            /\ IF Display
               THEN cur' = SetPrimarySensorName(cur, secondary) /\ Goto("worker", "pushOffset")
               ELSE EnterTick /\ UNCHANGED cur
       ELSE UNCHANGED <<pc, primary, secondary, cur>>
    /\ UNCHANGED <<resume, taskQueue, controllerVars, displayState, last, labels, panel,
                   average, calRequested, cachedOffset, epoch, unnoticed, reads, attribute>>

(* The calibration offset follows the name, and TogglePrimary goes on into *)
(* Tick.  The other thread may draw between the two setters.               *)
TogglePushesOffset ==
    /\ At("worker", "pushOffset")
    /\ cur' = PushOffset(cur, primary, cachedOffset)
    /\ EnterTick
    /\ UNCHANGED <<resume, workQueue, taskQueue, controllerVars, measurementVars,
                   displayState, last, labels, panel>>

RunCalibrationRequest ==
    /\ Maintenance
    /\ TakeWork("calibrate")
    /\ calRequested' = TRUE
    /\ UNCHANGED <<pc, resume, taskQueue, displayVars, controllerVars,
                   primary, secondary, average, cachedOffset, epoch, unnoticed, reads,
                   attribute>>

(* ToggleDecontamination stops a session, or starts one on an HDC302x primary. *)
RunToggleDecontamination ==
    /\ Maintenance
    /\ TakeWork("decon")
    /\ \/ active /\ Stop("worker")
       \/ ~active /\ primary = "hdc" /\ Start /\ UNCHANGED deconTimer
       \/ ~active /\ primary # "hdc" /\ UNCHANGED <<pc, deconTimer>>
    /\ UNCHANGED <<resume, taskQueue, displayVars, measurementVars,
                   heater, active, age, cycleCount, cycle>>

(* MatterReporter::Publish: a value out of the attribute's range becomes null; *)
(* a Set that fails is logged.                                                 *)
RunPublish ==
    /\ TakeTask("publish")
    /\ attribute' \in {Head(taskQueue).reading, {}} \cup
                      (IF "set" \in Faults THEN {attribute} ELSE {})
    /\ UNCHANGED <<pc, resume, workQueue, displayVars, controllerVars,
                   primary, secondary, average, calRequested, cachedOffset, epoch, unnoticed,
                   reads>>

(***************************************************************************)
(* Submissions from outside the two threads.  Where priorities are strict  *)
(* they are taken while both threads wait: earlier, they would queue the   *)
(* same item at the same place.                                            *)
(***************************************************************************)
SubmitFromOutside(item) ==
    /\ StrictPriority => AllWait
    /\ Submit(item)
    /\ UNCHANGED <<pc, resume, taskQueue, displayVars, controllerVars, measurementVars>>

(* The tick timer that MeasurementWorker::Start armed expires. *)
TickTimerExpires == SubmitFromOutside("tick")

(* ButtonEventHandler calls one of the Request... functions. *)
Press == \E button \in Buttons : SubmitFromOutside(button)

-----------------------------------------------------------------------------

(***************************************************************************)
(* The state AppTask::StartApp has built when it enters its loop and the   *)
(* worker has not run yet: MeasurementWorker::Init has chosen the sensors  *)
(* and told the display, DisplayManager::Init has queued its bring-up.     *)
(***************************************************************************)
Init ==
    /\ ThreadInit(IF Display THEN <<"displayInit">> ELSE <<>>)
    /\ ControllerInit
    /\ primary = IF "hdc" \in Available THEN "hdc" ELSE "sht"
    /\ secondary = IF primary = "hdc" THEN Present("sht") ELSE "none"
    /\ average = [s \in Sensors |-> {}]
    /\ calRequested = FALSE
    /\ epoch = 0
    /\ unnoticed = FALSE
    /\ cachedOffset \in IF Display /\ "hdc" \in Available THEN OffsetRead(0) ELSE {NoOffset}
    /\ reads = NoReads
    /\ attribute = {}
    /\ DisplayInit(IF Display
                   THEN PushOffset(SetPrimarySensorName(Blank, primary), primary, cachedOffset)
                   ELSE Blank)

(***************************************************************************)
(* The steps of each thread, and what happens outside both.                *)
(***************************************************************************)
WorkItemStep ==
    \/ RunTick \/ TickStep
    \/ RunTogglePrimary \/ TogglePushesOffset
    \/ RunCalibrationRequest \/ RunToggleDecontamination

Worker ==
    \/ WorkItemStep
    \/ (HeaterOn \/ Activate \/ ArmTimer \/ ShowStart) /\ UNCHANGED measurementVars
    \/ StopStep("worker") /\ UNCHANGED measurementVars
    \/ (RunDisplayInit \/ RefreshDisplay("worker"))
           /\ UNCHANGED <<controllerVars, measurementVars>>

App ==
    \/ RunPublish
    \/ (RunCycle \/ CycleStep \/ StopStep("app")) /\ UNCHANGED measurementVars
    \/ RefreshDisplay("app") /\ UNCHANGED <<controllerVars, measurementVars>>

Clock == TimePasses /\ UNCHANGED measurementVars

Next == Worker \/ App \/ Clock \/ TickTimerExpires \/ Press

Spec == Init /\ [][Next]_vars

(***************************************************************************)
(* Fairness.  Both threads run whenever they can, again and again: the     *)
(* worker only as often as the app thread lets it, hence SF.  Timers       *)
(* expire.  A fetch that is tried again and again succeeds now and then.   *)
(***************************************************************************)
SchedulingFairness ==
    /\ WF_vars(App)
    /\ SF_vars(Worker)
    /\ SF_vars(Clock)
    /\ SF_vars(TickTimerExpires)

FetchFairness ==
    /\ SF_vars(CycleFetch /\ UNCHANGED measurementVars)
    /\ SF_vars(ReadPrimary)

FairSpec == Spec /\ SchedulingFairness /\ FetchFairness

(* Fetches may fail for ever. *)
ScheduledSpec == Spec /\ SchedulingFairness

=============================================================================
