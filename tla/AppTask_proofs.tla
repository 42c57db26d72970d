---------------------------- MODULE AppTask_proofs ----------------------------
(***************************************************************************)
(* Proofs about AppTask: its types, and the safety properties of the start *)
(* and of the calibration, for every set of readings, every queue capacity *)
(* and every number of resets.                                             *)
(***************************************************************************)
EXTENDS AppTask, TLAPS

-----------------------------------------------------------------------------

(***************************************************************************)
(* Facts about the numbers.                                                *)
(***************************************************************************)
LEMMA UInt16Members ==
    ASSUME NEW v \in Nat, v <= MaxUInt16
    PROVE  v \in UInt16
  BY SMT DEF UInt16

LEMMA UInt16Integers ==
    ASSUME NEW v \in UInt16
    PROVE  v \in Int
  BY SMT DEF UInt16

LEMMA PercentagesAreUInt16 == Percentages \subseteq UInt16
  <1> SUFFICES ASSUME NEW v \in Percentages
               PROVE  v \in UInt16
    OBVIOUS
  <1>1. v \in Nat /\ v <= MaxUInt16
    BY SMT DEF Percentages, MaxUInt16
  <1> QED
    BY <1>1, UInt16Members

LEMMA ZeroIsInt == 0 \in Int
  BY SMT

LEMMA NoCallTyped == NoCall \in [reference : UInt16, target : UInt16]
  <1>1. 0 \in Nat /\ 0 <= MaxUInt16
    BY SMT DEF MaxUInt16
  <1>2. 0 \in UInt16
    BY <1>1, UInt16Members
  <1> QED
    BY <1>2, Zenon DEF NoCall, Call

LEMMA CorrectedInRange ==
    ASSUME NEW raw \in Percentages, NEW s \in Steps
    PROVE  Corrected(raw, s) \in Percentages
  <1> DEFINE sum == raw + (625 * s) \div 32
  <1>1. sum \in Int
    BY SMT DEF Steps, Percentages
  <1>2. Corrected(raw, s) = IF sum < 0 THEN 0 ELSE IF sum > 10000 THEN 10000 ELSE sum
    BY DEF Corrected
  <1> HIDE DEF sum
  <1> QED
    BY <1>1, <1>2, SMT DEF Percentages

LEMMA OffsetInRange ==
    ASSUME NEW s \in Steps
    PROVE  /\ OffsetHundredths(s) \in Int
           /\ OffsetHundredths(s) - (625 * s) \div 32 \in {0, 1}
  BY SMT DEF Steps, OffsetHundredths, TruncDiv

LEMMA ProgrammedIsStep ==
    ASSUME NEW hundredths \in Int, NEW s \in Programmed(hundredths)
    PROVE  s \in Steps
  BY SMT DEF Programmed, Steps

LEMMA InRangeNotClamped ==
    ASSUME NEW hundredths \in Int, InRange(hundredths)
    PROVE  ~Clamps(hundredths)
  BY SMT DEF InRange, MaxAbsOffsetHundredths, Clamps, Magnitude

LEMMA ReportedIsValid ==
    ASSUME NEW reading, NEW min \in Int, NEW max \in Int, NEW null
    PROVE  \/ Reported(reading, min, max, null) = null
           \/ Reported(reading, min, max, null) \in {v \in reading : min <= v /\ v <= max}
  BY Zenon DEF Reported

-----------------------------------------------------------------------------

(***************************************************************************)
(* The types, by the variables that depend on each other.                  *)
(***************************************************************************)
Readings == [temperature : Celsius, primary : Humidities, secondary : Humidities]
Publications == [temperature : Celsius, humidity : Humidities]

StartTypes ==
    /\ stage \in Stages
    /\ queueStarted \in BOOLEAN /\ handlers \subseteq Items /\ timer \in BOOLEAN
    /\ queue \in Seq(Items)
    /\ displayUp \in BOOLEAN /\ crashed \in BOOLEAN
    /\ location \in WorkerLocations
    /\ available \in DeviceSets /\ primary \in {"hdc", "sht", "none"}
    /\ calRequested \in BOOLEAN
    /\ published \in BOOLEAN /\ earlyPress \in BOOLEAN
    /\ requests \in 0..MaxRequests /\ resets \in 0..MaxResets

DeviceTypes ==
    /\ CalibratorTypeOK
    /\ averaged \subseteq Steps
    /\ reads \in Readings

TaskTypes ==
    /\ tasks \in Seq(Publications)
    /\ Len(tasks) <= TaskQueueSize

LEMMA StageAfterIsStage ==
    \A s : StageAfter(s) \in Stages
  BY DEF StageAfter, OrderOfCalls, Stages

LEMMA SubmittedIsQueue ==
    ASSUME queue \in Seq(Items), NEW item \in Items
    PROVE  Submitted(item) \in Seq(Items)
  BY SMT DEF Submitted

LEMMA StartTypesInitially == Init => StartTypes
  <1> SUFFICES ASSUME Init
               PROVE  StartTypes
    OBVIOUS
  <1>1. /\ stage \in Stages /\ handlers \subseteq Items /\ queue \in Seq(Items)
        /\ location \in WorkerLocations /\ primary \in {"hdc", "sht", "none"}
    BY SMT DEF Init, Boot, Stages, WorkerLocations
  <1>2. /\ requests \in 0..MaxRequests /\ resets \in 0..MaxResets
    BY BoundsAssumption, SMT DEF Init
  <1> QED
    BY <1>1, <1>2, Zenon DEF Init, Boot, StartTypes

LEMMA StartTypesStep == StartTypes /\ [Next]_vars => StartTypes'
  <1> SUFFICES ASSUME StartTypes, [Next]_vars
               PROVE  StartTypes'
    OBVIOUS
  <1> USE DEF StartTypes
  <1>1. CASE CallServices
    BY <1>1, StageAfterIsStage, SMT
    DEF CallServices, Proceed, Stages, tickVars, workVars, ghosts
  <1>2. CASE StartQueue
    BY <1>2, StageAfterIsStage, SMT DEF StartQueue, Proceed, tickVars, workVars, ghosts
  <1>3. CASE QueueDisplay
    <2>1. queue' \in Seq(Items)
      BY <1>3, SubmittedIsQueue DEF QueueDisplay, Items
    <2> QED
      BY <2>1, <1>3, StageAfterIsStage, SMT DEF QueueDisplay, Proceed, tickVars, ghosts, Items
  <1>4. CASE LoadRanges
    BY <1>4, StageAfterIsStage, SMT
    DEF LoadRanges, Proceed, Stages, tickVars, workVars, ghosts
  <1>5. CASE ConfigureSensors
    BY <1>5, StageAfterIsStage, SMT
    DEF ConfigureSensors, Proceed, Stages, workVars, ghosts
  <1>6. CASE InitWorkItems
    <2>1. crashed' \in BOOLEAN
      BY <1>6, Zenon DEF InitWorkItems
    <2> QED
      BY <2>1, <1>6, StageAfterIsStage, SMT
      DEF InitWorkItems, Proceed, tickVars, ghosts, Items, ButtonItems
  <1>7. CASE StartTimer
    BY <1>7, StageAfterIsStage, SMT DEF StartTimer, Proceed, tickVars, workVars, ghosts
  <1>8. CASE Dispatch
    BY <1>8, SMT DEF Dispatch, mainVars, tickVars, workVars
  <1>9. CASE TimerExpires
    <2>1. queue' \in Seq(Items)
      BY <1>9, SubmittedIsQueue DEF TimerExpires, Items
    <2> QED
      BY <2>1, <1>9, SMT DEF TimerExpires, mainVars, tickVars, ghosts
  <1>10. CASE Press
    <2>1. PICK item \in ButtonItems :
              /\ queue' = Submitted(item)
              /\ earlyPress' = (earlyPress \/ (queueStarted /\ item \notin handlers))
              /\ requests' = requests + (IF item = "calibrate" THEN 1 ELSE 0)
              /\ requests' <= MaxRequests
      BY <1>10 DEF Press
    <2>2. queue' \in Seq(Items)
      BY <2>1, SubmittedIsQueue DEF Items
    <2>3. earlyPress' \in BOOLEAN
      BY <2>1, Zenon
    <2>4. requests' \in 0..MaxRequests
      BY <2>1, BoundsAssumption, SMT
    <2> QED
      BY <2>2, <2>3, <2>4, <1>10, SMT DEF Press, mainVars, tickVars
  <1>11. CASE RunUninitialized
    BY <1>11, SMT DEF RunUninitialized, Take, mainVars, tickVars, ghosts
  <1>12. CASE RunDisplayInit
    BY <1>12, SMT DEF RunDisplayInit, Take, mainVars, tickVars, ghosts
  <1>13. CASE RunTick
    BY <1>13, SMT DEF RunTick, Take, mainVars, tickVars, ghosts, WorkerLocations
  <1>14. CASE RunToggle
    BY <1>14, SMT DEF RunToggle, Take, Other, mainVars, ghosts, WorkerLocations
  <1>15. CASE RunCalibrationRequest
    BY <1>15, SMT DEF RunCalibrationRequest, Take, mainVars, ghosts
  <1>16. CASE ReadFails
    BY <1>16, SMT DEF ReadFails, mainVars, tickVars, ghosts, WorkerLocations
  <1>17. CASE Read
    BY <1>17, SMT DEF Read, mainVars, ghosts, WorkerLocations
  <1>18. CASE Calibrate
    <2>1. calRequested' = FALSE /\ location' \in WorkerLocations
      BY <1>18, Zenon DEF Calibrate, WorkerLocations
    <2> QED
      BY <2>1, <1>18, Zenon DEF Calibrate, mainVars, ghosts
  <1>19. CASE CalibratorStep
    BY <1>19, SMT DEF CalibratorStep, mainVars, tickVars, workVars, ghosts
  <1>20. CASE CalibrationDone
    BY <1>20, SMT DEF CalibrationDone, mainVars, ghosts, WorkerLocations
  <1>21. CASE PublishReadings
    BY <1>21, SMT DEF PublishReadings, mainVars, ghosts, WorkerLocations
  <1>22. CASE Reset
    <2>1. /\ stage' \in Stages /\ handlers' \subseteq Items /\ queue' \in Seq(Items)
          /\ location' \in WorkerLocations /\ primary' \in {"hdc", "sht", "none"}
      BY <1>22, SMT DEF Reset, Stages, WorkerLocations
    <2>2. /\ requests' \in 0..MaxRequests /\ resets' \in 0..MaxResets
      BY <1>22, BoundsAssumption, SMT DEF Reset
    <2> QED
      BY <2>1, <2>2, <1>22, Zenon DEF Reset
  <1>23. CASE UNCHANGED vars
    BY <1>23, SMT DEF vars, mainVars, tickVars, workVars, ghosts
  <1> QED
    BY <1>1, <1>2, <1>3, <1>4, <1>5, <1>6, <1>7, <1>8, <1>9, <1>10, <1>11, <1>12, <1>13,
       <1>14, <1>15, <1>16, <1>17, <1>18, <1>19, <1>20, <1>21, <1>22, <1>23
    DEF Next, MainStep, WorkerStep, TickStep

-----------------------------------------------------------------------------

(***************************************************************************)
(* The types of the readings and of the calibration.                       *)
(***************************************************************************)
LEMMA NextIsTyped ==
    ASSUME steps \in Steps, request \in [reference : UInt16, target : UInt16]
    PROVE  NewHundredths \in Int
  <1>1. OffsetHundredths(steps) \in Int
    BY OffsetInRange
  <1>2. request.reference \in UInt16 /\ request.target \in UInt16
    OBVIOUS
  <1>3. request.reference \in Int /\ request.target \in Int
    BY <1>2, UInt16Integers
  <1> QED
    BY <1>1, <1>3, SMT DEF NewHundredths

LEMMA HumiditiesRead ==
    ASSUME DeviceTypes, NEW sensor, NEW h \in ReadingsOf(sensor)
    PROVE  h \in Humidities
  <1>1. CASE h = {}
    BY <1>1 DEF Humidities
  <1>2. CASE h \in References
    BY <1>2, ReadingAssumption
  <1>3. CASE h \in HdcReadings /\ h # {}
    <2>1. PICK raw \in RawHumidities, s \in averaged \cup {steps} : h = {Corrected(raw, s)}
      BY <1>3, SMT DEF HdcReadings
    <2>2. raw \in Percentages /\ s \in Steps
      BY ReadingAssumption DEF DeviceTypes, CalibratorTypeOK
    <2>3. Corrected(raw, s) \in UInt16
      BY <2>2, CorrectedInRange, PercentagesAreUInt16, Zenon
    <2> QED
      BY <2>1, <2>3, Zenon DEF Humidities
  <1> QED
    BY <1>1, <1>2, <1>3, Zenon DEF ReadingsOf

LEMMA CalibratorTypesStep ==
    ASSUME CalibratorTypeOK, ApplyStep
    PROVE  CalibratorTypeOK'
  <1> USE DEF CalibratorTypeOK
  <1>1. CASE EnterManual \/ EnterManualFails
    <2>1. mode' \in Modes /\ modeFailed' \in BOOLEAN /\ phase' \in Phases
      BY <1>1, Zenon DEF EnterManual, EnterManualFails, SetMode, SetModeFails, Modes, Phases
    <2> QED
      BY <2>1, <1>1, Zenon DEF EnterManual, EnterManualFails
  <1>2. CASE ReadOffset
    BY <1>2, NextIsTyped, SMT DEF ReadOffset, Phases, deviceVars
  <1>3. CASE ReadOffsetFails
    BY <1>3, SMT DEF ReadOffsetFails, Phases, deviceVars
  <1>4. ASSUME Program
        PROVE  steps' \in Steps /\ clamped' \in BOOLEAN
    <2>1. offset \in Int
      BY SMT
    <2>2. steps' \in Steps
      BY <1>4, <2>1, ProgrammedIsStep DEF Program
    <2> QED
      BY <1>4, <2>2, Zenon DEF Program
  <1>5. CASE WriteOffset
    BY <1>5, <1>4, SMT DEF WriteOffset, Phases
  <1>6. CASE WriteOffsetFails
    BY <1>6, <1>4, SMT DEF WriteOffsetFails, Phases
  <1>7. CASE Leave
    <2>1. mode' \in Modes /\ modeFailed' \in BOOLEAN /\ phase' \in Phases
      BY <1>7, Zenon DEF Leave, SetMode, SetModeFails, Modes, Phases
    <2> QED
      BY <2>1, <1>7, Zenon DEF Leave
  <1> QED
    BY <1>1, <1>2, <1>3, <1>5, <1>6, <1>7 DEF ApplyStep

LEMMA DeviceTypesInitially == Init => DeviceTypes
  <1> SUFFICES ASSUME Init
               PROVE  DeviceTypes
    OBVIOUS
  <1>1. CalibratorTypeOK
    BY InitialStepsAssumption, NoCallTyped, ZeroIsInt, Zenon
    DEF Init, CalibratorInit, CalibratorTypeOK, Phases
  <1>2. reads \in Readings
    BY SMT DEF Init, Boot, NoReads, Readings, Celsius, Humidities
  <1> QED
    BY <1>1, <1>2, Zenon DEF DeviceTypes, Init, Boot

LEMMA DeviceTypesStep == DeviceTypes /\ [Next]_vars => DeviceTypes'
  <1> SUFFICES ASSUME DeviceTypes, [Next]_vars
               PROVE  DeviceTypes'
    OBVIOUS
  <1> USE DEF DeviceTypes
  <1>1. ASSUME UNCHANGED calibratorVars
        PROVE  CalibratorTypeOK'
    BY <1>1, SMT DEF calibratorVars, deviceVars, callVars, CalibratorTypeOK
  <1>2. CASE UNCHANGED <<calibratorVars, averaged, reads>>
    BY <1>1, <1>2
  <1>3. CASE ConfigureSensors
    <2>1. mode' \in Modes /\ modeFailed' \in BOOLEAN
      BY <1>3, Zenon DEF ConfigureSensors, CalibratorTypeOK, SetMode, SetModeFails, Modes
    <2>2. UNCHANGED <<steps, clamped, phase, request, offset, applied, averaged, reads>>
      BY <1>3 DEF ConfigureSensors, callVars
    <2> QED
      BY <2>1, <2>2, SMT DEF CalibratorTypeOK
  <1>4. CASE Read
    <2>1. reads' \in Readings
      <3>1. PICK t \in Temperatures, p \in ReadingsOf(primary), q \in ReadingsOf(Other(primary)) :
                reads' = [temperature |-> t, primary |-> p, secondary |-> q]
        BY <1>4 DEF Read
      <3>2. t \in Celsius /\ p \in Humidities /\ q \in Humidities
        BY HumiditiesRead, ReadingAssumption
      <3> QED
        BY <3>1, <3>2, Zenon DEF Readings
    <2>2. (averaged \subseteq Steps)'
      BY <1>4, Zenon DEF Read, CalibratorTypeOK
    <2> QED
      BY <2>1, <2>2, <1>1, <1>4 DEF Read
  <1>5. CASE Calibrate
    <2>1. ASSUME Apply(reads.primary, reads.secondary)
          PROVE  CalibratorTypeOK'
      <3>1. reads.primary \in Humidities /\ reads.secondary \in Humidities
        BY DEF Readings
      <3>2. \A r \in reads.primary, t \in reads.secondary :
                Call(r, t) \in [reference : UInt16, target : UInt16]
        BY <3>1, SMT DEF Call, Humidities
      <3>3. request' \in [reference : UInt16, target : UInt16] /\ phase' \in Phases
        BY <2>1, <3>2, NoCallTyped, Zenon DEF Apply, Phases
      <3>4. applied' = FALSE /\ offset' = 0
            /\ UNCHANGED <<mode, steps, modeFailed, clamped>>
        BY <2>1 DEF Apply, deviceVars
      <3> QED
        BY <3>3, <3>4, ZeroIsInt, Zenon DEF CalibratorTypeOK
    <2> QED
      BY <2>1, <1>1, <1>5 DEF Calibrate
  <1>6. CASE CalibratorStep
    BY <1>6, CalibratorTypesStep DEF CalibratorStep, tickVars
  <1>7. CASE CalibrationDone
    <2>1. CalibratorTypeOK'
      BY <1>7, NoCallTyped, ZeroIsInt, Zenon
      DEF CalibrationDone, Returned, CalibratorTypeOK, deviceVars, Phases
    <2> QED
      BY <2>1, <1>7, Zenon DEF CalibrationDone, AverageAfterApply
  <1>8. CASE PublishReadings
    <2>1. reads' \in Readings
      BY <1>8, SMT DEF PublishReadings, NoReads, Readings, Celsius, Humidities
    <2> QED
      BY <2>1, <1>1, <1>8 DEF PublishReadings
  <1>9. CASE Reset
    <2>1. reads' \in Readings
      BY <1>9, SMT DEF Reset, NoReads, Readings, Celsius, Humidities
    <2>2. CalibratorTypeOK'
      BY <1>9, NoCallTyped, ZeroIsInt, Zenon
      DEF Reset, CalibratorReset, CalibratorTypeOK, deviceVars, Phases
    <2> QED
      BY <2>1, <2>2, <1>9, Zenon DEF Reset
  <1>10. CASE CallServices \/ StartQueue \/ QueueDisplay \/ LoadRanges \/ InitWorkItems
              \/ StartTimer \/ Dispatch \/ TimerExpires \/ Press
    BY <1>10, <1>2
    DEF CallServices, StartQueue, QueueDisplay, LoadRanges, InitWorkItems, StartTimer,
        Dispatch, TimerExpires, Press, tickVars
  <1>11. CASE RunUninitialized \/ RunDisplayInit \/ RunTick \/ RunToggle
              \/ RunCalibrationRequest \/ ReadFails \/ UNCHANGED vars
    BY <1>11, <1>2
    DEF RunUninitialized, RunDisplayInit, RunTick, RunToggle, RunCalibrationRequest,
        ReadFails, tickVars, vars
  <1> QED
    BY <1>3, <1>4, <1>5, <1>6, <1>7, <1>8, <1>9, <1>10, <1>11
    DEF Next, MainStep, WorkerStep, TickStep

-----------------------------------------------------------------------------

(***************************************************************************)
(* The types of the tasks and of the attributes.                           *)
(***************************************************************************)
ReporterTypes ==
    /\ ReporterTypeOK
    /\ TaskTypes

LEMMA NullsTyped ==
    TemperatureNull \in Int16 /\ HumidityNull \in UInt16
  BY SMT DEF TemperatureNull, HumidityNull, Int16, MinInt16, MaxInt16, UInt16, MaxUInt16

LEMMA BoundsAreInts ==
    ASSUME loaded \in 0..4
    PROVE  /\ TemperatureMin \in Int /\ TemperatureMax \in Int
           /\ HumidityMin \in Int /\ HumidityMax \in Int
  BY SMT DEF TemperatureMin, TemperatureMax, HumidityMin, HumidityMax, Bound, DataModelBounds

LEMMA PublishTyped ==
    ASSUME ReporterTypeOK, NEW t \in Celsius, NEW h \in Humidities, Publish(t, h)
    PROVE  ReporterTypeOK'
  <1>1. Reported(t, TemperatureMin, TemperatureMax, TemperatureNull) \in Int16
    BY BoundsAreInts, ReportedIsValid, NullsTyped, Zenon DEF Celsius, ReporterTypeOK
  <1>2. Reported(h, HumidityMin, HumidityMax, HumidityNull) \in UInt16
    BY BoundsAreInts, ReportedIsValid, NullsTyped, Zenon DEF Humidities, ReporterTypeOK
  <1>3. temperature' \in Int16 /\ humidity' \in UInt16
    BY <1>1, <1>2, Zenon DEF Publish, SetTo, ReporterTypeOK
  <1> QED
    BY <1>3, Zenon DEF Publish, ReporterTypeOK

LEMMA ReporterTypesInitially == Init => ReporterTypes
  <1> SUFFICES ASSUME Init
               PROVE  ReporterTypes
    OBVIOUS
  <1>1. ReporterTypeOK
    <2>1. loaded \in 0..4
      BY SMT DEF Init, Boot, ReporterStart
    <2> QED
      BY <2>1, NullsTyped, Zenon DEF Init, Boot, ReporterStart, ReporterTypeOK
  <1>2. TaskTypes
    BY TaskQueueAssumption, SMT DEF Init, Boot, TaskTypes
  <1> QED
    BY <1>1, <1>2 DEF ReporterTypes

LEMMA ReporterTypesStep ==
    StartTypes /\ DeviceTypes /\ ReporterTypes /\ [Next]_vars => ReporterTypes'
  <1> SUFFICES ASSUME StartTypes, DeviceTypes, ReporterTypes, [Next]_vars
               PROVE  ReporterTypes'
    OBVIOUS
  <1>1. ReporterTypeOK /\ TaskTypes
    BY DEF ReporterTypes
  <1>2. ASSUME UNCHANGED reporterVars
        PROVE  ReporterTypeOK'
    BY <1>1, <1>2, Zenon DEF reporterVars, ReporterTypeOK
  <1>3. ASSUME UNCHANGED tasks
        PROVE  TaskTypes'
    BY <1>1, <1>3, Zenon DEF TaskTypes
  <1>4. CASE UNCHANGED <<reporterVars, tasks>>
    BY <1>2, <1>3, <1>4 DEF ReporterTypes
  <1>5. CASE LoadRanges
    <2>1. loaded' \in 0..4 /\ UNCHANGED <<temperature, humidity, tasks>>
      BY <1>5, SMT DEF LoadRanges, LoadValidityRanges, LoadValidityRangesFails
    <2>2. ReporterTypeOK'
      BY <1>1, <2>1, Zenon DEF ReporterTypeOK
    <2> QED
      BY <2>1, <2>2, <1>3 DEF ReporterTypes
  <1>6. CASE Dispatch
    <2>1. /\ Head(tasks) \in Publications
          /\ tasks' \in Seq(Publications) /\ Len(tasks') <= TaskQueueSize
      BY <1>1, <1>6, TaskQueueAssumption, SMT DEF Dispatch, TaskTypes
    <2>2. Head(tasks).temperature \in Celsius /\ Head(tasks).humidity \in Humidities
      BY <2>1, Zenon DEF Publications
    <2>3. ReporterTypeOK'
      BY <1>1, <1>6, <2>2, PublishTyped DEF Dispatch
    <2> QED
      BY <2>1, <2>3, Zenon DEF ReporterTypes, TaskTypes
  <1>7. CASE PublishReadings
    <2>1. [temperature |-> reads.temperature, humidity |-> reads.primary] \in Publications
      BY Zenon DEF DeviceTypes, Readings, Publications
    <2>2. tasks' \in Seq(Publications) /\ Len(tasks') <= TaskQueueSize
      BY <1>1, <1>7, <2>1, TaskQueueAssumption, SMT DEF PublishReadings, Posted, TaskTypes
    <2> QED
      BY <2>2, <1>2, <1>7, Zenon DEF PublishReadings, ReporterTypes, TaskTypes
  <1>8. CASE Reset
    <2>1. loaded' \in 0..4
      BY <1>8, SMT DEF Reset, ReporterReset
    <2>2. ReporterTypeOK'
      BY <2>1, <1>8, NullsTyped, Zenon DEF Reset, ReporterReset, ReporterTypeOK
    <2>3. TaskTypes'
      BY <1>8, TaskQueueAssumption, SMT DEF Reset, TaskTypes
    <2> QED
      BY <2>2, <2>3 DEF ReporterTypes
  <1>9. CASE CallServices \/ StartQueue \/ QueueDisplay \/ ConfigureSensors \/ InitWorkItems
              \/ StartTimer \/ TimerExpires \/ Press
    BY <1>9, <1>4
    DEF CallServices, StartQueue, QueueDisplay, ConfigureSensors, InitWorkItems, StartTimer,
        TimerExpires, Press
  <1>10. CASE RunUninitialized \/ RunDisplayInit \/ RunTick \/ RunToggle
              \/ RunCalibrationRequest \/ ReadFails \/ Read \/ Calibrate \/ CalibratorStep
              \/ CalibrationDone \/ UNCHANGED vars
    BY <1>10, <1>4
    DEF RunUninitialized, RunDisplayInit, RunTick, RunToggle, RunCalibrationRequest,
        ReadFails, Read, Calibrate, CalibratorStep, CalibrationDone, vars
  <1> QED
    BY <1>5, <1>6, <1>7, <1>8, <1>9, <1>10 DEF Next, MainStep, WorkerStep, TickStep

(***************************************************************************)
(* Every variable keeps its type, whatever is read, pressed and reset, and *)
(* the queue of the app thread never holds more than its capacity.         *)
(***************************************************************************)
AllTypes == StartTypes /\ DeviceTypes /\ ReporterTypes

LEMMA TypesInvariant == Spec => []AllTypes
  <1>1. Init => AllTypes
    BY StartTypesInitially, DeviceTypesInitially, ReporterTypesInitially DEF AllTypes
  <1>2. AllTypes /\ [Next]_vars => AllTypes'
    BY StartTypesStep, DeviceTypesStep, ReporterTypesStep DEF AllTypes
  <1> QED
    BY <1>1, <1>2, PTL DEF Spec

THEOREM AppTypes == Spec => []TypeOK
  <1>1. AllTypes => TypeOK
    BY Zenon
    DEF AllTypes, StartTypes, DeviceTypes, ReporterTypes, TaskTypes, Readings, Publications, TypeOK
  <1> QED
    BY <1>1, TypesInvariant, PTL

-----------------------------------------------------------------------------

(***************************************************************************)
(* The start.  HandlersSet is not inductive: it needs which items have a   *)
(* handler at which stage, that the timer runs in the loop only, and that  *)
(* an item without a handler is in the queue only if a button was pressed. *)
(***************************************************************************)
StageInv ==
    /\ timer => stage = "loop"
    /\ stage \in {"start", "loop"} => handlers = Items
    /\ stage \notin {"start", "loop"} => handlers \subseteq {"display"}
    /\ stage \in {"server", "ranges", "sensors", "workItems"} => handlers = {"display"}
    /\ stage \in {"display", "server", "ranges", "sensors", "workItems", "start", "loop"}
           => queueStarted

QueueInv == \A item \in Items : Queued(item) /\ item \notin handlers => earlyPress

LEMMA StageInvStep == StartTypes /\ StageInv /\ [Next]_vars => StageInv'
  <1> SUFFICES ASSUME StartTypes, StageInv, [Next]_vars
               PROVE  StageInv'
    OBVIOUS
  <1> USE DEF StageInv
  <1>1. CASE UNCHANGED mainVars
    BY <1>1, SMT DEF mainVars
  <1>2. CASE CallServices
    BY <1>2, SMT DEF CallServices, Proceed, StageAfter, OrderOfCalls
  <1>3. CASE StartQueue
    BY <1>3, SMT DEF StartQueue, EnterStage, Proceed, StageAfter, OrderOfCalls
  <1>4. CASE QueueDisplay
    BY <1>4, SMT DEF QueueDisplay, EnterStage, Proceed, StageAfter, OrderOfCalls
  <1>5. CASE LoadRanges
    BY <1>5, SMT DEF LoadRanges, EnterStage, Proceed, StageAfter, OrderOfCalls
  <1>6. CASE ConfigureSensors
    BY <1>6, SMT DEF ConfigureSensors, EnterStage, Proceed, StageAfter, OrderOfCalls
  <1>7. CASE InitWorkItems
    BY <1>7, SMT
    DEF InitWorkItems, EnterStage, Proceed, StageAfter, OrderOfCalls, Items, ButtonItems
  <1>8. CASE StartTimer
    BY <1>8, SMT DEF StartTimer, EnterStage, Proceed, StageAfter, OrderOfCalls
  <1>9. CASE Reset
    BY <1>9, SMT DEF Reset
  <1>10. CASE Dispatch \/ TimerExpires \/ Press \/ UNCHANGED vars
    BY <1>10, <1>1 DEF Dispatch, TimerExpires, Press, vars
  <1>11. CASE WorkerStep
    BY <1>11, <1>1
    DEF WorkerStep, TickStep, RunUninitialized, RunDisplayInit, RunTick, RunToggle,
        RunCalibrationRequest, ReadFails, Read, Calibrate, CalibratorStep, CalibrationDone,
        PublishReadings
  <1> QED
    BY <1>2, <1>3, <1>4, <1>5, <1>6, <1>7, <1>8, <1>9, <1>10, <1>11 DEF Next, MainStep

LEMMA SubmittedContents ==
    ASSUME queue \in Seq(Items), NEW item \in Items, queue' = Submitted(item)
    PROVE  \A x : Queued(x)' => Queued(x) \/ (x = item /\ queueStarted)
  <1>1. CASE queue' = queue
    BY <1>1 DEF Queued
  <1>2. CASE queueStarted /\ queue' = Append(queue, item)
    <2>1. \A i \in DOMAIN Append(queue, item) :
              Append(queue, item)[i] = item \/
              (i \in DOMAIN queue /\ Append(queue, item)[i] = queue[i])
      BY SMT
    <2> QED
      BY <1>2, <2>1, Zenon DEF Queued
  <1> QED
    BY <1>1, <1>2 DEF Submitted

LEMMA TakeContents ==
    ASSUME queue \in Seq(Items), NEW item \in Items, Take(item)
    PROVE  Queued(item) /\ \A x : Queued(x)' => Queued(x)
  <1>1. queue # <<>> /\ Head(queue) = item /\ queue' = Tail(queue)
    BY DEF Take
  <1>2. 1 \in DOMAIN queue /\ queue[1] = item
    BY <1>1, SMT
  <1>3. \A i \in DOMAIN Tail(queue) : i + 1 \in DOMAIN queue /\ Tail(queue)[i] = queue[i + 1]
    BY <1>1, SMT
  <1> QED
    BY <1>1, <1>2, <1>3, Zenon DEF Queued

LEMMA QueueInvStep == StartTypes /\ StageInv /\ QueueInv /\ [Next]_vars => QueueInv'
  <1> SUFFICES ASSUME StartTypes, StageInv, QueueInv, [Next]_vars
               PROVE  QueueInv'
    OBVIOUS
  <1>0. queue \in Seq(Items)
    BY DEF StartTypes
  <1>1. ASSUME \A x : Queued(x)' => Queued(x),
               handlers \subseteq handlers', earlyPress => earlyPress'
        PROVE  QueueInv'
    BY <1>1, Zenon DEF QueueInv
  <1>2. ASSUME UNCHANGED queue
        PROVE  \A x : Queued(x)' => Queued(x)
    BY <1>2 DEF Queued
  <1>3. CASE UNCHANGED <<queue, handlers, earlyPress>>
    BY <1>1, <1>2, <1>3, SMT
  <1>4. CASE QueueDisplay
    <2>1. "display" \in Items
      BY DEF Items
    <2>2. \A x : Queued(x)' => Queued(x) \/ (x = "display" /\ queueStarted)
      BY <1>0, <1>4, <2>1, SubmittedContents DEF QueueDisplay
    <2>3. "display" \in handlers' /\ handlers \subseteq handlers' /\ earlyPress' = earlyPress
      BY <1>4, SMT DEF QueueDisplay, ghosts
    <2> QED
      BY <2>2, <2>3, Zenon DEF QueueInv
  <1>5. CASE InitWorkItems
    <2>1. UNCHANGED <<queue, earlyPress>> /\ handlers \subseteq handlers'
      BY <1>5, SMT DEF InitWorkItems, ghosts
    <2> QED
      BY <1>1, <1>2, <2>1, Zenon
  <1>6. CASE TimerExpires
    <2>1. "tick" \in Items /\ "tick" \in handlers
      BY <1>6 DEF TimerExpires, StageInv, Items
    <2>2. \A x : Queued(x)' => Queued(x) \/ (x = "tick" /\ queueStarted)
      BY <1>0, <1>6, <2>1, SubmittedContents DEF TimerExpires
    <2>3. UNCHANGED <<handlers, earlyPress>>
      BY <1>6 DEF TimerExpires, mainVars, ghosts
    <2> QED
      BY <2>1, <2>2, <2>3, Zenon DEF QueueInv
  <1>7. CASE Press
    <2>1. PICK item \in ButtonItems :
              /\ queue' = Submitted(item)
              /\ earlyPress' = (earlyPress \/ (queueStarted /\ item \notin handlers))
      BY <1>7 DEF Press
    <2>2. item \in Items
      BY DEF Items
    <2>3. \A x : Queued(x)' => Queued(x) \/ (x = item /\ queueStarted)
      BY <1>0, <2>1, <2>2, SubmittedContents
    <2>4. handlers' = handlers
      BY <1>7 DEF Press, mainVars
    <2> QED
      BY <2>1, <2>3, <2>4, Zenon DEF QueueInv
  <1>8. ASSUME NEW item \in Items, Take(item), UNCHANGED <<mainVars, ghosts>>
        PROVE  QueueInv'
    <2>1. \A x : Queued(x)' => Queued(x)
      BY <1>0, <1>8, TakeContents
    <2>2. UNCHANGED <<handlers, earlyPress>>
      BY <1>8 DEF mainVars, ghosts
    <2> QED
      BY <2>1, <2>2, <1>1, Zenon
  <1>9. CASE RunUninitialized \/ RunDisplayInit \/ RunTick \/ RunToggle \/ RunCalibrationRequest
    BY <1>8, <1>9
    DEF RunUninitialized, RunDisplayInit, RunTick, RunToggle, RunCalibrationRequest, Items,
        ButtonItems
  <1>10. CASE Reset
    <2>1. queue' = <<>>
      BY <1>10 DEF Reset
    <2>2. DOMAIN queue' = {}
      BY <2>1, SMT
    <2>3. \A x : ~Queued(x)'
      BY <2>2, Zenon DEF Queued
    <2> QED
      BY <2>3, Zenon DEF QueueInv
  <1>11. CASE CallServices \/ StartQueue \/ LoadRanges \/ ConfigureSensors \/ StartTimer
              \/ Dispatch \/ UNCHANGED vars
    BY <1>11, <1>3
    DEF CallServices, StartQueue, LoadRanges, ConfigureSensors, StartTimer, Dispatch,
        mainVars, workVars, ghosts, vars
  <1>12. CASE TickStep
    BY <1>12, <1>3
    DEF TickStep, ReadFails, Read, Calibrate, CalibratorStep, CalibrationDone,
        PublishReadings, mainVars, workVars, ghosts
  <1> QED
    BY <1>4, <1>5, <1>6, <1>7, <1>9, <1>10, <1>11, <1>12 DEF Next, MainStep, WorkerStep

LEMMA HandlersStep ==
    StartTypes /\ StageInv /\ QueueInv /\ HandlersSet /\ [Next]_vars => HandlersSet'
  <1> SUFFICES ASSUME StartTypes, StageInv, QueueInv, HandlersSet, [Next]_vars
               PROVE  HandlersSet'
    OBVIOUS
  <1>1. CASE UNCHANGED <<crashed, earlyPress>>
    BY <1>1 DEF HandlersSet
  <1>2. CASE InitWorkItems
    <2>1. \A item \in ButtonItems : item \in Items /\ item \notin handlers
      BY <1>2, SMT DEF InitWorkItems, EnterStage, StageInv, ButtonItems, Items
    <2>2. crashed' => \E item \in ButtonItems : Queued(item)
      BY <1>2, Zenon DEF InitWorkItems
    <2>3. crashed' => earlyPress
      BY <2>1, <2>2, Zenon DEF QueueInv
    <2> QED
      BY <1>2, <2>3 DEF InitWorkItems, ghosts, HandlersSet
  <1>3. CASE RunUninitialized
    <2>1. PICK item \in Items : Take(item) /\ item \notin handlers
      BY <1>3 DEF RunUninitialized
    <2>2. Queued(item)
      BY <2>1, TakeContents DEF StartTypes
    <2> QED
      BY <1>3, <2>1, <2>2 DEF RunUninitialized, QueueInv, ghosts, HandlersSet
  <1>4. CASE Press
    <2>1. crashed' = crashed /\ (earlyPress => earlyPress')
      BY <1>4, Zenon DEF Press
    <2> QED
      BY <2>1, Zenon DEF HandlersSet
  <1>5. CASE Reset
    BY <1>5 DEF Reset, HandlersSet
  <1>6. CASE CallServices \/ StartQueue \/ QueueDisplay \/ LoadRanges \/ ConfigureSensors
              \/ StartTimer \/ Dispatch \/ TimerExpires \/ UNCHANGED vars
    BY <1>6, <1>1
    DEF CallServices, StartQueue, QueueDisplay, LoadRanges, ConfigureSensors, StartTimer,
        Dispatch, TimerExpires, workVars, ghosts, vars
  <1>7. CASE RunDisplayInit \/ RunTick \/ RunToggle \/ RunCalibrationRequest \/ TickStep
    BY <1>7, <1>1
    DEF RunDisplayInit, RunTick, RunToggle, RunCalibrationRequest, TickStep, ReadFails, Read,
        Calibrate, CalibratorStep, CalibrationDone, PublishReadings, workVars, ghosts
  <1> QED
    BY <1>2, <1>3, <1>4, <1>5, <1>6, <1>7 DEF Next, MainStep, WorkerStep

StartInv == StageInv /\ QueueInv /\ HandlersSet

LEMMA StartInvariant == Spec => [](AllTypes /\ StartInv)
  <1>1. Init => StartInv
    <2> SUFFICES ASSUME Init
                 PROVE  StartInv
      OBVIOUS
    <2>1. queue = <<>> /\ crashed = FALSE
      BY DEF Init, Boot
    <2>2. QueueInv
      BY <2>1, SMT DEF QueueInv, Queued
    <2>3. StageInv
      BY SMT DEF Init, Boot, StageInv
    <2> QED
      BY <2>1, <2>2, <2>3 DEF StartInv, HandlersSet
  <1>2. AllTypes /\ StartInv /\ [Next]_vars => StartInv'
    BY StageInvStep, QueueInvStep, HandlersStep DEF AllTypes, StartInv
  <1> QED
    BY <1>1, <1>2, TypesInvariant, PTL DEF Spec

(***************************************************************************)
(* No work item runs before it has a handler and none is initialised in    *)
(* the queue, unless a button was pressed too early: HandlersSet.          *)
(***************************************************************************)
THEOREM ItemsHaveHandlers == Spec => []HandlersSet
  BY StartInvariant, PTL DEF StartInv

-----------------------------------------------------------------------------

(***************************************************************************)
(* The bring-up of the display is at the head of the queue until it has    *)
(* run: nothing gets in front of it, as the queue is empty when it is      *)
(* submitted unless a button was pressed.                                  *)
(***************************************************************************)
DisplayInv ==
    \/ earlyPress
    \/ displayUp
    \/ queue # <<>> /\ Head(queue) = "display"
    \/ queue = <<>> /\ handlers = {}

LEMMA SubmittedHead ==
    ASSUME queue \in Seq(Items), NEW item \in Items, queue' = Submitted(item)
    PROVE  /\ queue # <<>> => queue' # <<>> /\ Head(queue') = Head(queue)
           /\ queue = <<>> /\ queueStarted => queue' # <<>> /\ Head(queue') = item
           /\ ~queueStarted => queue' = queue
  <1>1. queue = <<>> => ~Queued(item)
    BY SMT DEF Queued
  <1>2. CASE queue' = queue /\ (~queueStarted \/ queue # <<>>)
    BY <1>2
  <1>3. CASE queueStarted /\ queue' = Append(queue, item)
    BY <1>3, SMT
  <1> QED
    BY <1>1, <1>2, <1>3 DEF Submitted

LEMMA DisplayInvStep ==
    StartTypes /\ StartInv /\ DisplayInv /\ [Next]_vars => DisplayInv'
  <1> SUFFICES ASSUME StartTypes, StartInv, DisplayInv, [Next]_vars
               PROVE  DisplayInv'
    OBVIOUS
  <1>0. queue \in Seq(Items)
    BY DEF StartTypes
  <1>1. CASE UNCHANGED <<queue, handlers, displayUp, earlyPress>>
    BY <1>1 DEF DisplayInv
  <1>2. CASE QueueDisplay
    <2>1. queueStarted /\ "display" \in Items
      BY <1>2 DEF QueueDisplay, EnterStage, StartInv, StageInv, Items
    <2>2. /\ queue # <<>> => queue' # <<>> /\ Head(queue') = Head(queue)
          /\ queue = <<>> => queue' # <<>> /\ Head(queue') = "display"
      BY <1>0, <1>2, <2>1, SubmittedHead DEF QueueDisplay
    <2> QED
      BY <1>2, <2>2 DEF QueueDisplay, ghosts, DisplayInv
  <1>3. CASE InitWorkItems
    <2>1. handlers # {} /\ UNCHANGED <<queue, displayUp, earlyPress>>
      BY <1>3, SMT DEF InitWorkItems, EnterStage, StartInv, StageInv, ghosts
    <2> QED
      BY <2>1 DEF DisplayInv
  <1>4. CASE TimerExpires
    <2>1. handlers # {} /\ "tick" \in Items
      BY <1>4, SMT DEF TimerExpires, StartInv, StageInv, Items
    <2>2. queue # <<>> => queue' # <<>> /\ Head(queue') = Head(queue)
      BY <1>0, <1>4, <2>1, SubmittedHead DEF TimerExpires
    <2> QED
      BY <1>4, <2>1, <2>2 DEF TimerExpires, ghosts, DisplayInv
  <1>5. CASE Press
    <2>1. PICK item \in ButtonItems :
              /\ queue' = Submitted(item)
              /\ earlyPress' = (earlyPress \/ (queueStarted /\ item \notin handlers))
      BY <1>5 DEF Press
    <2>2. item \in Items
      BY DEF Items
    <2>3. /\ queue # <<>> => queue' # <<>> /\ Head(queue') = Head(queue)
          /\ ~queueStarted => queue' = queue
      BY <1>0, <2>1, <2>2, SubmittedHead
    <2>4. handlers' = handlers /\ displayUp' = displayUp
      BY <1>5 DEF Press, mainVars
    <2>5. (earlyPress => earlyPress') /\ (queueStarted /\ handlers = {} => earlyPress')
      BY <2>1, Zenon
    <2> QED
      BY <2>3, <2>4, <2>5, Zenon DEF DisplayInv
  <1>6. CASE RunUninitialized
    <2>1. earlyPress
      <3>1. PICK item \in Items : Take(item) /\ item \notin handlers
        BY <1>6 DEF RunUninitialized
      <3> QED
        BY <1>0, <3>1, TakeContents DEF StartInv, QueueInv
    <2> QED
      BY <1>6, <2>1 DEF RunUninitialized, ghosts, DisplayInv
  <1>7. CASE RunDisplayInit
    BY <1>7 DEF RunDisplayInit, DisplayInv
  <1>8. ASSUME NEW item \in Items, item # "display", Take(item),
               UNCHANGED <<displayUp, earlyPress>>
        PROVE  DisplayInv'
    <2>1. earlyPress \/ displayUp
      BY <1>8 DEF Take, DisplayInv
    <2> QED
      BY <1>8, <2>1 DEF DisplayInv
  <1>9. CASE RunTick \/ RunToggle \/ RunCalibrationRequest
    BY <1>8, <1>9 DEF RunTick, RunToggle, RunCalibrationRequest, Items, ButtonItems, ghosts
  <1>10. CASE Reset
    BY <1>10 DEF Reset, DisplayInv
  <1>11. CASE CallServices \/ StartQueue \/ LoadRanges \/ ConfigureSensors \/ StartTimer
              \/ Dispatch \/ UNCHANGED vars
    BY <1>11, <1>1
    DEF CallServices, StartQueue, LoadRanges, ConfigureSensors, StartTimer, Dispatch,
        mainVars, workVars, ghosts, vars
  <1>12. CASE TickStep
    BY <1>12, <1>1
    DEF TickStep, ReadFails, Read, Calibrate, CalibratorStep, CalibrationDone,
        PublishReadings, mainVars, workVars, ghosts
  <1> QED
    BY <1>2, <1>3, <1>4, <1>5, <1>6, <1>7, <1>9, <1>10, <1>11, <1>12
    DEF Next, MainStep, WorkerStep

LEMMA TickBehindDisplay ==
    StartTypes /\ DisplayInv /\ [Next]_vars
        => (location = "idle" /\ location' = "read" => displayUp \/ earlyPress)
  <1> SUFFICES ASSUME StartTypes, DisplayInv, [Next]_vars,
                      location = "idle", location' = "read"
               PROVE  displayUp \/ earlyPress
    OBVIOUS
  <1>1. CASE RunTick \/ RunToggle
    BY <1>1 DEF RunTick, RunToggle, Take, DisplayInv
  <1>2. CASE MainStep \/ TimerExpires \/ Press \/ Reset \/ UNCHANGED vars
    BY <1>2
    DEF MainStep, CallServices, StartQueue, QueueDisplay, LoadRanges, ConfigureSensors,
        InitWorkItems, StartTimer, Dispatch, TimerExpires, Press, Reset, workVars, vars
  <1>3. CASE RunUninitialized \/ RunDisplayInit \/ RunCalibrationRequest
    BY <1>3 DEF RunUninitialized, RunDisplayInit, RunCalibrationRequest
  <1>4. CASE TickStep
    BY <1>4
    DEF TickStep, ReadFails, Read, Calibrate, CalibratorStep, CalibrationDone, PublishReadings
  <1> QED
    BY <1>1, <1>2, <1>3, <1>4 DEF Next, WorkerStep

(***************************************************************************)
(* The bring-up of the display comes before the first tick: DisplayFirst.  *)
(***************************************************************************)
THEOREM DisplayComesFirst == Spec => DisplayFirst
  <1>1. Init => DisplayInv
    BY DEF Init, Boot, DisplayInv
  <1>2. AllTypes /\ StartInv /\ DisplayInv /\ [Next]_vars => DisplayInv'
    BY DisplayInvStep DEF AllTypes
  <1>3. AllTypes /\ DisplayInv /\ [Next]_vars
            => [location = "idle" /\ location' = "read" => displayUp \/ earlyPress]_vars
    BY TickBehindDisplay DEF AllTypes
  <1> QED
    BY <1>1, <1>2, <1>3, StartInvariant, PTL DEF Spec, DisplayFirst

-----------------------------------------------------------------------------

(***************************************************************************)
(* The calibration.  What is about to be programmed is the offset in the   *)
(* device plus the difference of the two readings, within the range.       *)
(***************************************************************************)
OffsetInv ==
    /\ phase = "write" => offset = NewHundredths /\ InRange(offset)
    /\ phase \in {"enter", "read", "write"} => applied = FALSE
    /\ clamped = FALSE

LEMMA ProgramDoesNotClamp ==
    ASSUME DeviceTypes, OffsetInv, phase = "write", Program
    PROVE  clamped' = FALSE
  <1>1. offset \in Int /\ InRange(offset) /\ clamped = FALSE
    BY DEF DeviceTypes, CalibratorTypeOK, OffsetInv
  <1> QED
    BY <1>1, InRangeNotClamped, Zenon DEF Program

LEMMA OffsetInvApplyStep ==
    ASSUME DeviceTypes, OffsetInv, ApplyStep
    PROVE  OffsetInv'
  <1>1. CASE EnterManual \/ EnterManualFails
    BY <1>1 DEF EnterManual, EnterManualFails, OffsetInv
  <1>2. CASE ReadOffset
    <2>1. NewHundredths' = NewHundredths
      BY <1>2 DEF ReadOffset, NewHundredths, deviceVars
    <2> QED
      BY <1>2, <2>1 DEF ReadOffset, OffsetInv, deviceVars
  <1>3. CASE ReadOffsetFails
    BY <1>3 DEF ReadOffsetFails, OffsetInv, deviceVars
  <1>4. CASE WriteOffset
    BY <1>4, ProgramDoesNotClamp DEF WriteOffset, OffsetInv
  <1>5. CASE WriteOffsetFails
    BY <1>5, ProgramDoesNotClamp DEF WriteOffsetFails, OffsetInv
  <1>6. CASE Leave
    BY <1>6 DEF Leave, OffsetInv
  <1> QED
    BY <1>1, <1>2, <1>3, <1>4, <1>5, <1>6 DEF ApplyStep

LEMMA OffsetInvStep == DeviceTypes /\ OffsetInv /\ [Next]_vars => OffsetInv'
  <1> SUFFICES ASSUME DeviceTypes, OffsetInv, [Next]_vars
               PROVE  OffsetInv'
    OBVIOUS
  <1>1. CASE UNCHANGED <<steps, phase, request, offset, applied, clamped>>
    <2>1. NewHundredths' = NewHundredths
      BY <1>1 DEF NewHundredths
    <2> QED
      BY <1>1, <2>1 DEF OffsetInv
  <1>2. CASE Calibrate
    BY <1>1, <1>2 DEF Calibrate, Apply, OffsetInv, calibratorVars, deviceVars, callVars
  <1>3. CASE CalibratorStep
    BY <1>3, OffsetInvApplyStep DEF CalibratorStep
  <1>4. CASE CalibrationDone
    BY <1>4 DEF CalibrationDone, Returned, OffsetInv, deviceVars
  <1>5. CASE Reset
    BY <1>5 DEF Reset, CalibratorReset, OffsetInv, deviceVars
  <1>6. CASE ConfigureSensors
    BY <1>1, <1>6 DEF ConfigureSensors, callVars
  <1>7. CASE CallServices \/ StartQueue \/ QueueDisplay \/ LoadRanges \/ InitWorkItems
              \/ StartTimer \/ Dispatch \/ TimerExpires \/ Press \/ UNCHANGED vars
    BY <1>1, <1>7
    DEF CallServices, StartQueue, QueueDisplay, LoadRanges, InitWorkItems, StartTimer,
        Dispatch, TimerExpires, Press, vars, calibratorVars, deviceVars, callVars
  <1>8. CASE RunUninitialized \/ RunDisplayInit \/ RunTick \/ RunToggle
              \/ RunCalibrationRequest \/ ReadFails \/ Read \/ PublishReadings
    BY <1>1, <1>8
    DEF RunUninitialized, RunDisplayInit, RunTick, RunToggle, RunCalibrationRequest,
        ReadFails, Read, PublishReadings, calibratorVars, deviceVars, callVars
  <1> QED
    BY <1>2, <1>3, <1>4, <1>5, <1>6, <1>7, <1>8 DEF Next, MainStep, WorkerStep, TickStep

LEMMA OffsetInvariant == Spec => [](DeviceTypes /\ OffsetInv)
  <1>1. Init => OffsetInv
    BY DEF Init, CalibratorInit, OffsetInv
  <1>2. AllTypes /\ OffsetInv /\ [Next]_vars => OffsetInv'
    BY OffsetInvStep DEF AllTypes
  <1>3. AllTypes => DeviceTypes
    BY DEF AllTypes
  <1> QED
    BY <1>1, <1>2, <1>3, TypesInvariant, PTL DEF Spec

(***************************************************************************)
(* The driver never meets an offset that the device cannot hold:           *)
(* NeverClamped.                                                           *)
(***************************************************************************)
THEOREM OffsetsNeverClamped == Spec => []NeverClamped
  <1>1. OffsetInv => NeverClamped
    BY DEF OffsetInv, NeverClamped
  <1> QED
    BY <1>1, OffsetInvariant, PTL

LEMMA StepsNextTo ==
    ASSUME NEW h \in Int, NEW s \in Programmed(h), InRange(h)
    PROVE  s \in Int /\ Magnitude(625 * s - 32 * h) < 625
  <1>1. ~Clamps(h)
    BY InRangeNotClamped
  <1>2. s \in Steps
    BY ProgrammedIsStep
  <1>3. Magnitude(625 * s - 32 * h) < 625
    BY <1>1, Zenon DEF Programmed
  <1> QED
    BY <1>2, <1>3, SMT DEF Steps

LEMMA WriteAligns == DeviceTypes /\ OffsetInv /\ [Next]_vars => EndsWithinOneStep
  <1> DEFINE floor == (625 * steps) \div 32
             r == request.reference
             t == request.target
  <1> SUFFICES ASSUME DeviceTypes, OffsetInv, [Next]_vars, phase = "write", applied'
               PROVE  Magnitude(625 * steps' + 32 * ((t - floor) - r)) < 625 + 32
    BY DEF EndsWithinOneStep
  <1>1. applied = FALSE /\ offset = NewHundredths /\ InRange(offset)
    BY DEF OffsetInv
  <1>2. WriteOffset
    <2>1. applied' # applied
      BY <1>1
    <2>2. ~UNCHANGED callVars /\ ~UNCHANGED calibratorVars /\ ~UNCHANGED vars
      BY <2>1 DEF callVars, calibratorVars, vars
    <2>3. ~Calibrate /\ ~CalibrationDone /\ ~Reset /\ ~ConfigureSensors
      BY <2>1, <2>2 DEF Calibrate, Apply, CalibrationDone, Returned, Reset, CalibratorReset,
                        ConfigureSensors
    <2>4. CalibratorStep
      BY <2>2, <2>3
      DEF Next, MainStep, WorkerStep, TickStep, CallServices, StartQueue, QueueDisplay, LoadRanges,
          InitWorkItems, StartTimer, Dispatch, TimerExpires, Press, RunUninitialized,
          RunDisplayInit, RunTick, RunToggle, RunCalibrationRequest, ReadFails, Read,
          PublishReadings
    <2> QED
      BY <2>1, <2>4
      DEF CalibratorStep, ApplyStep, EnterManual, EnterManualFails, ReadOffset, ReadOffsetFails,
          WriteOffsetFails, Leave
  <1>3. offset \in Int /\ steps \in Steps /\ r \in UInt16 /\ t \in UInt16
    BY DEF DeviceTypes, CalibratorTypeOK
  <1>4. r \in Int /\ t \in Int
    BY <1>3, UInt16Integers
  <1>5. steps' \in Int /\ Magnitude(625 * steps' - 32 * offset) < 625
    BY <1>1, <1>2, <1>3, StepsNextTo DEF WriteOffset, Program
  <1>6. PICK e \in {0, 1} : OffsetHundredths(steps) - floor = e
    BY <1>3, OffsetInRange
  <1>7. OffsetHundredths(steps) \in Int
    BY <1>3, OffsetInRange
  <1>8. floor \in Int
    BY <1>3, SMT DEF Steps
  <1> HIDE DEF floor, r, t
  <1>9. offset = OffsetHundredths(steps) + r - t
    BY <1>1 DEF NewHundredths, r, t
  <1>10. 625 * steps' + 32 * ((t - floor) - r) = (625 * steps' - 32 * offset) + 32 * e
    BY <1>3, <1>4, <1>5, <1>6, <1>7, <1>8, <1>9, SMT
  <1> DEFINE a == 625 * steps' - 32 * offset
  <1>11. a \in Int
    BY <1>3, <1>5, SMT
  <1> HIDE DEF a
  <1>12. Magnitude(a) < 625
    BY <1>5 DEF a
  <1>13. Magnitude(a + 32 * e) < 625 + 32
    BY <1>6, <1>11, <1>12, SMT DEF Magnitude
  <1> QED
    BY <1>10, <1>13 DEF a

(***************************************************************************)
(* Every calibration that reports success brings the HDC302x within a step *)
(* and a hundredth of the reference: CalibrationAligns.                    *)
(***************************************************************************)
THEOREM CalibrationsAlign == Spec => CalibrationAligns
  <1>1. DeviceTypes /\ OffsetInv /\ [Next]_vars => [EndsWithinOneStep]_vars
    BY WriteAligns
  <1> QED
    BY <1>1, OffsetInvariant, PTL DEF Spec, CalibrationAligns

-----------------------------------------------------------------------------

(***************************************************************************)
(* The mode of the HDC302x, an invariant that is inductive as it stands.   *)
(***************************************************************************)
LEMMA ModeApplyStep ==
    ASSUME ApplyStep, phase' \in {"idle", "returned"}
    PROVE  mode' = "auto" \/ modeFailed'
  BY DEF ApplyStep, EnterManual, EnterManualFails, ReadOffset, ReadOffsetFails, WriteOffset,
         WriteOffsetFails, Leave, SetMode, SetModeFails

LEMMA ModeStep == AutomaticOutsideApply /\ [Next]_vars => AutomaticOutsideApply'
  <1> SUFFICES ASSUME AutomaticOutsideApply, [Next]_vars
               PROVE  AutomaticOutsideApply'
    OBVIOUS
  <1> USE DEF AutomaticOutsideApply
  <1>1. CASE UNCHANGED <<stage, available, phase, mode, modeFailed>>
    BY <1>1
  <1>2. CASE CallServices
    BY <1>2, SMT DEF CallServices, Proceed, StageAfter, OrderOfCalls
  <1>3. CASE StartQueue \/ QueueDisplay
    BY <1>3, SMT DEF StartQueue, QueueDisplay, EnterStage, Proceed, StageAfter, OrderOfCalls
  <1>4. CASE LoadRanges
    BY <1>4, SMT DEF LoadRanges, EnterStage, Proceed, StageAfter, OrderOfCalls
  <1>5. CASE ConfigureSensors
    BY <1>5, SMT
    DEF ConfigureSensors, EnterStage, Proceed, StageAfter, OrderOfCalls, SetMode
  <1>6. CASE InitWorkItems \/ StartTimer
    <2>1. /\ stage \in {"workItems", "start"}
          /\ UNCHANGED <<available, phase, mode, modeFailed>>
      BY <1>6
      DEF InitWorkItems, StartTimer, EnterStage, tickVars, calibratorVars, deviceVars, callVars
    <2> QED
      BY <2>1
  <1>7. CASE Calibrate
    BY <1>1, <1>7 DEF Calibrate, Apply, mainVars, calibratorVars, deviceVars, callVars
  <1>8. CASE CalibratorStep
    BY <1>8, ModeApplyStep DEF CalibratorStep
  <1>9. CASE CalibrationDone
    BY <1>9 DEF CalibrationDone, Returned, mainVars, deviceVars
  <1>10. CASE Reset
    BY <1>10 DEF Reset
  <1>11. CASE Dispatch \/ TimerExpires \/ Press \/ UNCHANGED vars
    BY <1>1, <1>11
    DEF Dispatch, TimerExpires, Press, vars, mainVars, tickVars, calibratorVars, deviceVars,
        callVars
  <1>12. CASE RunUninitialized \/ RunDisplayInit \/ RunTick \/ RunToggle
              \/ RunCalibrationRequest \/ ReadFails \/ Read \/ PublishReadings
    BY <1>1, <1>12
    DEF RunUninitialized, RunDisplayInit, RunTick, RunToggle, RunCalibrationRequest,
        ReadFails, Read, PublishReadings, mainVars, tickVars, calibratorVars, deviceVars,
        callVars
  <1> QED
    BY <1>2, <1>3, <1>4, <1>5, <1>6, <1>7, <1>8, <1>9, <1>10, <1>11, <1>12
    DEF Next, MainStep, WorkerStep, TickStep

(***************************************************************************)
(* Whichever way a calibration or a run of the firmware ends, the HDC302x  *)
(* measures on, unless a command for its mode failed:                      *)
(* AutomaticOutsideApply.                                                  *)
(***************************************************************************)
THEOREM SensorMeasuresOn == Spec => []AutomaticOutsideApply
  <1>1. Init => AutomaticOutsideApply
    BY DEF Init, Boot, AutomaticOutsideApply
  <1> QED
    BY <1>1, ModeStep, PTL DEF Spec

-----------------------------------------------------------------------------

(***************************************************************************)
(* The attributes: publications are only made with all bounds loaded.      *)
(***************************************************************************)
LoadedInv == stage \in {"sensors", "workItems", "start", "loop"} => loaded = 4

LEMMA LoadedStep == LoadedInv /\ [Next]_vars => LoadedInv'
  <1> SUFFICES ASSUME LoadedInv, [Next]_vars
               PROVE  LoadedInv'
    OBVIOUS
  <1> USE DEF LoadedInv
  <1>1. CASE UNCHANGED <<stage, loaded>>
    BY <1>1
  <1>2. CASE CallServices
    BY <1>2, SMT DEF CallServices, Proceed, StageAfter, OrderOfCalls
  <1>3. CASE StartQueue \/ QueueDisplay
    BY <1>3, SMT DEF StartQueue, QueueDisplay, EnterStage, Proceed, StageAfter, OrderOfCalls
  <1>4. CASE LoadRanges
    BY <1>4, SMT DEF LoadRanges, LoadValidityRanges
  <1>5. CASE ConfigureSensors \/ InitWorkItems \/ StartTimer
    BY <1>5 DEF ConfigureSensors, InitWorkItems, StartTimer, EnterStage, reporterVars
  <1>6. CASE Reset
    BY <1>6 DEF Reset
  <1>7. CASE Dispatch \/ TimerExpires \/ Press \/ UNCHANGED vars
    BY <1>1, <1>7
    DEF Dispatch, Publish, TimerExpires, Press, vars, mainVars, reporterVars
  <1>8. CASE WorkerStep
    BY <1>1, <1>8
    DEF WorkerStep, TickStep, RunUninitialized, RunDisplayInit, RunTick, RunToggle,
        RunCalibrationRequest, ReadFails, Read, Calibrate, CalibratorStep, CalibrationDone,
        PublishReadings, mainVars, reporterVars
  <1> QED
    BY <1>2, <1>3, <1>4, <1>5, <1>6, <1>7, <1>8 DEF Next, MainStep

LEMMA PublishWithinBounds ==
    ASSUME loaded = 4, ReportedWithinBounds, NEW t, NEW h, Publish(t, h)
    PROVE  ReportedWithinBounds'
  <1>1. /\ TemperatureMin = -4000 /\ TemperatureMax = 12500
        /\ HumidityMin = 0 /\ HumidityMax = 10000
    BY SMT DEF TemperatureMin, TemperatureMax, HumidityMin, HumidityMax, Bound, DataModelBounds
  <1>2. /\ TemperatureMin \in Int /\ TemperatureMax \in Int
        /\ HumidityMin \in Int /\ HumidityMax \in Int
    BY <1>1, SMT
  <1> DEFINE rt == Reported(t, TemperatureMin, TemperatureMax, TemperatureNull)
             rh == Reported(h, HumidityMin, HumidityMax, HumidityNull)
  <1>3. rt = TemperatureNull \/ (TemperatureMin <= rt /\ rt <= TemperatureMax)
    BY <1>2, ReportedIsValid, Zenon
  <1>4. rh = HumidityNull \/ (HumidityMin <= rh /\ rh <= HumidityMax)
    BY <1>2, ReportedIsValid, Zenon
  <1>5. temperature' \in {rt, temperature} /\ humidity' \in {rh, humidity}
    BY SMT DEF Publish, SetTo
  <1> HIDE DEF rt, rh
  <1>6. /\ rt = TemperatureNull \/ (-4000 <= rt /\ rt <= 12500)
        /\ rh = HumidityNull \/ (0 <= rh /\ rh <= 10000)
    BY <1>1, <1>3, <1>4
  <1>7. WithinBounds(temperature, humidity)
    BY DEF ReportedWithinBounds
  <1>8. WithinBounds(rt, humidity) /\ WithinBounds(temperature, rh) /\ WithinBounds(rt, rh)
    BY <1>6, <1>7 DEF WithinBounds
  <1>9. WithinBounds(temperature', humidity')
    BY <1>5, <1>7, <1>8, Zenon
  <1> QED
    BY <1>9 DEF ReportedWithinBounds

LEMMA ReportedStep ==
    LoadedInv /\ ReportedWithinBounds /\ [Next]_vars => ReportedWithinBounds'
  <1> SUFFICES ASSUME LoadedInv, ReportedWithinBounds, [Next]_vars
               PROVE  ReportedWithinBounds'
    OBVIOUS
  <1>1. CASE UNCHANGED <<temperature, humidity>>
    BY <1>1 DEF ReportedWithinBounds
  <1>2. CASE Dispatch
    <2>1. loaded = 4 /\ Publish(Head(tasks).temperature, Head(tasks).humidity)
      BY <1>2 DEF Dispatch, EnterStage, LoadedInv
    <2> QED
      BY <2>1, PublishWithinBounds
  <1>3. CASE Reset
    <2>1. temperature' = TemperatureNull /\ humidity' = HumidityNull
      BY <1>3 DEF Reset, ReporterReset
    <2>2. WithinBounds(TemperatureNull, HumidityNull)
      BY DEF WithinBounds
    <2>3. WithinBounds(temperature', humidity')
      BY <2>1, <2>2, Zenon
    <2> QED
      BY <2>3 DEF ReportedWithinBounds
  <1>4. CASE CallServices \/ StartQueue \/ QueueDisplay \/ LoadRanges \/ ConfigureSensors
              \/ InitWorkItems \/ StartTimer \/ TimerExpires \/ Press \/ UNCHANGED vars
    BY <1>1, <1>4
    DEF CallServices, StartQueue, QueueDisplay, LoadRanges, ConfigureSensors, InitWorkItems,
        StartTimer, TimerExpires, Press, vars, reporterVars
  <1>5. CASE WorkerStep
    BY <1>1, <1>5
    DEF WorkerStep, TickStep, RunUninitialized, RunDisplayInit, RunTick, RunToggle,
        RunCalibrationRequest, ReadFails, Read, Calibrate, CalibratorStep, CalibrationDone,
        PublishReadings, reporterVars
  <1> QED
    BY <1>2, <1>3, <1>4, <1>5 DEF Next, MainStep

(***************************************************************************)
(* Controllers read null or a value within the bounds of the data model:   *)
(* ReportedWithinBounds.                                                   *)
(***************************************************************************)
THEOREM ReportsWithinBounds == Spec => []ReportedWithinBounds
  <1>1. Init => LoadedInv /\ ReportedWithinBounds
    <2> SUFFICES ASSUME Init PROVE LoadedInv /\ ReportedWithinBounds
      OBVIOUS
    <2>1. temperature = TemperatureNull /\ humidity = HumidityNull
      BY Zenon DEF Init, Boot, ReporterStart
    <2>2. WithinBounds(TemperatureNull, HumidityNull)
      BY DEF WithinBounds
    <2>3. WithinBounds(temperature, humidity)
      BY <2>1, <2>2, Zenon
    <2>4. LoadedInv
      BY DEF Init, Boot, ReporterStart, LoadedInv
    <2> QED
      BY <2>3, <2>4 DEF ReportedWithinBounds
  <1> QED
    BY <1>1, LoadedStep, ReportedStep, PTL DEF Spec

=============================================================================
