----------------------- MODULE MeasurementWorker_proofs -----------------------
(***************************************************************************)
(* Safety of MeasurementWorker: the types, the sessions and the heater.    *)
(*                                                                         *)
(* The types and two theorems on sessions hold for every configuration,    *)
(* any interleaving of the two threads and any set of failing calls; that  *)
(* the heater is supervised needs the priorities of the code and commands  *)
(* to the heater that do not fail.                                         *)
(***************************************************************************)
EXTENDS MeasurementProperties, TLAPS

LEMMA PostTaskTyped ==
    ASSUME taskQueue \in Seq(Tasks), Len(taskQueue) <= TaskQueueSize,
           NEW kind \in {"cycle", "publish"}, NEW reading \in SUBSET Samples,
           PostTask(Task(kind, reading))
    PROVE  taskQueue' \in Seq(Tasks) /\ Len(taskQueue') <= TaskQueueSize
<1> DEFINE task == Task(kind, reading)
<1>1. task \in Tasks
  BY DEF Task, Tasks
<1>2. PostTask(task)
  OBVIOUS
<1> HIDE DEF task
<1>3. CASE Len(taskQueue) < TaskQueueSize
  BY <1>1, <1>2, <1>3, TaskQueueHasRoom DEF PostTask
<1>4. CASE ~(Len(taskQueue) < TaskQueueSize)
  BY <1>2, <1>4 DEF PostTask
<1> QED
  BY <1>3, <1>4

LEMMA SubmitTyped ==
    ASSUME workQueue \in Seq(WorkItems),
           \A i, j \in DOMAIN workQueue : workQueue[i] = workQueue[j] => i = j,
           NEW item \in WorkItems, Submit(item)
    PROVE  /\ workQueue' \in Seq(WorkItems)
           /\ \A i, j \in DOMAIN workQueue' : workQueue'[i] = workQueue'[j] => i = j
<1>1. CASE Queued(item)
  BY <1>1 DEF Submit
<1>2. CASE ~Queued(item)
  <2>1. workQueue' = Append(workQueue, item)
    BY <1>2 DEF Submit
  <2> QED
    BY <1>2, <2>1 DEF Queued
<1> QED
  BY <1>1, <1>2

LEMMA TakeWorkTyped ==
    ASSUME workQueue \in Seq(WorkItems),
           \A i, j \in DOMAIN workQueue : workQueue[i] = workQueue[j] => i = j,
           NEW item, TakeWork(item)
    PROVE  /\ workQueue' \in Seq(WorkItems)
           /\ \A i, j \in DOMAIN workQueue' : workQueue'[i] = workQueue'[j] => i = j
BY DEF TakeWork

LEMMA TakeTaskTyped ==
    ASSUME taskQueue \in Seq(Tasks), Len(taskQueue) <= TaskQueueSize,
           NEW kind, TakeTask(kind)
    PROVE  /\ taskQueue' \in Seq(Tasks) /\ Len(taskQueue') <= TaskQueueSize
           /\ Head(taskQueue) \in Tasks
BY TaskQueueHasRoom DEF TakeTask

LEMMA GotoTyped ==
    ASSUME pc \in [Threads -> Locations], NEW t \in Threads,
           NEW location \in Locations, Goto(t, location)
    PROVE  pc' \in [Threads -> Locations]
BY DEF Goto

LEMMA ContentTyped ==
    ASSUME NEW content \in Contents, NEW source \in Sources, NEW flag \in BOOLEAN,
           NEW offset \in Offsets
    PROVE  /\ UpdateMeasurements(content, source) \in Contents
           /\ SetDecontaminationStatus(content, flag) \in Contents
           /\ SetPrimarySensorName(content, source) \in Contents
           /\ SetSecondaryHumidity(content, source) \in Contents
           /\ SetHumidityCalibrationOffset(content, offset) \in Contents
BY DEF Contents, UpdateMeasurements, SetDecontaminationStatus, SetPrimarySensorName,
       SetSecondaryHumidity, SetHumidityCalibrationOffset

LEMMA ShowAndRefreshTyped ==
    ASSUME pc \in [Threads -> Locations], resume \in [Threads -> Locations],
           cur \in Contents, NEW t \in Threads, NEW content \in Contents,
           NEW location \in Locations, ShowAndRefresh(t, content, location)
    PROVE  /\ pc' \in [Threads -> Locations]
           /\ resume' \in [Threads -> Locations]
           /\ cur' \in Contents
<1>1. "refresh" \in Locations
  BY DEF Locations
<1> QED
  BY <1>1 DEF ShowAndRefresh, Goto

LEMMA LocationNames ==
    Locations =
    {"readPrimary", "readSecondary", "calibrate", "heaterOn", "heaterOff",
     "fetch", "drawMeasurements", "flush", "commit", "idle", "publish", "show",
     "pushOffset", "activate", "armTimer", "showStart", "deactivate", "showStop",
     "cycleShow", "decide", "refresh", "drawStatusBar"}
BY DEF Locations, BusLocations

LEMMA RemainderTyped ==
    ASSUME NEW n \in Nat, NEW d \in Nat \ {0}
    PROVE  n % d \in 0..(d - 1)
OBVIOUS

-----------------------------------------------------------------------------

(***************************************************************************)
(* Type correctness, one step per action.                                  *)
(***************************************************************************)
LEMMA ControllerTyped ==
    ASSUME TypeOK, UNCHANGED measurementVars, NEW t \in Threads,
           \/ HeaterOn \/ Activate \/ ArmTimer \/ ShowStart \/ StopStep(t)
           \/ RunCycle \/ CycleStep \/ TimePasses
    PROVE  TypeOK'
<1> USE DEF TypeOK, ThreadsTypeOK, DisplayTypeOK, ControllerTypeOK
<1> "app" \in Threads /\ "worker" \in Threads
  BY DEF Threads
<1>0. MeasurementTypeOK'
  BY DEF MeasurementTypeOK, measurementVars
<1>1. CASE HeaterOn
  BY <1>0, <1>1, LocationNames DEF HeaterOn, Goto, displayVars
<1>2. CASE Activate
  BY <1>0, <1>2, LocationNames, MaxAgeIsPositive, DisplayIntervalIsPositive
     DEF Activate, Goto, displayVars
<1>3. CASE ArmTimer
  BY <1>0, <1>3, LocationNames DEF ArmTimer, Goto, displayVars
<1>4. CASE ShowStart
  <2>1. SetDecontaminationStatus(cur, TRUE) \in Contents
    BY ContentTyped DEF Sources, Offsets
  <2> QED
    BY <1>0, <1>4, <2>1, LocationNames, ShowAndRefreshTyped
       DEF ShowStart, controllerVars
<1>5. CASE HeaterOff(t)
  BY <1>0, <1>5, LocationNames DEF HeaterOff, Goto, displayVars
<1>6. CASE Deactivate(t)
  BY <1>0, <1>6, LocationNames DEF Deactivate, Goto, displayVars
<1>7. CASE ShowStop(t)
  <2>1. SetDecontaminationStatus(cur, FALSE) \in Contents
    BY ContentTyped DEF Sources, Offsets
  <2> QED
    BY <1>0, <1>7, <2>1, LocationNames, ShowAndRefreshTyped
       DEF ShowStop, controllerVars
<1>8. CASE RunCycle
  BY <1>0, <1>8, LocationNames, TakeTaskTyped
     DEF RunCycle, Goto, displayVars, controllerVars
<1>9. CASE CycleFetchFails
  BY <1>0, <1>9, LocationNames DEF CycleFetchFails, Goto, displayVars, controllerVars
<1>10. CASE CycleFetch
  BY <1>0, <1>10, LocationNames DEF CycleFetch, Goto, displayVars, Humidities
<1>11. CASE CycleShow
  <2>1. \A source \in Sources :
           SetDecontaminationStatus(UpdateMeasurements(cur, source), TRUE) \in Contents
    BY ContentTyped DEF Offsets
  <2>2. "hdc" \in Sources /\ NoSource \in Sources
    BY DEF Sources, Sensors
  <2>3. CASE cycleCount = 0
    BY <1>0, <1>11, <2>1, <2>2, <2>3, LocationNames, ShowAndRefreshTyped
       DEF CycleShow, controllerVars
  <2>4. CASE cycleCount # 0
    BY <1>0, <1>11, <2>4, LocationNames DEF CycleShow, Goto, controllerVars
  <2> QED
    BY <2>3, <2>4
<1>12. CASE CycleDecide
  <2>1. cycleCount' \in 0..(DisplayInterval - 1)
    BY <1>12, RemainderTyped, DisplayIntervalIsPositive DEF CycleDecide
  <2>2. \/ Goto("app", "heaterOff") /\ deconTimer' = FALSE
        \/ Goto("app", "idle") /\ UNCHANGED deconTimer
    BY <1>12 DEF CycleDecide, Stop
  <2>3. pc' \in [Threads -> Locations] /\ deconTimer' \in BOOLEAN
    BY <2>2, LocationNames, GotoTyped
  <2> QED
    BY <1>0, <1>12, <2>1, <2>3 DEF CycleDecide, NoCycle, Humidities, displayVars
<1>13. CASE TimePasses
  <2>1. taskQueue' \in Seq(Tasks) /\ Len(taskQueue') <= TaskQueueSize
    BY <1>13, PostTaskTyped DEF TimePasses
  <2> QED
    BY <1>0, <1>13, <2>1, MaxAgeIsPositive DEF TimePasses, displayVars
<1> QED
  BY <1>1, <1>2, <1>3, <1>4, <1>5, <1>6, <1>7, <1>8, <1>9, <1>10, <1>11, <1>12, <1>13
     DEF StopStep, CycleStep

LEMMA DisplayTyped ==
    ASSUME TypeOK, UNCHANGED <<controllerVars, measurementVars>>, NEW t \in Threads,
           RunDisplayInit \/ RefreshDisplay(t)
    PROVE  TypeOK'
<1> USE DEF TypeOK, ThreadsTypeOK, DisplayTypeOK
<1>0. MeasurementTypeOK' /\ ControllerTypeOK'
  BY DEF MeasurementTypeOK, measurementVars, ControllerTypeOK, controllerVars
<1>1. CASE RunDisplayInit
  BY <1>0, <1>1, TakeWorkTyped DEF RunDisplayInit
<1>2. CASE RefreshSkip(t)
  BY <1>0, <1>2, LocationNames DEF RefreshSkip, RefreshReturns, Goto, displayVars
<1>3. CASE RefreshBegin(t)
  BY <1>0, <1>3, LocationNames DEF RefreshBegin, Goto, displayVars
<1>4. CASE DrawMeasurements(t)
  <2>1. labels' \in Contents
    BY <1>4 DEF DrawMeasurements, Contents
  <2> QED
    BY <1>0, <1>4, <2>1, LocationNames DEF DrawMeasurements, Goto
<1>5. CASE DrawStatusBar(t)
  <2>1. labels' \in Contents
    BY <1>5 DEF DrawStatusBar, Contents
  <2> QED
    BY <1>0, <1>5, <2>1, LocationNames DEF DrawStatusBar, Goto
<1>6. CASE RefreshFlush(t)
  BY <1>0, <1>6, LocationNames DEF RefreshFlush, Goto
<1>7. CASE RefreshCommit(t)
  BY <1>0, <1>7, LocationNames DEF RefreshCommit, RefreshReturns, Goto
<1> QED
  BY <1>1, <1>2, <1>3, <1>4, <1>5, <1>6, <1>7 DEF RefreshDisplay, RefreshDraw

LEMMA SampleTyped ==
    ASSUME TypeOK, NEW sensor \in Sensors
    PROVE  SampleOf(sensor) \in Samples
BY MaxCalibrationsIsNat
   DEF TypeOK, ControllerTypeOK, MeasurementTypeOK, SampleOf, Samples

LEMMA ReadTyped ==
    ASSUME TypeOK, NEW sensor \in Sensors, NEW channel \in Channel, Blend(sensor, channel)
    PROVE  /\ average' \in [Sensors -> SUBSET Samples]
           /\ ReadingOf(sensor, channel) \in SUBSET Samples
<1>1. Averaged(sensor) \in SUBSET Samples
  BY SampleTyped DEF TypeOK, MeasurementTypeOK, Averaged
<1> QED
  BY <1>1 DEF TypeOK, MeasurementTypeOK, Blend, ReadingOf

LEMMA MeasurementTyped ==
    ASSUME TypeOK, WorkItemStep \/ RunPublish \/ TickTimerExpires \/ Press
    PROVE  TypeOK'
<1> USE DEF TypeOK, ThreadsTypeOK, DisplayTypeOK
<1> "app" \in Threads /\ "worker" \in Threads
  BY DEF Threads
<1> Available \subseteq Sensors /\ "hdc" \in Sensors
  BY SomeSensor DEF Sensors
<1>a. ASSUME UNCHANGED <<displayState, cur, last, labels, panel>> PROVE DisplayTypeOK'
  BY <1>a
<1>b. ASSUME UNCHANGED controllerVars PROVE ControllerTypeOK'
  BY <1>b DEF ControllerTypeOK, controllerVars
<1>c. ASSUME UNCHANGED measurementVars PROVE MeasurementTypeOK'
  BY <1>c DEF MeasurementTypeOK, measurementVars
<1>1. CASE RunTick
  BY <1>1, <1>b, <1>c, LocationNames, TakeWorkTyped, GotoTyped
     DEF RunTick, EnterTick, displayVars
<1>2. CASE ReadPrimaryFails
  BY <1>2, <1>b, <1>c, LocationNames DEF ReadPrimaryFails, Goto, displayVars
<1>3. CASE ReadPrimary
  <2>1. PICK channel \in Channel :
          /\ Blend(primary, channel)
          /\ reads' = [reads EXCEPT !.primary = ReadingOf(primary, channel)]
    BY <1>3 DEF ReadPrimary
  <2>2. primary \in Sensors
    BY DEF MeasurementTypeOK
  <2>3. MeasurementTypeOK'
    BY <1>3, <2>1, <2>2, ReadTyped DEF ReadPrimary, MeasurementTypeOK
  <2>4. pc' \in [Threads -> Locations]
    BY <1>3, LocationNames, GotoTyped DEF ReadPrimary, AfterReads
  <2> QED
    BY <1>3, <1>b, <2>3, <2>4 DEF ReadPrimary, displayVars
<1>4. CASE ReadSecondaryFails
  BY <1>4, <1>b, <1>c, LocationNames, GotoTyped DEF ReadSecondaryFails, AfterReads, displayVars
<1>5. CASE ReadSecondary
  <2>1. PICK channel \in Channel :
          /\ Blend(secondary, channel)
          /\ reads' = [reads EXCEPT !.secondary = ReadingOf(secondary, channel)]
    BY <1>5 DEF ReadSecondary
  <2>2. secondary \in Sensors
    BY <1>5 DEF MeasurementTypeOK, ReadSecondary
  <2>3. MeasurementTypeOK'
    BY <1>5, <2>1, <2>2, ReadTyped DEF ReadSecondary, MeasurementTypeOK
  <2>4. pc' \in [Threads -> Locations]
    BY <1>5, LocationNames, GotoTyped DEF ReadSecondary, AfterReads
  <2> QED
    BY <1>5, <1>b, <2>3, <2>4 DEF ReadSecondary, displayVars
<1>6. CASE CalibrateNothing
  <2>1. MeasurementTypeOK'
    BY <1>6 DEF CalibrateNothing, MeasurementTypeOK
  <2> QED
    BY <1>6, <1>b, <2>1, LocationNames DEF CalibrateNothing, Goto, displayVars
<1>7. CASE CalibrateApplied
  <2>1. epoch + 1 \in 0..MaxCalibrations
    BY <1>7, MaxCalibrationsIsNat DEF CalibrateApplied, MeasurementTypeOK
  <2>2. OffsetRead(epoch + 1) \subseteq Offsets
    BY <2>1 DEF OffsetRead, Offsets, NoOffset
  <2>3. cachedOffset' \in Offsets
    BY <1>7, <2>2 DEF CalibrateApplied, MeasurementTypeOK
  <2>4. MeasurementTypeOK'
    BY <1>7, <2>1, <2>3 DEF CalibrateApplied, AverageRestarted, MeasurementTypeOK
  <2>5. cur' \in Contents
    BY <1>7, <2>3, ContentTyped
       DEF CalibrateApplied, PushOffset, Offsets, Sources
  <2> QED
    BY <1>7, <1>b, <2>4, <2>5, LocationNames DEF CalibrateApplied, Goto
<1>8. CASE CalibrateUnacknowledged
  <2>1. epoch + 1 \in 0..MaxCalibrations
    BY <1>8, MaxCalibrationsIsNat DEF CalibrateUnacknowledged, MeasurementTypeOK
  <2>2. MeasurementTypeOK'
    BY <1>8, <2>1 DEF CalibrateUnacknowledged, MeasurementTypeOK
  <2> QED
    BY <1>8, <1>b, <2>2, LocationNames DEF CalibrateUnacknowledged, Goto, displayVars
<1>9. CASE Publish
  <2>1. reads.primary \in SUBSET Samples
    BY DEF MeasurementTypeOK
  <2>2. taskQueue' \in Seq(Tasks) /\ Len(taskQueue') <= TaskQueueSize
    BY <1>9, <2>1, PostTaskTyped DEF Publish
  <2> QED
    BY <1>9, <1>b, <1>c, <2>2, LocationNames DEF Publish, Goto, displayVars
<1>10. CASE Show
  <2>1. Sensors \subseteq Sources /\ NoSource \in Sources /\ Available \subseteq Sources
    BY DEF Sources
  <2>2. WithPrimary(cur) \in Contents
    BY <2>1, ContentTyped DEF WithPrimary, Source, MeasurementTypeOK, Offsets
  <2>3. secondary # "none" => secondary \in Sources
    BY <2>1 DEF MeasurementTypeOK
  <2>4. WithSecondary(WithPrimary(cur)) \in Contents
    BY <2>1, <2>2, <2>3, ContentTyped DEF WithSecondary, Source, Offsets
  <2>5. /\ pc' \in [Threads -> Locations]
        /\ resume' \in [Threads -> Locations]
        /\ cur' \in Contents
    BY <1>10, <2>4, LocationNames, ShowAndRefreshTyped DEF Show
  <2>6. MeasurementTypeOK'
    BY <1>10 DEF Show, NoReads, MeasurementTypeOK
  <2> QED
    BY <1>10, <1>b, <2>5, <2>6 DEF Show
<1>11. CASE RunTogglePrimary
  <2>1. CASE ToggleAllowed
    <3>1. secondary \in Available
      BY <2>1 DEF ToggleAllowed, MeasurementTypeOK
    <3>2. secondary \in Sources
      BY <3>1 DEF Sources
    <3>3. cur' \in Contents
      <4>1. SetPrimarySensorName(cur, secondary) \in Contents
        BY <3>2, ContentTyped DEF Offsets
      <4> QED
        BY <1>11, <2>1, <4>1 DEF RunTogglePrimary
    <3>4. MeasurementTypeOK'
      BY <1>11, <2>1, <3>1 DEF RunTogglePrimary, MeasurementTypeOK
    <3>5. pc' \in [Threads -> Locations]
      BY <1>11, <2>1, LocationNames, GotoTyped DEF RunTogglePrimary, EnterTick
    <3> QED
      BY <1>11, <1>b, <3>3, <3>4, <3>5, TakeWorkTyped DEF RunTogglePrimary
  <2>2. CASE ~ToggleAllowed
    <3>1. UNCHANGED <<pc, cur, measurementVars>>
      BY <1>11, <2>2 DEF RunTogglePrimary, measurementVars
    <3> QED
      BY <1>11, <1>b, <1>c, <3>1, TakeWorkTyped DEF RunTogglePrimary
  <2> QED
    BY <2>1, <2>2
<1>12. CASE RunCalibrationRequest
  <2>1. MeasurementTypeOK'
    BY <1>12 DEF RunCalibrationRequest, MeasurementTypeOK
  <2> QED
    BY <1>12, <1>b, <2>1, TakeWorkTyped DEF RunCalibrationRequest, displayVars
<1>13. CASE RunToggleDecontamination
  <2>1. pc' \in [Threads -> Locations] /\ deconTimer' \in BOOLEAN
    BY <1>13, LocationNames, GotoTyped
       DEF RunToggleDecontamination, Stop, Start, ControllerTypeOK
  <2>2. ControllerTypeOK'
    BY <1>13, <2>1 DEF RunToggleDecontamination, ControllerTypeOK
  <2> QED
    BY <1>13, <1>c, <2>1, <2>2, TakeWorkTyped DEF RunToggleDecontamination, displayVars
<1>14. CASE RunPublish
  <2>1. Head(taskQueue).reading \in SUBSET Samples
    BY <1>14, TakeTaskTyped DEF RunPublish, Tasks
  <2>2. MeasurementTypeOK'
    BY <1>14, <2>1 DEF RunPublish, MeasurementTypeOK
  <2> QED
    BY <1>14, <1>b, <2>2, TakeTaskTyped DEF RunPublish, displayVars
<1>15. ASSUME NEW item \in WorkItems, SubmitFromOutside(item) PROVE TypeOK'
  BY <1>15, <1>b, <1>c, SubmitTyped DEF SubmitFromOutside, displayVars
<1>16. "tick" \in WorkItems /\ Buttons \subseteq WorkItems
  BY KnownButtons DEF WorkItems
<1>17. CASE TogglePushesOffset
  <2>1. /\ \A offset \in Offsets : SetHumidityCalibrationOffset(cur, offset) \in Contents
        /\ cachedOffset \in Offsets /\ NoOffset \in Offsets
    BY ContentTyped DEF MeasurementTypeOK, Offsets, Sources
  <2>2. cur' \in Contents
    BY <1>17, <2>1 DEF TogglePushesOffset, PushOffset
  <2>3. pc' \in [Threads -> Locations]
    BY <1>17, LocationNames, GotoTyped DEF TogglePushesOffset, EnterTick
  <2> QED
    BY <1>17, <1>b, <1>c, <2>2, <2>3 DEF TogglePushesOffset
<1> QED
  BY <1>1, <1>2, <1>3, <1>4, <1>5, <1>6, <1>7, <1>8, <1>9, <1>10, <1>11, <1>12, <1>13,
     <1>14, <1>15, <1>16, <1>17
     DEF WorkItemStep, TickStep, Calibrate, TickTimerExpires, Press

LEMMA InitTyped == Init => TypeOK
<1> SUFFICES ASSUME Init PROVE TypeOK
  OBVIOUS
<1>1. ThreadsTypeOK
  <2>1. "displayInit" \in WorkItems
    BY DEF WorkItems
  <2>2. workQueue \in Seq(WorkItems)
    BY <2>1 DEF Init, ThreadInit
  <2>3. taskQueue \in Seq(Tasks)
    BY DEF Init, ThreadInit
  <2>4. pc \in [Threads -> Locations] /\ resume \in [Threads -> Locations]
    BY LocationNames DEF Init, ThreadInit
  <2> QED
    BY <2>2, <2>3, <2>4 DEF ThreadsTypeOK
<1>2. ControllerTypeOK
  <2>1. 0 \in 0..(DisplayInterval - 1) /\ MaxAge \in 0..MaxAge
    BY MaxAgeIsPositive, DisplayIntervalIsPositive
  <2>2. NoCycle \in [humidity : Humidities, expired : BOOLEAN]
    BY DEF NoCycle, Humidities
  <2> QED
    BY <2>1, <2>2 DEF Init, ControllerInit, ControllerTypeOK
<1>3. cachedOffset \in Offsets
  BY MaxCalibrationsIsNat DEF Init, OffsetRead, Offsets, NoOffset
<1>4. MeasurementTypeOK
  <2>1. primary \in Available
    BY SomeSensor DEF Init
  <2>2. secondary \in Available \cup {"none"}
    BY DEF Init, Present
  <2>3. epoch \in 0..MaxCalibrations
    BY MaxCalibrationsIsNat DEF Init
  <2>4. average \in [Sensors -> SUBSET Samples]
    BY DEF Init
  <2>5. reads \in [primary : SUBSET Samples, secondary : SUBSET Samples]
    BY DEF Init, NoReads
  <2>6. calRequested \in BOOLEAN /\ unnoticed \in BOOLEAN /\ attribute \in SUBSET Samples
    BY DEF Init
  <2> QED
    BY <1>3, <2>1, <2>2, <2>3, <2>4, <2>5, <2>6 DEF MeasurementTypeOK
<1>5. Blank \in Contents
  BY DEF Blank, Contents, Sources, NoSource, Offsets, NoOffset
<1>6. cur \in Contents
  BY <1>3, <1>4, <1>5, ContentTyped, SomeSensor
     DEF Init, DisplayInit, PushOffset, MeasurementTypeOK, Sources, Sensors, Offsets
<1>7. DisplayTypeOK
  BY <1>5, <1>6 DEF Init, DisplayInit, DisplayTypeOK
<1>8. /\ \A i, j \in DOMAIN workQueue : workQueue[i] = workQueue[j] => i = j
      /\ Len(taskQueue) <= TaskQueueSize
  BY TaskQueueHasRoom DEF Init, ThreadInit
<1> QED
  BY <1>1, <1>2, <1>4, <1>7, <1>8 DEF TypeOK

LEMMA StutterTyped == TypeOK /\ UNCHANGED vars => TypeOK'
BY DEF TypeOK, ThreadsTypeOK, DisplayTypeOK, ControllerTypeOK, MeasurementTypeOK,
       vars, threadVars, displayVars, controllerVars, measurementVars

LEMMA StepTyped == TypeOK /\ [Next]_vars => TypeOK'
<1> SUFFICES ASSUME TypeOK, [Next]_vars PROVE TypeOK'
  OBVIOUS
<1> "app" \in Threads /\ "worker" \in Threads
  BY DEF Threads
<1>1. CASE Worker
  BY <1>1, MeasurementTyped, ControllerTyped, DisplayTyped DEF Worker
<1>2. CASE App
  BY <1>2, MeasurementTyped, ControllerTyped, DisplayTyped DEF App
<1>3. CASE Clock
  BY <1>3, ControllerTyped DEF Clock
<1>4. CASE TickTimerExpires \/ Press
  BY <1>4, MeasurementTyped
<1>5. CASE UNCHANGED vars
  BY <1>5, StutterTyped
<1> QED
  BY <1>1, <1>2, <1>3, <1>4, <1>5 DEF Next

(* Every variable keeps its type; no k_work item is queued twice and the   *)
(* task queue never exceeds its capacity, in any configuration.            *)
THEOREM TypeCorrectness == Spec => []TypeOK
BY InitTyped, StepTyped, PTL DEF Spec

-----------------------------------------------------------------------------

(***************************************************************************)
(* Sessions.                                                               *)
(***************************************************************************)

(* Where the calls of RefreshDisplay return to. *)
ResumeKnown == resume["worker"] = "idle" /\ resume["app"] \in {"idle", "decide"}

(* Between these locations and the rest of its code a thread enters or     *)
(* leaves Start and Stop.                                                  *)
SessionLocations == {"heaterOn", "activate", "armTimer", "heaterOff", "deactivate"}

ReadLocations == {"readPrimary", "readSecondary"}

(* A thread moves, if at all, outside Start and Stop, and leaves the       *)
(* session alone.                                                          *)
Aside ==
    /\ UNCHANGED <<heater, active, deconTimer>>
    /\ \/ UNCHANGED pc
       \/ \E t \in Threads : \E location \in Locations \ SessionLocations :
             pc[t] \notin SessionLocations /\ Goto(t, location)

(* A step that enters the reads of a tick, if any step does. *)
MayEnterReads ==
    pc'["worker"] \in ReadLocations =>
        \/ pc["worker"] \in ReadLocations
        \/ pc["worker"] \in {"idle", "pushOffset"} /\ ~(Maintenance /\ active)

LEMMA InitResume == Init => ResumeKnown
BY DEF Init, ThreadInit, ResumeKnown, Threads

LEMMA ShowAndRefreshResumes ==
    ASSUME TypeOK, ResumeKnown, NEW t \in Threads, NEW content, NEW location,
           ShowAndRefresh(t, content, location),
           location = "idle" \/ (t = "app" /\ location = "decide")
    PROVE  /\ ResumeKnown'
           /\ \E place \in {"refresh", "idle", "decide"} : Goto(t, place)
<1>1. resume \in [Threads -> Locations]
  BY DEF TypeOK, ThreadsTypeOK
<1>2. CASE Display
  BY <1>1, <1>2 DEF ShowAndRefresh, ResumeKnown, Threads
<1>3. CASE ~Display
  BY <1>3 DEF ShowAndRefresh, ResumeKnown
<1> QED
  BY <1>2, <1>3

(***************************************************************************)
(* The steps of the system as a session sees them.                         *)
(***************************************************************************)
SessionStep ==
    \/ HeaterOn \/ Activate \/ ArmTimer \/ CycleDecide
    \/ \E t \in Threads : HeaterOff(t) \/ Deactivate(t)

LEMMA OutsideStartAndStop ==
    ASSUME NEW t \in Threads, NEW location,
           location \in Locations \ SessionLocations, Goto(t, location),
           pc[t] \notin SessionLocations, UNCHANGED <<heater, active, deconTimer>>
    PROVE  Aside
BY DEF Aside

LEMMA ControllerSteps ==
    ASSUME TypeOK, ResumeKnown, NEW t \in Threads,
           \/ HeaterOn \/ Activate \/ ArmTimer \/ ShowStart \/ StopStep(t)
           \/ RunCycle \/ CycleStep \/ TimePasses
    PROVE  (SessionStep \/ Aside) /\ ResumeKnown' /\ MayEnterReads
<1> pc \in [Threads -> Locations] /\ "app" \in Threads /\ "worker" \in Threads
  BY DEF TypeOK, ThreadsTypeOK, Threads
<1> USE LocationNames DEF ResumeKnown, MayEnterReads, ReadLocations, SessionLocations
<1>1. CASE HeaterOn
  BY <1>1 DEF HeaterOn, Goto, SessionStep
<1>2. CASE Activate
  BY <1>2 DEF Activate, Goto, SessionStep
<1>3. CASE ArmTimer
  BY <1>3 DEF ArmTimer, Goto, SessionStep
<1>4. CASE ShowStart
  <2>1. PICK place \in {"refresh", "idle", "decide"} : Goto("worker", place) /\ ResumeKnown'
    BY <1>4, ShowAndRefreshResumes DEF ShowStart
  <2>2. Aside
    BY <1>4, <2>1, OutsideStartAndStop DEF ShowStart, At, controllerVars
  <2> QED
    BY <2>1, <2>2 DEF Goto
<1>5. CASE HeaterOff(t)
  BY <1>5 DEF HeaterOff, Goto, SessionStep
<1>6. CASE Deactivate(t)
  BY <1>6 DEF Deactivate, Goto, SessionStep
<1>7. CASE ShowStop(t)
  <2>1. PICK place \in {"refresh", "idle", "decide"} : Goto(t, place) /\ ResumeKnown'
    BY <1>7, ShowAndRefreshResumes DEF ShowStop
  <2>2. Aside
    BY <1>7, <2>1, OutsideStartAndStop DEF ShowStop, At, controllerVars
  <2> QED
    BY <2>1, <2>2 DEF Goto
<1>8. CASE RunCycle
  <2>1. Aside
    BY <1>8, OutsideStartAndStop DEF RunCycle, TakeTask, At, controllerVars
  <2> QED
    BY <1>8, <2>1 DEF RunCycle, Goto
<1>9. CASE CycleFetchFails
  <2>1. Aside
    BY <1>9, OutsideStartAndStop DEF CycleFetchFails, At, controllerVars
  <2> QED
    BY <1>9, <2>1 DEF CycleFetchFails, Goto
<1>10. CASE CycleFetch
  <2>1. Aside
    BY <1>10, OutsideStartAndStop DEF CycleFetch, At
  <2> QED
    BY <1>10, <2>1 DEF CycleFetch, Goto
<1>11. CASE CycleShow
  <2>1. ResumeKnown' /\ \E place \in {"refresh", "idle", "decide"} : Goto("app", place)
    <3>1. CASE cycleCount = 0
      BY <1>11, <3>1, ShowAndRefreshResumes DEF CycleShow
    <3>2. CASE cycleCount # 0
      BY <1>11, <3>2 DEF CycleShow
    <3> QED
      BY <3>1, <3>2
  <2>2. PICK place \in {"refresh", "idle", "decide"} : Goto("app", place)
    BY <2>1
  <2>3. Aside
    BY <1>11, <2>2, OutsideStartAndStop DEF CycleShow, At, controllerVars
  <2> QED
    BY <2>1, <2>2, <2>3 DEF Goto
<1>12. CASE CycleDecide
  BY <1>12 DEF CycleDecide, Stop, Goto, SessionStep
<1>13. CASE TimePasses
  BY <1>13 DEF TimePasses, Aside
<1> QED
  BY <1>1, <1>2, <1>3, <1>4, <1>5, <1>6, <1>7, <1>8, <1>9, <1>10, <1>11, <1>12, <1>13
     DEF StopStep, CycleStep

LEMMA DisplaySteps ==
    ASSUME TypeOK, ResumeKnown, UNCHANGED controllerVars, NEW t \in Threads,
           RunDisplayInit \/ RefreshDisplay(t)
    PROVE  Aside /\ ResumeKnown' /\ MayEnterReads
<1> pc \in [Threads -> Locations] /\ "app" \in Threads /\ "worker" \in Threads
  BY DEF TypeOK, ThreadsTypeOK, Threads
<1> USE LocationNames DEF ResumeKnown, MayEnterReads, ReadLocations, SessionLocations
<1>1. CASE RunDisplayInit
  BY <1>1 DEF RunDisplayInit, Aside, controllerVars
<1>2. CASE RefreshSkip(t) \/ RefreshCommit(t)
  <2>1. resume[t] \in {"idle", "decide"}
    BY DEF Threads
  <2>2. Aside
    BY <1>2, <2>1, OutsideStartAndStop DEF RefreshSkip, RefreshCommit, RefreshReturns, At, controllerVars
  <2>3. ResumeKnown' /\ Goto(t, resume[t])
    BY <1>2 DEF RefreshSkip, RefreshCommit, RefreshReturns, TypeOK, ThreadsTypeOK, Threads
  <2> QED
    BY <2>1, <2>2, <2>3 DEF Goto
<1>3. CASE RefreshBegin(t) \/ RefreshDraw(t) \/ RefreshFlush(t)
  <2>1. /\ pc[t] \in {"refresh", "drawMeasurements", "drawStatusBar", "flush"}
        /\ \E place \in {"drawMeasurements", "drawStatusBar", "flush", "commit"} : Goto(t, place)
        /\ UNCHANGED resume
    BY <1>3 DEF RefreshBegin, RefreshDraw, DrawMeasurements, DrawStatusBar, RefreshFlush, At
  <2>2. Aside
    BY <2>1, OutsideStartAndStop DEF controllerVars
  <2> QED
    BY <2>1, <2>2 DEF Goto
<1> QED
  BY <1>1, <1>2, <1>3 DEF RefreshDisplay

(* The steps of the measurements, ToggleDecontamination aside. *)
LEMMA MeasurementSteps ==
    ASSUME TypeOK, ResumeKnown,
           \/ RunTick \/ TickStep \/ RunTogglePrimary \/ TogglePushesOffset
           \/ RunCalibrationRequest \/ RunPublish \/ TickTimerExpires \/ Press
    PROVE  Aside /\ ResumeKnown' /\ MayEnterReads
<1> pc \in [Threads -> Locations] /\ "app" \in Threads /\ "worker" \in Threads
  BY DEF TypeOK, ThreadsTypeOK, Threads
<1> USE LocationNames DEF ResumeKnown, MayEnterReads, ReadLocations, SessionLocations
<1>1. CASE RunTick
  <2>1. Aside
    BY <1>1, OutsideStartAndStop DEF RunTick, TakeWork, EnterTick, At, controllerVars
  <2> QED
    BY <1>1, <2>1 DEF RunTick, TakeWork, At, EnterTick, Goto
<1>2. CASE ReadPrimaryFails \/ ReadPrimary
  <2>1. Aside
    BY <1>2, OutsideStartAndStop
       DEF ReadPrimaryFails, ReadPrimary, AfterReads, At, controllerVars
  <2> QED
    BY <1>2, <2>1 DEF ReadPrimaryFails, ReadPrimary, At
<1>3. CASE ReadSecondaryFails \/ ReadSecondary
  <2>1. Aside
    BY <1>3, OutsideStartAndStop
       DEF ReadSecondaryFails, ReadSecondary, AfterReads, At, controllerVars
  <2> QED
    BY <1>3, <2>1 DEF ReadSecondaryFails, ReadSecondary, At
<1>4. CASE Calibrate \/ Publish
  <2>1. /\ pc["worker"] \in {"calibrate", "publish"}
        /\ \E place \in {"publish", "show"} : Goto("worker", place)
        /\ UNCHANGED <<resume, controllerVars>>
    BY <1>4 DEF Calibrate, CalibrateNothing, CalibrateApplied, CalibrateUnacknowledged,
                Publish, At
  <2>2. Aside
    BY <2>1, OutsideStartAndStop DEF controllerVars
  <2> QED
    BY <2>1, <2>2 DEF Goto
<1>5. CASE Show
  <2>1. PICK place \in {"refresh", "idle", "decide"} : Goto("worker", place) /\ ResumeKnown'
    BY <1>5, ShowAndRefreshResumes DEF Show
  <2>2. Aside
    BY <1>5, <2>1, OutsideStartAndStop DEF Show, At, controllerVars
  <2> QED
    BY <2>1, <2>2 DEF Goto
<1>6. CASE RunTogglePrimary
  <2>1. CASE ToggleAllowed
    <3>1. /\ pc["worker"] = "idle" /\ UNCHANGED <<resume, controllerVars>>
          /\ Goto("worker", "pushOffset") \/ EnterTick
      BY <1>6, <2>1 DEF RunTogglePrimary, TakeWork, At
    <3>2. Aside
      BY <3>1, OutsideStartAndStop DEF EnterTick, controllerVars
    <3> QED
      BY <3>1, <3>2 DEF EnterTick, Goto
  <2>2. CASE ~ToggleAllowed
    BY <1>6, <2>2 DEF RunTogglePrimary, Aside, controllerVars
  <2> QED
    BY <2>1, <2>2
<1>7. CASE RunCalibrationRequest \/ RunPublish
  BY <1>7 DEF RunCalibrationRequest, RunPublish, Aside, controllerVars
<1>8. CASE TickTimerExpires \/ Press
  BY <1>8 DEF TickTimerExpires, Press, SubmitFromOutside, Aside, controllerVars
<1>9. CASE TogglePushesOffset
  <2>1. Aside
    BY <1>9, OutsideStartAndStop DEF TogglePushesOffset, EnterTick, At, controllerVars
  <2> QED
    BY <1>9, <2>1 DEF TogglePushesOffset, At, EnterTick, Goto
<1> QED
  BY <1>1, <1>2, <1>3, <1>4, <1>5, <1>6, <1>7, <1>8, <1>9 DEF TickStep, Calibrate

LEMMA SessionSteps ==
    ASSUME TypeOK, ResumeKnown, [Next]_vars
    PROVE  /\ SessionStep \/ Aside \/ RunToggleDecontamination
           /\ ResumeKnown'
           /\ MayEnterReads
<1> "app" \in Threads /\ "worker" \in Threads
  BY DEF Threads
<1>1. CASE RunToggleDecontamination
  <2>1. ResumeKnown'
    BY <1>1 DEF RunToggleDecontamination, ResumeKnown
  <2>2. MayEnterReads
    BY <1>1 DEF RunToggleDecontamination, TakeWork, At, Start, Stop, Goto, MayEnterReads,
                ReadLocations, TypeOK, ThreadsTypeOK, Threads
  <2> QED
    BY <1>1, <2>1, <2>2
<1>2. CASE Worker
  BY <1>1, <1>2, ControllerSteps, DisplaySteps, MeasurementSteps DEF Worker, WorkItemStep
<1>3. CASE App
  BY <1>3, ControllerSteps, DisplaySteps, MeasurementSteps DEF App
<1>4. CASE Clock
  BY <1>4, ControllerSteps DEF Clock
<1>5. CASE TickTimerExpires \/ Press
  BY <1>5, MeasurementSteps
<1>6. CASE UNCHANGED vars
  BY <1>6 DEF vars, threadVars, controllerVars, Aside, ResumeKnown, MayEnterReads
<1> QED
  BY <1>2, <1>3, <1>4, <1>5, <1>6 DEF Next

-----------------------------------------------------------------------------

(***************************************************************************)
(* Sessions under any schedule.                                            *)
(***************************************************************************)
LEMMA ResumeInvariant == Spec => [](TypeOK /\ ResumeKnown)
<1>1. TypeOK /\ ResumeKnown /\ [Next]_vars => (TypeOK /\ ResumeKnown)'
  BY StepTyped, SessionSteps
<1> QED
  BY <1>1, InitTyped, InitResume, PTL DEF Spec

LEMMA TimerStep ==
    ASSUME TypeOK, ResumeKnown, SessionHasTimer, [Next]_vars
    PROVE  SessionHasTimer'
<1> pc \in [Threads -> Locations] /\ "app" \in Threads /\ "worker" \in Threads
  BY DEF TypeOK, ThreadsTypeOK, Threads
<1> USE DEF SessionHasTimer, At, Goto
<1>1. CASE Aside
  BY <1>1 DEF Aside, SessionLocations
<1>2. CASE HeaterOn
  BY <1>2 DEF HeaterOn
<1>3. CASE Activate
  BY <1>3 DEF Activate
<1>4. CASE ArmTimer
  BY <1>4 DEF ArmTimer
<1>5. CASE CycleDecide
  BY <1>5 DEF CycleDecide, Stop
<1>6. ASSUME NEW t \in Threads, HeaterOff(t) PROVE SessionHasTimer'
  BY <1>6 DEF HeaterOff
<1>7. ASSUME NEW t \in Threads, Deactivate(t) PROVE SessionHasTimer'
  BY <1>7 DEF Deactivate
<1>8. CASE RunToggleDecontamination
  BY <1>8 DEF RunToggleDecontamination, TakeWork, Start, Stop
<1> QED
  BY <1>1, <1>2, <1>3, <1>4, <1>5, <1>6, <1>7, <1>8, SessionSteps DEF SessionStep

(* An active session never loses the timer that will end it, however the   *)
(* steps of Start, Stop and RunCycle interleave and whatever call fails.   *)
THEOREM SessionKeepsTimer == Spec => []SessionHasTimer
<1>1. Init => SessionHasTimer
  BY DEF Init, ControllerInit, SessionHasTimer
<1> QED
  BY <1>1, TimerStep, ResumeInvariant, PTL DEF Spec

(* Without the maintenance features there are no sessions. *)
SessionsMaintained ==
    ~Maintenance => ~active /\ pc["worker"] \notin {"heaterOn", "activate"}

LEMMA MaintainedStep ==
    ASSUME TypeOK, ResumeKnown, SessionsMaintained, [Next]_vars
    PROVE  SessionsMaintained'
<1> pc \in [Threads -> Locations] /\ "app" \in Threads /\ "worker" \in Threads
  BY DEF TypeOK, ThreadsTypeOK, Threads
<1> USE DEF SessionsMaintained, At, Goto
<1>1. CASE Aside
  BY <1>1 DEF Aside, SessionLocations
<1>2. CASE HeaterOn \/ Activate \/ ArmTimer
  BY <1>2 DEF HeaterOn, Activate, ArmTimer
<1>3. CASE CycleDecide
  BY <1>3 DEF CycleDecide, Stop
<1>4. ASSUME NEW t \in Threads, HeaterOff(t) \/ Deactivate(t) PROVE SessionsMaintained'
  BY <1>4 DEF HeaterOff, Deactivate
<1>5. CASE RunToggleDecontamination
  BY <1>5 DEF RunToggleDecontamination
<1> QED
  BY <1>1, <1>2, <1>3, <1>4, <1>5, SessionSteps DEF SessionStep

LEMMA MaintainedInvariant == Spec => [](TypeOK /\ ResumeKnown /\ SessionsMaintained)
<1>1. Init => SessionsMaintained
  BY DEF Init, ThreadInit, ControllerInit, SessionsMaintained, Threads
<1> QED
  BY <1>1, MaintainedStep, ResumeInvariant, PTL DEF Spec

(* Nothing but TogglePrimary changes the primary sensor. *)
LEMMA PrimaryStep ==
    ASSUME [Next]_vars, primary' # primary
    PROVE  RunTogglePrimary /\ ToggleAllowed
<1> USE DEF measurementVars
<1>1. CASE WorkItemStep
  BY <1>1 DEF WorkItemStep, RunTick, TickStep, ReadPrimaryFails, ReadPrimary,
              ReadSecondaryFails, ReadSecondary, Calibrate, CalibrateNothing,
              CalibrateApplied, CalibrateUnacknowledged, Publish, Show,
              RunTogglePrimary, TogglePushesOffset, RunCalibrationRequest,
              RunToggleDecontamination
<1>2. CASE Worker
  BY <1>1, <1>2 DEF Worker
<1>3. CASE App \/ Clock
  BY <1>3 DEF App, RunPublish, Clock
<1>4. CASE TickTimerExpires \/ Press
  BY <1>4 DEF TickTimerExpires, Press, SubmitFromOutside
<1>5. CASE UNCHANGED vars
  BY <1>5 DEF vars
<1> QED
  BY <1>2, <1>3, <1>4, <1>5 DEF Next

LEMMA OnPrimaryStep ==
    ASSUME TypeOK, ResumeKnown, SessionsMaintained, SessionOnPrimary, [Next]_vars
    PROVE  SessionOnPrimary'
<1> pc \in [Threads -> Locations] /\ "app" \in Threads /\ "worker" \in Threads
  BY DEF TypeOK, ThreadsTypeOK, Threads
<1> USE DEF SessionOnPrimary, At, Goto
<1>0. CASE primary' # primary
  <2>1. RunTogglePrimary /\ ToggleAllowed
    BY <1>0, PrimaryStep
  <2>2. ~active /\ active' = active
    BY <2>1 DEF RunTogglePrimary, ToggleAllowed, SessionsMaintained, controllerVars
  <2>3. pc'["worker"] \in {"idle", "pushOffset", "readPrimary"}
    BY <2>1 DEF RunTogglePrimary, EnterTick
  <2> QED
    BY <2>2, <2>3
<1>1. CASE primary' = primary /\ Aside
  BY <1>1 DEF Aside, SessionLocations
<1>2. CASE primary' = primary /\ (HeaterOn \/ Activate \/ ArmTimer)
  BY <1>2 DEF HeaterOn, Activate, ArmTimer
<1>3. CASE primary' = primary /\ CycleDecide
  BY <1>3 DEF CycleDecide, Stop
<1>4. ASSUME primary' = primary, NEW t \in Threads, HeaterOff(t) \/ Deactivate(t)
      PROVE  SessionOnPrimary'
  BY <1>4 DEF HeaterOff, Deactivate
<1>5. CASE RunToggleDecontamination
  BY <1>5 DEF RunToggleDecontamination, Start, Stop, measurementVars
<1> QED
  BY <1>0, <1>1, <1>2, <1>3, <1>4, <1>5, SessionSteps DEF SessionStep

(* A session runs on the HDC302x as primary sensor from the first command  *)
(* to its heater to the end, whatever requests are queued around it.       *)
THEOREM SessionStaysOnPrimary == Spec => []SessionOnPrimary
<1>1. Init => SessionOnPrimary
  BY DEF Init, ThreadInit, ControllerInit, SessionOnPrimary, Threads
<1> QED
  BY <1>1, OnPrimaryStep, MaintainedInvariant, PTL DEF Spec

-----------------------------------------------------------------------------

(***************************************************************************)
(* The heater, under the priorities of the code and with commands to the   *)
(* heater that take effect.                                                *)
(***************************************************************************)
HeaterObeys == StrictPriority /\ "heater" \notin Faults

(* The strengthening of HeaterSupervised: Stop clears mActive only with    *)
(* the heater off, and a tick that got past its check of mActive reads     *)
(* unheated sensors.                                                       *)
HeaterInvariant ==
    /\ HeaterSupervised
    /\ \A t \in Threads : pc[t] = "deactivate" => ~heater
    /\ pc["worker"] \in ReadLocations => ~heater

LEMMA HeaterStep ==
    ASSUME HeaterObeys, TypeOK, ResumeKnown, SessionsMaintained, HeaterInvariant, [Next]_vars
    PROVE  HeaterInvariant'
<1> pc \in [Threads -> Locations] /\ "app" \in Threads /\ "worker" \in Threads
  BY DEF TypeOK, ThreadsTypeOK, Threads
<1> heater \in BOOLEAN
  BY DEF TypeOK, ControllerTypeOK
<1> USE DEF HeaterInvariant, HeaterSupervised, At, Goto, HeaterObeys, ReadLocations
<1>1. CASE Aside
  <2>1. HeaterSupervised'
    BY <1>1 DEF Aside, SessionLocations
  <2>2. \A t \in Threads : pc'[t] = "deactivate" => ~heater'
    BY <1>1 DEF Aside, SessionLocations
  <2>3. pc'["worker"] \in ReadLocations => ~heater'
    BY <1>1, SessionSteps DEF Aside, MayEnterReads, SessionsMaintained
  <2> QED
    BY <2>1, <2>2, <2>3
<1>2. CASE HeaterOn
  <2>1. pc["app"] # "deactivate"
    BY <1>2 DEF HeaterOn, MayRun, AppWaits, BusLocations
  <2> QED
    BY <1>2, <2>1 DEF HeaterOn, Threads
<1>3. CASE Activate
  BY <1>3 DEF Activate
<1>4. CASE ArmTimer
  BY <1>4 DEF ArmTimer
<1>5. CASE CycleDecide
  BY <1>5 DEF CycleDecide, Stop
<1>6. ASSUME NEW t \in Threads, HeaterOff(t) PROVE HeaterInvariant'
  BY <1>6 DEF HeaterOff
<1>7. ASSUME NEW t \in Threads, Deactivate(t) PROVE HeaterInvariant'
  BY <1>7 DEF Deactivate
<1>8. CASE RunToggleDecontamination
  BY <1>8 DEF RunToggleDecontamination, TakeWork, Start, Stop
<1> QED
  BY <1>1, <1>2, <1>3, <1>4, <1>5, <1>6, <1>7, <1>8, SessionSteps DEF SessionStep

LEMMA HeaterInvariantHolds ==
    ASSUME HeaterObeys
    PROVE  Spec => [](TypeOK /\ ResumeKnown /\ SessionsMaintained /\ HeaterInvariant)
<1>1. Init => HeaterInvariant
  BY DEF Init, ThreadInit, ControllerInit, HeaterInvariant, HeaterSupervised
<1>2. /\ TypeOK /\ ResumeKnown /\ SessionsMaintained /\ HeaterInvariant
      /\ [Next]_vars
      => HeaterInvariant'
  BY HeaterStep
<1> QED
  BY <1>1, <1>2, MaintainedInvariant, PTL DEF Spec

(* The heater is on only under a session: the Stop of one thread and the   *)
(* Start of the other never leave it on with nobody to turn it off.        *)
THEOREM HeaterAlwaysSupervised ==
    ASSUME HeaterObeys
    PROVE  Spec => []HeaterSupervised
<1>1. HeaterInvariant => HeaterSupervised
  BY DEF HeaterInvariant
<1> QED
  BY <1>1, HeaterInvariantHolds, PTL

=============================================================================
