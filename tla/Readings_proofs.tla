--------------------------- MODULE Readings_proofs ---------------------------
(***************************************************************************)
(* What a reading stands for.                                              *)
(*                                                                         *)
(* Under the priorities of the code, and with commands to the heater that  *)
(* take effect, no reading is of the heated sensor.  Under any schedule, a *)
(* reading of the HDC302x was taken under one offset, and the cached       *)
(* offset is that of the device, unless the offset has last been changed   *)
(* by a call that reported a failure.  Without decontaminations, which     *)
(* draw from the app thread too, the panel shows a reading under the name  *)
(* of its sensor, and a calibration offset only under that of the HDC302x. *)
(***************************************************************************)
EXTENDS MeasurementWorker_proofs

(***************************************************************************)
(* Readings of the heated sensor.                                          *)
(***************************************************************************)
QueueUnheated == \A i \in DOMAIN taskQueue : Unheated(taskQueue[i].reading)

LEMMA PostTaskUnheated ==
    ASSUME TypeOK, QueueUnheated, NEW kind, NEW reading, Unheated(reading),
           PostTask(Task(kind, reading))
    PROVE  QueueUnheated'
<1> DEFINE task == Task(kind, reading)
<1>1. task.reading = reading
  BY DEF Task
<1>2. PostTask(task) /\ Unheated(task.reading)
  BY <1>1
<1>3. taskQueue \in Seq(Tasks)
  BY DEF TypeOK, ThreadsTypeOK
<1> HIDE DEF task
<1>4. CASE taskQueue' = Append(taskQueue, task)
  <2>1. \A i \in DOMAIN taskQueue' : taskQueue'[i] = task \/
           (i \in DOMAIN taskQueue /\ taskQueue'[i] = taskQueue[i])
    BY <1>3, <1>4
  <2> QED
    BY <1>2, <2>1 DEF QueueUnheated, Unheated
<1>5. CASE taskQueue' = taskQueue
  BY <1>5 DEF QueueUnheated, Unheated
<1> QED
  BY <1>2, <1>4, <1>5 DEF PostTask

LEMMA TakeTaskUnheated ==
    ASSUME TypeOK, QueueUnheated, NEW kind, TakeTask(kind)
    PROVE  QueueUnheated' /\ Unheated(Head(taskQueue).reading)
<1>1. taskQueue \in Seq(Tasks) /\ taskQueue # <<>> /\ taskQueue' = Tail(taskQueue)
  BY DEF TypeOK, ThreadsTypeOK, TakeTask
<1>2. Head(taskQueue) = taskQueue[1] /\ 1 \in DOMAIN taskQueue
  BY <1>1
<1>3. \A i \in DOMAIN taskQueue' :
         i + 1 \in DOMAIN taskQueue /\ taskQueue'[i] = taskQueue[i + 1]
  BY <1>1
<1> QED
  BY <1>2, <1>3 DEF QueueUnheated, Unheated

LEMMA ReadUnheated ==
    ASSUME TypeOK, ~heater, NEW sensor \in Sensors, NEW channel \in Channel,
           \A s \in Sensors : Unheated(average[s]), Blend(sensor, channel)
    PROVE  /\ \A s \in Sensors : Unheated(average'[s])
           /\ Unheated(ReadingOf(sensor, channel))
<1>1. Unheated(Averaged(sensor))
  <2>1. SampleOf(sensor).heated = (sensor = "hdc" /\ heater)
    BY DEF SampleOf
  <2>2. ~SampleOf(sensor).heated
    BY <2>1
  <2> QED
    BY <2>2 DEF Averaged, Unheated
<1>2. average \in [Sensors -> SUBSET Samples]
  BY DEF TypeOK, MeasurementTypeOK
<1>3. \A s \in Sensors : average'[s] \in {average[s], Averaged(sensor)}
  BY <1>2 DEF Blend
<1>4. Unheated(ReadingOf(sensor, channel))
  BY <1>1 DEF ReadingOf, Unheated
<1> QED
  BY <1>1, <1>3, <1>4

(* The steps that touch readings. *)
LEMMA ReadingSteps ==
    ASSUME [Next]_vars
    PROVE  \/ ReadPrimary \/ ReadSecondary \/ CalibrateApplied \/ Publish \/ Show
           \/ RunPublish
           \/ RunCycle /\ UNCHANGED measurementVars
           \/ Clock
           \/ UNCHANGED <<taskQueue, average, reads, attribute>>
<1> USE DEF measurementVars
<1>1. CASE WorkItemStep
  BY <1>1 DEF WorkItemStep, RunTick, TickStep, ReadPrimaryFails, ReadSecondaryFails,
              Calibrate, CalibrateNothing, CalibrateUnacknowledged,
              RunTogglePrimary, TogglePushesOffset, RunCalibrationRequest,
              RunToggleDecontamination
<1>2. CASE Worker /\ ~WorkItemStep
  BY <1>2 DEF Worker, HeaterOn, Activate, ArmTimer, ShowStart, StopStep, HeaterOff,
              Deactivate, ShowStop, RunDisplayInit, RefreshDisplay, RefreshSkip,
              RefreshBegin, RefreshDraw, DrawMeasurements, DrawStatusBar, RefreshFlush,
              RefreshCommit
<1>3. CASE App
  BY <1>3 DEF App, CycleStep, CycleFetchFails, CycleFetch, CycleShow, CycleDecide,
              StopStep, HeaterOff, Deactivate, ShowStop, RefreshDisplay, RefreshSkip,
              RefreshBegin, RefreshDraw, DrawMeasurements, DrawStatusBar, RefreshFlush,
              RefreshCommit
<1>4. CASE TickTimerExpires \/ Press
  BY <1>4 DEF TickTimerExpires, Press, SubmitFromOutside
<1>5. CASE UNCHANGED vars
  BY <1>5 DEF vars, threadVars
<1> QED
  BY <1>1, <1>2, <1>3, <1>4, <1>5 DEF Next

(* Steps that leave averages, readings and attribute alone. *)
LEMMA QueueStepUnheated ==
    ASSUME NoHeatedReading, UNCHANGED <<average, reads, attribute>>, QueueUnheated'
    PROVE  NoHeatedReading'
BY DEF NoHeatedReading, QueueUnheated, Unheated

LEMMA UnheatedStep ==
    ASSUME TypeOK, HeaterInvariant, NoHeatedReading, [Next]_vars
    PROVE  NoHeatedReading'
<1>q. QueueUnheated
  BY DEF NoHeatedReading, QueueUnheated
<1>u. ASSUME UNCHANGED taskQueue PROVE QueueUnheated'
  BY <1>q, <1>u DEF QueueUnheated, Unheated
<1>n. Unheated({})
  BY DEF Unheated
<1>a. Available \subseteq Sensors
  BY SomeSensor DEF Sensors
<1> USE DEF measurementVars
<1>1. CASE ReadPrimary
  <2>1. PICK channel \in Channel :
          /\ Blend(primary, channel)
          /\ reads' = [reads EXCEPT !.primary = ReadingOf(primary, channel)]
    BY <1>1 DEF ReadPrimary
  <2>2. primary \in Sensors /\ ~heater
    BY <1>1, <1>a DEF TypeOK, MeasurementTypeOK, ReadPrimary, At, HeaterInvariant, ReadLocations
  <2>3. /\ \A s \in Sensors : Unheated(average'[s])
        /\ Unheated(ReadingOf(primary, channel))
    BY <2>1, <2>2, ReadUnheated DEF NoHeatedReading
  <2>4. reads'.primary = ReadingOf(primary, channel) /\ reads'.secondary = reads.secondary
    BY <2>1 DEF TypeOK, MeasurementTypeOK
  <2>5. UNCHANGED <<taskQueue, attribute>>
    BY <1>1 DEF ReadPrimary
  <2> QED
    BY <1>u, <2>3, <2>4, <2>5 DEF NoHeatedReading, QueueUnheated, Unheated
<1>2. CASE ReadSecondary
  <2>1. PICK channel \in Channel :
          /\ Blend(secondary, channel)
          /\ reads' = [reads EXCEPT !.secondary = ReadingOf(secondary, channel)]
    BY <1>2 DEF ReadSecondary
  <2>2. secondary \in Sensors /\ ~heater
    BY <1>2, <1>a DEF TypeOK, MeasurementTypeOK, ReadSecondary, At, HeaterInvariant, ReadLocations
  <2>3. /\ \A s \in Sensors : Unheated(average'[s])
        /\ Unheated(ReadingOf(secondary, channel))
    BY <2>1, <2>2, ReadUnheated DEF NoHeatedReading
  <2>4. reads'.secondary = ReadingOf(secondary, channel) /\ reads'.primary = reads.primary
    BY <2>1 DEF TypeOK, MeasurementTypeOK
  <2>5. UNCHANGED <<taskQueue, attribute>>
    BY <1>2 DEF ReadSecondary
  <2> QED
    BY <1>u, <2>3, <2>4, <2>5 DEF NoHeatedReading, QueueUnheated, Unheated
<1>3. CASE CalibrateApplied
  <2>1. \A s \in Sensors : average'[s] \in {average[s], {}}
    BY <1>3 DEF CalibrateApplied, AverageRestarted, TypeOK, MeasurementTypeOK
  <2>2. UNCHANGED <<taskQueue, reads, attribute>>
    BY <1>3 DEF CalibrateApplied
  <2> QED
    BY <1>n, <1>u, <2>1, <2>2 DEF NoHeatedReading, QueueUnheated, Unheated
<1>4. CASE Publish
  <2>1. QueueUnheated'
    BY <1>4, <1>q, PostTaskUnheated DEF Publish, NoHeatedReading
  <2> QED
    BY <1>4, <2>1, QueueStepUnheated DEF Publish
<1>5. CASE Show
  <2>1. reads'.primary = {} /\ reads'.secondary = {}
    BY <1>5 DEF Show, NoReads
  <2>2. UNCHANGED <<taskQueue, average, attribute>>
    BY <1>5 DEF Show
  <2> QED
    BY <1>n, <1>u, <2>1, <2>2 DEF NoHeatedReading, QueueUnheated, Unheated
<1>6. CASE RunPublish
  <2>1. QueueUnheated' /\ Unheated(Head(taskQueue).reading)
    BY <1>6, <1>q, TakeTaskUnheated DEF RunPublish
  <2>2. attribute' \in {Head(taskQueue).reading, {}, attribute} /\ UNCHANGED <<average, reads>>
    BY <1>6 DEF RunPublish
  <2> QED
    BY <1>n, <2>1, <2>2 DEF NoHeatedReading, QueueUnheated, Unheated
<1>7. CASE RunCycle /\ UNCHANGED measurementVars
  <2>1. QueueUnheated'
    BY <1>7, <1>q, TakeTaskUnheated DEF RunCycle
  <2> QED
    BY <1>7, <2>1, QueueStepUnheated
<1>8. CASE Clock
  <2>1. QueueUnheated'
    BY <1>8, <1>q, <1>n, <1>u, PostTaskUnheated DEF Clock, TimePasses
  <2> QED
    BY <1>8, <2>1, QueueStepUnheated DEF Clock
<1>9. ASSUME UNCHANGED <<taskQueue, average, reads, attribute>> PROVE NoHeatedReading'
  BY <1>9, <1>u, QueueStepUnheated
<1> QED
  BY <1>1, <1>2, <1>3, <1>4, <1>5, <1>6, <1>7, <1>8, <1>9, ReadingSteps

(* No sample of the heated sensor gets into a moving average, the queue of *)
(* readings or the Matter cluster, in any configuration.                   *)
THEOREM HeatedReadingsKeptOut ==
    ASSUME HeaterObeys
    PROVE  Spec => []NoHeatedReading
<1>1. Init => NoHeatedReading
  BY DEF Init, ThreadInit, NoReads, NoHeatedReading, Unheated
<1>2. TypeOK /\ HeaterInvariant /\ NoHeatedReading /\ [Next]_vars => NoHeatedReading'
  BY UnheatedStep
<1> QED
  BY <1>1, <1>2, HeaterInvariantHolds, PTL DEF Spec

-----------------------------------------------------------------------------
(***************************************************************************)
(* The two threads implement HeaterInterlock.                              *)
(***************************************************************************)
Sampling == pc["worker"] \in ReadLocations

(* The pieces of Readings, one by one. *)
InReadings(sample) ==
    \/ \E s \in Sensors : sample \in average[s]
    \/ sample \in reads.primary
    \/ sample \in reads.secondary
    \/ sample \in attribute
    \/ \E i \in DOMAIN taskQueue : sample \in taskQueue[i].reading

LEMMA ReadingsMembers ==
    ASSUME NEW sample
    PROVE  /\ sample \in Readings <=> InReadings(sample)
           /\ (sample \in Readings)' <=> InReadings(sample)'
BY DEF Readings, InReadings

(* NoHeatedReading, in terms of Readings. *)
ReadingsCold == \A sample \in Readings : sample.heated = FALSE

LEMMA ReadingsAreCold == TypeOK /\ NoHeatedReading => ReadingsCold
<1> SUFFICES ASSUME TypeOK, NoHeatedReading PROVE ReadingsCold
  OBVIOUS
<1>1. Readings \subseteq Samples
  <2>1. \A i \in DOMAIN taskQueue : taskQueue[i].reading \subseteq Samples
    <3>1. taskQueue \in Seq(Tasks)
      BY DEF TypeOK, ThreadsTypeOK
    <3>2. \A i \in DOMAIN taskQueue : taskQueue[i] \in Tasks
      BY <3>1
    <3> QED
      BY <3>2 DEF Tasks
  <2> QED
    BY <2>1, ReadingsMembers DEF InReadings, TypeOK, MeasurementTypeOK
<1>2. \A sample \in Readings : ~sample.heated
  BY ReadingsMembers DEF NoHeatedReading, InReadings, Unheated
<1>3. \A sample \in Readings : sample.heated \in BOOLEAN
  BY <1>1 DEF Samples
<1> QED
  BY <1>2, <1>3 DEF ReadingsCold

(* Neither queue operation makes up a reading. *)
LEMMA PostTaskReadings ==
    ASSUME TypeOK, NEW kind, NEW reading, PostTask(Task(kind, reading))
    PROVE  \A i \in DOMAIN taskQueue' :
              \/ taskQueue'[i].reading = reading
              \/ \E j \in DOMAIN taskQueue : taskQueue'[i] = taskQueue[j]
<1> DEFINE task == Task(kind, reading)
<1>1. task.reading = reading
  BY DEF Task
<1>2. PostTask(task)
  OBVIOUS
<1>3. taskQueue \in Seq(Tasks)
  BY DEF TypeOK, ThreadsTypeOK
<1> HIDE DEF task
<1>4. CASE taskQueue' = Append(taskQueue, task)
  <2>1. \A i \in DOMAIN taskQueue' : taskQueue'[i] = task \/
           (i \in DOMAIN taskQueue /\ taskQueue'[i] = taskQueue[i])
    BY <1>3, <1>4
  <2> QED
    BY <1>1, <2>1
<1>5. CASE taskQueue' = taskQueue
  BY <1>5
<1> QED
  BY <1>2, <1>4, <1>5 DEF PostTask

LEMMA TakeTaskReadings ==
    ASSUME TypeOK, NEW kind, TakeTask(kind)
    PROVE  /\ \A i \in DOMAIN taskQueue' :
                 \E j \in DOMAIN taskQueue : taskQueue'[i] = taskQueue[j]
           /\ \E j \in DOMAIN taskQueue : Head(taskQueue) = taskQueue[j]
<1>1. taskQueue \in Seq(Tasks) /\ taskQueue # <<>> /\ taskQueue' = Tail(taskQueue)
  BY DEF TypeOK, ThreadsTypeOK, TakeTask
<1>2. Head(taskQueue) = taskQueue[1] /\ 1 \in DOMAIN taskQueue
  BY <1>1
<1>3. \A i \in DOMAIN taskQueue' :
         i + 1 \in DOMAIN taskQueue /\ taskQueue'[i] = taskQueue[i + 1]
  BY <1>1
<1> QED
  BY <1>2, <1>3

(* Readings come from the reads of a tick alone. *)
LEMMA ReadingsShrink ==
    ASSUME TypeOK, [Next]_vars, ~ReadPrimary, ~ReadSecondary
    PROVE  Readings' \subseteq Readings
<1> SUFFICES ASSUME NEW sample, InReadings(sample)'
             PROVE  InReadings(sample)
  BY ReadingsMembers
<1> USE DEF InReadings, measurementVars
<1>1. CASE CalibrateApplied
  <2>1. \A s \in Sensors : average'[s] \in {average[s], {}}
    BY <1>1 DEF CalibrateApplied, AverageRestarted, TypeOK, MeasurementTypeOK
  <2> QED
    BY <1>1, <2>1 DEF CalibrateApplied
<1>2. CASE Publish
  BY <1>2, PostTaskReadings DEF Publish
<1>3. CASE Show
  BY <1>3 DEF Show, NoReads
<1>4. CASE RunPublish
  BY <1>4, TakeTaskReadings DEF RunPublish
<1>5. CASE RunCycle /\ UNCHANGED measurementVars
  BY <1>5, TakeTaskReadings DEF RunCycle
<1>6. CASE Clock
  <2>1. UNCHANGED taskQueue \/ PostTask(Task("cycle", {}))
    BY <1>6 DEF Clock, TimePasses
  <2> QED
    BY <1>6, <2>1, PostTaskReadings DEF Clock
<1>7. CASE UNCHANGED <<taskQueue, average, reads, attribute>>
  BY <1>7
<1> QED
  BY <1>1, <1>2, <1>3, <1>4, <1>5, <1>6, <1>7, ReadingSteps

LEMMA AttributeKept ==
    ASSUME [Next]_vars, ~RunPublish
    PROVE  UNCHANGED attribute
BY ReadingSteps
   DEF ReadPrimary, ReadSecondary, CalibrateApplied, Publish, Show, Clock, measurementVars

LEMMA AttributeReported ==
    ASSUME TypeOK, RunPublish
    PROVE  attribute' \subseteq Readings
<1>1. attribute' \in {{}, attribute} \/ \E j \in DOMAIN taskQueue : attribute' = taskQueue[j].reading
  BY TakeTaskReadings DEF RunPublish
<1> QED
  BY <1>1, ReadingsMembers DEF InReadings

(* The steps that switch the heater. *)
LEMMA HeaterSwitched ==
    ASSUME TypeOK, ResumeKnown, [Next]_vars, heater' # heater
    PROVE  /\ UNCHANGED <<taskQueue, average, reads, attribute, Sampling>>
           /\ heater' => ~Sampling
<1> pc \in [Threads -> Locations] /\ "app" \in Threads /\ "worker" \in Threads
  BY DEF TypeOK, ThreadsTypeOK, Threads
<1>1. UNCHANGED <<taskQueue, average, reads, attribute>>
  BY ReadingSteps
     DEF ReadPrimary, ReadSecondary, CalibrateApplied, Publish, Show, RunPublish,
         RunCycle, Clock, TimePasses, controllerVars
<1>2. HeaterOn \/ \E t \in Threads : HeaterOff(t)
  BY SessionSteps
     DEF SessionStep, Aside, Activate, ArmTimer, CycleDecide, Deactivate,
         RunToggleDecontamination
<1>3. CASE HeaterOn
  BY <1>1, <1>3 DEF HeaterOn, At, Goto, Sampling, ReadLocations
<1>4. ASSUME NEW t \in Threads, HeaterOff(t) PROVE UNCHANGED Sampling
  BY <1>4 DEF HeaterOff, At, Goto, Sampling, ReadLocations
<1>5. ASSUME NEW t \in Threads, HeaterOff(t) PROVE heater' = FALSE
  BY <1>5 DEF HeaterOff, TypeOK, ControllerTypeOK
<1> QED
  BY <1>1, <1>2, <1>3, <1>4, <1>5

(* The steps that begin the reads of a tick. *)
LEMMA TickBegun ==
    ASSUME TypeOK, ResumeKnown, SessionsMaintained, HeaterInvariant, [Next]_vars,
           Sampling', ~Sampling
    PROVE  ~heater /\ UNCHANGED <<taskQueue, average, reads, attribute, heater>>
<1> pc \in [Threads -> Locations] /\ "app" \in Threads /\ "worker" \in Threads
  BY DEF TypeOK, ThreadsTypeOK, Threads
<1>1. pc["worker"] \in {"idle", "pushOffset"} /\ ~(Maintenance /\ active)
  BY SessionSteps DEF MayEnterReads, Sampling
<1>2. ~heater
  BY <1>1 DEF SessionsMaintained, HeaterInvariant, HeaterSupervised
<1>3. UNCHANGED heater
  BY HeaterSwitched
<1>4. UNCHANGED <<taskQueue, average, reads, attribute>>
  BY <1>1, ReadingSteps
     DEF ReadPrimary, ReadSecondary, CalibrateApplied, Publish, Show, RunPublish,
         RunCycle, Clock, TimePasses, At, Goto, Sampling, ReadLocations
<1> QED
  BY <1>2, <1>3, <1>4

LEMMA InterlockInit == Init => Interlock!Init
<1> SUFFICES ASSUME Init PROVE Interlock!Init
  OBVIOUS
<1>1. \A sample : ~InReadings(sample)
  BY DEF Init, ThreadInit, NoReads, InReadings
<1>2. Readings = {}
  BY <1>1, ReadingsMembers
<1> QED
  BY <1>2 DEF Init, ThreadInit, ControllerInit, Interlock!Init, Threads

LEMMA InterlockStep ==
    ASSUME HeaterObeys, TypeOK, ResumeKnown, SessionsMaintained, HeaterInvariant,
           ReadingsCold', [Next]_vars
    PROVE  [Interlock!Next]_(Interlock!interlockVars)
<1> DEFINE collected == {sample.heated : sample \in Readings}
           published == {sample.heated : sample \in attribute}
<1> heater \in BOOLEAN /\ heater' \in BOOLEAN
  BY StepTyped DEF TypeOK, ControllerTypeOK
<1> USE DEF Sampling, ReadLocations
<1>1. collected' \subseteq {FALSE}
  BY DEF ReadingsCold
<1>2. Readings' \subseteq Readings => collected' \subseteq collected
  OBVIOUS
<1>3. UNCHANGED attribute => UNCHANGED published
  OBVIOUS
<1>4. UNCHANGED <<taskQueue, average, reads, attribute>> => UNCHANGED collected
  BY DEF Readings
<1>5. CASE heater' # heater
  <2>1. UNCHANGED <<collected, published, Sampling>> /\ (heater' => ~Sampling)
    BY <1>3, <1>4, <1>5, HeaterSwitched
  <2>2. CASE heater' = TRUE
    BY <2>1, <2>2 DEF Interlock!Next, Interlock!SwitchOn
  <2>3. CASE heater' = FALSE
    BY <2>1, <2>3 DEF Interlock!Next, Interlock!SwitchOff
  <2> QED
    BY <2>2, <2>3
<1>6. CASE UNCHANGED heater /\ Sampling' /\ ~Sampling
  <2>1. ~heater /\ UNCHANGED <<collected, published>>
    BY <1>3, <1>4, <1>6, TickBegun
  <2> QED
    BY <1>6, <2>1 DEF Interlock!Next, Interlock!BeginTick
<1>7. CASE UNCHANGED heater /\ Sampling /\ ~RunPublish
  <2>1. ~heater
    BY <1>7 DEF HeaterInvariant
  <2>2. collected' \in SUBSET (collected \cup {heater})
    BY <1>1, <2>1
  <2>3. UNCHANGED published
    BY <1>3, <1>7, AttributeKept
  <2> QED
    BY <1>7, <2>2, <2>3 DEF Interlock!Next, Interlock!Measure
<1>8. CASE UNCHANGED heater /\ ~Sampling /\ ~Sampling' /\ ~RunPublish
  <2>1. ~ReadPrimary /\ ~ReadSecondary
    BY <1>8 DEF ReadPrimary, ReadSecondary, At
  <2>2. collected' \in SUBSET collected
    BY <1>2, <2>1, ReadingsShrink
  <2>3. UNCHANGED published
    BY <1>3, <1>8, AttributeKept
  <2> QED
    BY <1>8, <2>2, <2>3 DEF Interlock!Next, Interlock!Forget
<1>9. CASE RunPublish
  <2>1. UNCHANGED <<heater, pc>> /\ ~ReadPrimary /\ ~ReadSecondary
    <3>1. UNCHANGED <<heater, pc, average, reads>>
      BY <1>9 DEF RunPublish, controllerVars
    <3>2. pc \in [Threads -> Locations] /\ "worker" \in Threads
      BY DEF TypeOK, ThreadsTypeOK, Threads
    <3> QED
      BY <3>1, <3>2 DEF ReadPrimary, ReadSecondary, AfterReads, Goto, At
  <2>2. collected' \in SUBSET collected
    BY <1>2, <2>1, ReadingsShrink
  <2>3. published' \in SUBSET collected
    BY <1>9, AttributeReported
  <2> QED
    BY <2>1, <2>2, <2>3 DEF Interlock!Next, Interlock!Report
<1> QED
  BY <1>5, <1>6, <1>7, <1>8, <1>9

(* The worker and the app thread together keep the interlock between the   *)
(* heater and the ticks: every step is one of HeaterInterlock's, or none.  *)
THEOREM InterlockImplemented ==
    ASSUME HeaterObeys
    PROVE  Spec => ImplementsInterlock
<1>1. /\ TypeOK /\ ResumeKnown /\ SessionsMaintained /\ HeaterInvariant
      /\ ReadingsCold' /\ [Next]_vars
      => [Interlock!Next]_(Interlock!interlockVars)
  BY InterlockStep
<1>2. TypeOK /\ NoHeatedReading => ReadingsCold
  BY ReadingsAreCold
<1> QED
  BY <1>1, <1>2, InterlockInit, HeaterInvariantHolds, HeatedReadingsKeptOut, PTL
     DEF Spec, ImplementsInterlock, Interlock!Spec

-----------------------------------------------------------------------------

(***************************************************************************)
(* The offset of the HDC302x.                                              *)
(***************************************************************************)
(* Nothing but a calibration changes the offset. *)
LEMMA OffsetStep ==
    ASSUME [Next]_vars
    PROVE  CalibrateApplied \/ CalibrateUnacknowledged
           \/ UNCHANGED <<epoch, cachedOffset, unnoticed>>
<1> USE DEF measurementVars
<1>1. CASE WorkItemStep
  BY <1>1
     DEF WorkItemStep, RunTick, TickStep, ReadPrimaryFails, ReadPrimary,
         ReadSecondaryFails, ReadSecondary, Calibrate, CalibrateNothing,
         Publish, Show, RunTogglePrimary, TogglePushesOffset, RunCalibrationRequest,
         RunToggleDecontamination
<1>2. CASE Worker
  BY <1>1, <1>2 DEF Worker
<1>3. CASE App \/ Clock
  BY <1>3 DEF App, RunPublish, Clock
<1>4. CASE TickTimerExpires \/ Press
  BY <1>4 DEF TickTimerExpires, Press, SubmitFromOutside
<1>5. CASE UNCHANGED vars
  BY <1>5 DEF vars
<1> QED
  BY <1>2, <1>3, <1>4, <1>5 DEF Next

-----------------------------------------------------------------------------

LEMMA BlendUnderOneOffset ==
    ASSUME TypeOK, AverageUnderOneOffset, UNCHANGED <<epoch, unnoticed>>,
           NEW sensor \in Sensors, NEW channel \in Channel, Blend(sensor, channel)
    PROVE  AverageUnderOneOffset'
<1>1. average \in [Sensors -> SUBSET Samples] /\ "hdc" \in Sensors
  BY DEF TypeOK, MeasurementTypeOK, Sensors
<1>2. \/ average'["hdc"] = average["hdc"]
      \/ sensor = "hdc" /\ average'["hdc"] = Averaged("hdc")
  BY <1>1 DEF Blend
<1>3. SampleOf("hdc").epoch = epoch
  BY DEF SampleOf
<1> QED
  BY <1>2, <1>3 DEF AverageUnderOneOffset, Averaged

LEMMA OneOffsetStep ==
    ASSUME TypeOK, AverageUnderOneOffset, [Next]_vars
    PROVE  AverageUnderOneOffset'
<1>a. Available \subseteq Sensors /\ "hdc" \in Sensors
  BY SomeSensor DEF Sensors
<1>1. CASE CalibrateApplied
  <2>1. average'["hdc"] = {}
    BY <1>1, <1>a DEF CalibrateApplied, AverageRestarted, TypeOK, MeasurementTypeOK
  <2> QED
    BY <2>1 DEF AverageUnderOneOffset
<1>2. CASE ReadPrimary
  <2>1. primary \in Sensors
    BY <1>a DEF TypeOK, MeasurementTypeOK
  <2> QED
    BY <1>2, <2>1, BlendUnderOneOffset DEF ReadPrimary
<1>3. CASE ReadSecondary
  <2>1. secondary \in Sensors
    BY <1>3, <1>a DEF TypeOK, MeasurementTypeOK, ReadSecondary
  <2> QED
    BY <1>3, <2>1, BlendUnderOneOffset DEF ReadSecondary
<1>4. CASE CalibrateUnacknowledged
  BY <1>4 DEF CalibrateUnacknowledged, AverageUnderOneOffset
<1>5. ASSUME UNCHANGED average, UNCHANGED <<epoch, unnoticed>> PROVE AverageUnderOneOffset'
  BY <1>5 DEF AverageUnderOneOffset
<1>6. UNCHANGED average \/ ReadPrimary \/ ReadSecondary \/ CalibrateApplied
  BY ReadingSteps DEF Publish, Show, RunPublish, Clock, measurementVars
<1> QED
  BY <1>1, <1>2, <1>3, <1>4, <1>5, <1>6, OffsetStep

(* The moving average of the HDC302x never blends samples taken under      *)
(* different offsets: Apply is followed by humidityAverage.reset().  After *)
(* an offset that took effect unnoticed this holds again from the next     *)
(* calibration on.                                                         *)
THEOREM AverageNeverSpansOffsets == Spec => []AverageUnderOneOffset
<1>1. Init => AverageUnderOneOffset
  BY DEF Init, AverageUnderOneOffset, Sensors
<1>2. TypeOK /\ AverageUnderOneOffset /\ [Next]_vars => AverageUnderOneOffset'
  BY OneOffsetStep
<1> QED
  BY <1>1, <1>2, TypeCorrectness, PTL DEF Spec

-----------------------------------------------------------------------------

(* Without a display nothing is cached, so nothing grows stale. *)
CacheInvariant == CachedOffsetFresh /\ (~Display => cachedOffset = NoOffset)

LEMMA CacheStep ==
    ASSUME CacheInvariant, [Next]_vars
    PROVE  CacheInvariant'
<1>1. CASE CalibrateApplied
  BY <1>1 DEF CalibrateApplied, OffsetRead, CacheInvariant, CachedOffsetFresh
<1>2. CASE CalibrateUnacknowledged
  BY <1>2 DEF CalibrateUnacknowledged, CacheInvariant, CachedOffsetFresh
<1>3. CASE UNCHANGED <<epoch, cachedOffset, unnoticed>>
  BY <1>3 DEF CacheInvariant, CachedOffsetFresh
<1> QED
  BY <1>1, <1>2, <1>3, OffsetStep

(* The offset that a toggle would show is the one the HDC302x applies,     *)
(* with the same exception.                                                *)
THEOREM CacheStaysFresh == Spec => []CachedOffsetFresh
<1>1. Init => CacheInvariant
  BY DEF Init, OffsetRead, CacheInvariant, CachedOffsetFresh
<1>2. CacheInvariant /\ [Next]_vars => CacheInvariant'
  BY CacheStep
<1>3. CacheInvariant => CachedOffsetFresh
  BY DEF CacheInvariant
<1> QED
  BY <1>1, <1>2, <1>3, PTL DEF Spec

-----------------------------------------------------------------------------

(***************************************************************************)
(* Without requests for a decontamination the app thread leaves the        *)
(* display alone, and the worker never enters Start or Stop.               *)
(***************************************************************************)
NoDecontamination == "decon" \notin Buttons

QuietLocations ==
    {"idle", "readPrimary", "readSecondary", "calibrate", "publish", "show",
     "pushOffset", "refresh", "drawMeasurements", "drawStatusBar", "flush", "commit"}

Quiet ==
    /\ ~active
    /\ ~Queued("decon")
    /\ pc["app"] = "idle"
    /\ pc["worker"] \in QuietLocations

LEMMA SubmitQuiet ==
    ASSUME TypeOK, ~Queued("decon"), NEW item, item # "decon", Submit(item)
    PROVE  ~Queued("decon")'
<1>1. workQueue \in Seq(WorkItems)
  BY DEF TypeOK, ThreadsTypeOK
<1>2. CASE workQueue' = Append(workQueue, item)
  <2>1. \A i \in DOMAIN workQueue' : workQueue'[i] = item \/
           (i \in DOMAIN workQueue /\ workQueue'[i] = workQueue[i])
    BY <1>1, <1>2
  <2> QED
    BY <2>1 DEF Queued
<1>3. CASE workQueue' = workQueue
  BY <1>3 DEF Queued
<1> QED
  BY <1>2, <1>3 DEF Submit

LEMMA TakeWorkQuiet ==
    ASSUME TypeOK, ~Queued("decon"), NEW item, TakeWork(item)
    PROVE  ~Queued("decon")' /\ item # "decon"
<1>1. /\ workQueue \in Seq(WorkItems) /\ workQueue # <<>>
      /\ workQueue' = Tail(workQueue) /\ Head(workQueue) = item
  BY DEF TypeOK, ThreadsTypeOK, TakeWork
<1>2. item = workQueue[1] /\ 1 \in DOMAIN workQueue
  BY <1>1
<1>3. \A i \in DOMAIN workQueue' :
         i + 1 \in DOMAIN workQueue /\ workQueue'[i] = workQueue[i + 1]
  BY <1>1
<1> QED
  BY <1>2, <1>3 DEF Queued

(* The steps that a quiet system takes. *)
QuietWork ==
    \/ RunTick \/ TickStep
    \/ RunTogglePrimary \/ TogglePushesOffset \/ RunCalibrationRequest
    \/ (RunDisplayInit \/ RefreshDisplay("worker"))
          /\ UNCHANGED <<controllerVars, measurementVars>>

QuietElsewhere ==
    /\ RunPublish \/ RunCycle \/ TimePasses \/ TickTimerExpires \/ Press
    /\ UNCHANGED <<displayVars, active, primary, secondary>>
    /\ UNCHANGED pc \/ (RunCycle /\ ~active)

LEMMA QuietSteps ==
    ASSUME TypeOK, Quiet, Next
    PROVE  QuietWork \/ QuietElsewhere
<1>1. CASE Worker
  <2>1. ~RunToggleDecontamination
    BY TakeWorkQuiet DEF RunToggleDecontamination, Quiet
  <2>2. ~(HeaterOn \/ Activate \/ ArmTimer \/ ShowStart \/ StopStep("worker"))
    BY DEF HeaterOn, Activate, ArmTimer, ShowStart, StopStep, HeaterOff, Deactivate,
           ShowStop, At, Quiet, QuietLocations
  <2> QED
    BY <1>1, <2>1, <2>2 DEF Worker, WorkItemStep, QuietWork
<1>2. CASE App
  <2>1. ~(CycleStep \/ StopStep("app") \/ RefreshDisplay("app"))
    BY DEF CycleStep, CycleFetchFails, CycleFetch, CycleShow, CycleDecide,
           StopStep, HeaterOff, Deactivate, ShowStop, RefreshDisplay, RefreshSkip,
           RefreshBegin, RefreshDraw, DrawMeasurements, DrawStatusBar, RefreshFlush,
           RefreshCommit, At, Quiet
  <2> QED
    BY <1>2, <2>1 DEF App, RunPublish, RunCycle, controllerVars, measurementVars,
                      Quiet, QuietElsewhere
<1>3. CASE Clock
  BY <1>3 DEF Clock, TimePasses, measurementVars, QuietElsewhere
<1>4. CASE TickTimerExpires \/ Press
  BY <1>4 DEF TickTimerExpires, Press, SubmitFromOutside, controllerVars,
              measurementVars, QuietElsewhere
<1> QED
  BY <1>1, <1>2, <1>3, <1>4 DEF Next

LEMMA QuietElsewhereStep ==
    ASSUME NoDecontamination, TypeOK, Quiet, QuietElsewhere
    PROVE  Quiet' /\ pc'["worker"] = pc["worker"]
<1>1. pc' ["worker"] = pc["worker"] /\ pc'["app"] = "idle"
  BY DEF QuietElsewhere, RunCycle, Goto, Quiet, TypeOK, ThreadsTypeOK, Threads
<1>2. ~Queued("decon")'
  <2>1. CASE TickTimerExpires
    BY <2>1, SubmitQuiet DEF TickTimerExpires, SubmitFromOutside, Quiet
  <2>2. CASE Press
    BY <2>2, SubmitQuiet DEF Press, SubmitFromOutside, Quiet, NoDecontamination
  <2>3. CASE UNCHANGED workQueue
    BY <2>3 DEF Queued, Quiet
  <2> QED
    BY <2>1, <2>2, <2>3 DEF QuietElsewhere, RunPublish, RunCycle, TimePasses
<1> QED
  BY <1>1, <1>2 DEF Quiet, QuietElsewhere

LEMMA QuietWorkStep ==
    ASSUME TypeOK, Quiet, ResumeKnown, QuietWork
    PROVE  Quiet'
<1>p. pc \in [Threads -> Locations] /\ Threads = {"worker", "app"}
  BY DEF TypeOK, ThreadsTypeOK, Threads
<1>1. ~Queued("decon")'
  <2>1. CASE \E item : TakeWork(item)
    BY <2>1, TakeWorkQuiet DEF Quiet
  <2>2. CASE UNCHANGED workQueue
    BY <2>2 DEF Queued, Quiet
  <2> QED
    BY <2>1, <2>2
       DEF QuietWork, RunTick, TickStep, ReadPrimaryFails, ReadPrimary,
           ReadSecondaryFails, ReadSecondary, Calibrate, CalibrateNothing,
           CalibrateApplied, CalibrateUnacknowledged, Publish, Show, RunTogglePrimary,
           TogglePushesOffset, RunCalibrationRequest, RunDisplayInit, RefreshDisplay, RefreshSkip,
           RefreshBegin, RefreshDraw, DrawMeasurements, DrawStatusBar, RefreshFlush,
           RefreshCommit
<1>2. UNCHANGED active
  BY DEF QuietWork, RunTick, TickStep, ReadPrimaryFails, ReadPrimary,
         ReadSecondaryFails, ReadSecondary, Calibrate, CalibrateNothing,
         CalibrateApplied, CalibrateUnacknowledged, Publish, Show, RunTogglePrimary,
         TogglePushesOffset, RunCalibrationRequest, controllerVars
<1>3. UNCHANGED pc \/ \E location \in QuietLocations : Goto("worker", location)
  <2> USE DEF QuietLocations
  <2>1. CASE \/ RunTick \/ RunTogglePrimary \/ TogglePushesOffset
             \/ RunCalibrationRequest \/ RunDisplayInit
    BY <2>1 DEF RunTick, RunTogglePrimary, TogglePushesOffset, RunCalibrationRequest,
                RunDisplayInit, EnterTick
  <2>2. CASE TickStep /\ ~Show
    BY <2>2 DEF TickStep, ReadPrimaryFails, ReadPrimary, ReadSecondaryFails,
                ReadSecondary, Calibrate, CalibrateNothing, CalibrateApplied,
                CalibrateUnacknowledged, Publish, AfterReads
  <2>3. CASE Show
    BY <2>3 DEF Show, ShowAndRefresh
  <2>4. CASE RefreshDisplay("worker")
    BY <2>4 DEF RefreshDisplay, RefreshSkip, RefreshBegin, RefreshDraw, DrawMeasurements,
                DrawStatusBar, RefreshFlush, RefreshCommit, RefreshReturns, ResumeKnown
  <2> QED
    BY <2>1, <2>2, <2>3, <2>4 DEF QuietWork
<1>4. pc'["app"] = "idle" /\ pc'["worker"] \in QuietLocations
  BY <1>p, <1>3 DEF Goto, Quiet
<1> QED
  BY <1>1, <1>2, <1>4 DEF Quiet

LEMMA QuietStep ==
    ASSUME NoDecontamination, TypeOK, ResumeKnown, Quiet, [Next]_vars
    PROVE  Quiet'
<1>1. CASE Next
  BY <1>1, QuietSteps, QuietElsewhereStep, QuietWorkStep
<1>2. CASE UNCHANGED vars
  BY <1>2 DEF vars, threadVars, controllerVars, Quiet, Queued
<1> QED
  BY <1>1, <1>2

-----------------------------------------------------------------------------

(***************************************************************************)
(* What may be shown together.  What is wanted on the panel need not be    *)
(* consistent all the time, TogglePrimary names the new sensor before it   *)
(* is read and before its offset is known, but it is whenever the worker   *)
(* is inside RefreshDisplay.                                               *)
(***************************************************************************)
OneSource(content) ==
    /\ content.meas \in {NoSource, content.name}
    /\ content.meas = NoSource \/ content.meas # content.sec
    /\ content.offset # NoOffset => content.name = "hdc"

RefreshLocations == {"refresh", "drawMeasurements", "drawStatusBar", "flush", "commit"}

WantedInvariant ==
    /\ secondary # primary
    /\ Display => cur.name = primary
    /\ pc["worker"] = "pushOffset" => Display
    /\ cur.offset # NoOffset => cur.name = "hdc" \/ pc["worker"] = "pushOffset"
    /\ secondary = "none" => cur.sec = NoSource

PanelInvariant ==
    /\ OneSource(panel)
    /\ pc["worker"] \in RefreshLocations => OneSource(cur)
    /\ pc["worker"] = "drawStatusBar" => labels.meas = cur.meas
    /\ pc["worker"] = "flush" => labels = cur
    /\ IF pc["worker"] = "commit" THEN panel = cur ELSE panel = last

DisplayInvariant == Quiet /\ WantedInvariant /\ PanelInvariant

LEMMA InitDisplay == Init => DisplayInvariant
<1> SUFFICES ASSUME Init PROVE DisplayInvariant
  OBVIOUS
<1>1. pc["worker"] = "idle" /\ pc["app"] = "idle"
  BY DEF Init, ThreadInit, Threads
<1>2. Quiet
  BY <1>1 DEF Init, ThreadInit, ControllerInit, Quiet, QuietLocations, Queued
<1>3. last = Blank /\ panel = Blank
  BY DEF Init, DisplayInit
<1>4. PanelInvariant
  BY <1>1, <1>3 DEF PanelInvariant, RefreshLocations, OneSource, Blank, NoSource, NoOffset
<1>5. secondary # primary
  BY SomeSensor DEF Init, Present
<1>6. CASE Display
  <2>1. cur = PushOffset(SetPrimarySensorName(Blank, primary), primary, cachedOffset)
    BY <1>6 DEF Init, DisplayInit
  <2> QED
    BY <1>1, <1>2, <1>4, <1>5, <2>1
       DEF DisplayInvariant, WantedInvariant, PushOffset, SetPrimarySensorName,
           SetHumidityCalibrationOffset, Blank, NoSource, NoOffset
<1>7. CASE ~Display
  <2>1. cur = Blank
    BY <1>7 DEF Init, DisplayInit
  <2> QED
    BY <1>1, <1>2, <1>4, <1>5, <1>7, <2>1
       DEF DisplayInvariant, WantedInvariant, Blank, NoSource, NoOffset
<1> QED
  BY <1>6, <1>7

(* The content that Tick asks for at its end. *)
LEMMA ShownContent ==
    ASSUME TypeOK, WantedInvariant, Display, pc["worker"] # "pushOffset"
    PROVE  LET content == WithSecondary(WithPrimary(cur))
           IN  /\ OneSource(content)
               /\ content.name = cur.name /\ content.offset = cur.offset
               /\ secondary = "none" => content.sec = NoSource
<1>1. cur \in Contents /\ primary \in {"hdc", "sht"} /\ secondary \in {"hdc", "sht", "none"}
  BY SomeSensor DEF TypeOK, DisplayTypeOK, MeasurementTypeOK
<1> USE DEF UpdateMeasurements, SetSecondaryHumidity, Source, NoSource
<1> DEFINE with == WithPrimary(cur)
<1>2. /\ with \in Contents /\ with.meas \in {NoSource, primary}
      /\ with.sec = cur.sec /\ with.name = cur.name /\ with.offset = cur.offset
  BY <1>1 DEF WithPrimary, Contents, Sources, Sensors
<1> HIDE DEF with
<1> DEFINE content == WithSecondary(with)
<1> SUFFICES /\ OneSource(content)
             /\ content.name = cur.name /\ content.offset = cur.offset
             /\ secondary = "none" => content.sec = NoSource
  BY DEF with
<1>3. CASE secondary = "none"
  BY <1>1, <1>2, <1>3 DEF WithSecondary, WantedInvariant, OneSource
<1>4. CASE secondary # "none"
  <2>1. /\ content.sec \in {NoSource, secondary} /\ content.meas = with.meas
        /\ content.name = with.name /\ content.offset = with.offset
    BY <1>2, <1>4 DEF WithSecondary, Contents
  <2> QED
    BY <1>1, <1>2, <1>4, <2>1 DEF WantedInvariant, OneSource
<1> QED
  BY <1>3, <1>4

LEMMA RefreshStep ==
    ASSUME TypeOK, ResumeKnown, DisplayInvariant, UNCHANGED measurementVars,
           RefreshDisplay("worker")
    PROVE  WantedInvariant' /\ PanelInvariant'
<1> USE DEF Goto, At, RefreshReturns, RefreshLocations
<1>p. pc \in [Threads -> Locations] /\ "worker" \in Threads /\ resume["worker"] = "idle"
  BY DEF TypeOK, ThreadsTypeOK, Threads, ResumeKnown
<1>1. UNCHANGED cur /\ pc["worker"] # "pushOffset" /\ pc'["worker"] # "pushOffset"
  BY <1>p DEF RefreshDisplay, RefreshSkip, RefreshBegin, RefreshDraw, DrawMeasurements,
              DrawStatusBar, RefreshFlush, RefreshCommit, displayVars
<1>2. WantedInvariant'
  BY <1>1 DEF DisplayInvariant, WantedInvariant, measurementVars
<1>3. PanelInvariant'
  <2> USE DEF PanelInvariant, DisplayInvariant, OneSource
  <2>1. CASE RefreshSkip("worker")
    BY <1>p, <2>1 DEF RefreshSkip, displayVars
  <2>2. CASE RefreshBegin("worker")
    BY <1>p, <2>2 DEF RefreshBegin, displayVars
  <2>3. CASE DrawMeasurements("worker")
    BY <1>p, <2>3 DEF DrawMeasurements, TypeOK, DisplayTypeOK, Contents
  <2>4. CASE DrawStatusBar("worker")
    <3>1. labels' = cur
      BY <2>4 DEF DrawStatusBar, TypeOK, DisplayTypeOK, Contents
    <3> QED
      BY <1>p, <2>4, <3>1 DEF DrawStatusBar
  <2>5. CASE RefreshFlush("worker")
    BY <1>p, <2>5 DEF RefreshFlush
  <2>6. CASE RefreshCommit("worker")
    BY <1>p, <2>6 DEF RefreshCommit
  <2> QED
    BY <2>1, <2>2, <2>3, <2>4, <2>5, <2>6 DEF RefreshDisplay, RefreshDraw
<1> QED
  BY <1>2, <1>3

(* Steps that neither touch the display nor enter or leave RefreshDisplay. *)
LEMMA DisplayUntouched ==
    ASSUME DisplayInvariant, UNCHANGED <<cur, last, labels, panel>>,
           UNCHANGED <<primary, secondary>>,
           \/ pc'["worker"] = pc["worker"]
           \/ {pc["worker"], pc'["worker"]} \cap (RefreshLocations \cup {"pushOffset"}) = {}
    PROVE  WantedInvariant' /\ PanelInvariant'
BY DEF RefreshLocations, DisplayInvariant, WantedInvariant, PanelInvariant, OneSource

LEMMA CalibrationStep ==
    ASSUME TypeOK, DisplayInvariant, CalibrateApplied
    PROVE  WantedInvariant' /\ PanelInvariant'
<1>p. pc["worker"] = "calibrate" /\ pc'["worker"] = "publish"
  BY DEF CalibrateApplied, At, Goto, TypeOK, ThreadsTypeOK, Threads
<1>1. CASE Display
  <2>1. cur' = PushOffset(cur, primary, cachedOffset') /\ cur \in Contents
    BY <1>1 DEF CalibrateApplied, TypeOK, DisplayTypeOK
  <2>2. /\ cur'.name = cur.name /\ cur'.sec = cur.sec
        /\ cur'.offset = IF primary = "hdc" THEN cachedOffset' ELSE NoOffset
    BY <2>1 DEF PushOffset, SetHumidityCalibrationOffset, Contents
  <2> QED
    BY <1>p, <1>1, <2>2
       DEF CalibrateApplied, DisplayInvariant, WantedInvariant, PanelInvariant,
           RefreshLocations, OneSource
<1>2. CASE ~Display
  BY <1>p, <1>2, DisplayUntouched DEF CalibrateApplied, RefreshLocations
<1> QED
  BY <1>1, <1>2

LEMMA ShowStep ==
    ASSUME TypeOK, DisplayInvariant, Show
    PROVE  WantedInvariant' /\ PanelInvariant'
<1>p. /\ pc \in [Threads -> Locations] /\ "worker" \in Threads
      /\ pc["worker"] = "show"
  BY DEF Show, At, TypeOK, ThreadsTypeOK, Threads
<1>1. CASE Display
  <2>1. cur' = WithSecondary(WithPrimary(cur)) /\ pc'["worker"] = "refresh"
    BY <1>p, <1>1 DEF Show, ShowAndRefresh, Goto
  <2>2. /\ OneSource(cur') /\ cur'.name = cur.name /\ cur'.offset = cur.offset
        /\ secondary = "none" => cur'.sec = NoSource
    BY <1>p, <1>1, <2>1, ShownContent DEF DisplayInvariant
  <2> QED
    BY <1>p, <2>1, <2>2
       DEF Show, DisplayInvariant, WantedInvariant, PanelInvariant, RefreshLocations,
           OneSource
<1>2. CASE ~Display
  BY <1>p, <1>2, DisplayUntouched DEF Show, ShowAndRefresh, Goto, RefreshLocations
<1> QED
  BY <1>1, <1>2

LEMMA ToggleStep ==
    ASSUME TypeOK, DisplayInvariant, RunTogglePrimary
    PROVE  WantedInvariant' /\ PanelInvariant'
<1>1. CASE ToggleAllowed
  <2>p. /\ pc["worker"] = "idle"
        /\ Display => pc'["worker"] = "pushOffset"
        /\ ~Display => pc'["worker"] \in {"idle", "readPrimary"}
    <3>1. pc \in [Threads -> Locations] /\ "worker" \in Threads
      BY DEF TypeOK, ThreadsTypeOK, Threads
    <3> QED
      BY <1>1, <3>1 DEF RunTogglePrimary, TakeWork, At, EnterTick, Goto
  <2>1. /\ primary' = secondary /\ secondary' = primary /\ primary # "none"
        /\ UNCHANGED <<last, labels, panel>>
    BY <1>1, SomeSensor DEF RunTogglePrimary, TypeOK, MeasurementTypeOK
  <2>2. PanelInvariant'
    BY <2>p, <2>1 DEF DisplayInvariant, PanelInvariant, RefreshLocations, OneSource
  <2>3. CASE Display
    <3>1. cur \in Contents /\ cur' = SetPrimarySensorName(cur, secondary)
      BY <1>1, <2>3 DEF RunTogglePrimary, TypeOK, DisplayTypeOK
    <3>2. cur'.name = secondary
      BY <3>1 DEF SetPrimarySensorName, Contents
    <3> QED
      BY <2>p, <2>1, <2>2, <2>3, <3>2 DEF DisplayInvariant, WantedInvariant
  <2>4. CASE ~Display
    BY <1>1, <2>p, <2>1, <2>2, <2>4 DEF RunTogglePrimary, DisplayInvariant, WantedInvariant
  <2> QED
    BY <2>3, <2>4
<1>2. CASE ~ToggleAllowed
  BY <1>2, DisplayUntouched DEF RunTogglePrimary
<1> QED
  BY <1>1, <1>2

LEMMA ToggleOffsetStep ==
    ASSUME TypeOK, DisplayInvariant, TogglePushesOffset
    PROVE  WantedInvariant' /\ PanelInvariant'
<1>p. /\ pc["worker"] = "pushOffset" /\ pc'["worker"] \in {"idle", "readPrimary"}
      /\ Display /\ cur.name = primary
      /\ UNCHANGED <<primary, secondary, last, labels, panel>>
  BY DEF TogglePushesOffset, At, EnterTick, Goto, TypeOK, ThreadsTypeOK, Threads,
         DisplayInvariant, WantedInvariant, measurementVars
<1>1. /\ cur'.name = cur.name /\ cur'.sec = cur.sec
      /\ cur'.offset = IF primary = "hdc" THEN cachedOffset ELSE NoOffset
  BY DEF TogglePushesOffset, PushOffset, SetHumidityCalibrationOffset, TypeOK,
         DisplayTypeOK, Contents
<1> QED
  BY <1>p, <1>1
     DEF DisplayInvariant, WantedInvariant, PanelInvariant, RefreshLocations, OneSource

LEMMA QuietWorkShown ==
    ASSUME TypeOK, ResumeKnown, DisplayInvariant, QuietWork
    PROVE  WantedInvariant' /\ PanelInvariant'
<1>p. pc \in [Threads -> Locations] /\ "worker" \in Threads
  BY DEF TypeOK, ThreadsTypeOK, Threads
<1> USE DisplayUntouched DEF displayVars, measurementVars, RefreshLocations
<1>1. CASE RunTick
  BY <1>p, <1>1 DEF RunTick, TakeWork, At, EnterTick, Goto
<1>2. CASE ReadPrimaryFails \/ ReadPrimary
  BY <1>p, <1>2 DEF ReadPrimaryFails, ReadPrimary, AfterReads, At, Goto
<1>3. CASE ReadSecondaryFails \/ ReadSecondary
  BY <1>p, <1>3 DEF ReadSecondaryFails, ReadSecondary, AfterReads, At, Goto
<1>4. CASE CalibrateNothing \/ CalibrateUnacknowledged \/ Publish
  BY <1>p, <1>4 DEF CalibrateNothing, CalibrateUnacknowledged, Publish, At, Goto
<1>5. CASE RunCalibrationRequest \/ (RunDisplayInit /\ UNCHANGED measurementVars)
  BY <1>5 DEF RunCalibrationRequest, RunDisplayInit
<1>6. CASE RefreshDisplay("worker") /\ UNCHANGED measurementVars
  BY <1>6, RefreshStep
<1> QED
  BY <1>1, <1>2, <1>3, <1>4, <1>5, <1>6, CalibrationStep, ShowStep, ToggleStep,
     ToggleOffsetStep
     DEF QuietWork, TickStep, Calibrate

LEMMA DisplayStep ==
    ASSUME NoDecontamination, TypeOK, ResumeKnown, DisplayInvariant, [Next]_vars
    PROVE  DisplayInvariant'
<1>1. CASE QuietWork
  BY <1>1, QuietWorkShown, QuietStep DEF DisplayInvariant
<1>2. CASE QuietElsewhere
  <2>1. pc'["worker"] = pc["worker"]
    BY <1>2, QuietElsewhereStep DEF DisplayInvariant
  <2> QED
    BY <1>2, <2>1, DisplayUntouched, QuietStep DEF QuietElsewhere, displayVars, DisplayInvariant
<1>3. CASE UNCHANGED vars
  BY <1>3, DisplayUntouched, QuietStep
     DEF vars, threadVars, displayVars, measurementVars, DisplayInvariant
<1> QED
  BY <1>1, <1>2, <1>3, QuietSteps DEF DisplayInvariant

LEMMA DisplayInvariantHolds ==
    ASSUME NoDecontamination
    PROVE  Spec => []DisplayInvariant
<1>1. TypeOK /\ ResumeKnown /\ DisplayInvariant /\ [Next]_vars => DisplayInvariant'
  BY DisplayStep
<1> QED
  BY <1>1, InitDisplay, ResumeInvariant, PTL DEF Spec

(* As long as only the worker draws, the panel holds between refreshes     *)
(* what the mLast... fields say it does.                                   *)
THEOREM PanelKeepsLast ==
    ASSUME NoDecontamination
    PROVE  Spec => []PanelShowsLast
<1>1. DisplayInvariant => PanelShowsLast
  BY DEF DisplayInvariant, Quiet, PanelInvariant, PanelShowsLast, Committing, Threads
<1> QED
  BY <1>1, DisplayInvariantHolds, PTL

(* The panel never shows a reading of one sensor under the name of the     *)
(* other, though TogglePrimary changes the name before the new primary has *)
(* been read.                                                              *)
THEOREM PanelAlwaysNamesSource ==
    ASSUME NoDecontamination
    PROVE  Spec => []PanelNamesSource
<1>1. DisplayInvariant => PanelNamesSource
  BY DEF DisplayInvariant, PanelInvariant, OneSource, PanelNamesSource
<1> QED
  BY <1>1, DisplayInvariantHolds, PTL

(* The offset from the secondary always compares two sensors.              *)
THEOREM DeltaNeverOfOneSensor ==
    ASSUME NoDecontamination
    PROVE  Spec => []DeltaAcrossSensors
<1>1. DisplayInvariant => DeltaAcrossSensors
  BY DEF DisplayInvariant, PanelInvariant, OneSource, DeltaAcrossSensors
<1> QED
  BY <1>1, DisplayInvariantHolds, PTL

(* A calibration offset is on the panel only under the name of the         *)
(* HDC302x, though TogglePrimary changes the name before the offset.       *)
THEOREM OffsetOnlyOfPrimary ==
    ASSUME NoDecontamination
    PROVE  Spec => []OffsetOfPrimary
<1>1. DisplayInvariant => OffsetOfPrimary
  BY DEF DisplayInvariant, PanelInvariant, OneSource, OffsetOfPrimary
<1> QED
  BY <1>1, DisplayInvariantHolds, PTL

=============================================================================
