------------------------------- MODULE AppTask -------------------------------
(***************************************************************************)
(* AppTask (src/app_task.cpp) from power-up on: the start of the parts in  *)
(* their order by the main thread, with the buttons, the tick timer and    *)
(* the worker already at it, each as soon as it has been started; and the  *)
(* path of a measurement, from the sensors through the calibration to the  *)
(* attributes.  A reset may come at any time.  What sessions of            *)
(* decontamination do to ticks is the subject of module MeasurementWorker. *)
(***************************************************************************)
EXTENDS HumidityCalibrator, MatterReporter, FiniteSets

CONSTANTS
    DeviceSets,       \* which devices may turn out to be ready at a start
    FailingStages,    \* the stages of the start that may fail
    Temperatures,     \* optional values: what the primary measures
    References,       \* what the SHT4x measures
    RawHumidities,    \* what the HDC302x senses
    TaskQueueSize,    \* capacity of the queue behind Nrf::PostTask
    MaxRequests,      \* bound on how often the button for a calibration is pressed
    MaxResets         \* bound on the resets

ASSUME DeviceAssumption == DeviceSets # {} /\ \A s \in DeviceSets : s \subseteq {"hdc", "sht"}
ASSUME TaskQueueAssumption == TaskQueueSize \in Nat \ {0}
ASSUME BoundsAssumption == MaxRequests \in Nat /\ MaxResets \in Nat
ASSUME FailingAssumption ==
    FailingStages \subseteq {"prepare", "board", "eventHandler", "identify", "server"}

AtMostOne(values) == \A v, w \in values : v = w

Celsius == SUBSET Int16
Humidities == SUBSET UInt16

ASSUME ReadingAssumption ==
    /\ Temperatures \subseteq Celsius /\ References \subseteq Humidities
    /\ RawHumidities \subseteq Percentages
    /\ \A reading \in Temperatures \cup References : AtMostOne(reading)

VARIABLES
    stage,         \* of the main thread: the next call of Init and StartApp
    queueStarted,  \* the work queue of IoWorker takes submissions
    handlers,      \* the work items that k_work_init has given a handler
    queue,         \* the items in the work queue
    timer,         \* mTickTimer runs
    displayUp,     \* the bring-up of the display has run
    crashed,       \* a null handler was called, or the list of the work queue cut
    location,      \* of the worker in Tick
    available,     \* the sensors whose device is ready
    primary,       \* mPrimarySensor
    calRequested,  \* mCalibrationRequested
    averaged,      \* the steps under which the samples in the HDC302x's average were taken
    reads,         \* the readings of a tick, and what the HDC302x sensed
    tasks,         \* the publications that were posted
    published,     \* a publication has been made since the last reset
    earlyPress,    \* a button was pressed before its item had a handler
    requests,      \* the number of requests for a calibration
    resets         \* the number of resets

mainVars == <<stage, queueStarted, handlers, timer>>
tickVars == <<available, primary, calRequested, averaged, reads>>
workVars == <<queue, displayUp, crashed, location>>
ghosts == <<published, earlyPress, requests, resets>>
vars == <<mainVars, tickVars, workVars, tasks, ghosts, calibratorVars, reporterVars>>

ButtonItems == {"toggle", "calibrate"}
Items == {"display", "tick"} \cup ButtonItems
WorkerLocations == {"idle", "read", "calibrate", "applying", "publish"}

NoReads == [temperature |-> {}, primary |-> {}, secondary |-> {}]

-----------------------------------------------------------------------------

(***************************************************************************)
(* Init and StartApp: the stage behind each stage.                         *)
(***************************************************************************)
Stages == {"prepare", "board", "eventHandler", "identify", "ioWorker", "display",
           "server", "ranges", "sensors", "workItems", "start", "loop", "exited"}

OrderOfCalls(s) ==
    CASE s = "prepare" -> "board"
      [] s = "board" -> "eventHandler"
      [] s = "eventHandler" -> "identify"
      [] s = "identify" -> "ioWorker"
      [] s = "ioWorker" -> "display"
      [] s = "display" -> "server"
      [] s = "server" -> "ranges"
      [] s = "ranges" -> "sensors"
      [] s = "sensors" -> "workItems"
      [] s = "workItems" -> "start"
      [] OTHER -> "loop"

(* Variant: the display is brought up last. *)
DisplayLast(s) ==
    CASE s = "ioWorker" -> "server"
      [] s = "start" -> "display"
      [] s = "display" -> "loop"
      [] OTHER -> OrderOfCalls(s)

(* Variant: the timer is started in front of k_work_init. *)
StartFirst(s) ==
    CASE s = "sensors" -> "start"
      [] s = "start" -> "workItems"
      [] s = "workItems" -> "loop"
      [] OTHER -> OrderOfCalls(s)

StageAfter(s) == OrderOfCalls(s)

EnterStage(s) == ~crashed /\ stage = s
Proceed == stage' = StageAfter(stage)

(***************************************************************************)
(* k_work_submit_to_queue: a queue that is not started turns the item      *)
(* away, an item in the queue stays where it is.                           *)
(***************************************************************************)
Queued(item) == \E i \in DOMAIN queue : queue[i] = item

Submitted(item) == IF queueStarted /\ ~Queued(item) THEN Append(queue, item) ELSE queue

(* PrepareServer, Board::Init, RegisterEventHandler, the two clusters' Init *)
(* and StartServer, as far as they matter here.                             *)
CallServices ==
    /\ ~crashed
    /\ stage \in {"prepare", "board", "eventHandler", "identify", "server"}
    /\ \/ Proceed
       \/ stage \in FailingStages /\ stage' = "exited"
    /\ UNCHANGED <<queueStarted, handlers, timer, tickVars, workVars, tasks, ghosts,
                   calibratorVars, reporterVars>>

(* IoWorker::Init *)
StartQueue ==
    /\ EnterStage("ioWorker")
    /\ queueStarted' = TRUE
    /\ Proceed
    /\ UNCHANGED <<handlers, timer, tickVars, workVars, tasks, ghosts,
                   calibratorVars, reporterVars>>

(* DisplayManager::Init *)
QueueDisplay ==
    /\ EnterStage("display")
    /\ handlers' = handlers \cup {"display"}
    /\ queue' = Submitted("display")
    /\ Proceed
    /\ UNCHANGED <<queueStarted, timer, displayUp, crashed, location, tickVars, tasks, ghosts,
                   calibratorVars, reporterVars>>

LoadRanges ==
    /\ EnterStage("ranges")
    /\ \/ LoadValidityRanges /\ Proceed
       \/ LoadValidityRangesFails /\ stage' = "exited"
    /\ UNCHANGED <<queueStarted, handlers, timer, tickVars, workVars, tasks, ghosts,
                   calibratorVars, temperature, humidity>>

(* The first half of MeasurementWorker::Init, up to its early returns. *)
ConfigureSensors ==
    /\ EnterStage("sensors")
    /\ \/ "hdc" \in available /\ primary' = "hdc" /\ SetMode("auto") /\ Proceed
       \/ "hdc" \in available /\ primary' = "hdc" /\ SetModeFails("auto") /\ stage' = "exited"
       \/ available = {"sht"} /\ primary' = "sht" /\ UNCHANGED <<mode, modeFailed>> /\ Proceed
       \/ available = {} /\ UNCHANGED <<primary, mode, modeFailed>> /\ stage' = "exited"
    /\ UNCHANGED <<queueStarted, handlers, timer, available, calRequested, averaged, reads, workVars,
                   tasks, ghosts, steps, clamped, callVars, reporterVars>>

(* Its second half: k_work_init on an item in the queue cuts the list.     *)
InitWorkItems ==
    /\ EnterStage("workItems")
    /\ handlers' = handlers \cup {"tick", "toggle", "calibrate"}
    /\ crashed' = (\E item \in ButtonItems : Queued(item))
    /\ Proceed
    /\ UNCHANGED <<queueStarted, timer, queue, displayUp, location, tickVars, tasks, ghosts,
                   calibratorVars, reporterVars>>

(* MeasurementWorker::Start *)
StartTimer ==
    /\ EnterStage("start")
    /\ timer' = TRUE
    /\ Proceed
    /\ UNCHANGED <<queueStarted, handlers, tickVars, workVars, tasks, ghosts,
                   calibratorVars, reporterVars>>

(* Nrf::DispatchNextTask, with a publication at the head of the queue. *)
Dispatch ==
    /\ EnterStage("loop")
    /\ tasks # <<>>
    /\ tasks' = Tail(tasks)
    /\ Publish(Head(tasks).temperature, Head(tasks).humidity)
    /\ published' = TRUE
    /\ UNCHANGED <<mainVars, tickVars, workVars, earlyPress, requests, resets, calibratorVars>>

MainStep ==
    \/ CallServices \/ StartQueue \/ QueueDisplay \/ LoadRanges
    \/ ConfigureSensors \/ InitWorkItems \/ StartTimer \/ Dispatch

-----------------------------------------------------------------------------

(* Variant: a timer without a period. *)
TimerExpiresOnce ==
    /\ ~crashed
    /\ timer
    /\ queue' = Submitted("tick")
    /\ timer' = FALSE
    /\ UNCHANGED <<stage, queueStarted, handlers, displayUp, crashed, location, tickVars, tasks,
                   ghosts, calibratorVars, reporterVars>>

(* The tick timer expires. *)
TimerExpires ==
    /\ ~crashed
    /\ timer
    /\ queue' = Submitted("tick")
    /\ UNCHANGED <<mainVars, displayUp, crashed, location, tickVars, tasks, ghosts,
                   calibratorVars, reporterVars>>

(* ButtonEventHandler asks for a toggle or for a calibration. *)
Press ==
    /\ ~crashed
    /\ \E item \in ButtonItems :
          /\ queue' = Submitted(item)
          /\ earlyPress' = (earlyPress \/ (queueStarted /\ item \notin handlers))
          /\ requests' = requests + (IF item = "calibrate" THEN 1 ELSE 0)
          /\ requests' <= MaxRequests
    /\ UNCHANGED <<mainVars, displayUp, crashed, location, tickVars, tasks, published, resets,
                   calibratorVars, reporterVars>>

-----------------------------------------------------------------------------

(* The worker takes the item at the head of its queue. *)
Take(item) ==
    /\ ~crashed /\ location = "idle"
    /\ queue # <<>> /\ Head(queue) = item
    /\ queue' = Tail(queue)

(* An item that k_work_init has not seen has no handler. *)
RunUninitialized ==
    /\ \E item \in Items : Take(item) /\ item \notin handlers
    /\ crashed' = TRUE
    /\ UNCHANGED <<mainVars, displayUp, location, tickVars, tasks, ghosts,
                   calibratorVars, reporterVars>>

(* InitOnWorker, whether or not it finds a display. *)
RunDisplayInit ==
    /\ Take("display") /\ "display" \in handlers
    /\ displayUp' = TRUE
    /\ UNCHANGED <<mainVars, crashed, location, tickVars, tasks, ghosts,
                   calibratorVars, reporterVars>>

RunTick ==
    /\ Take("tick") /\ "tick" \in handlers
    /\ location' = "read"
    /\ UNCHANGED <<mainVars, displayUp, crashed, tickVars, tasks, ghosts,
                   calibratorVars, reporterVars>>

Other(sensor) == IF sensor = "hdc" THEN "sht" ELSE "hdc"

(* TogglePrimary goes on into Tick. *)
RunToggle ==
    /\ Take("toggle") /\ "toggle" \in handlers
    /\ IF available = {"hdc", "sht"}
       THEN primary' = Other(primary) /\ location' = "read"
       ELSE UNCHANGED <<primary, location>>
    /\ UNCHANGED <<mainVars, displayUp, crashed, available, calRequested, averaged, reads, tasks,
                   ghosts,
                   calibratorVars, reporterVars>>

RunCalibrationRequest ==
    /\ Take("calibrate") /\ "calibrate" \in handlers
    /\ calRequested' = TRUE
    /\ UNCHANGED <<mainVars, displayUp, crashed, location, available, primary, averaged, reads,
                   tasks, ghosts, calibratorVars, reporterVars>>

-----------------------------------------------------------------------------

(* Tick: a primary that cannot be fetched ends it. *)
ReadFails ==
    /\ ~crashed /\ location = "read"
    /\ "fetch" \in SensorFaults
    /\ location' = "idle"
    /\ UNCHANGED <<mainVars, queue, displayUp, crashed, tickVars, tasks, ghosts,
                   calibratorVars, reporterVars>>

(* The averages of both sensors.  The one of the HDC302x is between the    *)
(* values that its samples were corrected to: it stands for one of them.   *)
HdcReadings ==
    {{}} \cup {{Corrected(raw, s)} : raw \in RawHumidities, s \in averaged \cup {steps}}

ReadingsOf(sensor) ==
    IF sensor \notin available THEN {{}} ELSE IF sensor = "hdc" THEN HdcReadings ELSE References

Read ==
    /\ ~crashed /\ location = "read"
    /\ \E t \in Temperatures, p \in ReadingsOf(primary), q \in ReadingsOf(Other(primary)) :
          reads' = [temperature |-> t, primary |-> p, secondary |-> q]
    /\ averaged' = IF "hdc" \in available THEN averaged \cup {steps} ELSE averaged
    /\ location' = "calibrate"
    /\ UNCHANGED <<mainVars, queue, displayUp, crashed, available, primary, calRequested, tasks, ghosts,
                   calibratorVars, reporterVars>>

(* A pending request is spent; with the SHT4x as primary it is met. *)
Calibrate ==
    /\ ~crashed /\ location = "calibrate"
    /\ calRequested' = FALSE
    /\ IF calRequested /\ primary = "sht" /\ "hdc" \in available
       THEN Apply(reads.primary, reads.secondary) /\ location' = "applying"
       ELSE UNCHANGED calibratorVars /\ location' = "publish"
    /\ UNCHANGED <<mainVars, queue, displayUp, crashed, available, primary, averaged, reads, tasks, ghosts,
                   reporterVars>>

CalibratorStep ==
    /\ ~crashed /\ location = "applying"
    /\ ApplyStep
    /\ UNCHANGED <<mainVars, tickVars, workVars, tasks, ghosts, reporterVars>>

(* mHdc302xSensor.humidityAverage.reset() *)
AverageAfterApply == IF applied THEN {} ELSE averaged

CalibrationDone ==
    /\ ~crashed /\ location = "applying"
    /\ Returned
    /\ averaged' = AverageAfterApply
    /\ location' = "publish"
    /\ UNCHANGED <<mainVars, queue, displayUp, crashed, available, primary, calRequested, reads, tasks,
                   ghosts, reporterVars>>

(* Variant: the capacity of the queue is not looked at. *)
PostedUnbounded(task) == Append(tasks, task)

(* Nrf::PostTask: a full queue loses the task. *)
Posted(task) == IF Len(tasks) < TaskQueueSize THEN Append(tasks, task) ELSE tasks

(* mPublish posts the readings. *)
PublishReadings ==
    /\ ~crashed /\ location = "publish"
    /\ tasks' = Posted([temperature |-> reads.temperature, humidity |-> reads.primary])
    /\ reads' = NoReads
    /\ location' = "idle"
    /\ UNCHANGED <<mainVars, queue, displayUp, crashed, available, primary, calRequested, averaged, ghosts,
                   calibratorVars, reporterVars>>

TickStep ==
    \/ ReadFails \/ Read \/ Calibrate \/ CalibratorStep \/ CalibrationDone \/ PublishReadings

WorkerStep ==
    \/ RunUninitialized \/ RunDisplayInit \/ RunTick \/ RunToggle \/ RunCalibrationRequest
    \/ TickStep

-----------------------------------------------------------------------------

Boot ==
    /\ stage = "prepare" /\ queueStarted = FALSE /\ handlers = {} /\ timer = FALSE
    /\ queue = <<>> /\ displayUp = FALSE /\ crashed = FALSE /\ location = "idle"
    /\ available \in DeviceSets /\ primary = "none"
    /\ calRequested = FALSE /\ averaged = {} /\ reads = NoReads
    /\ tasks = <<>>
    /\ published = FALSE /\ earlyPress = FALSE
    /\ ReporterStart

Init == Boot /\ CalibratorInit /\ requests = 0 /\ resets = 0

(* A reset: of all this, only what the HDC302x keeps survives. *)
Reset ==
    /\ resets < MaxResets
    /\ resets' = resets + 1
    /\ stage' = "prepare" /\ queueStarted' = FALSE /\ handlers' = {} /\ timer' = FALSE
    /\ queue' = <<>> /\ displayUp' = FALSE /\ crashed' = FALSE /\ location' = "idle"
    /\ available' \in DeviceSets /\ primary' = "none"
    /\ calRequested' = FALSE /\ averaged' = {} /\ reads' = NoReads
    /\ tasks' = <<>>
    /\ published' = FALSE /\ earlyPress' = FALSE
    /\ CalibratorReset
    /\ ReporterReset
    /\ UNCHANGED requests

Next == MainStep \/ WorkerStep \/ TimerExpires \/ Press \/ Reset

Spec == Init /\ [][Next]_vars

(* The threads run, the timer expires, and a fetch works now and then. *)
Fairness ==
    /\ WF_vars(MainStep) /\ WF_vars(WorkerStep)
    /\ WF_vars(TimerExpires) /\ SF_vars(Read)

FairSpec == Spec /\ Fairness

-----------------------------------------------------------------------------

TypeOK ==
    /\ CalibratorTypeOK /\ ReporterTypeOK
    /\ stage \in Stages
    /\ queueStarted \in BOOLEAN /\ handlers \subseteq Items /\ timer \in BOOLEAN
    /\ queue \in Seq(Items)
    /\ displayUp \in BOOLEAN /\ crashed \in BOOLEAN
    /\ location \in WorkerLocations
    /\ available \in DeviceSets /\ primary \in {"hdc", "sht", "none"} /\ calRequested \in BOOLEAN
    /\ averaged \subseteq Steps
    /\ reads \in [temperature : Celsius, primary : Humidities, secondary : Humidities]
    /\ tasks \in Seq([temperature : Celsius, humidity : Humidities])
    /\ Len(tasks) <= TaskQueueSize
    /\ published \in BOOLEAN /\ earlyPress \in BOOLEAN
    /\ requests \in 0..MaxRequests /\ resets \in 0..MaxResets

(***************************************************************************)
(* In the order in which the parts are started no item runs without a      *)
(* handler, and none is initialised while it is queued: only a button that *)
(* is pressed between IoWorker::Init and MeasurementWorker::Init gets the  *)
(* firmware there.                                                         *)
(***************************************************************************)
HandlersSet == crashed => earlyPress

(***************************************************************************)
(* The HDC302x is left in its automatic mode (the comments of              *)
(* ManualMeasurementScope and of the class): while measurements are taken, *)
(* and whichever way the last calibration or the last run of the firmware  *)
(* ended, it is in manual mode only if the last command for the mode       *)
(* failed.                                                                 *)
(***************************************************************************)
AutomaticOutsideApply ==
    stage \in {"workItems", "start", "loop"} /\ "hdc" \in available /\ phase \in {"idle", "returned"}
        => mode = "auto" \/ modeFailed

(***************************************************************************)
(* kMaxAbsOffsetHundredths keeps away from the driver every offset that it *)
(* would silently clamp.                                                   *)
(***************************************************************************)
NeverClamped == ~clamped

\* What the bounds of both clusters allow to report.
WithinBounds(t, h) ==
    /\ t = TemperatureNull \/ (-4000 <= t /\ t <= 12500)
    /\ h = HumidityNull \/ (0 <= h /\ h <= 10000)

(***************************************************************************)
(* A controller never reads a value outside the bounds that the same       *)
(* cluster announces, at no time of the start: it reads null until then.   *)
(***************************************************************************)
ReportedWithinBounds == WithinBounds(temperature, humidity)

(***************************************************************************)
(* The bring-up of the display is ahead of the first tick in the queue of  *)
(* the worker (app_task.cpp, the comment in Init), unless a button was     *)
(* pressed too early.                                                      *)
(***************************************************************************)
DisplayFirst ==
    [][location = "idle" /\ location' = "read" => displayUp \/ earlyPress]_vars

(***************************************************************************)
(* A calibration brings the HDC302x within one step, and the hundredth     *)
(* that is cut off, of the reference, also when it is not the first, when  *)
(* an earlier one failed half-way and after a reset: the correction that   *)
(* is in the device is neither forgotten nor applied twice.  The readings  *)
(* compared must have been taken under the offset in the device and must   *)
(* not be saturated.                                                       *)
(***************************************************************************)
EndsWithinOneStep ==
    phase = "write" /\ applied' /\ averaged = {steps} /\ request.target \in 1..9999
        => LET sensed == request.target - (625 * steps) \div 32
           IN  Magnitude(625 * steps' + 32 * (sensed - request.reference)) < 625 + 32

CalibrationAligns == [][EndsWithinOneStep]_vars

(***************************************************************************)
(* After every reset the attributes are written at some time, unless the   *)
(* start failed or a button was pressed too early: no stage waits for      *)
(* another for ever, and no request or failing read keeps the ticks from   *)
(* reaching the app thread.                                                *)
(***************************************************************************)
MeasurementsStart ==
    stage = "prepare" ~> (published \/ stage = "exited" \/ crashed)

=============================================================================
