------------------------ MODULE MeasurementProperties ------------------------
(***************************************************************************)
(* What MeasurementWorker and the parts it drives have to get right.       *)
(***************************************************************************)
EXTENDS MeasurementWorker

Sources == Sensors \cup {NoSource}

Offsets == {NoOffset} \cup {{n} : n \in 0..MaxCalibrations}

Contents == [meas : Sources, sec : Sources, name : Sources,
             offset : Offsets, decon : BOOLEAN]

Tasks == [kind : {"cycle", "publish"}, reading : SUBSET Samples]

ThreadsTypeOK ==
    /\ pc \in [Threads -> Locations]
    /\ resume \in [Threads -> Locations]
    /\ workQueue \in Seq(WorkItems)
    /\ taskQueue \in Seq(Tasks)

DisplayTypeOK ==
    /\ displayState \in {"uninitialised", "ready", "unavailable"}
    /\ {cur, last, labels, panel} \subseteq Contents

ControllerTypeOK ==
    /\ heater \in BOOLEAN
    /\ active \in BOOLEAN
    /\ age \in 0..MaxAge
    /\ cycleCount \in 0..(DisplayInterval - 1)
    /\ deconTimer \in BOOLEAN
    /\ cycle \in [humidity : Humidities, expired : BOOLEAN]

MeasurementTypeOK ==
    /\ primary \in Available
    /\ secondary \in Available \cup {"none"}
    /\ average \in [Sensors -> SUBSET Samples]
    /\ calRequested \in BOOLEAN
    /\ cachedOffset \in Offsets
    /\ epoch \in 0..MaxCalibrations
    /\ unnoticed \in BOOLEAN
    /\ reads \in [primary : SUBSET Samples, secondary : SUBSET Samples]
    /\ attribute \in SUBSET Samples

(* The type invariant.  Beyond the types of the fields it bounds both      *)
(* queues: no k_work item is queued twice, PostTask never overfills.       *)
TypeOK ==
    /\ ThreadsTypeOK
    /\ \A i, j \in DOMAIN workQueue : workQueue[i] = workQueue[j] => i = j
    /\ Len(taskQueue) <= TaskQueueSize
    /\ DisplayTypeOK
    /\ ControllerTypeOK
    /\ MeasurementTypeOK

-----------------------------------------------------------------------------

(***************************************************************************)
(* Decontamination.                                                        *)
(***************************************************************************)

(* The heater is on only under a session, or in the instant before Start   *)
(* sets mActive: nothing but a session ever turns it off again             *)
(* (Start and Stop of hdc302x_decontamination_controller.cpp).             *)
HeaterSupervised == heater => active \/ pc["worker"] = "activate"

(* An active session has its timer running, or Start is about to arm it,   *)
(* or some thread is on its way through Stop: otherwise no RunCycle would  *)
(* ever end the session.                                                   *)
SessionHasTimer ==
    active => \/ deconTimer
              \/ pc["worker"] = "armTimer"
              \/ \E t \in Threads : pc[t] \in {"heaterOff", "deactivate"}

(* Decontamination runs on the primary sensor only: neither a toggle that  *)
(* was queued before the session nor one during it changes the primary     *)
(* under it (the checks of ToggleDecontamination and TogglePrimary).       *)
SessionOnPrimary ==
    active \/ pc["worker"] \in {"heaterOn", "activate"} => primary = "hdc"

Unheated(reading) == \A sample \in reading : ~sample.heated

(* No sample taken while the heater was on is in a moving average, on its  *)
(* way to the app thread or in the Matter cluster: "so the heater readings *)
(* do not pollute the Matter cluster".                                     *)
NoHeatedReading ==
    /\ \A s \in Sensors : Unheated(average[s])
    /\ Unheated(reads.primary) /\ Unheated(reads.secondary)
    /\ \A i \in DOMAIN taskQueue : Unheated(taskQueue[i].reading)
    /\ Unheated(attribute)

(* A session ends: by RunCycle, by the user, whatever fetches fail between *)
(* and whichever tasks the full queue drops.                               *)
HeaterStops == heater ~> ~heater

(* What was measured and not forgotten, in averages or on its way. *)
Readings ==
    UNION ({average[s] : s \in Sensors}
           \cup {reads.primary, reads.secondary, attribute}
           \cup {taskQueue[i].reading : i \in DOMAIN taskQueue})

Interlock == INSTANCE HeaterInterlock WITH
    heating   <- heater,
    sampling  <- pc["worker"] \in {"readPrimary", "readSecondary"},
    collected <- {sample.heated : sample \in Readings},
    published <- {sample.heated : sample \in attribute}

(* The two threads implement the interlock that HeaterInterlock states.    *)
ImplementsInterlock == Interlock!Spec

(***************************************************************************)
(* Calibration.                                                            *)
(***************************************************************************)

(* The average of the HDC302x never blends samples taken under different   *)
(* offsets: Apply is followed by humidityAverage.reset() before any read.  *)
(* The one exception is an offset that took effect although the call       *)
(* reported a failure, and it ends with the next calibration.              *)
AverageUnderOneOffset ==
    ~unnoticed => \A sample \in average["hdc"] : sample.epoch = epoch

(* With the same exception the cached offset is the one in the HDC302x, or *)
(* absent when it could not be read                                        *)
(* (UpdateDisplayedHumidityCalibrationOffset).                             *)
CachedOffsetFresh == ~unnoticed => cachedOffset \in {NoOffset, {epoch}}

(***************************************************************************)
(* Publication.                                                            *)
(***************************************************************************)

(* A change of the primary sensor reaches the Matter cluster: its value    *)
(* comes, from some point on, from the new primary, unless the user        *)
(* changes it again or a session pauses the measurements.                  *)
AttributeFollowsPrimary ==
    \A s \in Available :
        primary = s ~> \/ \A sample \in attribute : sample.sensor = s
                       \/ primary # s
                       \/ active

(***************************************************************************)
(* Display.                                                                *)
(***************************************************************************)

Committing == \E t \in Threads : pc[t] = "commit"

(* But for the end of a refresh, between sending the picture and setting   *)
(* the mLast... fields, the panel holds what these fields say it does:     *)
(* otherwise noChange would hide a redraw that is needed.                  *)
PanelShowsLast == ~Committing /\ last # Blank => panel = last

(* The panel never shows a reading of one sensor under the name of the     *)
(* other, though TogglePrimary changes the name before the new primary has *)
(* been read, and that read may fail.                                      *)
PanelNamesSource == panel.meas \in {NoSource, panel.name}

(* The offset from the secondary compares readings of different sensors.   *)
DeltaAcrossSensors == panel.meas = NoSource \/ panel.meas # panel.sec

(* The calibration offset is shown only with an HDC302x primary.           *)
OffsetOfPrimary == panel.offset # NoOffset => panel.name = "hdc"

=============================================================================
