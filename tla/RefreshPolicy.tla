---------------------------- MODULE RefreshPolicy ----------------------------
(***************************************************************************)
(* DisplayManager (src/display_manager.cpp) as one caller after the other  *)
(* meets it: what is drawn, which updates are full ones and how long the   *)
(* sensor's name and offset stay visible.  What two threads do to each     *)
(* other in RefreshDisplay is the subject of module DisplayManager.        *)
(*                                                                         *)
(* An optional value is the set of its value, or empty.                    *)
(***************************************************************************)
EXTENDS Readout, UpdateTrust

CONSTANTS
    WrittenInterval,  \* the initialiser of kFullUpdateInterval (400)
    InfoCount,        \* kSingleSensorInformationDisplayCount (10)
    Temperatures,     \* the optional readings, names and offsets that the
    Humidities,       \* callers set
    Names,
    Offsets,
    Links,            \* what OpenThread reports
    Seconds,          \* the elapsed times of sessions
    Faults            \* the calls on the display that may fail

Roles == {"disabled", "detached", "child", "router", "leader"}

(* UINT32_MAX, which is -1 in two's complement. *)
NoElapsed == -1

ASSUME IntervalAssumption == WrittenInterval \in Nat /\ WrittenInterval % 256 # 0
ASSUME InfoCountAssumption == InfoCount \in 0..255
AtMostOne(values) == \A v, w \in values : v = w

(* A temperature can be negated. *)
Negatable == -32767..32767

(* Optional values in hundredths, and the names. *)
CentiDegrees == SUBSET Negatable
CentiPercents == SUBSET UInt16
CentiOffsets == SUBSET Int16
NamesOrNone == Names \cup {{}}
ElapsedTimes == Nat \cup {NoElapsed}
Signals == [connected : BOOLEAN, lqi : 0..255]

ASSUME ReadingAssumption ==
    /\ Temperatures \subseteq CentiDegrees
    /\ Humidities \subseteq CentiPercents
    /\ Offsets \subseteq CentiOffsets
    /\ \A values \in Temperatures \cup Humidities \cup Offsets : AtMostOne(values)
    /\ Seconds \subseteq Nat
ASSUME LinkAssumption ==
    \A link \in Links : /\ link.role \in Roles
                        /\ link.ftd \in BOOLEAN
                        /\ link.parent \subseteq 0..3
                        /\ link.neighbours \subseteq 0..3
ASSUME FaultAssumption == Faults \subseteq {"blanking_on", "flush", "blanking_off"}

VARIABLES
    displayState,      \* mState
    secondaryPresent,  \* mSecondarySensorPresent
    current,           \* mCurrent...
    last,              \* mLast..., the two visibilities included
    partialCount,      \* mPartialUpdateCount
    infoLeft,          \* mTemporarySensorInfoRefreshesRemaining
    widgets,           \* the LVGL objects
    panel,             \* the picture sent last, as an optional value
    draws,             \* pictures since the last full update that repaired, or failure
    introduced         \* refreshes outside sessions, up to InfoCount

settings == <<displayState, secondaryPresent>>
device == <<widgets, panel, trust, draws>>
vars == <<settings, current, last, partialCount, infoLeft, device, introduced>>

-----------------------------------------------------------------------------
(* GetThreadConnectivity (src/thread_status.cpp): the quality of the link  *)
(* to the parent, or of the best link to a neighbour.                      *)

Connected(link) == link.role \notin {"disabled", "detached"}

Qualities(link) ==
    CASE link.role = "child"                           -> link.parent
      [] link.role \in {"router", "leader"} /\ link.ftd -> link.neighbours
      [] OTHER                                         -> {}

Connectivity(link) ==
    [connected |-> Connected(link),
     lqi |-> CHOOSE q \in 0..3 : /\ q \in Qualities(link) \cup {0}
                                 /\ \A other \in Qualities(link) : other <= q]

-----------------------------------------------------------------------------
(* The setters. *)

Set(content) ==
    /\ current' = content
    /\ UNCHANGED <<settings, last, partialCount, infoLeft, device, introduced>>

UpdateMeasurements(temperature, humidity) ==
    Set([current EXCEPT !.temperature = temperature, !.humidity = humidity])

UpdateSignalStrength(link) == Set([current EXCEPT !.signal = Connectivity(link)])

SetDecontaminationStatus(active, elapsed) ==
    Set([current EXCEPT !.active = active, !.elapsed = elapsed])

SetPrimarySensorName(name) == Set([current EXCEPT !.name = name])

(* Without a secondary sensor its humidity stays absent. *)
SetSecondaryHumidity(humidity) ==
    /\ secondaryPresent \/ humidity = {}
    /\ Set([current EXCEPT !.secondary = humidity])

SetHumidityCalibrationOffset(offset) == Set([current EXCEPT !.offset = offset])

-----------------------------------------------------------------------------
(* What is drawn *)

(* In single-sensor mode the information hides when its budget is spent. *)
InfoVisible == secondaryPresent \/ infoLeft > 0

NameVisible == current.name # {} /\ InfoVisible
OffsetVisible == current.offset # {} /\ InfoVisible

Shown(text) == [text |-> text, hidden |-> FALSE]
Hidden(widget) == [text |-> widget.text, hidden |-> TRUE]

Delta(c) == {SignedTenths(h - s) : h \in c.humidity, s \in c.secondary}

(* The widgets when they are built. *)
BuiltWidgets ==
    [temperature |-> {}, humidity |-> {},
     name   |-> [text |-> {}, hidden |-> TRUE],
     delta  |-> [text |-> {}, hidden |-> TRUE],
     offset |-> [text |-> {}, hidden |-> TRUE],
     decon  |-> [text |-> {}, hidden |-> TRUE],
     statusBarHidden |-> FALSE]

(* DrawMeasurements, DrawSensorInfo and DrawDecontamination: a widget that *)
(* is hidden keeps its text.                                               *)
DrawnWidgets ==
    [temperature |-> {TemperatureTenths(t) : t \in current.temperature},
     humidity    |-> {HumidityTenths(h) : h \in current.humidity},
     name   |-> IF NameVisible THEN Shown(current.name) ELSE Hidden(widgets.name),
     delta  |-> IF Delta(current) # {} THEN Shown(Delta(current)) ELSE Hidden(widgets.delta),
     offset |-> IF OffsetVisible THEN Shown({SignedTenths(o) : o \in current.offset})
                                 ELSE Hidden(widgets.offset),
     decon  |-> IF current.active THEN Shown({MinutesSeconds(current.elapsed)})
                                  ELSE Hidden(widgets.decon),
     statusBarHidden |-> current.active]

Visible(widget) == IF widget.hidden THEN {} ELSE widget.text

(* LVGL renders what is not hidden; the status bar holds the name, the     *)
(* difference and the offset, and the bars are drawn from mCurrent... .    *)
Rendered(w) ==
    [temperature |-> w.temperature,
     humidity    |-> w.humidity,
     bars        |-> Bars(current.signal),
     name   |-> IF w.statusBarHidden THEN {} ELSE Visible(w.name),
     delta  |-> IF w.statusBarHidden THEN {} ELSE Visible(w.delta),
     offset |-> IF w.statusBarHidden THEN {} ELSE Visible(w.offset),
     decon  |-> Visible(w.decon)]

-----------------------------------------------------------------------------
(* RefreshDisplay *)

(* Variant: the visibilities are not compared. *)
NoChangeOfContent == current = last.content

NoChange ==
    /\ current = last.content
    /\ NameVisible = last.nameVisible
    /\ OffsetVisible = last.offsetVisible

(* The constant is a uint8_t, and so is the counter. *)
FullInterval == WrittenInterval % 256

Counted == (partialCount + 1) % 256

(* Variant: one partial update more. *)
FullUpdateLate == Counted > FullInterval

FullUpdate == Counted >= FullInterval

(* The calls on the display: blanking around a full update, and the flush  *)
(* in lv_timer_handler.  Nobody looks at their results.  After a failure   *)
(* the panel and the planes of its controller may hold anything, until a   *)
(* full update repairs them.                                               *)
Transfer ==
    /\ widgets' = DrawnWidgets
    /\ panel' = {Rendered(widgets')}
    /\ \/ /\ Succeeded(FullUpdate)
          /\ draws' = IF FullUpdate /\ ~stale THEN 0 ELSE draws + 1
       \/ /\ \E call \in Faults : call = "flush" \/ FullUpdate
          /\ Failed(FullUpdate)
          /\ draws' = 0

(* Variant: sessions use up the budget as well. *)
SpendInfoAlways ==
    infoLeft' = IF ~secondaryPresent /\ infoLeft > 0 THEN infoLeft - 1 ELSE infoLeft

(* Variant: only a refresh that draws uses up the budget. *)
SpendInfoOnChange ==
    infoLeft' = IF ~secondaryPresent /\ ~current.active /\ infoLeft > 0 /\ ~NoChange
                THEN infoLeft - 1 ELSE infoLeft

(* Outside a session each refresh of single-sensor mode uses up the budget, *)
(* whether it draws or not.                                                *)
SpendInfo ==
    infoLeft' = IF ~secondaryPresent /\ ~current.active /\ infoLeft > 0
                THEN infoLeft - 1 ELSE infoLeft

RefreshDisplay ==
    /\ displayState = "ready"
    /\ IF NoChange
       THEN UNCHANGED <<last, partialCount, device>>
       ELSE /\ Transfer
            /\ partialCount' = IF FullUpdate THEN 0 ELSE Counted
            /\ last' = [content |-> current, nameVisible |-> NameVisible,
                        offsetVisible |-> OffsetVisible]
    /\ SpendInfo
    /\ introduced' = IF current.active \/ introduced = InfoCount
                     THEN introduced ELSE introduced + 1
    /\ UNCHANGED <<settings, current>>

(* InitOnWorker: until then, and without a display, a refresh returns. *)
InitOnWorker ==
    /\ displayState = "uninitialised"
    /\ \/ displayState' = "ready" /\ widgets' = BuiltWidgets
       \/ displayState' = "unavailable" /\ UNCHANGED widgets
    /\ UNCHANGED <<secondaryPresent, current, last, partialCount, infoLeft,
                   panel, trust, draws, introduced>>

-----------------------------------------------------------------------------

NoSignal == [connected |-> FALSE, lqi |-> 0]

InitialContent ==
    [temperature |-> {}, humidity |-> {}, signal |-> NoSignal, active |-> FALSE,
     elapsed |-> 0, name |-> {}, secondary |-> {}, offset |-> {}]

(* The quality and the elapsed time are values that nobody sets, so the    *)
(* first refresh draws.                                                    *)
NeverShown ==
    [content |-> [InitialContent EXCEPT !.signal = [connected |-> FALSE, lqi |-> 255],
                                        !.elapsed = NoElapsed],
     nameVisible |-> FALSE, offsetVisible |-> FALSE]

Init ==
    /\ displayState = "uninitialised"
    /\ secondaryPresent \in BOOLEAN
    /\ current = InitialContent
    /\ last = NeverShown
    /\ partialCount = 0
    /\ infoLeft = InfoCount
    /\ widgets = BuiltWidgets
    /\ panel = {}
    /\ trusted = TRUE
    /\ stale = FALSE
    /\ draws = 0
    /\ introduced = 0

EndSession == SetDecontaminationStatus(FALSE, 0)

Setter ==
    \/ \E t \in Temperatures, h \in Humidities : UpdateMeasurements(t, h)
    \/ \E link \in Links : UpdateSignalStrength(link)
    \/ \E s \in Seconds : SetDecontaminationStatus(TRUE, s)
    \/ EndSession
    \/ \E name \in Names : SetPrimarySensorName(name)
    \/ \E h \in Humidities : SetSecondaryHumidity(h)
    \/ \E o \in Offsets : SetHumidityCalibrationOffset(o)

Next == Setter \/ InitOnWorker \/ RefreshDisplay

Spec == Init /\ [][Next]_vars

(* The worker carries out the bring-up; sessions end; ticks come again and  *)
(* again, and refresh the display unless a session is active.               *)
Fairness ==
    /\ WF_vars(InitOnWorker)
    /\ SF_vars(current.active /\ EndSession)
    /\ SF_vars(~current.active /\ RefreshDisplay)

FairSpec == Spec /\ Fairness

-----------------------------------------------------------------------------
(* Properties *)

Contents ==
    [temperature : CentiDegrees, humidity : CentiPercents, signal : Signals,
     active : BOOLEAN, elapsed : ElapsedTimes, name : NamesOrNone,
     secondary : CentiPercents, offset : CentiOffsets]

SingleValued(c) ==
    /\ AtMostOne(c.temperature) /\ AtMostOne(c.humidity)
    /\ AtMostOne(c.secondary) /\ AtMostOne(c.offset)

(* A type invariant: an eight-bit counter stays below the interval. *)
TypeOK ==
    /\ displayState \in {"uninitialised", "ready", "unavailable"}
    /\ secondaryPresent \in BOOLEAN
    /\ current \in Contents /\ SingleValued(current) /\ current.elapsed # NoElapsed
    /\ last \in [content : Contents, nameVisible : BOOLEAN, offsetVisible : BOOLEAN]
    /\ SingleValued(last.content)
    /\ trusted \in BOOLEAN /\ stale \in BOOLEAN
    /\ partialCount \in 0..FullInterval - 1
    /\ infoLeft \in 0..InfoCount
    /\ draws \in Nat
    /\ introduced \in 0..InfoCount

(* The picture of a content: all of it, but under the label of a session   *)
(* none of the sensor's information.                                       *)
Picture(c, nameVisible, offsetVisible) ==
    [temperature |-> {TemperatureTenths(t) : t \in c.temperature},
     humidity    |-> {HumidityTenths(h) : h \in c.humidity},
     bars        |-> Bars(c.signal),
     name   |-> IF c.active \/ ~nameVisible THEN {} ELSE c.name,
     delta  |-> IF c.active THEN {} ELSE Delta(c),
     offset |-> IF c.active \/ ~offsetVisible
                THEN {} ELSE {SignedTenths(o) : o \in c.offset},
     decon  |-> IF c.active THEN {MinutesSeconds(c.elapsed)} ELSE {}]

(* Unless a call has failed and no full update has repaired the panel      *)
(* since, it shows exactly what mLast... records, and where noChange lets  *)
(* a refresh do nothing exactly what the refresh is asked to show:         *)
(* noChange hides no redraw, not even the first, and no label keeps an old *)
(* text.                                                                   *)
RefreshShowsCurrent ==
    displayState = "ready" /\ trusted =>
        /\ panel # {} =>
               panel = {Picture(last.content, last.nameVisible, last.offsetVisible)}
        /\ NoChange => panel = {Picture(current, NameVisible, OffsetVisible)}

(* The panel is not left longer than kFullUpdateInterval pictures without  *)
(* a full update; after a failed call it takes at most one more to repair  *)
(* it, because the first full update after a failed partial one may not.   *)
FullUpdateInTime == draws <= FullInterval /\ (trusted => draws < FullInterval)

(* "In single-sensor mode, the primary name and HDC302x humidity           *)
(* calibration offset display for this many refreshes after boot, then     *)
(* hide" (display_manager.h); refreshes of a session do not count, and     *)
(* with two sensors the information never hides.                           *)
InfoWindow ==
    [][RefreshDisplay /\ trusted' /\ ~current.active
       => LET due == secondaryPresent \/ introduced < InfoCount
          IN  \A p \in panel' : /\ p.name = IF due THEN current.name ELSE {}
                                /\ p.offset # {} <=> due /\ current.offset # {}]_vars

(* What the panel reads is never further than half a step from the value   *)
(* it stands for, in either direction and on both sides of zero.           *)
ReadsNearest ==
    \A p \in panel :
        LET c == last.content IN
        /\ \A t \in c.temperature, s \in p.temperature :
               Magnitude(10 * s.sign * s.tenths - t) <= 5
        /\ \A h \in c.humidity, s \in p.humidity : Magnitude(10 * s - h) <= 10
        /\ \A h \in c.humidity, r \in c.secondary, s \in p.delta :
               Magnitude(10 * s - (h - r)) <= 5
        /\ \A o \in c.offset, s \in p.offset : Magnitude(10 * s - o) <= 5

(* In single-sensor mode the information is, from some point on, not on a  *)
(* panel that no failed call has left in doubt: also if the readings never *)
(* change, and in spite of sessions.  A failed flush of the very refresh   *)
(* that hides it is not made up for as long as noChange holds: mLast... is *)
(* set all the same, and the panel may keep the information.               *)
InfoHides ==
    displayState = "ready" /\ ~secondaryPresent
        ~> [](trusted => \A p \in panel : p.name = {} /\ p.offset = {})
=============================================================================
