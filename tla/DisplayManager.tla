--------------------------- MODULE DisplayManager ---------------------------
(***************************************************************************)
(* DisplayManager (src/display_manager.cpp): what the application wants on *)
(* the e-paper panel, what it last sent there and what the panel holds,    *)
(* with RefreshDisplay split where another thread can get in between.      *)
(*                                                                         *)
(* A content stands for the mCurrent... or mLast... fields: which sensor   *)
(* the primary and the secondary reading came from ("none" when absent),   *)
(* the sensor named on the status bar, the calibration offset shown and    *)
(* whether the DECON label is shown.  The numbers, the signal bars and the *)
(* elapsed seconds are left out: two equal contents may or may not hide a  *)
(* difference in those, so a refresh of an equal content may do either.    *)
(***************************************************************************)
EXTENDS IoWorker

CONSTANT Display   \* CONFIG_DISPLAY

ASSUME DisplayIsBoolean == Display \in BOOLEAN

VARIABLES
    displayState,  \* mState
    cur,           \* mCurrent...: written by the setters
    last,          \* mLast...: what noChange compares cur with
    labels,        \* the LVGL objects, as the Draw... functions left them
    panel          \* what lv_timer_handler has sent to the panel

displayVars == <<displayState, cur, last, labels, panel>>

NoSource == "none"

(* An optional offset is the set of its value, or empty. *)
NoOffset == {}

Blank == [meas |-> NoSource, sec |-> NoSource, name |-> NoSource,
          offset |-> NoOffset, decon |-> FALSE]

(***************************************************************************)
(* The setters.  Each yields the content after the call.                   *)
(***************************************************************************)
UpdateMeasurements(content, source) == [content EXCEPT !.meas = source]
SetDecontaminationStatus(content, active) == [content EXCEPT !.decon = active]
SetPrimarySensorName(content, sensor) == [content EXCEPT !.name = sensor]
SetSecondaryHumidity(content, source) == [content EXCEPT !.sec = source]
SetHumidityCalibrationOffset(content, offset) == [content EXCEPT !.offset = offset]

(***************************************************************************)
(* A handler of thread t sets the content and calls RefreshDisplay, which  *)
(* returns to the location ret.  Without CONFIG_DISPLAY both are compiled  *)
(* out.                                                                    *)
(***************************************************************************)
ShowAndRefresh(t, content, ret) ==
    IF Display
    THEN /\ cur' = content
         /\ Goto(t, "refresh")
         /\ resume' = [resume EXCEPT ![t] = ret]
    ELSE /\ Goto(t, ret)
         /\ UNCHANGED <<cur, resume>>

(* The thread goes on behind its call; the return location is spent. *)
RefreshReturns(t) ==
    /\ Goto(t, resume[t])
    /\ resume' = [resume EXCEPT ![t] = "idle"]

(***************************************************************************)
(* RefreshDisplay returns at once unless the display is ready, and does    *)
(* nothing visible when noChange holds.                                    *)
(***************************************************************************)
RefreshSkip(t) ==
    /\ At(t, "refresh")
    /\ displayState # "ready" \/ cur = last
    /\ RefreshReturns(t)
    /\ UNCHANGED <<workQueue, taskQueue, displayVars>>

(* There is something to draw.  noChange also compares what this module    *)
(* leaves out, the link and the values themselves, so there may be even    *)
(* if cur = last.  A full update waits for the panel in                    *)
(* display_blanking_on before it draws, and once more in                   *)
(* display_blanking_off before it copies the fields: "drawMeasurements"    *)
(* and "commit" stand for these waits too.  A partial update goes straight *)
(* on; RefreshPolicy says which update is which.                           *)
RefreshBegin(t) ==
    /\ At(t, "refresh")
    /\ displayState = "ready"
    /\ Goto(t, "drawMeasurements")
    /\ UNCHANGED <<resume, workQueue, taskQueue, displayVars>>

(***************************************************************************)
(* The Draw... functions copy the current content into the LVGL objects:   *)
(* DrawMeasurements first, then DrawSensorInfo and DrawDecontamination,    *)
(* which share the status bar.                                             *)
(***************************************************************************)
DrawMeasurements(t) ==
    /\ At(t, "drawMeasurements")
    /\ labels' = [labels EXCEPT !.meas = cur.meas]
    /\ Goto(t, "drawStatusBar")
    /\ UNCHANGED <<resume, workQueue, taskQueue, displayState, cur, last, panel>>

DrawStatusBar(t) ==
    /\ At(t, "drawStatusBar")
    /\ labels' = [cur EXCEPT !.meas = labels.meas]
    /\ Goto(t, "flush")
    /\ UNCHANGED <<resume, workQueue, taskQueue, displayState, cur, last, panel>>

RefreshDraw(t) == DrawMeasurements(t) \/ DrawStatusBar(t)

(* Variant: lv_timer_handler is not called. *)
RefreshWithoutFlush(t) ==
    /\ At(t, "flush")
    /\ Goto(t, "commit")
    /\ UNCHANGED <<resume, workQueue, taskQueue, displayVars>>

(* lv_timer_handler renders the objects and sends them over SPI. *)
RefreshFlush(t) ==
    /\ At(t, "flush")
    /\ panel' = labels
    /\ Goto(t, "commit")
    /\ UNCHANGED <<resume, workQueue, taskQueue, displayState, cur, last, labels>>

(* The mCurrent... fields, read again, become the mLast... fields. *)
RefreshCommit(t) ==
    /\ At(t, "commit")
    /\ last' = cur
    /\ RefreshReturns(t)
    /\ UNCHANGED <<workQueue, taskQueue, displayState, cur, labels, panel>>

RefreshDisplay(t) ==
    \/ RefreshSkip(t) \/ RefreshBegin(t) \/ RefreshDraw(t)
    \/ RefreshFlush(t) \/ RefreshCommit(t)

(* InitOnWorker: the display device is ready, or there is no display. *)
RunDisplayInit ==
    /\ TakeWork("displayInit")
    /\ displayState' \in {"ready", "unavailable"}
    /\ UNCHANGED <<pc, resume, taskQueue, cur, last, labels, panel>>

-----------------------------------------------------------------------------

DisplayInit(content) ==
    /\ displayState = "uninitialised"
    /\ cur = content
    /\ last = Blank
    /\ labels = Blank
    /\ panel = Blank

=============================================================================
