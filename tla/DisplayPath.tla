----------------------------- MODULE DisplayPath -----------------------------
(***************************************************************************)
(* DisplayManager::RefreshDisplay (src/display_manager.cpp) as the only    *)
(* caller of the display driver: blanking around a full update, and one    *)
(* write of the whole screen, which is how LVGL flushes a picture with     *)
(* CONFIG_LV_Z_FULL_REFRESH.  Results are ignored.  Which updates are full *)
(* ones is the subject of RefreshPolicy; here each may be.                 *)
(***************************************************************************)
EXTENDS Ssd16xx, UpdateTrust

VARIABLES
    step,    \* the next call of RefreshDisplay, "none" outside
    full,    \* fullUpdate
    sent,    \* the picture drawn last; after a start the empty one
    failed   \* a call of this update has failed

pathVars == <<vars, trust, step, full, sent, failed>>

Screen == [x |-> 0, y |-> 0, width |-> XResolution(Rotation), height |-> YResolution(Rotation)]

(* RefreshDisplay, when something has changed. *)
Update ==
    /\ Idle /\ step = "none"
    /\ sent' \in Images
    /\ full' \in BOOLEAN
    /\ step' = IF full' THEN "blanking_on" ELSE "flush"
    /\ UNCHANGED <<vars, trust, failed>>

(* The update ends. *)
Finish(failure) ==
    /\ step' = "none"
    /\ failed' = FALSE
    /\ IF failure THEN Failed(full) ELSE Succeeded(full)

TurnBlankingOn ==
    /\ step = "blanking_on"
    /\ BlankingOn
    /\ step' = "flush"
    /\ failed' = err'
    /\ UNCHANGED <<trust, full, sent>>

(* lv_timer_handler draws the picture and flushes it. *)
Flush ==
    /\ step = "flush"
    /\ Write(Screen, sent)
    /\ step' = "flushing"
    /\ UNCHANGED <<trust, full, sent, failed>>

Flushing ==
    /\ step = "flushing"
    /\ WriteStep
    /\ CASE pc' # "idle" -> UNCHANGED <<trust, step, failed>>
         [] pc' = "idle" /\ full ->
                /\ step' = "blanking_off"
                /\ failed' = (failed \/ err')
                /\ UNCHANGED trust
         [] pc' = "idle" /\ ~full -> Finish(err')
    /\ UNCHANGED <<full, sent>>

(* When blanking could not be turned on, nothing is left to do. *)
TurnBlankingOff ==
    /\ step = "blanking_off"
    /\ \/ BlankingOff /\ Finish(failed \/ err')
       \/ ~blankingOn /\ UNCHANGED vars /\ Finish(TRUE)
    /\ UNCHANGED <<full, sent>>

(* A reset restarts both, and the driver is initialised before the display *)
(* manager asks whether it is ready.                                       *)
Boot ==
    /\ Restart
    /\ step' = "none"
    /\ full' = FALSE
    /\ sent' = "blank"
    /\ failed' = FALSE
    /\ trusted' = TRUE
    /\ stale' = FALSE

DriverInit ==
    /\ Reset \/ InitProfile \/ ClearBlack \/ ClearRed \/ Orient \/ Show
    /\ UNCHANGED <<trust, step, full, sent, failed>>

PathInit ==
    /\ Init
    /\ step = "none"
    /\ full = FALSE
    /\ sent = "blank"
    /\ failed = FALSE
    /\ trusted = TRUE
    /\ stale = FALSE

PathNext ==
    \/ Update \/ TurnBlankingOn \/ Flush \/ Flushing \/ TurnBlankingOff
    \/ Boot \/ DriverInit

PathSpec == PathInit /\ [][PathNext]_pathVars

-----------------------------------------------------------------------------
(* Properties *)

(* The bytes of RAM that hold the pixels of the screen: all pages but the  *)
(* one that the driver never fills.                                        *)
Visible ==
    {CellOf(Rotated(Rotation, x, y)) : x \in 0..Screen.width - 1, y \in 0..Screen.height - 1}

(* Between two updates the panel shows the picture sent last whenever the  *)
(* rules of UpdateTrust say so: whichever transfers have failed before,    *)
(* and although the driver may take the controller for programmed when it  *)
(* is not, one full update repairs the panel and both planes, unless a     *)
(* partial update has failed and none has succeeded since.                 *)
TrustJustified ==
    Idle /\ step = "none" /\ trusted => \A c \in Visible : panel[c] = sent
=============================================================================
