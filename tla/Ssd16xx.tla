------------------------------- MODULE Ssd16xx -------------------------------
(***************************************************************************)
(* The e-paper driver of the application (src/drivers/display/ssd16xx.c)   *)
(* and the controller as the driver uses it.                               *)
(*                                                                         *)
(* The controller holds two images: the black plane is the next one, the   *)
(* red plane the one before.  A full refresh shows the black plane.  A     *)
(* partial refresh drives only the pixels in which the planes differ and   *)
(* then swaps them.  The driver's steps are its transfers to the           *)
(* controller, each of which may fail; a restart may come between two.     *)
(***************************************************************************)
EXTENDS Ssd16xxGeometry

CONSTANTS
    HavePartial,  \* config->profiles[SSD16XX_PROFILE_PARTIAL] != NULL
    Rotation,     \* config->rotation, as an orientation
    Images,       \* what the caller draws
    Rects,        \* the rectangles the caller draws
    Turns,        \* the orientations the caller sets
    Faults,       \* the kinds of transfer that may fail
    MayRestart    \* the device may be reset at any time

ASSUME ConfigAssumption ==
    /\ HavePartial \in BOOLEAN
    /\ MayRestart \in BOOLEAN
    /\ Rotation \in Orientations
    /\ Turns \subseteq Orientations
    /\ Rects \subseteq Rectangles
    /\ Faults \subseteq {"reset", "profile", "window", "data", "refresh", "entry"}
    /\ "noise" \notin Images

(* A write may transfer its buffer twice and sets the address counters      *)
(* once.  The second transfer starts where the first has ended, which is   *)
(* the start of the window if the buffer has filled it; Ssd16xxWindow is   *)
(* about when it does.  Rectangles whose window it does not fill are out   *)
(* of this module's reach.                                                 *)
ASSUME TransfersFillWindows ==
    \A o \in Turns \cup {Rotation}, r \in Rects : Accepted(o, r) => FacesScan(o, r)

VARIABLES
    profile,      \* data->profile
    blankingOn,   \* data->blanking_on
    scanMode,     \* data->scan_mode, named by the orientation it serves
    orientation,  \* data->orientation
    programmed,   \* controller: the profile its registers were set up for
    entry,        \* controller: the entry mode
    window,       \* controller: the RAM window, as an optional value
    black,        \* controller: the black plane
    red,          \* controller: the red plane
    panel,        \* what can be seen
    pc,           \* the next transfer of the driver
    call,         \* the arguments of ssd16xx_write, as an optional value
    err,          \* the last call has returned an error
    healthy       \* no failure has left the controller unlike the driver's notes

driverVars == <<profile, blankingOn, scanMode, orientation>>
registers == <<programmed, entry, window>>
planes == <<black, red>>
vars == <<driverVars, registers, planes, panel, pc, call, err, healthy>>

(* The pages of the RAM, the one that is not filled included. *)
Pages == 0..((Height + 7) \div 8) - 1

Cells == Pages \X (0..Width - 1)

(* A byte that holds something else than one of the images. *)
Contents == Images \cup {"blank", "noise"}

Filled(content) == [c \in Cells |-> content]

(* The bytes that the controller fills from a buffer for rectangle r. *)
Written(r) ==
    {Address(EntryMode(entry), win, slow, fast) :
        win \in window,
        slow \in 0..BufferRows(orientation, r) - 1,
        fast \in 0..BufferColumns(orientation, r) - 1}

(* A plane after a transfer of the buffer.  If the controller does not     *)
(* scan the window the way the driver set it up, the bytes go anywhere.    *)
WithBuffer(plane, r, content) ==
    IF entry = orientation
    THEN [c \in Cells |-> IF c \in Written(r) THEN content ELSE plane[c]]
    ELSE Filled("noise")

-----------------------------------------------------------------------------
(* Calls *)

Initialising == {"reset", "init_profile", "clear_black", "clear_red", "orient", "show"}

Idle == pc = "idle"

(* A call returns with an error, or the initialisation gives up for good.  *)
Fail(kind) ==
    /\ kind \in Faults
    /\ pc' = IF pc \in Initialising THEN "down" ELSE "idle"
    /\ call' = {}
    /\ err' = TRUE

Goto(step) ==
    /\ pc' = step
    /\ call' = IF step = "idle" THEN {} ELSE call
    /\ err' = FALSE

(* ssd16xx_set_profile: the software reset clears every register, then the *)
(* profile is written, the entry mode last.                                *)
SetProfile(type) ==
    /\ profile' = type
    /\ UNCHANGED <<scanMode, orientation, planes, panel, healthy>>
    /\ IF type = profile
       THEN UNCHANGED registers
       ELSE programmed' = type /\ entry' = scanMode /\ window' = {}

(* Variant: the profile is noted before it is written. *)
SetProfileFailsNoted(type) ==
    /\ type # profile
    /\ Fail("profile")
    /\ profile' = type
    /\ \/ UNCHANGED <<registers, healthy>>
       \/ programmed' = "none" /\ entry' = "none" /\ window' = {} /\ healthy' = FALSE
    /\ UNCHANGED <<blankingOn, scanMode, orientation, planes, panel>>

(* The reset, or one of the transfers after it, fails. *)
SetProfileFails(type) ==
    /\ type # profile
    /\ Fail("profile")
    /\ \/ UNCHANGED <<registers, healthy>>
       \/ programmed' = "none" /\ entry' = "none" /\ window' = {} /\ healthy' = FALSE
    /\ UNCHANGED <<driverVars, planes, panel>>

(* What the panel shows of a byte after a partial refresh: it changes from *)
(* the red plane's image to the black one's.  If the panel shows something *)
(* else, the pixels in which the planes agree keep what they show.         *)
Driven(c) ==
    IF red[c] = panel[c] /\ red[c] # "noise" THEN black[c] ELSE "noise"

(* Variant: the planes are not swapped. *)
RefreshWithoutSwap ==
    /\ panel' = CASE programmed # profile -> Filled("noise")
                  [] profile = "partial"  -> [c \in Cells |-> Driven(c)]
                  [] OTHER                -> black
    /\ UNCHANGED <<planes, healthy>>

(* ssd16xx_update_display: the refresh of the profile the driver believes  *)
(* in, with the registers as they are.                                     *)
Refresh ==
    /\ panel' = CASE programmed # profile -> Filled("noise")
                  [] profile = "partial"  -> [c \in Cells |-> Driven(c)]
                  [] OTHER                -> black
    /\ IF profile = "partial" THEN black' = red /\ red' = black
                              ELSE UNCHANGED planes
    /\ UNCHANGED healthy

RefreshFails ==
    /\ Fail("refresh")
    /\ healthy' = FALSE
    /\ UNCHANGED <<panel, planes>>

-----------------------------------------------------------------------------
(* ssd16xx_write *)

PartialRefresh == ~blankingOn /\ HavePartial

Write(r, image) ==
    /\ Idle
    /\ call' = {[rect |-> r, image |-> image]}
    /\ pc' = IF PartialRefresh THEN "profile" ELSE "window"
    /\ err' = FALSE
    /\ UNCHANGED <<driverVars, registers, planes, panel, healthy>>

WriteProfile ==
    /\ pc = "profile"
    /\ \/ SetProfile("partial") /\ Goto("window") /\ UNCHANGED blankingOn
       \/ SetProfileFails("partial")

(* ssd16xx_set_window, for a write and, below, for a read. *)
SetWindow(r) ==
    /\ Accepted(orientation, r)
    /\ window' = {Window(orientation, r)}
    /\ UNCHANGED <<driverVars, programmed, entry, planes, panel, healthy>>

Reject(r) ==
    /\ ~Accepted(orientation, r)
    /\ pc' = "idle" /\ call' = {} /\ err' = TRUE
    /\ UNCHANGED <<driverVars, registers, planes, panel, healthy>>

SetWindowFails(r) ==
    /\ Accepted(orientation, r)
    /\ Fail("window")
    /\ window' = {}
    /\ UNCHANGED <<driverVars, programmed, entry, planes, panel, healthy>>

WriteWindow ==
    /\ pc = "window"
    /\ \E args \in call :
          \/ SetWindow(args.rect) /\ Goto("ram")
          \/ Reject(args.rect)
          \/ SetWindowFails(args.rect)

(* Variant: a driver that refreshes although blanking is on. *)
AfterRamRefreshing == "refresh"

(* Where WRITE_RAM leads: to the refresh or, while blanking is on, to the  *)
(* red plane, if partial refreshes will want it.                           *)
AfterRam ==
    IF ~blankingOn THEN "refresh" ELSE IF HavePartial THEN "write_red" ELSE "idle"

(* A transfer of the buffer to one of the planes, whole or broken off. *)
WriteBlack(next) ==
    /\ \E args \in call :
          \/ /\ black' = WithBuffer(black, args.rect, args.image)
             /\ Goto(next)
             /\ UNCHANGED healthy
          \/ /\ black' = WithBuffer(black, args.rect, "noise")
             /\ Fail("data")
             /\ healthy' = FALSE
    /\ UNCHANGED <<driverVars, registers, red, panel>>

WriteRam == pc = "ram" /\ WriteBlack(AfterRam)

WriteRefresh ==
    /\ pc = "refresh"
    /\ \/ Refresh /\ Goto(IF HavePartial THEN "write_again" ELSE "idle")
       \/ RefreshFails
    /\ UNCHANGED <<driverVars, registers>>

(* After the swap the black plane lacks the new image. *)
WriteAgain == pc = "write_again" /\ WriteBlack("idle")

WriteRed ==
    /\ pc = "write_red"
    /\ \E args \in call :
          \/ /\ red' = WithBuffer(red, args.rect, args.image)
             /\ Goto("idle")
             /\ UNCHANGED healthy
          \/ /\ red' = WithBuffer(red, args.rect, "noise")
             /\ Fail("data")
             /\ healthy' = FALSE
    /\ UNCHANGED <<driverVars, registers, black, panel>>

-----------------------------------------------------------------------------
(* The other calls *)

(* ssd16xx_blanking_on; when it is on already the call does nothing. *)
BlankingOn ==
    /\ Idle
    /\ ~blankingOn
    /\ \/ SetProfile("full") /\ blankingOn' = TRUE /\ Goto("idle")
       \/ SetProfileFails("full")

(* ssd16xx_blanking_off: blanking is off before the refresh is tried. *)
BlankingOff ==
    /\ Idle
    /\ blankingOn
    /\ blankingOn' = FALSE
    /\ \/ Refresh /\ Goto("idle")
       \/ RefreshFails
    /\ UNCHANGED <<profile, scanMode, orientation, registers>>

(* ssd16xx_set_orientation: the scan mode is noted before it is written,   *)
(* the orientation after.                                                  *)
SetOrientation(o, next) ==
    /\ scanMode' = o
    /\ \/ /\ entry' = o
          /\ orientation' = o
          /\ Goto(next)
          /\ UNCHANGED healthy
       \/ /\ Fail("entry")
          /\ healthy' = FALSE
          /\ UNCHANGED <<entry, orientation>>
    /\ UNCHANGED <<profile, blankingOn, programmed, window, planes, panel>>

Turn(o) == Idle /\ SetOrientation(o, "idle")

(* ssd16xx_read_ram: a read sets the window and leaves the rest alone. *)
Read(r) ==
    /\ Idle
    /\ \/ SetWindow(r) /\ Goto("idle")
       \/ SetWindowFails(r)

-----------------------------------------------------------------------------
(* ssd16xx_init and ssd16xx_controller_init *)

(* The processor starts: its RAM holds zeros, that of the controller may   *)
(* hold anything, the panel what it showed.                                *)
Restart ==
    /\ MayRestart \/ pc = "off"
    /\ profile' = "full"
    /\ blankingOn' = FALSE
    /\ scanMode' = "rot90"
    /\ orientation' = "normal"
    /\ programmed' = "none"
    /\ entry' = "none"
    /\ window' = {}
    /\ black' = Filled("noise")
    /\ red' = Filled("noise")
    /\ pc' = "reset"
    /\ call' = {}
    /\ err' = FALSE
    /\ healthy' = TRUE
    /\ UNCHANGED panel

(* The profile is set to none, so that the next step writes it. *)
Reset ==
    /\ pc = "reset"
    /\ blankingOn' = FALSE
    /\ profile' = "invalid"
    /\ Goto("init_profile") \/ Fail("reset")
    /\ UNCHANGED <<scanMode, orientation, registers, planes, panel, healthy>>

InitProfile ==
    /\ pc = "init_profile"
    /\ \/ SetProfile("full") /\ Goto("clear_black") /\ UNCHANGED blankingOn
       \/ SetProfileFails("full")

(* Variant: one gate too many is cleared. *)
ClearWindowTooHigh ==
    /\ entry' = "rot180"
    /\ window' = {[x |-> RamXSpan(<<0, (Height + 7) \div 8 - 1>>), y |-> <<Width, 0>>]}
    /\ UNCHANGED <<driverVars, programmed, panel>>

(* ssd16xx_clear_cntlr_mem, up to the bytes: all of the RAM, in a scan     *)
(* mode of its own, which is that of the orientation rot180.               *)
ClearWindow ==
    /\ entry' = "rot180"
    /\ window' = {[x |-> RamXSpan(<<0, (Height + 7) \div 8 - 1>>), y |-> <<Width - 1, 0>>]}
    /\ UNCHANGED <<driverVars, programmed, panel>>

ClearBlack ==
    /\ pc = "clear_black"
    /\ ClearWindow
    /\ \/ black' = Filled("blank") /\ Goto("clear_red") /\ UNCHANGED healthy
       \/ black' = Filled("noise") /\ Fail("data") /\ healthy' = FALSE
    /\ UNCHANGED red

(* Without a partial profile the red plane is filled with zeros instead,   *)
(* which a panel with a red colour needs.                                  *)
ClearRed ==
    /\ pc = "clear_red"
    /\ ClearWindow
    /\ \/ red' = Filled(IF HavePartial THEN "blank" ELSE "noise") /\ Goto("orient") /\ UNCHANGED healthy
       \/ red' = Filled("noise") /\ Fail("data") /\ healthy' = FALSE
    /\ UNCHANGED black

Orient == pc = "orient" /\ SetOrientation(Rotation, "show")

Show ==
    /\ pc = "show"
    /\ \/ Refresh /\ Goto("idle")
       \/ RefreshFails
    /\ UNCHANGED <<driverVars, registers>>

-----------------------------------------------------------------------------

Init ==
    /\ profile = "full"
    /\ blankingOn = FALSE
    /\ scanMode = "rot90"
    /\ orientation = "normal"
    /\ programmed = "none"
    /\ entry = "none"
    /\ window = {}
    /\ black = Filled("noise")
    /\ red = Filled("noise")
    /\ panel = Filled("noise")
    /\ pc = "off"
    /\ call = {}
    /\ err = FALSE
    /\ healthy = TRUE

Initialise == Restart \/ Reset \/ InitProfile \/ ClearBlack \/ ClearRed \/ Orient \/ Show

WriteStep == WriteProfile \/ WriteWindow \/ WriteRam \/ WriteRefresh \/ WriteAgain \/ WriteRed

Call ==
    \/ \E r \in Rects, image \in Images : Write(r, image)
    \/ \E r \in Rects : Read(r)
    \/ \E o \in Turns : Turn(o)
    \/ BlankingOn
    \/ BlankingOff

Next == Initialise \/ WriteStep \/ Call

Spec == Init /\ [][Next]_vars

-----------------------------------------------------------------------------
(* Properties *)

(* A type invariant: the window, too, stays within the RAM. *)
TypeOK ==
    /\ profile \in {"full", "partial", "invalid"}
    /\ blankingOn \in BOOLEAN
    /\ scanMode \in Orientations
    /\ orientation \in Orientations
    /\ programmed \in {"full", "partial", "none"}
    /\ entry \in Orientations \cup {"none"}
    /\ \A win \in window, i \in 1..2 :
           PageAt(win.x[i]) \in Pages /\ win.y[i] \in 0..Width - 1
    /\ {black, red, panel} \subseteq [Cells -> Contents]
    /\ pc \in Initialising \cup {"off", "down", "idle", "profile", "window", "ram",
                                 "refresh", "write_again", "write_red"}
    /\ call \subseteq [rect : Rects, image : Images]
    /\ {err, healthy} \subseteq BOOLEAN

(* Between calls the driver knows the state of the controller, whatever    *)
(* failed before the last initialisation and whatever was refused since:   *)
(* the profile and the scan mode are the ones it has noted, the panel      *)
(* shows the black plane unless blanking is on, and the red plane is ready *)
(* for the next partial refresh.                                           *)
InStep ==
    Idle /\ healthy =>
        /\ programmed = profile
        /\ entry = orientation /\ scanMode = orientation
        /\ ~blankingOn => panel = black
        /\ HavePartial => red = black

(* While blanking is on, nothing changes the panel, whatever fails: the    *)
(* full refresh comes when blanking is turned off.                         *)
PanelHeld == [][blankingOn /\ blankingOn' => panel' = panel]_vars

(* "Request the partial profile.  This operation becomes a no-op if the    *)
(* profile is already active" (ssd16xx_write): after it, it is active.     *)
PartialActive == pc = "window" /\ PartialRefresh => programmed = "partial"

(* The driver keeps the promise of a frame buffer as long as no failure     *)
(* has led controller and driver apart, and again from the next            *)
(* initialisation on.                                                      *)
Working == healthy /\ pc \notin Initialising \cup {"off", "down"}

Promise == INSTANCE Framebuffer WITH
    ready   <- Working,
    shown   <- panel,
    frame   <- IF Working /\ blankingOn THEN black ELSE panel,
    blanked <- Working /\ blankingOn,
    turned  <- IF Working THEN orientation ELSE Rotation

ImplementsFramebuffer == Promise!Spec
=============================================================================
