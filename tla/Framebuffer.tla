----------------------------- MODULE Framebuffer -----------------------------
(***************************************************************************)
(* What the display driver promises its caller: an image is shown where it *)
(* was drawn as soon as the call returns or, while blanking is on, when    *)
(* blanking is turned off.                                                 *)
(***************************************************************************)
EXTENDS Ssd16xxGeometry

CONSTANTS
    Images,    \* what can be drawn
    Rects,     \* the rectangles that can be drawn
    Rotation,  \* config->rotation
    Cells      \* the bytes of the panel

VARIABLES
    ready,     \* the device is initialised and in order
    shown,     \* what the panel shows
    frame,     \* what it is to show when blanking is off
    blanked,   \* blanking is on
    turned     \* the orientation

framebufferVars == <<ready, shown, frame, blanked, turned>>

(* The bytes under a rectangle, pixel by pixel. *)
CellsUnder(o, r) ==
    {CellOf(Rotated(o, x, y)) : x \in r.x..r.x + r.width - 1, y \in r.y..r.y + r.height - 1}

Drawn(f, cells, image) == [c \in Cells |-> IF c \in cells THEN image ELSE f[c]]

(* Power comes on: the panel shows what it showed, or anything. *)
Init ==
    /\ ready = FALSE
    /\ frame = shown
    /\ blanked = FALSE
    /\ turned = Rotation

Draw(r, image) ==
    /\ ready
    /\ Accepted(turned, r)
    /\ frame' = Drawn(frame, CellsUnder(turned, r), image)
    /\ shown' = IF blanked THEN shown ELSE frame'
    /\ UNCHANGED <<ready, blanked, turned>>

Blank ==
    /\ ready
    /\ blanked' = TRUE
    /\ UNCHANGED <<ready, shown, frame, turned>>

Unblank ==
    /\ ready
    /\ blanked' = FALSE
    /\ shown' = frame
    /\ UNCHANGED <<ready, frame, turned>>

Turn(o) ==
    /\ ready
    /\ turned' = o
    /\ UNCHANGED <<ready, shown, frame, blanked>>

(* A restart, or a failure that goes deep, keeps the image on the panel    *)
(* and loses what is not on it.                                            *)
Lose ==
    /\ ready' = FALSE
    /\ frame' = shown
    /\ blanked' = FALSE
    /\ turned' = Rotation
    /\ UNCHANGED shown

(* Nothing is promised until the next initialisation. *)
Stray ==
    /\ ~ready /\ ~ready'
    /\ frame' = shown'
    /\ UNCHANGED <<blanked, turned>>

(* The initialisation ends with an empty panel. *)
Start ==
    /\ ~ready
    /\ ready' = TRUE
    /\ shown' = [c \in Cells |-> "blank"]
    /\ frame' = shown'
    /\ UNCHANGED <<blanked, turned>>

Next ==
    \/ \E r \in Rects, image \in Images : Draw(r, image)
    \/ Blank
    \/ Unblank
    \/ \E o \in Orientations : Turn(o)
    \/ Lose
    \/ Stray
    \/ Start

Spec == Init /\ [][Next]_framebufferVars
=============================================================================
