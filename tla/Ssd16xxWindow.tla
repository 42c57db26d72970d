---------------------------- MODULE Ssd16xxWindow ----------------------------
(***************************************************************************)
(* The geometry of the display driver against its reference: what is drawn *)
(* in a rotated orientation is what is drawn in the normal one, rotated.   *)
(* One request is asked for at a time.                                     *)
(***************************************************************************)
EXTENDS Ssd16xxGeometry

CONSTANT Requests  \* the <<orientation, rectangle>> pairs that are asked for

ASSUME RequestsAssumption == Requests \subseteq Orientations \X Rectangles

VARIABLE request  \* the request that is served, as an optional value

Init == request = {}

Ask == request = {} /\ \E q \in Requests : request' = {q}

Answer == request # {} /\ request' = {}

Next == Ask \/ Answer

Spec == Init /\ [][Next]_request

(* The requests that are served. *)
Served == {q \in request : Accepted(q[1], q[2])}

(* A type invariant: the windows of accepted rectangles lie in the RAM.    *)
TypeOK ==
    /\ request \subseteq Requests
    /\ \A q \in Served, i \in 1..2 :
           /\ PageAt(Window(q[1], q[2]).x[i]) \in 0..(PanelH \div 8) - 1
           /\ Window(q[1], q[2]).y[i] \in 0..Width - 1

(* The window holds exactly the buffer and is scanned from its start to    *)
(* its end, so that the counters are back at the start after one buffer:   *)
(* ssd16xx_write sends the second copy after a partial refresh without     *)
(* setting the pointer again.                                              *)
HoldsBuffer(o, r) ==
    LET window == Window(o, r)
        mode   == EntryMode(o)
        xSteps == mode.x * (window.x[2] - window.x[1]) + 1
        ySteps == mode.y * (window.y[2] - window.y[1]) + 1
    IN  /\ xSteps = (IF RamXInPixels THEN 8 ELSE 1) *
                    (IF Upright(o) THEN BufferRows(o, r) ELSE BufferColumns(o, r))
        /\ ySteps = IF Upright(o) THEN BufferColumns(o, r) ELSE BufferRows(o, r)

WindowHoldsBuffer == \A q \in Served : HoldsBuffer(q[1], q[2])

(* Every byte of the buffer lands on the pixels it shows: in each          *)
(* orientation the image is that of the normal orientation, rotated        *)
(* ("the coordinate system consumers address", ssd16xx_get_capabilities).  *)
BytesInPlace == \A q \in Served : InPlace(q[1], q[2])
=============================================================================
