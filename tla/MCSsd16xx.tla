------------------------------ MODULE MCSsd16xx ------------------------------
EXTENDS Ssd16xx

FullScreen(o) == [x |-> 0, y |-> 0, width |-> XResolution(o), height |-> YResolution(o)]

FullScreens == {FullScreen(o) : o \in {"normal", "rot90"}}

(* LVGL with full refresh draws the whole screen.  Besides, the lower page  *)
(* upright and the right one sideways: each is refused in the other        *)
(* orientation.                                                            *)
Drawings ==
    FullScreens
        \cup {[x |-> 0, y |-> 8, width |-> Width, height |-> 8],
              [x |-> 8, y |-> 0, width |-> 8, height |-> Width]}
=============================================================================
