--------------------------- MODULE Ssd16xxGeometry ---------------------------
(***************************************************************************)
(* The RAM windows of the display driver (src/drivers/display/ssd16xx.c):  *)
(* how a rectangle in the coordinates of the caller becomes a span of RAM  *)
(* addresses and a scan direction, in each of the four orientations.       *)
(*                                                                         *)
(* The RAM of the controller is a grid of bytes.  A byte holds eight       *)
(* pixels of one gate line; its address is <<page, gate>>.                 *)
(***************************************************************************)
EXTENDS Integers

CONSTANTS
    Width,        \* config->width: the gates
    Height,       \* config->height: the sources
    RamXInPixels  \* quirks->ram_x_in_pixels

Orientations == {"normal", "rot90", "rot180", "rot270"}

Rectangles == [x : Nat, y : Nat, width : Nat \ {0}, height : Nat \ {0}]

ASSUME SizeAssumption == Width \in Nat \ {0} /\ Height \in Nat /\ Height >= 8
ASSUME RamXAssumption == RamXInPixels \in BOOLEAN

(* Variant: the sources that fill no byte count. *)
PanelHWhole == Height

(* panel_h: the sources without those that fill no byte. *)
PanelH == Height - (Height % 8)

Upright(o) == o \in {"normal", "rot180"}

XResolution(o) == IF Upright(o) THEN Width ELSE PanelH
YResolution(o) == IF Upright(o) THEN PanelH ELSE Width

(* The bounds and the alignment of a rectangle that set_window accepts.    *)
(* The rectangle is drawn from a buffer whose pitch is its width.          *)
Accepted(o, r) ==
    /\ r.x + r.width <= XResolution(o)
    /\ r.y + r.height <= YResolution(o)
    /\ IF Upright(o) THEN r.height % 8 = 0 /\ r.y % 8 = 0
                     ELSE r.width % 8 = 0 /\ r.x % 8 = 0

-----------------------------------------------------------------------------

(* The four switch arms: the first and the last byte address in X and in Y. *)
ByteSpan(o, r) ==
    LET right  == r.x + r.width - 1
        bottom == r.y + r.height - 1
    IN  [normal |-> [x |-> <<(PanelH - 1 - r.y) \div 8, (PanelH - 1 - bottom) \div 8>>,
                     y |-> <<r.x, right>>],
         rot90  |-> [x |-> <<(PanelH - 1 - r.x) \div 8, (PanelH - 1 - right) \div 8>>,
                     y |-> <<Width - 1 - r.y, Width - 1 - bottom>>],
         rot180 |-> [x |-> <<r.y \div 8, bottom \div 8>>,
                     y |-> <<right, r.x>>],
         rot270 |-> [x |-> <<r.x \div 8, right \div 8>>,
                     y |-> <<r.y, bottom>>]][o]

(* Variant: a descending span keeps the ascending edges. *)
RamXSpanAscending(s) ==
    IF RamXInPixels THEN <<s[1] * 8, s[2] * 8 + 7>> ELSE s

(* Controllers that address pixels get the edges that face the scan. *)
RamXSpan(s) ==
    IF ~RamXInPixels THEN s
    ELSE IF s[1] <= s[2] THEN <<s[1] * 8, s[2] * 8 + 7>>
    ELSE <<s[1] * 8 + 7, s[2] * 8>>

(* Where the scan descends along X and addresses count pixels, the window   *)
(* faces the scan only if it is more than one page long: a span of one     *)
(* page counts as ascending.                                               *)
FacesScan(o, r) ==
    RamXInPixels =>
        /\ o = "normal" => r.height > 8
        /\ o = "rot90" => r.width > 8

(* What set_ram_param and set_ram_ptr program: the counters start at the   *)
(* first addresses of the window.                                          *)
Window(o, r) ==
    LET span == ByteSpan(o, r)
    IN  [x |-> RamXSpan(span.x), y |-> span.y]

(* Variant: the two modes that step along X first trade places. *)
EntryModeSwapped(o) ==
    [normal |-> [x |-> -1, y |->  1, first |-> "y"],
     rot90  |-> [x |->  1, y |->  1, first |-> "x"],
     rot180 |-> [x |->  1, y |-> -1, first |-> "y"],
     rot270 |-> [x |-> -1, y |-> -1, first |-> "x"]][o]

(* The scan mode set_orientation chooses: how the controller steps through *)
(* the window, and along which axis first.                                 *)
EntryMode(o) ==
    [normal |-> [x |-> -1, y |->  1, first |-> "y"],
     rot90  |-> [x |-> -1, y |-> -1, first |-> "x"],
     rot180 |-> [x |->  1, y |-> -1, first |-> "y"],
     rot270 |-> [x |->  1, y |->  1, first |-> "x"]][o]

-----------------------------------------------------------------------------
(* The controller: the byte of the buffer in row slow and column fast goes *)
(* where the counters have come to.                                        *)

PageAt(x) == IF RamXInPixels THEN x \div 8 ELSE x

Address(mode, window, slow, fast) ==
    LET alongX == IF mode.first = "x" THEN fast ELSE slow
        alongY == IF mode.first = "x" THEN slow ELSE fast
    IN  <<PageAt(window.x[1]) + mode.x * alongX, window.y[1] + mode.y * alongY>>

(* The buffer in the layouts that get_capabilities reports: with vertical  *)
(* tiles, a byte is eight pixels of a column; otherwise, of a row.         *)
BufferRows(o, r) == IF Upright(o) THEN r.height \div 8 ELSE r.height
BufferColumns(o, r) == IF Upright(o) THEN r.width ELSE r.width \div 8

PixelOf(o, r, slow, fast, bit) ==
    IF Upright(o) THEN <<r.x + fast, r.y + 8 * slow + bit>>
                  ELSE <<r.x + 8 * fast + bit, r.y + slow>>

(* Where a pixel is in the coordinates of the normal orientation, and the  *)
(* byte of RAM it lies in.                                                 *)
Rotated(o, x, y) ==
    [normal |-> <<x, y>>,
     rot90  |-> <<Width - 1 - y, x>>,
     rot180 |-> <<Width - 1 - x, PanelH - 1 - y>>,
     rot270 |-> <<y, PanelH - 1 - x>>][o]

CellOf(p) == <<(PanelH - 1 - p[2]) \div 8, p[1]>>

(* Every byte of the buffer lands on the pixels it shows. *)
InPlace(o, r) ==
    \A slow \in 0..BufferRows(o, r) - 1, fast \in 0..BufferColumns(o, r) - 1, bit \in 0..7 :
        LET p == PixelOf(o, r, slow, fast, bit)
        IN  Address(EntryMode(o), Window(o, r), slow, fast) = CellOf(Rotated(o, p[1], p[2]))
==============================================================================
