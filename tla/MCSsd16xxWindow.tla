--------------------------- MODULE MCSsd16xxWindow ---------------------------
(***************************************************************************)
(* All small rectangles with edges at, before and after a byte boundary,   *)
(* accepted or not.                                                        *)
(***************************************************************************)
EXTENDS Ssd16xxWindow

Edges == 0..Width \cup {i \in 0..Height : i % 8 \in {0, 1, 7}}

SmallRectangles ==
    {r \in [x : Edges, y : Edges, width : Edges \ {0}, height : Edges \ {0}] :
        r.x + r.width <= Height + 1 /\ r.y + r.height <= Height + 1}

(* A rectangle of rot180 that is not centred is not mirrored along X.      *)
WellPlaced ==
    {q \in Orientations \X SmallRectangles :
        q[1] = "rot180" => 2 * q[2].x + q[2].width = Width}

(* A descending span of one page gets the edges of an ascending one.       *)
SeveralPages == {q \in WellPlaced : FacesScan(q[1], q[2])}
=============================================================================
