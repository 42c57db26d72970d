---------------------------- MODULE MCDisplayPath ----------------------------
(* The whole screen is all that is drawn. *)
EXTENDS DisplayPath

WholeScreen == {Screen}
=============================================================================
