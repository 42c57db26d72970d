------------------------- MODULE MCMeasurementWorker -------------------------
(* Small instances of MeasurementWorker for TLC; see the .cfg files. *)
EXTENDS MeasurementProperties

(* labels and panel are written, but no guard, no other variable and, apart *)
(* from their types, no property of the sessions reads them: states that   *)
(* differ only there behave alike.                                         *)
WithoutPicture ==
    <<threadVars, displayState, cur, last, controllerVars, measurementVars>>
=============================================================================
