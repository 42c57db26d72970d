------------------------------ MODULE MCAppTask ------------------------------
(* A temperature above its bound; and an HDC302x that reads low, so that the *)
(* offsets that are asked for reach the limit and pass it.                   *)
EXTENDS AppTask

SomeDevices == {{}, {"sht"}, {"hdc", "sht"}}
SomeSteps == {0, -100}
SomeTemperatures == {{12510}}
SomeReferences == {{20}, {4990}}
SomeRawHumidities == {2500}
=============================================================================
