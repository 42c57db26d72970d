--------------------------- MODULE MCRefreshPolicy ---------------------------
(* Readings whose tenths depend on the rounding, one of them below zero.    *)
EXTENDS RefreshPolicy

SomeTemperatures == {{-6}}
SomeHumidities == {{}, {4511}}
SomeNames == {{"HDC302x"}}
SomeOffsets == {{}, {-17}}

(* A router with two neighbours. *)
SomeLinks == {[role |-> "router", ftd |-> TRUE, parent |-> {}, neighbours |-> {1, 3}]}
=============================================================================
