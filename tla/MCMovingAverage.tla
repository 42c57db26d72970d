--------------------------- MODULE MCMovingAverage ---------------------------
(* Temperatures around zero, where rounding changes sign, and both ends of *)
(* int16_t.                                                                *)
EXTENDS MovingAverage

SignedSamples == {-32768, -3, 0, 2, 32767}
=============================================================================
