-------------------------------- MODULE MCRtc --------------------------------
(* Instances of Rtc for TLC. *)
EXTENDS Rtc

Rates == {-1, 0, 1, 3, 8}
=============================================================================
