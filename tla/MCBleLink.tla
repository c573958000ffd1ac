-------------------------------- MODULE MCBleLink --------------------------------
(* BleLink with two callers and two dialers, so that a second one could    *)
(* start.                                                                  *)
EXTENDS BleLink

CONSTANTS c1, c2, g1, g2
=============================================================================
