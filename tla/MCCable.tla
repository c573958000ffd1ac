-------------------------------- MODULE MCCable --------------------------------
(* Cable with a second transport that sends as well, one key, and counters *)
(* that wrap at once.                                                      *)
EXTENDS Cable

CONSTANTS uart, net, A
=============================================================================
