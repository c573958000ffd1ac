------------------------------- MODULE MCFirmware -------------------------------
(* Firmware with updates of two chunks, the first image built without      *)
(* credentials and the others with some, a second update after the first,  *)
(* and two of the faults that are a lost frame, a link that drops, a power *)
(* cut and a settings command, in any order.                               *)
EXTENDS Firmware

CONSTANT home

MCBuiltIn == [a \in 0 .. MaxAttempts |-> IF a = 0 THEN "unset" ELSE home]

MCControls == {[r \in {"ble"} |-> "off"],
               [r \in {"ble", "wifi"} |-> IF r = "ble" THEN "on" ELSE "off"]}
MCConfigs  == {[k \in {"ssid", "pass"} |-> home]}
=============================================================================
