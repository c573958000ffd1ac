----------------------------- MODULE MCMqttBridge -----------------------------
(* MqttBridge with two messages kept at once: enough for an old state,     *)
(* stored or under way, to meet the new one in either order.               *)
EXTENDS MqttBridge
=============================================================================
