------------------------------- MODULE MCNetLink -------------------------------
(* NetLink with three connections: one served although its client has      *)
(* gone, one waiting in the backlog, one being dialled.                    *)
EXTENDS NetLink

CONSTANTS c1, c2, c3
=============================================================================
