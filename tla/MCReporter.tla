------------------------------ MODULE MCReporter ------------------------------
(* Reporter with one key more than a report has slots, and an axis that    *)
(* can be moved further than a report carries.                             *)
EXTENDS Reporter

CONSTANTS keyA, keyB, keyC, \* keys
          Shift,  \* a modifier
          Left    \* a mouse button

(* A report carries -2 .. 1 on each axis, as -32768 .. 32767 in the code. *)
MCLimit == [a \in Axis |-> 1]

UnitSteps == {-1, 1}
=============================================================================
