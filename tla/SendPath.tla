-------------------------------- MODULE SendPath --------------------------------
(***************************************************************************)
(* The firmware's way out: send_report and account_report (main.c), called *)
(* by the tasks of all transports and serialised by hid_mtx, and the USB   *)
(* bus to the target, which may sleep, be woken and restart.               *)
(*                                                                         *)
(* A report is a snapshot: the keys, or the buttons, that are down.  The   *)
(* report counters of g_stats and rollover reports are left out, as are    *)
(* modifiers, which are not counted; keystrokes and clicks wrap.           *)
(* TinyUSB and the target are external: one endpoint buffer for both kinds *)
(* of report, which the target reads every millisecond while it is awake.  *)
(* The waits of 1 s and 50 ms may end in a timeout or not.                 *)
(***************************************************************************)
EXTENDS Naturals, FiniteSets

CONSTANTS Task,       \* the receiving tasks: uart_task, ble_consumer_task, net_task
          Kind,       \* kinds of report
          Key,        \* keys and buttons
          CountMod,   \* the counters wrap there (2^32)
          NoReport

VARIABLES task,       \* each task's stage in send_report
          calling,    \* and the report it sends
          mtx,        \* hid_mtx: who holds it
          prev,       \* g_prev_keys, g_prev_btn
          strokes,    \* g_stats: keystrokes, clicks
          asleep,     \* tud_suspended()
          armed,      \* the target allowed remote wakeup when it went to sleep
          called,     \* tud_remote_wakeup has signalled
          endpoint,   \* the report in the endpoint buffer
          shown,      \* what the target takes to be down
          dropped,    \* history: since the board started, a report was dropped
                      \* or the target restarted
          presses,    \* history: until then, how often the target saw a key
                      \* or a button go down
          disturbed   \* history: since a report found the target asleep, that
                      \* was too slow, slept again or restarted

callers     == <<task, calling, mtx>>
stats       == <<prev, strokes>>
target      == <<asleep, armed, called, endpoint, shown>>
sendHistory == <<presses, dropped, disturbed>>
sendVars    == <<callers, stats, target, sendHistory>>

Report == [kind : Kind, down : SUBSET Key]
Nobody == "nobody"
Up     == [k \in Kind |-> {}]

Init == /\ task = [t \in Task |-> "idle"]
        /\ calling = [t \in Task |-> NoReport]
        /\ mtx = Nobody
        /\ prev = Up /\ strokes = 0
        /\ asleep = FALSE /\ armed = FALSE /\ called = FALSE
        /\ endpoint = NoReport
        /\ shown = Up /\ presses = 0
        /\ dropped = FALSE /\ disturbed = FALSE

-----------------------------------------------------------------------------
(* The default case of feed calls send_report, which waits for the mutex. *)
Call(t, r) ==
    /\ task[t] = "idle"
    /\ task' = [task EXCEPT ![t] = "lock"]
    /\ calling' = [calling EXCEPT ![t] = r]
    /\ UNCHANGED <<mtx, stats, target, sendHistory>>

Newly(r) == Cardinality(r.down \ prev[r.kind])

AccountReport(r) ==
    /\ strokes' = (strokes + Newly(r)) % CountMod
    /\ prev' = [prev EXCEPT ![r.kind] = r.down]

Counted(t) ==
    /\ mtx' = t
    /\ AccountReport(calling[t])
    /\ task' = [task EXCEPT ![t] = IF asleep THEN "wake" ELSE "ready"]
    /\ disturbed' = (disturbed /\ ~asleep)
    /\ UNCHANGED <<calling, asleep, armed, endpoint, shown, presses, dropped>>

AcquireUnlocked(t) ==
    /\ task[t] = "lock"
    /\ Counted(t)
    /\ called' = (called \/ (asleep /\ armed))

AcquireNotWaking(t) ==
    /\ task[t] = "lock" /\ mtx = Nobody
    /\ Counted(t)
    /\ UNCHANGED called

(* With the mutex: count, and if the target sleeps, ask it to wake up. *)
Acquire(t) ==
    /\ task[t] = "lock" /\ mtx = Nobody
    /\ Counted(t)
    /\ called' = (called \/ (asleep /\ armed))

Woken(t) ==
    /\ task[t] = "wake" /\ ~asleep
    /\ task' = [task EXCEPT ![t] = "ready"]
    /\ UNCHANGED <<calling, mtx, stats, target, sendHistory>>

WakeTimeout(t) ==
    /\ task[t] = "wake" /\ asleep
    /\ task' = [task EXCEPT ![t] = "ready"]
    /\ disturbed' = (disturbed \/ called)
    /\ UNCHANGED <<calling, mtx, stats, target, presses, dropped>>

(* tud_hid_ready *)
Ready == ~asleep /\ endpoint = NoReport

Return(t) ==
    /\ task' = [task EXCEPT ![t] = "idle"]
    /\ calling' = [calling EXCEPT ![t] = NoReport]
    /\ mtx' = Nobody

SendAtOnce(t) ==
    /\ task[t] = "ready"
    /\ endpoint' = IF Ready THEN calling[t] ELSE endpoint
    /\ Return(t)
    /\ UNCHANGED <<stats, asleep, armed, called, shown, sendHistory>>

Send(t) ==
    /\ task[t] = "ready" /\ Ready
    /\ endpoint' = calling[t]
    /\ Return(t)
    /\ UNCHANGED <<stats, asleep, armed, called, shown, sendHistory>>

(* Not ready for 50 ms: the report is gone, and nobody is told. *)
Drop(t) ==
    /\ task[t] = "ready" /\ ~Ready
    /\ dropped' = TRUE /\ presses' = 0
    /\ disturbed' = (disturbed \/ ~asleep)
    /\ Return(t)
    /\ UNCHANGED <<stats, target>>

-----------------------------------------------------------------------------
(* The target. *)

Poll ==
    /\ ~asleep /\ endpoint # NoReport
    /\ presses' = IF dropped THEN 0
                  ELSE (presses + Cardinality(endpoint.down \ shown[endpoint.kind]))
                         % CountMod
    /\ shown' = [shown EXCEPT ![endpoint.kind] = endpoint.down]
    /\ endpoint' = NoReport
    /\ UNCHANGED <<callers, stats, asleep, armed, called, dropped, disturbed>>

Sleep ==
    /\ ~asleep
    /\ asleep' = TRUE /\ armed' \in BOOLEAN
    /\ disturbed' = TRUE
    /\ UNCHANGED <<callers, stats, called, endpoint, shown, presses, dropped>>

(* By itself or because it was called. *)
Wake ==
    /\ asleep
    /\ asleep' = FALSE /\ armed' = FALSE /\ called' = FALSE
    /\ UNCHANGED <<callers, stats, endpoint, shown, sendHistory>>

(* The target restarts, or the cable to it is out and in again: it starts  *)
(* with nothing down, and a report that it had not read is gone.           *)
TargetRestarts ==
    /\ asleep' = FALSE /\ armed' = FALSE /\ called' = FALSE
    /\ endpoint' = NoReport
    /\ shown' = Up
    /\ dropped' = TRUE /\ presses' = 0 /\ disturbed' = TRUE
    /\ UNCHANGED <<callers, stats>>

(* The board restarts: the target sees its keyboard go and come back. *)
BoardRestarts ==
    /\ task' = [t \in Task |-> "idle"]
    /\ calling' = [t \in Task |-> NoReport]
    /\ mtx' = Nobody
    /\ prev' = Up /\ strokes' = 0
    /\ asleep' = FALSE /\ armed' = FALSE /\ called' = FALSE
    /\ endpoint' = NoReport
    /\ shown' = Up /\ presses' = 0
    /\ dropped' = FALSE /\ disturbed' = TRUE

-----------------------------------------------------------------------------
(* With nobody in send_report and nothing dropped, the counters say how    *)
(* often the target saw a key or a button go down, and what they compare   *)
(* the next report with is what the target shows, whichever transports     *)
(* sent at the same time (account_report, hid_mtx).                        *)
CountersShowTarget ==
    mtx = Nobody /\ endpoint = NoReport /\ ~dropped
        => prev = shown /\ strokes = presses

(* "so this very keypress/click is what wakes it instead of being lost":   *)
(* while a target that may be woken sleeps, no report is given up, unless  *)
(* the target was asked to wake up and was too slow, or went to sleep in   *)
(* the meantime (send_report).                                             *)
WakingReportKept ==
    [][\A t \in Task :
          task[t] = "ready" /\ task'[t] = "idle" /\ endpoint' # calling[t] /\ armed
             => disturbed']_sendVars
=============================================================================
