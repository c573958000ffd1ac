--------------------------------- MODULE Cable ---------------------------------
(***************************************************************************)
(* Reports over the cable, from the daemon's Reporter to the target: the   *)
(* serial sink (SerialSink), the bytes on their way to uart_task, and the  *)
(* firmware's send path (SendPath), which other transports use as well.    *)
(*                                                                         *)
(* Nothing on this way acknowledges a report or sends it again: one may be *)
(* lost at a dead file, in the USB-UART chip, in a full UART buffer (there *)
(* is no flow control), in send_report and in a restart.  What saves the   *)
(* target is that a report is a snapshot.  A report reaches send_report    *)
(* whole or not at all: what bytes that went missing cost the frames after *)
(* them is in Framing.  Restarts take no time, for what is written         *)
(* meanwhile is as lost as what was written before.                        *)
(***************************************************************************)
EXTENDS Naturals, Sequences, FiniteSets

CONSTANTS Task, Kind, Key, CountMod, NoReport,    \* as in SendPath
          Uart,       \* uart_task
          Buffered    \* reports that the UART buffer takes (4096 bytes)

VARIABLES node, file, ports, call, port, report, running, failures,
          task, calling, mtx, prev, strokes, asleep, armed, called, endpoint,
          shown, presses, dropped, disturbed,
          inbox,     \* written by the daemon, not yet fed to the parser
          last,      \* history: what the daemon's last report of a kind said
          missed,    \* history: the kinds of which the last one was lost
          by         \* history: whose report of a kind was the last to go out

D == INSTANCE SerialSink
P == INSTANCE SendPath

ASSUME CableAssumption ==
    /\ Uart \in Task /\ P!Nobody \notin Task
    /\ NoReport \notin P!Report /\ IsFiniteSet(Key)
    /\ Buffered \in Nat \ {0} /\ CountMod \in Nat \ {0}

serialVars == <<node, file, ports, call, port, report, running, failures>>
sendVars   == <<task, calling, mtx, prev, strokes, asleep, armed, called,
                endpoint, shown, presses, dropped, disturbed>>
history    == <<last, missed, by>>
cableVars  == <<serialVars, sendVars, inbox, history>>

Init == /\ D!Init /\ P!Init
        /\ inbox = <<>>
        /\ last = P!Up /\ missed = {} /\ by = [k \in Kind |-> Uart]

KindsIn(rs) == {r.kind : r \in rs \ {NoReport}}
Waiting(s)  == KindsIn({s[i] : i \in DOMAIN s})

(* Reports in rs are lost: that matters to a kind unless a later report of *)
(* the kind is still under way.                                            *)
Lost(rs, later) == missed' = missed \cup (KindsIn(rs) \ later)

-----------------------------------------------------------------------------
(* The daemon. *)

Writes(r) ==
    /\ D!WriteStart(r)
    /\ last' = [last EXCEPT ![r.kind] = r.down]
    /\ missed' = missed \ {r.kind}
    /\ UNCHANGED <<sendVars, inbox, by>>

Starts == D!Start /\ UNCHANGED <<sendVars, inbox, history>>

Opens == /\ D!Open \/ D!Configure
         /\ UNCHANGED <<sendVars, inbox, history>>

WriteFails ==
    /\ D!OpenFails \/ D!ConfigureFails \/ D!WriteError
    /\ Lost({report}, {})
    /\ UNCHANGED <<sendVars, inbox, last, by>>

Written ==
    /\ D!WriteOk
    /\ IF Len(inbox) < Buffered
       THEN inbox' = Append(inbox, report) /\ UNCHANGED missed
       ELSE Lost({report}, {}) /\ UNCHANGED inbox
    /\ UNCHANGED <<sendVars, last, by>>

(* Killed, say: main's own exit only follows a call that has ended. *)
DaemonExits ==
    /\ D!Exit
    /\ Lost({report}, {})
    /\ UNCHANGED <<sendVars, inbox, last, by>>

(* What the chip had not passed on is lost. *)
Unplug ==
    /\ D!Unplug
    /\ \E n \in 0 .. Len(inbox) :
          /\ inbox' = SubSeq(inbox, 1, n)
          /\ Lost({inbox[i] : i \in n + 1 .. Len(inbox)}, KindsIn({report}))
    /\ UNCHANGED <<sendVars, last, by>>

Plug == D!Plug /\ UNCHANGED <<sendVars, inbox, history>>

-----------------------------------------------------------------------------
(* The board. *)

UartCalls ==
    /\ inbox # <<>>
    /\ P!Call(Uart, Head(inbox))
    /\ inbox' = Tail(inbox)
    /\ UNCHANGED <<serialVars, history>>

(* Bytes of it are missing, or it ends the frame before it that was cut. *)
Garbled ==
    /\ inbox # <<>> /\ task[Uart] = "idle"
    /\ inbox' = Tail(inbox)
    /\ Lost({Head(inbox)}, Waiting(inbox') \cup KindsIn({report}))
    /\ UNCHANGED <<serialVars, sendVars, last, by>>

OtherCalls(t, r) ==
    /\ t # Uart
    /\ P!Call(t, r)
    /\ UNCHANGED <<serialVars, inbox, history>>

Waits(t) == /\ P!Acquire(t) \/ P!Woken(t) \/ P!WakeTimeout(t)
            /\ UNCHANGED <<serialVars, inbox, history>>

Sends(t) ==
    /\ P!Send(t)
    /\ by' = [by EXCEPT ![calling[t].kind] = t]
    /\ UNCHANGED <<serialVars, inbox, last, missed>>

Drops(t) ==
    /\ P!Drop(t)
    /\ IF t = Uart
       THEN Lost({calling[t]}, Waiting(inbox) \cup KindsIn({report}))
       ELSE UNCHANGED missed
    /\ UNCHANGED <<serialVars, inbox, last, by>>

SendReport(t) == Waits(t) \/ Sends(t) \/ Drops(t)

-----------------------------------------------------------------------------
(* Restarts: the target forgets what was down. *)

Forgotten == {k \in Kind : last[k] # {}}

TargetMoves == /\ P!Poll \/ P!Sleep \/ P!Wake
               /\ UNCHANGED <<serialVars, inbox, history>>

TargetRestarts ==
    /\ P!TargetRestarts
    /\ missed' = missed \cup (Forgotten \ (Waiting(inbox)
                                             \cup KindsIn({report, calling[Uart]})))
    /\ UNCHANGED <<serialVars, inbox, last, by>>

BoardRestarts ==
    /\ P!BoardRestarts
    /\ inbox' = <<>>
    /\ missed' = missed \cup (Forgotten \ KindsIn({report}))
    /\ UNCHANGED <<serialVars, last, by>>

-----------------------------------------------------------------------------
DaemonSteps == Opens \/ WriteFails \/ Written

Next == \/ \E r \in P!Report : Writes(r) \/ \E t \in Task : OtherCalls(t, r)
        \/ Starts \/ DaemonSteps \/ DaemonExits
        \/ Unplug \/ Plug
        \/ UartCalls \/ Garbled
        \/ \E t \in Task : SendReport(t)
        \/ TargetMoves \/ TargetRestarts \/ BoardRestarts

Spec == Init /\ [][Next]_cableVars

-----------------------------------------------------------------------------
TypeOK ==
    /\ node \in {"here", "elsewhere", "away"}
    /\ {file, port} \subseteq {"none", "good", "dead"} /\ ports \in Nat
    /\ call \in {"idle", "open", "configure", "write"}
    /\ report \in P!Report \cup {NoReport}
    /\ running \in BOOLEAN /\ failures \in 0 .. 2
    /\ task \in [Task -> {"idle", "lock", "wake", "ready"}]
    /\ calling \in [Task -> P!Report \cup {NoReport}]
    /\ mtx \in Task \cup {P!Nobody}
    /\ {prev, shown, last} \subseteq [Kind -> SUBSET Key]
    /\ {strokes, presses} \subseteq 0 .. CountMod - 1
    /\ {asleep, armed, called, dropped, disturbed} \subseteq BOOLEAN
    /\ endpoint \in P!Report \cup {NoReport}
    /\ inbox \in Seq(P!Report) /\ Len(inbox) <= Buffered
    /\ missed \subseteq Kind /\ by \in [Kind -> Task]

(* Of SerialSink and SendPath, where they are explained. *)
NoPortLeak          == D!NoPortLeak
OneFailurePerReplug == D!OneFailurePerReplug
CountersShowTarget  == P!CountersShowTarget
WakingReportKept    == P!WakingReportKept

(* When nothing of a kind is under way, the target shows what the daemon's *)
(* last report of that kind said, unless that very report was lost or      *)
(* another transport has spoken since: a loss never outlives the next      *)
(* report that gets through, however many went before, and a report that   *)
(* waits never comes after a later one (flushKeyboard, serialSink.write,   *)
(* uart_task, send_report).  The proviso is real: the daemon does not      *)
(* repeat a report, so a lost key-up leaves the key down.                  *)
UnderWay == Waiting(inbox) \cup KindsIn({report, calling[Uart], endpoint})

TargetShowsLast ==
    \A k \in Kind \ (UnderWay \cup missed) :
        by[k] = Uart => shown[k] = last[k]
=============================================================================
