------------------------------- MODULE SerialSink -------------------------------
(***************************************************************************)
(* The daemon's serial transport: serialSink (sink.go), configurePort and  *)
(* openSerial (serial.go), over a USB serial port that may be unplugged    *)
(* between any two system calls.                                           *)
(*                                                                         *)
(* s.mu is held for a whole call and the Reporter calls with its own lock  *)
(* held, so one call is under way at a time; its steps are the system      *)
(* calls.                                                                  *)
(*                                                                         *)
(* The kernel is external.  A port that goes away leaves its files open    *)
(* but dead, and as long as one is open its name stays taken: plugged in   *)
(* again, the port comes back under another name, unless the path is one   *)
(* of udev's stable links.                                                 *)
(***************************************************************************)
EXTENDS Naturals

CONSTANT NoReport

VARIABLES node,      \* where the port is: "here" (s.path), "elsewhere", "away"
          file,      \* s.f: "none", "good", or "dead" (open, the port gone)
          ports,     \* files that the process has open on the port
          call,      \* the call under way: "idle", or its next step
          port,      \* the file that configurePort has opened
          report,    \* what the call is to write
          running,   \* the daemon runs
          failures   \* history: calls that failed while the port was here,
                     \* since it came back, counted up to 2

calls      == <<call, port, report>>
serialVars == <<node, file, ports, calls, running, failures>>

Init == /\ node = "here"
        /\ file = "none" /\ ports = 0
        /\ call = "idle" /\ port = "none" /\ report = NoReport
        /\ running = FALSE
        /\ failures = 0

(* os.Stat(s.path), whatever the file is worth. *)
Alive == node = "here"

-----------------------------------------------------------------------------
(* openSerial: a daemon that cannot open its port exits. *)
Start ==
    /\ ~running
    /\ running' = TRUE
    /\ call' = "open"
    /\ UNCHANGED <<node, file, ports, port, report, failures>>

WriteStart(r) ==
    /\ running /\ call = "idle"
    /\ call' = IF file = "none" THEN "open" ELSE "write"
    /\ report' = r
    /\ UNCHANGED <<node, file, ports, port, running, failures>>

(* An error goes back to the caller, or ends a daemon that is starting. *)
Fails == /\ call' = "idle" /\ report' = NoReport
         /\ running' = (report # NoReport)
         /\ failures' = IF Alive /\ failures < 2 THEN failures + 1 ELSE failures

Open ==
    /\ call = "open" /\ node = "here"
    /\ call' = "configure" /\ port' = "good"
    /\ ports' = ports + 1
    /\ UNCHANGED <<node, file, report, running, failures>>

OpenFails ==
    /\ call = "open" /\ node # "here"
    /\ Fails
    /\ UNCHANGED <<node, file, ports, port>>

(* tcgets and tcsets; openSerial has nothing to write. *)
Configure ==
    /\ call = "configure" /\ port = "good"
    /\ file' = "good" /\ port' = "none"
    /\ call' = IF report = NoReport THEN "idle" ELSE "write"
    /\ UNCHANGED <<node, ports, report, running, failures>>

ConfigureFailsLeaking ==
    /\ call = "configure" /\ port = "dead"
    /\ port' = "none"
    /\ Fails
    /\ UNCHANGED <<node, file, ports>>

ConfigureFails ==
    /\ call = "configure" /\ port = "dead"
    /\ ports' = ports - 1 /\ port' = "none"
    /\ Fails
    /\ UNCHANGED <<node, file>>

WriteOk ==
    /\ call = "write" /\ file = "good"
    /\ call' = "idle" /\ report' = NoReport
    /\ UNCHANGED <<node, file, ports, port, running, failures>>

WriteErrorKeepingFile ==
    /\ call = "write" /\ file = "dead"
    /\ Fails
    /\ UNCHANGED <<node, file, ports, port>>

(* Close the file; the next write opens the port again. *)
WriteError ==
    /\ call = "write" /\ file = "dead"
    /\ ports' = ports - 1 /\ file' = "none"
    /\ Fails
    /\ UNCHANGED <<node, port>>

-----------------------------------------------------------------------------
(* The daemon ends, at any moment: Close, or the kernel, closes its files. *)
Exit ==
    /\ running
    /\ running' = FALSE
    /\ file' = "none" /\ port' = "none" /\ ports' = 0
    /\ call' = "idle" /\ report' = NoReport
    /\ UNCHANGED <<node, failures>>

Gone(f) == IF f = "good" THEN "dead" ELSE f

Unplug ==
    /\ node # "away"
    /\ node' = "away"
    /\ file' = Gone(file) /\ port' = Gone(port)
    /\ UNCHANGED <<ports, call, report, running, failures>>

Plug ==
    /\ node = "away"
    /\ node' \in {"here"} \cup (IF ports > 0 THEN {"elsewhere"} ELSE {})
    /\ failures' = 0
    /\ UNCHANGED <<file, ports, calls, running>>

-----------------------------------------------------------------------------
(* A file is open for s.f and for a port that is being configured, and for *)
(* nothing else: one more would keep its name taken after it is unplugged  *)
(* (configurePort closes what it cannot configure, write what it cannot    *)
(* write to).                                                              *)
NoPortLeak ==
    ports = (IF file = "none" THEN 0 ELSE 1) + (IF port = "none" THEN 0 ELSE 1)

(* Alive looks at the node and write at the file, so a port that is there  *)
(* again is alive while its file is dead: that costs one report, not two   *)
(* (serialSink.write against serialSink.Alive).                            *)
OneFailurePerReplug == Alive => failures <= 1
=============================================================================
