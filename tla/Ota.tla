---------------------------------- MODULE Ota ----------------------------------
(***************************************************************************)
(* Firmware updates over a transport: the daemon's runOTA (ota.go), the    *)
(* board's handlers ota_begin, ota_write_chunk and ota_end (main.c), the   *)
(* two application slots, and the restart that follows.                    *)
(*                                                                         *)
(* A frame is delivered whole or not at all (Framing), in order.  Updates  *)
(* come one at a time, as the firmware assumes of its single ota_buf; a    *)
(* second attempt may find the session of the first on the board.          *)
(*                                                                         *)
(* The OTA library and the bootloader are external.  An image is valid     *)
(* when all its chunks are there and no other; a slot that is booted for   *)
(* the first time is pending until the application confirms it, a reset    *)
(* before that makes the bootloader go back to the other slot, and no      *)
(* update begins while the running slot is pending.                        *)
(***************************************************************************)
EXTENDS Naturals, Sequences

CONSTANTS Chunks,        \* chunks of an image
          MaxAttempts,   \* bound: runs of runOTA
          MaxFaults      \* bound: what goes wrong

ASSUME OtaAssumption ==
    /\ Chunks \in Nat \ {0} /\ MaxAttempts \in Nat /\ MaxFaults \in Nat

VARIABLES stage,      \* where runOTA is
          attempt,    \* its number, which names the image it sends
          tokenOk,    \* its token is the board's
          next,       \* the next chunk to send
          result,     \* what it tells the user
          alive,      \* what sink.Alive() would answer
          wire,       \* frames under way
          up,         \* the board is running
          active, written, part,  \* g_ota_active, g_ota_written, g_ota_part
          running, boot,          \* the slot that runs, the slot to boot
          image,      \* contents of each slot, chunk by chunk
          state,      \* of each slot, kept for the bootloader
          faults,
          disturbed,  \* history: the link or the board was down in this attempt
                      \* for another reason than ota_end
          hindered,   \* history: this attempt met a fault or an unfinished one
          opened,     \* history: the attempt whose begin opened the session
          took        \* history: the ends that ota_end accepted

updater == <<stage, attempt, tokenOk, next, result>>
session == <<active, written, part>>
flash   == <<boot, image, state>>
history == <<faults, disturbed, hindered, opened, took>>
vars    == <<updater, alive, wire, up, session, running, flash, history>>

Slots    == {"ota_0", "ota_1"}
Other(s) == CHOOSE o \in Slots : o # s

(* Image 0 came with the cable. *)
Image(a) == [i \in 1 .. Chunks |-> [image |-> a, chunk |-> i]]
Valid(s) == \E a \in 0 .. MaxAttempts : image[s] = Image(a)

Init == /\ stage = "idle" /\ attempt = 0 /\ tokenOk = TRUE
        /\ next = 1 /\ result = "none"
        /\ alive = TRUE /\ wire = <<>>
        /\ up = TRUE
        /\ active = FALSE /\ written = 0 /\ part = "ota_1"
        /\ running = "ota_0" /\ boot = "ota_0"
        /\ image = [s \in Slots |-> IF s = "ota_0" THEN Image(0) ELSE <<>>]
        /\ state = [s \in Slots |-> IF s = "ota_0" THEN "valid" ELSE "none"]
        /\ faults = 0 /\ disturbed = FALSE /\ hindered = FALSE
        /\ opened = 0 /\ took = {}

-----------------------------------------------------------------------------
(* runOTA *)

Connects == alive /\ up /\ wire = <<>>

Start ==
    /\ stage \in {"idle", "done"} /\ attempt < MaxAttempts
    /\ stage' = "connecting" /\ attempt' = attempt + 1
    /\ tokenOk' \in BOOLEAN
    /\ next' = 1 /\ result' = "none"
    /\ disturbed' = ~Connects
    /\ hindered' = ~(Connects /\ state[running] = "valid")
    /\ UNCHANGED <<alive, wire, up, session, running, flash, faults, opened, took>>

Finish(outcome) ==
    /\ stage' = "done" /\ result' = outcome
    /\ UNCHANGED <<attempt, tokenOk, next, alive, wire, up, session, running,
                   flash, history>>

(* Five seconds for the link to come up. *)
Connected == /\ stage = "connecting" /\ alive
             /\ stage' = "begin"
             /\ UNCHANGED <<attempt, tokenOk, next, result, alive, wire, up,
                            session, running, flash, history>>

NotConnected == stage = "connecting" /\ ~alive /\ Finish("failed")

(* A write to a board that is gone unnoticed goes nowhere. *)
Write(frame) ==
    /\ alive
    /\ wire' = IF up THEN Append(wire, frame) ELSE wire
    /\ UNCHANGED <<attempt, tokenOk, result, alive, up, session, running, flash,
                   history>>

SendBegin ==
    /\ stage = "begin" /\ stage' = "sending"
    /\ Write([kind |-> "begin", ok |-> tokenOk])
    /\ UNCHANGED next

SendChunk ==
    /\ stage = "sending" /\ next <= Chunks
    /\ Write([kind |-> "data", data |-> [image |-> attempt, chunk |-> next]])
    /\ next' = next + 1
    /\ UNCHANGED stage

SendEnd ==
    /\ stage = "sending" /\ next > Chunks
    /\ stage' = "polling"
    /\ Write([kind |-> "end"])
    /\ UNCHANGED next

WriteFails == stage \in {"begin", "sending"} /\ ~alive /\ Finish("failed")

(* Alive, every 150 ms for 20 s, in which what is under way arrives. *)
PollDown == stage = "polling" /\ ~alive /\ Finish("applied")

PollTimeout ==
    stage = "polling" /\ alive /\ wire = <<>> /\ Finish("unapplied")

-----------------------------------------------------------------------------
(* The board.  Each handler takes one frame off the wire. *)

Take(kind) == /\ up /\ wire # <<>> /\ Head(wire).kind = kind
              /\ wire' = Tail(wire)

Fault == faults < MaxFaults /\ faults' = faults + 1 /\ hindered' = TRUE

NoFault == UNCHANGED <<faults, hindered>>

(* Abort the update there was, and erase the slot that is not running. *)
BeginAccepted ==
    /\ Take("begin")
    /\ Head(wire).ok /\ state[running] # "pending"
    /\ active' = TRUE /\ written' = 0
    /\ part' = Other(running)
    /\ image' = [image EXCEPT ![part'] = <<>>]
    /\ opened' = attempt
    /\ UNCHANGED <<updater, alive, up, running, boot, state, disturbed, took>>
    /\ NoFault

(* Malformed or with another token: nothing happens to the update there was. *)
BeginRejected ==
    /\ Take("begin")
    /\ ~Head(wire).ok
    /\ UNCHANGED <<updater, alive, up, session, running, flash, history>>

BeginFails ==
    /\ Take("begin")
    /\ Head(wire).ok
    /\ IF state[running] = "pending" THEN NoFault ELSE Fault
    /\ active' = FALSE
    /\ part' = Other(running)
    /\ UNCHANGED <<updater, alive, up, written, running, flash, disturbed, opened, took>>

ChunkWritten ==
    /\ Take("data") /\ active
    /\ image' = [image EXCEPT ![part] = Append(@, Head(wire).data)]
    /\ written' = written + 1
    /\ UNCHANGED <<updater, alive, up, active, part, running, boot, state, history>>

ChunkIgnored ==
    /\ Take("data") /\ ~active
    /\ UNCHANGED <<updater, alive, up, session, running, flash, history>>

ChunkFails ==
    /\ Take("data") /\ active
    /\ Fault
    /\ active' = FALSE
    /\ UNCHANGED <<updater, alive, up, written, part, running, flash,
                   disturbed, opened, took>>

(* Nothing begun, the wrong size, or an image that does not verify. *)
EndRejected ==
    /\ Take("end")
    /\ ~active \/ written # Chunks \/ ~Valid(part)
    /\ active' = FALSE
    /\ UNCHANGED <<updater, alive, up, written, part, running, flash, history>>

EndFails ==
    /\ Take("end") /\ active
    /\ Fault
    /\ active' = FALSE
    /\ UNCHANGED <<updater, alive, up, written, part, running, flash,
                   disturbed, opened, took>>

Restarted == up' = FALSE /\ active' = FALSE /\ wire' = <<>>

(* esp_ota_set_boot_partition *)
BootPart == /\ boot' = part
            /\ state' = [state EXCEPT ![part] = "new"]
            /\ took' = took \cup {[at     |-> attempt,
                                    opened |-> opened,
                                    image  |-> image[part][1].image]}

EndUnverified ==
    /\ up /\ wire # <<>> /\ Head(wire).kind = "end"
    /\ active /\ written = Chunks
    /\ BootPart
    /\ Restarted
    /\ UNCHANGED <<updater, alive, written, part, running, image,
                   disturbed, opened>>
    /\ NoFault

EndRestartsAnyway ==
    /\ up /\ wire # <<>> /\ Head(wire).kind = "end"
    /\ active
    /\ IF Valid(part) /\ written = Chunks
       THEN BootPart
       ELSE UNCHANGED <<boot, state, took>>
    /\ Restarted
    /\ UNCHANGED <<updater, alive, written, part, running, image,
                   disturbed, opened>>
    /\ NoFault

(* The slot verifies: boot it, and restart. *)
EndAccepted ==
    /\ up /\ wire # <<>> /\ Head(wire).kind = "end"
    /\ active /\ written = Chunks /\ Valid(part)
    /\ BootPart
    /\ Restarted
    /\ UNCHANGED <<updater, alive, written, part, running, image,
                   disturbed, opened>>
    /\ NoFault

(* The bootloader. *)
BootNew ==
    /\ ~up /\ state[boot] = "new"
    /\ up' = TRUE /\ running' = boot
    /\ state' = [state EXCEPT ![boot] = "pending"]
    /\ UNCHANGED <<updater, alive, wire, session, boot, image, history>>

BootValid ==
    /\ ~up /\ state[boot] = "valid"
    /\ up' = TRUE /\ running' = boot
    /\ UNCHANGED <<updater, alive, wire, session, flash, history>>

RollBack ==
    /\ ~up /\ state[boot] = "pending"
    /\ up' = TRUE /\ running' = Other(boot) /\ boot' = Other(boot)
    /\ state' = [state EXCEPT ![boot] = "aborted"]
    /\ UNCHANGED <<updater, alive, wire, session, image, history>>

(* The last line of app_main. *)
Confirm ==
    /\ up /\ state[running] = "pending"
    /\ state' = [state EXCEPT ![running] = "valid"]
    /\ UNCHANGED <<updater, alive, wire, up, session, running, boot, image, history>>

-----------------------------------------------------------------------------
(* The environment. *)

(* A board that restarts takes the link down, if the sink looks in time. *)
LinkNotices ==
    /\ alive /\ ~up
    /\ alive' = FALSE
    /\ UNCHANGED <<updater, wire, up, session, running, flash, history>>

LinkReturns ==
    /\ ~alive /\ up
    /\ alive' = TRUE
    /\ UNCHANGED <<updater, wire, up, session, running, flash, history>>

LinkDrops ==
    /\ alive /\ up
    /\ Fault /\ disturbed' = TRUE
    /\ alive' = FALSE
    /\ wire' = <<>>
    /\ UNCHANGED <<updater, up, session, running, flash, opened, took>>

FrameLost ==
    /\ Fault
    /\ \E i \in 1 .. Len(wire) :
          wire' = SubSeq(wire, 1, i - 1) \o SubSeq(wire, i + 1, Len(wire))
    /\ UNCHANGED <<updater, alive, up, session, running, flash,
                   disturbed, opened, took>>

(* Power loss, or a new image that crashes. *)
Reset ==
    /\ up
    /\ Fault /\ disturbed' = TRUE
    /\ Restarted
    /\ UNCHANGED <<updater, alive, written, part, running, flash, opened, took>>

-----------------------------------------------------------------------------
Updater == \/ Connected \/ NotConnected
           \/ SendBegin \/ SendChunk \/ SendEnd \/ WriteFails
           \/ PollDown \/ PollTimeout

Board == \/ BeginAccepted \/ BeginRejected \/ BeginFails
         \/ ChunkWritten \/ ChunkIgnored \/ ChunkFails
         \/ EndRejected \/ EndFails \/ EndAccepted
         \/ BootNew \/ BootValid \/ RollBack

Environment == LinkNotices \/ LinkReturns \/ LinkDrops \/ FrameLost \/ Reset

Next == Start \/ Updater \/ Board \/ Confirm \/ Environment

(* Both programs keep running. *)
Fairness == /\ WF_vars(Updater) /\ WF_vars(Board) /\ WF_vars(Confirm)
            /\ WF_vars(LinkReturns)

Spec == Init /\ [][Next]_vars

FairSpec == Spec /\ Fairness

-----------------------------------------------------------------------------
AnyChunk == [image : 0 .. MaxAttempts, chunk : 1 .. Chunks]
ChunkOf  == [image : 1 .. MaxAttempts, chunk : 1 .. Chunks]

Frames == [kind : {"begin"}, ok : BOOLEAN] \cup [kind : {"data"}, data : ChunkOf]
            \cup [kind : {"end"}]

TypeOK ==
    /\ stage \in {"idle", "connecting", "begin", "sending", "polling", "done"}
    /\ attempt \in 0 .. MaxAttempts /\ tokenOk \in BOOLEAN
    /\ next \in 1 .. Chunks + 1
    /\ result \in {"none", "failed", "applied", "unapplied"}
    /\ alive \in BOOLEAN /\ wire \in Seq(Frames) /\ up \in BOOLEAN
    /\ active \in BOOLEAN /\ written \in Nat /\ part \in Slots
    /\ running \in Slots /\ boot \in Slots
    /\ image \in [Slots -> Seq(AnyChunk)]
    /\ state \in [Slots -> {"none", "valid", "new", "pending", "aborted"}]
    /\ faults \in 0 .. MaxFaults /\ disturbed \in BOOLEAN /\ hindered \in BOOLEAN
    /\ opened \in 0 .. MaxAttempts
    /\ took \subseteq [at : 0 .. MaxAttempts, opened : 0 .. MaxAttempts,
                      image : 0 .. MaxAttempts]

(* Cut the power at any moment: the slot that the bootloader will choose   *)
(* holds a whole image, and so does the one that runs.  "A corrupted or    *)
(* interrupted transfer just fails and leaves the running firmware intact" *)
(* (ota_begin, ota_end, the confirmation at the end of app_main).          *)
Chosen == IF state[boot] = "pending" THEN Other(boot) ELSE boot

AlwaysBootable == Valid(Chosen) /\ (up => Valid(running))

(* A board that refuses an update, for its token, a chunk that was lost,   *)
(* its size, an image that does not verify, or because begin, write or end *)
(* fails on it, is not reported as updated: "applied" means that ota_end   *)
(* accepted an image in this attempt, and this attempt's, unless its begin *)
(* did not reach the session that an earlier one left (runOTA, ota_begin,  *)
(* ota_write_chunk, ota_end).  That the link is down for another reason is *)
(* the one proviso, and a real one: runOTA takes it for the restart.       *)
Applied == \E u \in took : u.at = attempt /\ (u.opened = attempt => u.image = attempt)

RefusalReported == result = "applied" /\ ~disturbed => Applied

(* An update with the right token that meets no fault ends with the board  *)
(* running the new image, confirmed, whatever the daemon makes of it.      *)
UpdateLands ==
    \A a \in 1 .. MaxAttempts :
        (stage = "begin" /\ attempt = a /\ tokenOk)
          ~> (hindered \/ (image[running] = Image(a) /\ state[running] = "valid"))
=============================================================================
