-------------------------------- MODULE Session --------------------------------
(***************************************************************************)
(* The daemon end to end: the grab controller (Kvm), the readers and the   *)
(* Reporter they share.  A reader takes one event at a time through three  *)
(* steps with no lock held from one to the next: read it, ask isGrabbed,   *)
(* hand it to rep.Handle (main.go, readDevice).  The grab can change in    *)
(* between, and with it what the target ought to be told.                  *)
(*                                                                         *)
(* Each action of Kvm that ends in applyGrab also resets the Reporter, and *)
(* each one that ends in releaseLocked clears it, under k.mu; this module  *)
(* conjoins the two.                                                       *)
(***************************************************************************)
EXTENDS Kvm, Reporter

CONSTANTS KeysOf,       \* the keys and buttons of a device
          RelCode,      \* what else it sends: axes, or codes that no report has
          MqttEnabled   \* cfg.MQTT.Broker is set

(* Handle looks a code up among the buttons, then the modifiers, then the  *)
(* other keys; the first table that has it decides.                        *)
ASSUME SessionAssumption ==
    /\ KeysOf \in [Dev -> SUBSET (Mod \cup Usage \cup Button)]
    /\ Mod \cap Usage = {} /\ Mod \cap Button = {} /\ Usage \cap Button = {}
    /\ IsFiniteSet(Dev) /\ MqttEnabled \in BOOLEAN

VARIABLES inflight,   \* the event a reader has read and not finished with
          synDue,     \* the device has yet to end its frame with a SYN
          held,       \* keys and buttons down on the device, as read so far
          cutOff,     \* history: since the last reset that arrived, the link
                      \* was down or a report was lost
          overtaken   \* history: since the latest reset, the grab has ended
                      \* while two readers were past isGrabbed

readers     == <<inflight, synDue, held>>
history     == <<cutOff, overtaken>>
sessionVars == <<vars, reporterVars, readers, history>>

NoEvent == [stage |-> "none"]
Idle(d) == inflight[d] = NoEvent

SessionInit ==
    /\ Init /\ ReporterInit
    /\ inflight = [d \in Dev |-> NoEvent]
    /\ synDue = [d \in Dev |-> FALSE]
    /\ held = [d \in Dev |-> {}]
    /\ cutOff = FALSE /\ overtaken = FALSE

(* A report can only arrive over a link that is up. *)
Arrives == {ok \in BOOLEAN : ok => alive}

-----------------------------------------------------------------------------
(* What the controller does to the Reporter while it holds k.mu. *)

(* Whoever is past isGrabbed will report whatever becomes of the grab. *)
LeftBehind == {d \in Dev : inflight[d].stage = "report"}

Overtakes == overtaken' = (grabbed /\ Cardinality(LeftBehind) > 1)

ResetReports ==
    /\ \E kbdOk, mouseOk \in Arrives :
          /\ Reset(kbdOk, mouseOk)
          /\ cutOff' = ~(kbdOk /\ mouseOk)
    /\ Overtakes

ResetWhenGrabbing == IF ~grabbed /\ grabbed'
                     THEN ResetReports
                     ELSE UNCHANGED <<reporterVars, history>>

ResetWhenReleasing == IF grabbed /\ ~grabbed'
                      THEN ResetReports
                      ELSE UNCHANGED <<reporterVars, history>>

(* applyGrab: a refused grab returns before rep.Reset. *)
AfterApplyGrab == IF grabbed' # grabbed
                  THEN ResetReports
                  ELSE UNCHANGED <<reporterVars, history>>

(* releaseLocked: nothing to do unless grabbed; the target is not told. *)
AfterRelease == IF grabbed
                THEN ClearState /\ Overtakes /\ UNCHANGED cutOff
                ELSE UNCHANGED <<reporterVars, history>>

-----------------------------------------------------------------------------
(* The environment. *)

Unplugs(p) ==
    /\ Unplug(p)
    /\ held' = [d \in Dev |-> IF fd'[d] = "dead" THEN {} ELSE held[d]]
    /\ UNCHANGED <<reporterVars, inflight, synDue, history>>

LinkChanges ==
    /\ LinkChange
    /\ cutOff' = (cutOff \/ alive)
    /\ UNCHANGED <<reporterVars, readers, overtaken>>

-----------------------------------------------------------------------------
(* readDevice. *)

ReadsToggle(d) ==
    /\ Idle(d) /\ ~synDue[d]
    /\ ReadToggle(d)
    /\ synDue' = [synDue EXCEPT ![d] = TRUE]
    /\ UNCHANGED <<reporterVars, inflight, held, history>>

HandlesToggle(d) ==
    /\ HandleToggle(d)
    /\ AfterApplyGrab
    /\ UNCHANGED readers

CanRead(d) == Running /\ reader[d] = "reading" /\ fd[d] = "live" /\ Idle(d)

(* The value says what became of a key; motion and the end of a frame *)
(* carry none that matters here.                                      *)
Key(k, v)    == [type |-> "key", code |-> k, value |-> v]
Rel(a, step) == [type |-> "rel", code |-> a, value |-> step]
Syn          == [type |-> "syn"]

Reads(d, ev) ==
    /\ CanRead(d)
    /\ inflight' = [inflight EXCEPT ![d] = [stage |-> "check", ev |-> ev]]
    /\ synDue' = [synDue EXCEPT ![d] = ev # Syn]
    /\ UNCHANGED <<vars, reporterVars, history>>

ReadPress(d, k) ==
    /\ ~synDue[d] /\ k \notin held[d]
    /\ Reads(d, Key(k, "down"))
    /\ held' = [held EXCEPT ![d] = @ \cup {k}]

ReadRelease(d, k) ==
    /\ ~synDue[d] /\ k \in held[d]
    /\ Reads(d, Key(k, "up"))
    /\ held' = [held EXCEPT ![d] = @ \ {k}]

ReadRel(d, a, step) == ~synDue[d] /\ Reads(d, Rel(a, step)) /\ UNCHANGED held

ReadSyn(d) == synDue[d] /\ Reads(d, Syn) /\ UNCHANGED held

(* Events are forwarded whatever the mode. *)
ForwardAlways(d) ==
    /\ Running /\ inflight[d].stage = "check"
    /\ inflight' = [inflight EXCEPT ![d].stage = "report"]
    /\ UNCHANGED <<vars, reporterVars, synDue, held, history>>

(* isGrabbed takes the lock and gives it back. *)
CheckGrabbed(d) ==
    /\ Running /\ inflight[d].stage = "check"
    /\ inflight' = [inflight EXCEPT ![d] =
                      IF grabbed THEN [@ EXCEPT !.stage = "report"] ELSE NoEvent]
    /\ UNCHANGED <<vars, reporterVars, synDue, held, history>>

Handle(ev) ==
    \/ /\ ev.type = "key"
       /\ \/ ev.code \in Button /\ HandleButton(ev.code, ev.value)
          \/ ev.code \in Mod    /\ HandleMod(ev.code, ev.value)
          \/ ev.code \in Usage  /\ HandleKey(ev.code, ev.value)
       /\ UNCHANGED cutOff
    \/ /\ ev.type = "rel"
       /\ IF ev.code \in Axis THEN HandleRel(ev.code, ev.value)
                             ELSE HandleRelOther
       /\ UNCHANGED cutOff
    \/ /\ ev.type = "syn"
       /\ \E kbdOk, mouseOk \in Arrives :
             /\ HandleSyn(kbdOk, mouseOk)
             /\ cutOff' = (cutOff \/ ~kbdOk \/ ~mouseOk)

(* rep.Handle: under r.mu, and no longer under k.mu. *)
Report(d) ==
    /\ Running /\ inflight[d].stage = "report"
    /\ Handle(inflight[d].ev)
    /\ inflight' = [inflight EXCEPT ![d] = NoEvent]
    /\ UNCHANGED <<vars, synDue, held, overtaken>>

ReaderFails(d) ==
    /\ Idle(d)
    /\ ReadFails(d)
    /\ UNCHANGED <<reporterVars, readers, history>>

(* A device that comes back on the same object starts a new frame. *)
LosesDevice(d) ==
    /\ DeviceLost(d)
    /\ AfterRelease
    /\ synDue' = [synDue EXCEPT ![d] = FALSE]
    /\ UNCHANGED <<inflight, held>>

-----------------------------------------------------------------------------
(* The other goroutines. *)

MqttAsks ==
    /\ MqttEnabled
    /\ ToggleGrab \/ \E on \in BOOLEAN : SetGrab(on)
    /\ AfterApplyGrab
    /\ UNCHANGED readers

WatchReleases ==
    /\ WatchRelease
    /\ AfterRelease
    /\ UNCHANGED readers

ShutdownReleases ==
    /\ ShutdownRelease
    /\ AfterApplyGrab
    /\ UNCHANGED readers

CoalesceLoop ==
    /\ Running
    /\ \E ok \in Arrives : CoalesceTick(ok) /\ cutOff' = (cutOff \/ ~ok)
    /\ UNCHANGED <<vars, readers, overtaken>>

(* Steps that do not touch the Reporter. *)
Quietly ==
    /\ \/ \E p \in Path : Plug(p)
       \/ WatchTick \/ WatchAlive
       \/ Supervisor
       \/ Sigint \/ Exit
    /\ UNCHANGED <<reporterVars, readers, history>>

ReaderStep(d) ==
    \/ ReadsToggle(d) \/ HandlesToggle(d)
    \/ \E k \in KeysOf[d] : ReadPress(d, k) \/ ReadRelease(d, k)
    \/ \E a \in RelCode, step \in Steps : ReadRel(d, a, step)
    \/ ReadSyn(d) \/ CheckGrabbed(d) \/ Report(d)
    \/ ReaderFails(d) \/ LosesDevice(d)

SessionNext ==
    \/ \E p \in Path : Unplugs(p)
    \/ LinkChanges
    \/ \E d \in Dev : ReaderStep(d)
    \/ MqttAsks \/ WatchReleases \/ ShutdownReleases \/ CoalesceLoop
    \/ Quietly

SessionSpec == SessionInit /\ [][SessionNext]_sessionVars

-----------------------------------------------------------------------------
Neutral == shownKbd = NoKeys /\ shownButtons = {}

(* Nothing stays pressed on the target when KVM mode ends or begins anew,  *)
(* as the comment on Reset promises, unless the reports that say so were   *)
(* lost or were not sent by design (ClearState).  The proviso is a race    *)
(* the code has: of two readers that passed isGrabbed before the release,  *)
(* one presses a key after the reset and the other ends the frame.         *)
ReleasedMeansNeutral ==
    ~grabbed /\ ~overtaken /\ ~kbdStale /\ ~mouseStale => Neutral

(* What is typed in LOCAL mode stays local: between a release and the next *)
(* grab no report presses anything on the target, up to the same race      *)
(* (isGrabbed in readDevice).                                              *)
Shown == shownKbd.mods \cup shownKbd.slots \cup shownButtons

LocalStaysLocal ==
    [][~grabbed /\ ~grabbed' /\ ~overtaken => Shown' \subseteq Shown]_sessionVars

(* While KVM mode lasts and the readers have caught up, the target shows   *)
(* no key and no button that is not down on some device: a release is      *)
(* never dropped between the devices, the toggles and the Reporter.        *)
CaughtUp == \A d \in Dev : /\ Idle(d) /\ ~synDue[d]
                           /\ reader[d] \in {"none", "reading"}
                           /\ fd[d] # "dead"
Down == UNION {held[d] : d \in devs}

NoStuckKeys ==
    grabbed /\ Running /\ CaughtUp /\ ~kbdStale /\ ~mouseStale
      => Shown \subseteq Down \cup {Rollover}

(* What the comments on releaseLocked and ClearState take for granted: the *)
(* target is only left as it is when it cannot be told.  A device that is  *)
(* unplugged with a key down is released without a report, although the    *)
(* link is up (deviceLost).                                                *)
LeftAloneOnlyWhenGone == ~grabbed /\ alive /\ ~cutOff => Neutral
=============================================================================
