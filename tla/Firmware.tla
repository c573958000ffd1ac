-------------------------------- MODULE Firmware --------------------------------
(***************************************************************************)
(* The board as a whole: updates (Ota) and settings (Settings), which meet *)
(* in the restart.  A settings command restarts a board that may be in the *)
(* middle of an update or running an image that is not confirmed; an       *)
(* update, or a reset, restarts a board that may be saving settings; NVS   *)
(* outlives all of it.  app_main confirms an image after it has read the   *)
(* settings and started the radios with them.                              *)
(*                                                                         *)
(* Commands come over the cable, an update over any transport.  To an      *)
(* update a command is one more fault, and is bounded as such.             *)
(***************************************************************************)
EXTENDS Ota

CONSTANTS Creds, Controls, Configs,   \* as in Settings
          BuiltIn                     \* each image's own credentials, or none

VARIABLES nvs, staged, handler, app, ssid, pass, radios, asked, torn

S == INSTANCE Settings

ASSUME FirmwareAssumption ==
    /\ BuiltIn \in [0 .. MaxAttempts -> Creds \cup {S!Unset}]
    /\ Controls \subseteq S!ControlCommands /\ Configs \subseteq S!ConfigCommands

settings     == <<nvs, staged, handler, app, ssid, pass, radios, asked, torn>>
firmwareVars == <<vars, settings>>

Running == image[running][1].image

FirmwareInit == Init /\ S!Init(BuiltIn[0])

-----------------------------------------------------------------------------
(* Updates, with what they do to the settings. *)

Updating == /\ \/ Start \/ Updater
               \/ BeginAccepted \/ BeginRejected \/ BeginFails
               \/ ChunkWritten \/ ChunkIgnored \/ ChunkFails
               \/ EndRejected \/ EndFails
               \/ LinkNotices \/ LinkReturns \/ LinkDrops \/ FrameLost
            /\ UNCHANGED settings

(* ota_end restarts the board, or the power goes. *)
Stopping == (EndAccepted \/ Reset) /\ S!Stops

Booting == (BootNew \/ BootValid \/ RollBack) /\ S!Boots

Starting == S!Start(BuiltIn[Running]) /\ UNCHANGED vars

ConfirmingOnline ==
    Confirm /\ app = "done" /\ "wifi" \in radios /\ UNCHANGED settings

(* The radios are started first. *)
Confirming == Confirm /\ app = "done" /\ UNCHANGED settings

-----------------------------------------------------------------------------
(* Settings, with what they do to an update. *)

Command ==
    /\ Fault
    /\ \/ \E cmd \in Controls : S!ApplyControl(cmd)
       \/ \E cmd \in Configs  : S!ApplyConfig(cmd)
    /\ UNCHANGED <<updater, alive, wire, up, session, running, flash,
                   disturbed, opened, took>>

(* apply_control and apply_config end in esp_restart. *)
CommandRestarts ==
    /\ S!CommitAndRestart \/ S!SaveFails
    /\ Restarted /\ disturbed' = TRUE /\ hindered' = TRUE
    /\ UNCHANGED <<updater, alive, written, part, running, flash,
                   faults, opened, took>>

-----------------------------------------------------------------------------
FirmwareNext == \/ Updating \/ Stopping \/ Booting
                \/ Starting \/ Confirming
                \/ Command \/ CommandRestarts

(* Both programs keep running, and the link comes back. *)
FirmwareFairness ==
    /\ WF_firmwareVars(Updater /\ UNCHANGED settings)
    /\ WF_firmwareVars(Updating /\ Board)
    /\ WF_firmwareVars(Stopping /\ EndAccepted)
    /\ WF_firmwareVars(Booting)
    /\ WF_firmwareVars(Starting \/ Confirming)
    /\ WF_firmwareVars(CommandRestarts)
    /\ WF_firmwareVars(LinkReturns /\ UNCHANGED settings)

FirmwareSpec == FirmwareInit /\ [][FirmwareNext]_firmwareVars

FirmwareFairSpec == FirmwareSpec /\ FirmwareFairness

-----------------------------------------------------------------------------
ValueOf(k) == (IF k \in S!Radio THEN S!Flag ELSE Creds) \cup {S!Unset}

SettingsTypeOK ==
    /\ DOMAIN nvs = S!Keys /\ DOMAIN asked = S!Keys
    /\ \A k \in S!Keys : {nvs[k], asked[k]} \subseteq ValueOf(k)
    /\ \A k \in DOMAIN staged : k \in S!Keys /\ staged[k] \in ValueOf(k)
    /\ handler \in {"none", "saving"}
    /\ app \in {"off", "booting", "done"}
    /\ {ssid, pass} \subseteq Creds \cup {S!Unset}
    /\ radios \subseteq S!Radio /\ torn \subseteq S!Keys

(* S!InForce, for the image that runs. *)
SettingsInForce == S!InForce(BuiltIn[Running])
=============================================================================
