-------------------------------- MODULE Settings --------------------------------
(***************************************************************************)
(* The board's settings: which radios are on, and the Wi-Fi credentials.   *)
(* The daemon's setRadios and setWifiCreds (main.go) send a command over   *)
(* the cable; apply_control and apply_config (main.c) save it in NVS and   *)
(* restart the board, and app_main reads the settings when it starts.      *)
(*                                                                         *)
(* NVS is external: a key may be unset, and what has been set but not      *)
(* committed when the board stops may be kept or not, key by key.          *)
(*                                                                         *)
(* uart_task runs before app_main has read the settings, so a command may  *)
(* come at any time the board is up; one sent while it is not is lost      *)
(* without a word.                                                         *)
(***************************************************************************)
EXTENDS Naturals

CONSTANTS Creds,      \* pairs of SSID and password
          Controls,   \* what -set-ble and -set-wifi are used for
          Configs     \* what -wifi-ssid and -wifi-pass are used for

VARIABLES nvs,        \* the four keys
          staged,     \* set by a handler, not committed
          handler,    \* uart_task: "none", "saving"
          app,        \* app_main: "off", "booting", "done"
          ssid, pass, \* g_ssid, g_pass
          radios,     \* the radios that are on
          asked,      \* history: what the commands that arrived asked for
          torn        \* history: the keys that were not saved as asked

memory       == <<nvs, staged, handler>>
loaded       == <<app, ssid, pass, radios>>
wishes       == <<asked, torn>>
settingsVars == <<memory, loaded, wishes>>

Unset    == "unset"
Radio    == {"ble", "wifi"}
Flag     == {"on", "off"}
Keys     == Radio \cup {"ssid", "pass"}
NoKeys   == [k \in {} |-> Unset]
AllUnset == [k \in Keys |-> Unset]

(* The settings s with those in t instead. *)
With(s, t) == [k \in Keys |-> IF k \in DOMAIN t THEN t[k] ELSE s[k]]

Or(v, def) == IF v = Unset THEN def ELSE v

(* read_flag and load_wifi_creds: a key that is unset has its default. *)
ReadFlag(s, radio) == Or(s[radio], "on")

(* What app_main makes of the settings s, the image being built with b. *)
SsidOf(s, b)   == Or(s["ssid"], b)
PassOf(s, b)   == Or(s["pass"], b)
RadiosOf(s, name) == {r \in Radio : /\ ReadFlag(s, r) = "on"
                                    /\ r = "wifi" => name # Unset}

Init(b) == /\ nvs = AllUnset /\ staged = NoKeys /\ handler = "none"
           /\ app = "done"
           /\ ssid = b /\ pass = b /\ radios = RadiosOf(nvs, b)
           /\ asked = AllUnset /\ torn = {}

-----------------------------------------------------------------------------
(* setRadios: one flag or both.  setWifiCreds: SSID and password. *)
ControlCommands == UNION {[rs -> Flag] : rs \in (SUBSET Radio) \ {{}}}
ConfigCommands  == {[k \in {"ssid", "pass"} |-> c] : c \in Creds}

Handles(cmd, keys) ==
    /\ handler = "none" /\ app # "off"
    /\ handler' = "saving"
    /\ staged' = keys
    /\ asked' = With(asked, cmd) /\ torn' = torn \ DOMAIN cmd
    /\ UNCHANGED <<nvs, loaded>>

ApplyControlUnsetOff(cmd) ==
    Handles(cmd, [r \in Radio |-> IF r \in DOMAIN cmd THEN cmd[r]
                                  ELSE Or(nvs[r], "off")])

(* apply_control writes both flags, the one it was not asked for as it is. *)
ApplyControl(cmd) ==
    Handles(cmd, [r \in Radio |-> IF r \in DOMAIN cmd THEN cmd[r]
                                  ELSE ReadFlag(nvs, r)])

(* apply_config: "setting creds implies wanting Wi-Fi on". *)
ApplyConfig(cmd) ==
    LET keys == [k \in {"ssid", "pass", "wifi"} |->
                    IF k = "wifi" THEN "on" ELSE cmd[k]]
    IN  Handles(keys, keys)

(* What is left of the settings when some of those staged are kept. *)
Keep(kept) == /\ nvs' = With(nvs, [k \in kept |-> staged[k]])
              /\ torn' = torn \cup (DOMAIN staged \ kept)

Off == /\ app' = "off" /\ radios' = {}
       /\ handler' = "none" /\ staged' = NoKeys
       /\ UNCHANGED <<ssid, pass, asked>>

(* Both handlers end here: commit, or fail to, and restart in any case. *)
CommitAndRestart ==
    /\ handler = "saving"
    /\ Keep(DOMAIN staged)
    /\ Off

SaveFails ==
    /\ handler = "saving"
    /\ \E kept \in (SUBSET DOMAIN staged) \ {DOMAIN staged} : Keep(kept)
    /\ Off

(* The board stops for another reason. *)
Stops == /\ \E kept \in SUBSET DOMAIN staged : Keep(kept)
         /\ Off

-----------------------------------------------------------------------------
(* app_main *)

Boots ==
    /\ app = "off"
    /\ app' = "booting"
    /\ UNCHANGED <<memory, ssid, pass, radios, wishes>>

(* The rest of app_main, in one step: what it reads while a handler saves  *)
(* is gone with the restart that follows.                                  *)
Start(b) ==
    /\ app = "booting"
    /\ app' = "done"
    /\ ssid' = SsidOf(nvs, b) /\ pass' = PassOf(nvs, b)
    /\ radios' = RadiosOf(nvs, ssid')
    /\ UNCHANGED <<memory, wishes>>

-----------------------------------------------------------------------------
(* A board that has started and handles no command runs with what the      *)
(* commands asked for, each over the defaults and over those before it,    *)
(* whatever updates and restarts came between; of a command that was cut   *)
(* off, the keys that were lost are as the board has them until they are   *)
(* asked for again (apply_control, apply_config, load_wifi_creds,          *)
(* read_flag, app_main).  b is what the running image was built with.      *)
InForce(b) ==
    app = "done" /\ handler = "none"
        => /\ ssid = SsidOf(asked, b) \/ "ssid" \in torn
           /\ pass = PassOf(asked, b) \/ "pass" \in torn
           /\ \A r \in Radio \ torn : r \in radios <=> r \in RadiosOf(asked, ssid)
=============================================================================
