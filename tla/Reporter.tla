------------------------------- MODULE Reporter -------------------------------
(***************************************************************************)
(* The Reporter (report.go): evdev events in, HID reports out.  Every      *)
(* method runs under r.mu, so one call is one action; the operators that   *)
(* are not actions of ReporterNext are what the callers compose.           *)
(*                                                                         *)
(* A write to the sink may fail, or the report may be lost on the way, and *)
(* the Reporter goes on the same in both cases: ok tells whether the       *)
(* report took effect.  shownKbd and shownButtons are what the target      *)
(* computer believes, decided by the reports it received.                  *)
(*                                                                         *)
(* pressed, owed, kbdStale and mouseStale are history: they are not in the *)
(* code and no guard reads them.                                           *)
(***************************************************************************)
EXTENDS Integers, FiniteSets, SequencesExt

CONSTANTS Mod,         \* modifier keys, one bit each
          Usage,       \* HID usages of the other keys
          Rollover,    \* usage 0x01: too many keys
          Slots,       \* usages in one keyboard report: 6
          Button,      \* mouse buttons
          Axis,        \* among "dx", "dy", "wheel"
          Limit,       \* the largest value a report carries on each axis
          Steps,       \* values of a REL event
          MaxPending   \* bound on the motion collected between two flushes

ASSUME ReporterAssumption ==
    /\ Slots \in Nat /\ Limit \in [Axis -> Nat] /\ MaxPending \in Nat
    /\ Steps \subseteq Int /\ Rollover \notin Usage

VARIABLES coalesce,    \* r.coalesce > 0
          invertWheel, \* r.invertWheel
          mods, keys, kbdDirty,                   \* r's keyboard state
          buttons, motion, mouseDirty, mouseBtn,  \* r's mouse state
          shownKbd, shownButtons,  \* what the target believes
          pressed,     \* usages down and not yet up, since the last clear
          owed,        \* motion taken in, and neither delivered nor discarded
          kbdStale, mouseStale     \* the latest report was lost, or a clear
                                   \* was not reported

keyboard == <<mods, keys, kbdDirty, shownKbd, pressed, kbdStale>>
mouse    == <<buttons, motion, mouseDirty, mouseBtn, shownButtons, owed,
              mouseStale>>
settings == <<coalesce, invertWheel>>
reporterVars == <<settings, keyboard, mouse>>

Still  == [a \in Axis |-> 0]
NoKeys == [mods |-> {}, slots |-> {}]

ReporterInit ==
    /\ coalesce \in BOOLEAN /\ invertWheel \in BOOLEAN
    /\ mods = {} /\ keys = <<>> /\ kbdDirty = FALSE
    /\ buttons = {} /\ motion = Still
    /\ mouseDirty = FALSE /\ mouseBtn = FALSE
    /\ shownKbd = NoKeys /\ shownButtons = {}
    /\ pressed = {} /\ owed = Still
    /\ kbdStale = FALSE /\ mouseStale = FALSE

-----------------------------------------------------------------------------
(* The reports: keyboardReport, clamp16 and clamp8. *)

KeyboardReport ==
    [mods  |-> mods,
     slots |-> IF Len(keys) > Slots THEN {Rollover} ELSE ToSet(keys)]

Direction(a) == IF invertWheel /\ a = "wheel" THEN -1 ELSE 1

Clamp(v, limit) == CASE v > limit      -> limit
                     [] v < -limit - 1 -> -limit - 1
                     [] OTHER          -> v

Reported(a) == Clamp(Direction(a) * motion[a], Limit[a])

Clipped(a) == Reported(a) # Direction(a) * motion[a]

FlushKeyboard(ok) ==
    /\ shownKbd' = IF ok THEN KeyboardReport ELSE shownKbd
    /\ kbdStale' = ~ok
    /\ kbdDirty' = FALSE
    /\ UNCHANGED <<mods, keys, pressed>>

(* The motion stays for the next report. *)
FlushMouseNoReset(ok) ==
    /\ shownButtons' = IF ok THEN buttons ELSE shownButtons
    /\ mouseStale' = ~ok
    /\ owed' = [a \in Axis |-> IF ok /\ ~Clipped(a) THEN owed[a] - Reported(a)
                                                ELSE 0]
    /\ mouseDirty' = FALSE /\ mouseBtn' = FALSE
    /\ UNCHANGED <<buttons, motion>>

FlushMouse(ok) ==
    /\ shownButtons' = IF ok THEN buttons ELSE shownButtons
    /\ mouseStale' = ~ok
    /\ owed' = [a \in Axis |-> IF ok /\ ~Clipped(a) THEN owed[a] - Reported(a)
                                                ELSE 0]
    /\ motion' = Still
    /\ mouseDirty' = FALSE /\ mouseBtn' = FALSE
    /\ UNCHANGED buttons

-----------------------------------------------------------------------------
(* Handle, by type of event.  A value is "down", "up" or "repeat". *)

Pressed(held, x, v) == CASE v = "down" -> held \cup {x}
                         [] v = "up"   -> held \ {x}
                         [] OTHER      -> held

HandleButton(b, v) ==
    /\ buttons' = Pressed(buttons, b, v)
    /\ mouseDirty' = TRUE /\ mouseBtn' = TRUE
    /\ UNCHANGED <<settings, keyboard, motion, shownButtons, owed,
                   mouseStale>>

HandleMod(m, v) ==
    /\ v # "repeat"
    /\ mods' = Pressed(mods, m, v)
    /\ kbdDirty' = TRUE
    /\ UNCHANGED <<settings, keys, shownKbd, pressed, kbdStale, mouse>>

AddKeyAgain(usage) == Append(keys, usage)

AddKey(usage) == IF usage \in ToSet(keys) THEN keys ELSE Append(keys, usage)

RemoveKey(usage) == RemoveFirst(keys, usage)

HandleKey(u, v) ==
    /\ v # "repeat"
    /\ keys' = IF v = "down" THEN AddKey(u) ELSE RemoveKey(u)
    /\ pressed' = Pressed(pressed, u, v)
    /\ kbdDirty' = TRUE
    /\ UNCHANGED <<settings, mods, shownKbd, kbdStale, mouse>>

HandleRel(a, step) ==
    /\ motion[a] + step \in -MaxPending .. MaxPending
    /\ motion' = [motion EXCEPT ![a] = @ + step]
    /\ owed' = [owed EXCEPT ![a] = @ + Direction(a) * step]
    /\ mouseDirty' = TRUE
    /\ UNCHANGED <<settings, keyboard, buttons, mouseBtn, shownButtons,
                   mouseStale>>

(* A REL code that no report carries, as REL_WHEEL_HI_RES is. *)
HandleRelOther ==
    /\ mouseDirty' = TRUE
    /\ UNCHANGED <<settings, keyboard, buttons, motion, mouseBtn, shownButtons,
                   owed, mouseStale>>

HandleSyn(kbdOk, mouseOk) ==
    /\ IF kbdDirty THEN FlushKeyboard(kbdOk) ELSE UNCHANGED keyboard
    /\ IF (IF coalesce THEN mouseBtn ELSE mouseDirty)
       THEN FlushMouse(mouseOk)
       ELSE UNCHANGED mouse
    /\ UNCHANGED settings

-----------------------------------------------------------------------------
(* coalesceLoop, and the two ways in which the grab controller starts over. *)

CoalesceTickPointerOnly(ok) ==
    /\ coalesce /\ \E a \in Axis \ {"wheel"} : motion[a] # 0
    /\ FlushMouse(ok)
    /\ UNCHANGED <<settings, keyboard>>

CoalesceTick(ok) ==
    /\ coalesce /\ motion # Still
    /\ FlushMouse(ok)
    /\ UNCHANGED <<settings, keyboard>>

Cleared ==
    /\ mods' = {} /\ keys' = <<>> /\ kbdDirty' = FALSE
    /\ buttons' = {} /\ motion' = Still
    /\ mouseDirty' = FALSE /\ mouseBtn' = FALSE
    /\ pressed' = {} /\ owed' = Still
    /\ UNCHANGED settings

ClearState ==
    /\ Cleared
    /\ kbdStale' = TRUE /\ mouseStale' = TRUE
    /\ UNCHANGED <<shownKbd, shownButtons>>

ResetButtonsLeft(kbdOk, mouseOk) ==
    /\ Cleared
    /\ shownKbd' = IF kbdOk THEN NoKeys ELSE shownKbd
    /\ kbdStale' = ~kbdOk
    /\ mouseStale' = FALSE
    /\ UNCHANGED shownButtons

Reset(kbdOk, mouseOk) ==
    /\ Cleared
    /\ shownKbd' = IF kbdOk THEN NoKeys ELSE shownKbd
    /\ shownButtons' = IF mouseOk THEN {} ELSE shownButtons
    /\ kbdStale' = ~kbdOk /\ mouseStale' = ~mouseOk

-----------------------------------------------------------------------------
(* Readers deliver events in any order and the controller clears at any    *)
(* time.                                                                   *)

Event == \/ \E b \in Button, v \in {"down", "up", "repeat"} : HandleButton(b, v)
         \/ \E m \in Mod, v \in {"down", "up"} : HandleMod(m, v)
         \/ \E u \in Usage, v \in {"down", "up"} : HandleKey(u, v)
         \/ \E a \in Axis, step \in Steps : HandleRel(a, step)
         \/ HandleRelOther
         \/ \E kbdOk, mouseOk \in BOOLEAN : HandleSyn(kbdOk, mouseOk)

Tick == \E ok \in BOOLEAN : CoalesceTick(ok)

Control == \/ ClearState
           \/ \E kbdOk, mouseOk \in BOOLEAN : Reset(kbdOk, mouseOk)

ReporterNext == Event \/ Tick \/ Control

ReporterSpec == ReporterInit /\ [][ReporterNext]_reporterVars

(* The ticker of coalesceLoop keeps firing. *)
ReporterFairSpec == ReporterSpec /\ WF_reporterVars(Tick)

-----------------------------------------------------------------------------
KeyReports == [mods : SUBSET Mod, slots : SUBSET (Usage \cup {Rollover})]

ReporterTypeOK ==
    /\ mods \subseteq Mod /\ keys \in Seq(Usage) /\ kbdDirty \in BOOLEAN
    /\ buttons \subseteq Button /\ motion \in [Axis -> Int]
    /\ mouseDirty \in BOOLEAN /\ mouseBtn \in BOOLEAN
    /\ shownKbd \in KeyReports /\ shownButtons \subseteq Button
    /\ coalesce \in BOOLEAN /\ invertWheel \in BOOLEAN
    /\ pressed \subseteq Usage /\ owed \in [Axis -> Int]
    /\ kbdStale \in BOOLEAN /\ mouseStale \in BOOLEAN

(* Once a frame ends the target shows exactly the keys that are down, or   *)
(* the rollover report when there are more of them than slots, however the *)
(* presses and releases of several devices interleave, and it recovers     *)
(* from rollover by itself (addKey, removeKey, keyboardReport, Handle).    *)
TargetShowsKeys ==
    ~kbdDirty /\ ~kbdStale =>
        /\ shownKbd.mods = mods
        /\ shownKbd.slots = IF Cardinality(pressed) > Slots THEN {Rollover}
                                                            ELSE pressed

(* A click is not held back: the target shows the buttons that are down    *)
(* unless a change still waits for the end of its frame (Handle,           *)
(* flushMouse, and the ticker that may get there first).                   *)
TargetShowsButtons == ~mouseBtn /\ ~mouseStale => shownButtons = buttons

(* Coalescing delays motion and loses none: what devices moved is what the *)
(* target moved plus what is pending, except for what a failed write, a    *)
(* clear or the clamp of a report discards (coalesceLoop, flushMouse).     *)
MotionLossless == owed = [a \in Axis |-> Direction(a) * motion[a]]

(* A click lands where the pointer was: the report that changes the        *)
(* buttons at the target also carries all the motion before it, so a click *)
(* never overtakes coalesced motion (Handle, flushMouse).                  *)
ClicksCarryMotion ==
    [][shownButtons' # shownButtons => motion' = Still]_reporterVars

(* No motion waits for ever for a frame that does not come (coalesceLoop). *)
MotionDelivered ==
    \A a \in Axis : coalesce /\ motion[a] # 0 ~> motion[a] = 0
=============================================================================
