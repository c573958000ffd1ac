----------------------------- MODULE FirmwareProofs -----------------------------
(***************************************************************************)
(* The board as a whole, for every size of an image, every number of       *)
(* updates and of faults, all settings commands and all credentials.       *)
(*                                                                         *)
(* None of the three invariants is inductive.  AlwaysBootable needs that   *)
(* an update writes only the slot that does not run, and only while the    *)
(* one that runs is confirmed (BootInv).  RefusalReported needs what is on *)
(* the wire and in the session: whichever frames are lost, a session that  *)
(* this attempt's begin opened holds only this attempt's chunks, so that   *)
(* an end that the board accepts is for this attempt's image (FlowInv,     *)
(* which builds on BootInv).  SettingsInForce needs what NVS and the       *)
(* handler hold while a command is being saved, and that the image that    *)
(* runs, with its own defaults, does not change under way (SettingsInv,    *)
(* which builds on BootInv too).                                           *)
(***************************************************************************)
EXTENDS Firmware, TLAPS, SequenceTheorems

-----------------------------------------------------------------------------
(* The two slots. *)

(* There are two slots, each the other of the other. *)
LEMMA TwoSlots ==
  ASSUME NEW s \in Slots
  PROVE  /\ Other(s) \in Slots /\ Other(s) # s
         /\ \A t \in Slots : t # s => t = Other(s)
<1>1. \E o \in Slots : o # s
  BY DEF Slots
<1>2. Other(s) \in Slots /\ Other(s) # s
  BY <1>1 DEF Other
<1> QED  BY <1>2 DEF Slots

(* An image is a sequence of its chunks. *)
LEMMA ImageIsWhole ==
  ASSUME NEW a \in 0 .. MaxAttempts
  PROVE  /\ Image(a) \in Seq(AnyChunk)
         /\ Len(Image(a)) = Chunks
         /\ \A i \in 1 .. Chunks : Image(a)[i].image = a
BY OtaAssumption DEF OtaAssumption, AnyChunk, Image

(* What FrameLost leaves of a sequence. *)
LEMMA SequenceWithout ==
  ASSUME NEW T, NEW s \in Seq(T), NEW i \in 1 .. Len(s)
  PROVE  SubSeq(s, 1, i - 1) \o SubSeq(s, i + 1, Len(s)) \in Seq(T)
<1>1. SubSeq(s, 1, i - 1) \in Seq(T)
  <2>1. 1 .. i - 1 \subseteq 1 .. Len(s)
    BY LenProperties
  <2>2. \A j \in 1 .. i - 1 : s[j] \in T
    BY <2>1, ElementOfSeq
  <2> QED  BY <2>2
<1>2. SubSeq(s, i + 1, Len(s)) \in Seq(T)
  <2>2. \A j \in i + 1 .. Len(s) : s[j] \in T
    BY LenProperties, ElementOfSeq
  <2> QED  BY <2>2, LenProperties
<1> QED  BY <1>1, <1>2, ConcatProperties

-----------------------------------------------------------------------------
(* What a step of the board as a whole is to an update. *)
Interrupted ==
    /\ hindered' = TRUE /\ faults' \in 0 .. MaxFaults
    /\ \/ Restarted /\ disturbed' = TRUE
       \/ UNCHANGED <<active, wire, up, disturbed>>
    /\ UNCHANGED <<updater, alive, written, part, running, flash, opened, took>>

UpdaterStep == Start \/ Updater

BoardStep == Board \/ Confirm \/ Environment

(* Faults are counted. *)
LEMMA FaultIsCounted ==
  ASSUME TypeOK, Fault
  PROVE  faults' \in 0 .. MaxFaults /\ hindered' = TRUE
BY OtaAssumption DEF OtaAssumption, Fault, TypeOK

(* To an update the board's settings are only one more disturbance. *)
LEMMA SettingsDisturb ==
  TypeOK /\ [FirmwareNext]_firmwareVars
    => UpdaterStep \/ BoardStep \/ Interrupted \/ UNCHANGED vars
<1> SUFFICES ASSUME TypeOK, [FirmwareNext]_firmwareVars
             PROVE  UpdaterStep \/ BoardStep \/ Interrupted \/ UNCHANGED vars
  OBVIOUS
<1>1. CASE Command
  <2>1. faults' \in 0 .. MaxFaults /\ hindered' = TRUE
    BY <1>1, FaultIsCounted DEF Command
  <2>2. UNCHANGED <<updater, alive, wire, up, session, running, flash,
                    disturbed, opened, took>>
    BY <1>1 DEF Command
  <2>3. UNCHANGED <<active, wire, up, written, part>>
    BY <2>2 DEF session
  <2> QED  BY <2>1, <2>2, <2>3 DEF Interrupted
<1>2. CASE CommandRestarts
  BY <1>2 DEF CommandRestarts, Interrupted, TypeOK
<1>3. CASE Updating \/ Stopping \/ Booting \/ Confirming
  BY <1>3 DEF Updating, Stopping, Booting, Confirming, UpdaterStep, BoardStep,
              Board, Environment
<1>4. CASE Starting \/ UNCHANGED firmwareVars
  BY <1>4 DEF Starting, firmwareVars
<1> QED  BY <1>1, <1>2, <1>3, <1>4 DEF FirmwareNext

-----------------------------------------------------------------------------
(* The slots. *)

(* The slot to boot holds a whole image; unless it is confirmed, the other *)
(* one is, and holds one too.  The board runs the slot to boot, and what   *)
(* an update writes is the other one, whose contents are only its chunks.  *)
BootIsWhole == state[boot] \in {"valid", "new", "pending"} /\ Valid(boot)

FallbackIsWhole ==
    state[boot] # "valid" => state[Other(boot)] = "valid" /\ Valid(Other(boot))

RunsBoot == IF up THEN running = boot /\ state[boot] # "new"
                  ELSE ~active /\ wire = <<>>

(* runOTA has an image to send. *)
RunsAttempt == stage # "idle" => attempt > 0

WritesOther ==
    active => /\ part = Other(running) /\ state[running] = "valid"
              /\ image[part] \in Seq(ChunkOf)

BootInv == /\ TypeOK /\ RunsAttempt
           /\ BootIsWhole /\ FallbackIsWhole /\ RunsBoot /\ WritesOther

(* The board starts with the image that came with the cable. *)
LEMMA InitBootInv == Init => BootInv
<1> SUFFICES ASSUME Init
             PROVE  BootInv
  OBVIOUS
<1>0. 0 \in 0 .. MaxAttempts /\ 0 \in 0 .. MaxFaults /\ 1 \in 1 .. Chunks + 1
  BY OtaAssumption DEF OtaAssumption
<1>1. Image(0) \in Seq(AnyChunk)
  BY <1>0, ImageIsWhole
<1>2. TypeOK
  <2>1. <<>> \in Seq(AnyChunk) /\ wire \in Seq(Frames)
    BY EmptySeq DEF Init
  <2>2. image \in [Slots -> Seq(AnyChunk)]
    BY <1>1, <2>1 DEF Init
  <2> QED
    BY <1>0, <2>1, <2>2 DEF Init, TypeOK, Slots
<1>3. Valid("ota_0")
  BY <1>0 DEF Valid, Init, Slots
<1> QED
  BY <1>2, <1>3 DEF BootInv, Init, RunsAttempt, BootIsWhole, FallbackIsWhole, RunsBoot,
                    WritesOther, Slots

(* The frame at the head of the wire, and the rest. *)
LEMMA TakenFrame ==
  ASSUME TypeOK, NEW kind, Take(kind)
  PROVE  /\ Head(wire) \in Frames /\ wire' \in Seq(Frames)
         /\ kind = "begin" => Head(wire).ok \in BOOLEAN
         /\ kind = "data"  => Head(wire).data \in ChunkOf
<1>1. Head(wire) \in Frames /\ Tail(wire) \in Seq(Frames)
  BY HeadTailProperties DEF TypeOK, Take
<1> QED  BY <1>1 DEF Take, Frames

(* Every step keeps the types. *)
LEMMA NextTypeOK ==
  ASSUME BootInv, UpdaterStep \/ BoardStep \/ Interrupted
  PROVE  TypeOK'
<1> USE DEF updater, session, flash, history
<1>1. CASE UpdaterStep
  <2> USE DEF BootInv, TypeOK
  <2>1. CASE Start
    <3>1. attempt' \in 0 .. MaxAttempts /\ next' \in 1 .. Chunks + 1
      BY <2>1, OtaAssumption DEF OtaAssumption, Start
    <3>2. disturbed' \in BOOLEAN /\ hindered' \in BOOLEAN
      BY <2>1 DEF Start
    <3>3. /\ stage' = "connecting" /\ result' = "none" /\ tokenOk' \in BOOLEAN
          /\ UNCHANGED <<alive, wire, up, session, running, flash, faults,
                         opened, took>>
      BY <2>1 DEF Start
    <3> QED  BY <3>1, <3>2, <3>3
  <2>2. CASE Connected \/ NotConnected \/ WriteFails \/ PollDown \/ PollTimeout
    BY <2>2 DEF Connected, NotConnected, WriteFails, PollDown, PollTimeout, Finish
  <2>3. CASE SendBegin
    BY <2>3, AppendProperties DEF SendBegin, Write, Frames
  <2>4. CASE SendChunk
    <3>1. attempt \in 1 .. MaxAttempts /\ next \in 1 .. Chunks
      BY <2>4, OtaAssumption DEF OtaAssumption, SendChunk, RunsAttempt
    <3>2. [kind |-> "data", data |-> [image |-> attempt, chunk |-> next]] \in Frames
      BY <3>1 DEF Frames, ChunkOf
    <3>3. wire' \in Seq(Frames)
      BY <2>4, <3>2, AppendProperties DEF SendChunk, Write
    <3> QED
      BY <2>4, <3>1, <3>3, OtaAssumption DEF OtaAssumption, SendChunk, Write
  <2>5. CASE SendEnd
    BY <2>5, AppendProperties DEF SendEnd, Write, Frames
  <2> QED
    BY <1>1, <2>1, <2>2, <2>3, <2>4, <2>5 DEF UpdaterStep, Updater
<1>2. CASE BoardStep
  <2>1. CASE BeginAccepted
    <3>1. Other(running) \in Slots /\ <<>> \in Seq(AnyChunk)
      BY TwoSlots, EmptySeq DEF BootInv, TypeOK
    <3>2. wire' \in Seq(Frames)
      BY <2>1, TakenFrame DEF BootInv, BeginAccepted
    <3>3. image' \in [Slots -> Seq(AnyChunk)]
      BY <2>1, <3>1 DEF BeginAccepted, BootInv, TypeOK
    <3> QED
      BY <2>1, <3>1, <3>2, <3>3 DEF BeginAccepted, NoFault, BootInv, TypeOK
  <2>2. CASE BeginRejected \/ ChunkIgnored \/ EndRejected
    <3>1. wire' \in Seq(Frames)
      BY <2>2, TakenFrame DEF BootInv, BeginRejected, ChunkIgnored, EndRejected
    <3>2. CASE BeginRejected
      BY <3>1, <3>2 DEF BeginRejected, BootInv, TypeOK
    <3>3. CASE ChunkIgnored
      BY <3>1, <3>3 DEF ChunkIgnored, BootInv, TypeOK
    <3>4. CASE EndRejected
      BY <3>1, <3>4 DEF EndRejected, BootInv, TypeOK
    <3> QED  BY <2>2, <3>2, <3>3, <3>4
  <2>3. CASE BeginFails \/ ChunkFails \/ EndFails
    <3>1. wire' \in Seq(Frames)
      BY <2>3, TakenFrame DEF BootInv, BeginFails, ChunkFails, EndFails
    <3>2. Other(running) \in Slots
      BY TwoSlots DEF BootInv, TypeOK
    <3>3. faults' \in 0 .. MaxFaults /\ hindered' \in BOOLEAN
      <4>1. Fault \/ NoFault
        BY <2>3 DEF BeginFails, ChunkFails, EndFails
      <4>2. NoFault => faults' \in 0 .. MaxFaults /\ hindered' \in BOOLEAN
        BY DEF NoFault, BootInv, TypeOK
      <4> QED  BY <4>1, <4>2, FaultIsCounted DEF BootInv
    <3>4. CASE BeginFails
      BY <3>1, <3>2, <3>3, <3>4 DEF BeginFails, BootInv, TypeOK
    <3>5. CASE ChunkFails
      BY <3>1, <3>3, <3>5 DEF ChunkFails, BootInv, TypeOK
    <3>6. CASE EndFails
      BY <3>1, <3>3, <3>6 DEF EndFails, BootInv, TypeOK
    <3> QED  BY <2>3, <3>4, <3>5, <3>6
  <2>4. CASE ChunkWritten
    <3>1. wire' \in Seq(Frames) /\ Head(wire).data \in AnyChunk
      <4>1. ChunkOf \subseteq AnyChunk
        BY DEF ChunkOf, AnyChunk
      <4> QED
        BY <2>4, <4>1, TakenFrame DEF BootInv, ChunkWritten
    <3>2. Append(image[part], Head(wire).data) \in Seq(AnyChunk)
      BY <3>1, AppendProperties DEF BootInv, TypeOK
    <3> QED  BY <2>4, <3>1, <3>2 DEF ChunkWritten, BootInv, TypeOK
  <2>5. CASE EndAccepted
    <3>1. image[part] \in Seq(ChunkOf) /\ 1 \in 1 .. Len(image[part])
      BY <2>5, ImageIsWhole, OtaAssumption
         DEF OtaAssumption, EndAccepted, Valid, BootInv, WritesOther
    <3>2. image[part][1].image \in 1 .. MaxAttempts
      <4>1. image[part][1] \in ChunkOf
        BY <3>1, ElementOfSeq
      <4> QED  BY <4>1 DEF ChunkOf
    <3>3. wire' \in Seq(Frames)
      BY <2>5, EmptySeq DEF EndAccepted, Restarted
    <3>4. took' \subseteq [at : 0 .. MaxAttempts, opened : 0 .. MaxAttempts,
                           image : 0 .. MaxAttempts]
      <4>1. [at |-> attempt, opened |-> opened, image |-> image[part][1].image]
              \in [at : 0 .. MaxAttempts, opened : 0 .. MaxAttempts,
                   image : 0 .. MaxAttempts]
        BY <3>2, OtaAssumption DEF OtaAssumption, BootInv, TypeOK
      <4> QED  BY <2>5, <4>1 DEF EndAccepted, BootPart, BootInv, TypeOK
    <3>5. boot' \in Slots
            /\ state' \in [Slots -> {"none", "valid", "new", "pending", "aborted"}]
      BY <2>5 DEF EndAccepted, BootPart, BootInv, TypeOK
    <3> QED
      BY <2>5, <3>3, <3>4, <3>5 DEF EndAccepted, Restarted, NoFault, BootInv, TypeOK
  <2>6. CASE BootNew \/ BootValid \/ RollBack \/ Confirm
    <3>1. Other(boot) \in Slots
      BY TwoSlots DEF BootInv, TypeOK
    <3>2. CASE BootNew
      BY <3>2 DEF BootNew, BootInv, TypeOK
    <3>3. CASE BootValid
      BY <3>3 DEF BootValid, BootInv, TypeOK
    <3>4. CASE RollBack
      BY <3>1, <3>4 DEF RollBack, BootInv, TypeOK
    <3>5. CASE Confirm
      BY <3>5 DEF Confirm, BootInv, TypeOK
    <3> QED  BY <2>6, <3>2, <3>3, <3>4, <3>5
  <2>7. CASE LinkNotices \/ LinkReturns
    <3>1. CASE LinkNotices
      BY <3>1 DEF LinkNotices, BootInv, TypeOK
    <3>2. CASE LinkReturns
      BY <3>2 DEF LinkReturns, BootInv, TypeOK
    <3> QED  BY <2>7, <3>1, <3>2
  <2>8. CASE LinkDrops \/ Reset
    <3>1. wire' \in Seq(Frames)
      BY <2>8, EmptySeq DEF LinkDrops, Reset, Restarted
    <3>2. faults' \in 0 .. MaxFaults /\ hindered' \in BOOLEAN
      BY <2>8, FaultIsCounted DEF LinkDrops, Reset, BootInv
    <3>3. CASE LinkDrops
      BY <3>1, <3>2, <3>3 DEF LinkDrops, BootInv, TypeOK
    <3>4. CASE Reset
      BY <3>1, <3>2, <3>4 DEF Reset, Restarted, BootInv, TypeOK
    <3> QED  BY <2>8, <3>3, <3>4
  <2>9. CASE FrameLost
    <3>1. wire' \in Seq(Frames)
      BY <2>9, SequenceWithout DEF FrameLost, BootInv, TypeOK
    <3>2. faults' \in 0 .. MaxFaults /\ hindered' \in BOOLEAN
      BY <2>9, FaultIsCounted DEF FrameLost, BootInv
    <3> QED
      BY <2>9, <3>1, <3>2 DEF FrameLost, BootInv, TypeOK
  <2> QED
    BY <1>2, <2>1, <2>2, <2>3, <2>4, <2>5, <2>6, <2>7, <2>8, <2>9
       DEF BoardStep, Board, Environment
<1>3. CASE Interrupted
  <2>1. wire' \in Seq(Frames)
    BY <1>3, EmptySeq DEF Interrupted, Restarted, BootInv, TypeOK
  <2> QED  BY <1>3, <2>1 DEF Interrupted, Restarted, BootInv, TypeOK
<1> QED  BY <1>1, <1>2, <1>3

(* A slot whose contents stay holds a whole image as long as it did. *)
LEMMA StaysWhole ==
  ASSUME NEW s \in Slots, Valid(s), image'[s] = image[s]
  PROVE  Valid(s)'
BY DEF Valid, Image

(* A step that touches neither the slots nor what is being written. *)
SlotsAlone ==
    /\ UNCHANGED <<boot, image, state, running>>
    /\ active' => active /\ UNCHANGED part
    /\ \/ up' /\ up
       \/ ~up' /\ ~active' /\ wire' = <<>>

(* Every step keeps the slots sound. *)
LEMMA NextBootInv ==
  ASSUME BootInv, UpdaterStep \/ BoardStep \/ Interrupted \/ UNCHANGED vars
  PROVE  BootInv'
<1> USE DEF updater, session, flash, history
<1> DEFINE Sound == BootIsWhole /\ FallbackIsWhole /\ RunsBoot /\ WritesOther
<1>0. Other(boot) \in Slots /\ Other(boot) # boot /\ boot \in Slots
  BY TwoSlots DEF BootInv, TypeOK
<1>1. TypeOK'
  <2>1. CASE UNCHANGED vars
    BY <2>1 DEF vars, BootInv, TypeOK
  <2> QED  BY <2>1, NextTypeOK
<1>2. RunsAttempt'
  <2>1. CASE Start
    BY <2>1 DEF Start, BootInv, TypeOK, RunsAttempt
  <2>2. CASE Updater
    <3>1. stage # "idle" /\ UNCHANGED attempt
      BY <2>2 DEF Updater, Connected, NotConnected, WriteFails, PollDown,
                  PollTimeout, Finish, SendBegin, SendChunk, SendEnd, Write
    <3> QED  BY <3>1 DEF BootInv, RunsAttempt
  <2>3. CASE BoardStep \/ Interrupted \/ UNCHANGED vars
    <3>1. UNCHANGED updater
      BY <2>3 DEF BoardStep, Board, Environment, Interrupted, vars,
                  BeginAccepted, BeginRejected, BeginFails, ChunkWritten,
                  ChunkIgnored, ChunkFails, EndRejected, EndFails, EndAccepted,
                  BootNew, BootValid, RollBack, Confirm, LinkNotices,
                  LinkReturns, LinkDrops, FrameLost, Reset
    <3> QED  BY <3>1 DEF BootInv, RunsAttempt
  <2> QED  BY <2>1, <2>2, <2>3 DEF UpdaterStep
<1> SUFFICES Sound'
  BY <1>1, <1>2 DEF BootInv
<1>3. ASSUME SlotsAlone
      PROVE  Sound'
  <2> USE <1>3 DEF SlotsAlone
  <2>1. Valid(boot)' /\ (Valid(Other(boot)) => Valid(Other(boot))')
    BY <1>0, StaysWhole DEF BootInv, BootIsWhole
  <2>2. BootIsWhole' /\ FallbackIsWhole'
    BY <2>1 DEF BootInv, BootIsWhole, FallbackIsWhole
  <2>3. RunsBoot'
    BY DEF BootInv, RunsBoot
  <2>4. WritesOther'
    BY DEF BootInv, WritesOther, TypeOK
  <2> QED  BY <2>2, <2>3, <2>4
<1>4. CASE UpdaterStep \/ Interrupted \/ UNCHANGED vars
  <2> USE DEF SlotsAlone, BootInv, TypeOK, RunsBoot
  <2>1. CASE Start \/ Connected \/ NotConnected \/ WriteFails \/ PollDown \/ PollTimeout
    <3>1. SlotsAlone
      BY <2>1 DEF Start, Connected, NotConnected, WriteFails, PollDown,
                  PollTimeout, Finish
    <3> QED  BY <1>3, <3>1
  <2>2. CASE SendBegin \/ SendChunk \/ SendEnd
    <3>1. SlotsAlone
      BY <2>2 DEF SendBegin, SendChunk, SendEnd, Write
    <3> QED  BY <1>3, <3>1
  <2>3. CASE Interrupted
    <3>1. SlotsAlone
      BY <2>3 DEF Interrupted, Restarted
    <3> QED  BY <1>3, <3>1
  <2>4. CASE UNCHANGED vars
    <3>1. SlotsAlone
      BY <2>4 DEF vars
    <3> QED  BY <1>3, <3>1
  <2> QED  BY <1>4, <2>1, <2>2, <2>3, <2>4 DEF UpdaterStep, Updater
<1>5. CASE BeginRejected \/ BeginFails \/ ChunkIgnored \/ ChunkFails
            \/ EndRejected \/ EndFails
  <2>1. SlotsAlone
    BY <1>5 DEF SlotsAlone, BeginRejected, BeginFails, ChunkIgnored, ChunkFails,
                EndRejected, EndFails, Take, BootInv, TypeOK
  <2> QED  BY <1>3, <2>1
<1>6. CASE LinkNotices \/ LinkReturns \/ LinkDrops \/ FrameLost \/ Reset
  <2> USE DEF SlotsAlone, BootInv, TypeOK, RunsBoot
  <2>1. CASE LinkNotices \/ LinkReturns \/ LinkDrops \/ Reset
    <3>1. SlotsAlone
      BY <2>1 DEF LinkNotices, LinkReturns, LinkDrops, Reset, Restarted
    <3> QED  BY <1>3, <3>1
  <2>2. CASE FrameLost
    <3>1. wire # <<>>
      BY <2>2 DEF FrameLost
    <3>2. SlotsAlone
      BY <2>2, <3>1 DEF FrameLost
    <3> QED  BY <1>3, <3>2
  <2> QED  BY <1>6, <2>1, <2>2
<1>7. CASE BeginAccepted
  <2>1. /\ up /\ UNCHANGED <<up, running, boot, state>>
        /\ part' = Other(running) /\ part' \in Slots /\ part' # boot
        /\ running = boot /\ state[boot] = "valid"
        /\ image' = [image EXCEPT ![part'] = <<>>]
    BY <1>0, <1>7, TwoSlots DEF BeginAccepted, Take, BootInv, RunsBoot, BootIsWhole
  <2>2. image'[boot] = image[boot] /\ image'[part'] = <<>>
    BY <1>0, <2>1 DEF BootInv, TypeOK
  <2>3. Valid(boot)'
    BY <1>0, <2>1, <2>2, StaysWhole DEF BootInv, BootIsWhole
  <2> QED
    BY <2>1, <2>2, <2>3, EmptySeq
       DEF BootIsWhole, FallbackIsWhole, RunsBoot, WritesOther
<1>8. CASE ChunkWritten
  <2>1. /\ up /\ UNCHANGED <<up, running, boot, state, part, active>>
        /\ part = Other(running) /\ part # boot /\ state[boot] = "valid"
        /\ running = boot /\ part \in Slots
        /\ image[part] \in Seq(ChunkOf) /\ Head(wire).data \in ChunkOf
        /\ image' = [image EXCEPT ![part] = Append(@, Head(wire).data)]
    BY <1>0, <1>8, TakenFrame
       DEF ChunkWritten, Take, BootInv, RunsBoot, WritesOther, TypeOK
  <2>2. image'[boot] = image[boot] /\ image'[part] \in Seq(ChunkOf)
    BY <1>0, <2>1, AppendProperties DEF BootInv, TypeOK
  <2>3. Valid(boot)'
    BY <1>0, <2>1, <2>2, StaysWhole DEF BootInv, BootIsWhole
  <2> QED
    BY <2>1, <2>2, <2>3 DEF BootIsWhole, FallbackIsWhole, RunsBoot, WritesOther
<1>9. CASE EndAccepted
  <2>1. /\ boot' = part /\ Other(part) = running /\ part # running
        /\ running = boot /\ state[boot] = "valid"
        /\ part \in Slots /\ Valid(part) /\ Valid(boot)
        /\ state' = [state EXCEPT ![part] = "new"] /\ image' = image
        /\ ~up' /\ ~active' /\ wire' = <<>>
    BY <1>0, <1>9, TwoSlots
       DEF EndAccepted, BootPart, Restarted, BootInv, BootIsWhole, RunsBoot,
           WritesOther, TypeOK
  <2>2. state'[part] = "new" /\ state'[boot] = "valid"
    BY <1>0, <2>1 DEF BootInv, TypeOK
  <2>3. Valid(boot)' /\ Valid(Other(boot))' /\ Other(boot)' = boot
    BY <1>0, <2>1, StaysWhole
  <2> QED
    BY <2>1, <2>2, <2>3 DEF BootIsWhole, FallbackIsWhole, RunsBoot, WritesOther
<1>10. CASE BootNew \/ BootValid \/ Confirm
  <2>1. /\ up' /\ running' = boot /\ UNCHANGED <<boot, image, part>>
        /\ state'[boot] \in {"valid", "pending"}
        /\ state'[Other(boot)] = state[Other(boot)]
        /\ state'[boot] # "valid" => state[boot] # "valid"
        /\ active' => active /\ state'[boot] = state[boot] /\ running = boot
    BY <1>0, <1>10 DEF BootNew, BootValid, Confirm, BootInv, RunsBoot, WritesOther, TypeOK
  <2>2. Valid(boot)' /\ (Valid(Other(boot)) => Valid(Other(boot))')
    BY <1>0, <2>1, StaysWhole DEF BootInv, BootIsWhole
  <2> QED
    BY <2>1, <2>2
       DEF BootInv, BootIsWhole, FallbackIsWhole, RunsBoot, WritesOther, TypeOK
<1>11. CASE RollBack
  <2>1. /\ up' /\ running' = Other(boot) /\ boot' = Other(boot)
        /\ UNCHANGED image /\ ~active'
        /\ state[Other(boot)] = "valid" /\ Valid(Other(boot))
        /\ state'[Other(boot)] = state[Other(boot)]
    BY <1>0, <1>11 DEF RollBack, BootInv, RunsBoot, FallbackIsWhole, TypeOK
  <2>2. Valid(boot)'
    BY <1>0, <2>1, StaysWhole
  <2> QED
    BY <2>1, <2>2 DEF BootIsWhole, FallbackIsWhole, RunsBoot, WritesOther
<1> QED
  BY <1>1, <1>2, <1>4, <1>5, <1>6, <1>7, <1>8, <1>9, <1>10, <1>11
     DEF BoardStep, Board, Environment

-----------------------------------------------------------------------------
(* The frames. *)

During == stage \in {"connecting", "begin", "sending", "polling"}

(* The chunks under way are this attempt's, whichever of them are lost, and *)
(* so are those of a session that its begin opened.                        *)
OwnFrames == {f \in Frames : f.kind = "data" => f.data.image = attempt}
OwnChunks == {c \in AnyChunk : c.image = attempt}

OwnData      == wire \in Seq(OwnFrames)
SessionIsOwn == active /\ opened = attempt => image[part] \in Seq(OwnChunks)

(* Only the restart that ends the update takes the board or the link down. *)
DownIsApplied == ~alive \/ ~up => Applied

Flows == OwnData /\ SessionIsOwn /\ DownIsApplied

FlowInv ==
    /\ opened <= attempt
    /\ stage # "done" => result = "none"
    /\ RefusalReported
    /\ ~disturbed /\ During => Flows

(* At first there is no attempt. *)
LEMMA InitFlowInv == Init => FlowInv
BY DEF Init, FlowInv, RefusalReported, During

(* A frame that is taken, or lost, leaves frames of this attempt. *)
LEMMA OwnTaken ==
  ASSUME TypeOK, OwnData, NEW kind, Take(kind), UNCHANGED attempt
  PROVE  OwnData' /\ Head(wire) \in OwnFrames
<1>1. Head(wire) \in OwnFrames /\ Tail(wire) \in Seq(OwnFrames)
  BY HeadTailProperties DEF OwnData, Take
<1>2. OwnFrames' = OwnFrames
  BY DEF OwnFrames
<1> QED  BY <1>1, <1>2 DEF OwnData, Take

(* One that is sent, to a board that may be gone, adds one of them. *)
LEMMA OwnSent ==
  ASSUME OwnData, NEW f \in OwnFrames, Write(f)
  PROVE  OwnData'
<1>1. Append(wire, f) \in Seq(OwnFrames)
  BY AppendProperties DEF OwnData
<1>2. OwnFrames' = OwnFrames
  BY DEF OwnFrames, Write
<1> QED  BY <1>1, <1>2 DEF OwnData, Write

(* A step in which the attempt goes on as it is, and so does its report.   *)
GoesOn ==
    /\ UNCHANGED <<attempt, result>> /\ opened' <= attempt
    /\ took \subseteq took' /\ (disturbed => disturbed')
    /\ stage' = stage \/ (During /\ stage' \in {"begin", "sending", "polling"})

(* What such a step has to be shown. *)
LEMMA GoingOn ==
  ASSUME FlowInv, GoesOn,
         Flows /\ During /\ ~disturbed' => Flows'
  PROVE  FlowInv'
<1>1. During' => During
  BY DEF GoesOn, During
<1>2. ~disturbed' /\ During' => Flows'
  BY <1>1 DEF FlowInv, GoesOn
<1>3. RefusalReported' /\ (stage' # "done" => result' = "none")
  BY DEF FlowInv, GoesOn, RefusalReported, Applied, During
<1> QED  BY <1>2, <1>3 DEF FlowInv, GoesOn

(* What a step leaves alone. *)
LEMMA SessionStays ==
  ASSUME SessionIsOwn, UNCHANGED <<attempt, opened, part, image>>, active' => active
  PROVE  SessionIsOwn'
BY DEF SessionIsOwn, OwnChunks

(* Every step keeps the frames and the session this attempt's. *)
LEMMA NextFlowInv ==
  ASSUME BootInv, FlowInv, UpdaterStep \/ BoardStep \/ Interrupted \/ UNCHANGED vars
  PROVE  FlowInv'
<1> USE DEF updater, session, flash, history
<1>1. TypeOK /\ TypeOK' /\ opened <= attempt
  BY NextBootInv DEF BootInv, FlowInv
<1>2. ASSUME Start
      PROVE  FlowInv'
  <2>1. /\ stage' = "connecting" /\ result' = "none" /\ attempt' = attempt + 1
        /\ attempt \in Nat /\ opened \in Nat /\ opened' = opened
    BY <1>1, <1>2, OtaAssumption DEF OtaAssumption, Start, TypeOK
  <2>2. opened' <= attempt' /\ opened' # attempt'
    BY <1>1, <2>1
  <2>3. CASE ~disturbed'
    <3>1. wire' = <<>> /\ alive' /\ up'
      BY <1>2, <2>3 DEF Start, Connects
    <3>2. Flows'
      BY <2>2, <3>1, EmptySeq DEF Flows, OwnData, SessionIsOwn, DownIsApplied
    <3> QED  BY <2>1, <2>2, <3>2 DEF FlowInv, RefusalReported
  <2> QED  BY <2>1, <2>2, <2>3 DEF FlowInv, RefusalReported
<1>3. ASSUME NotConnected \/ WriteFails \/ PollDown \/ PollTimeout
      PROVE  FlowInv'
  <2>1. /\ stage' = "done" /\ UNCHANGED <<disturbed, attempt, opened, took>>
        /\ result' = "applied" => stage = "polling" /\ ~alive
    BY <1>3 DEF NotConnected, WriteFails, PollDown, PollTimeout, Finish
  <2> QED
    BY <1>1, <2>1 DEF FlowInv, RefusalReported, Applied, During, Flows, DownIsApplied
<1>4. ASSUME Connected
      PROVE  FlowInv'
  <2>1. GoesOn
    BY <1>1, <1>4 DEF Connected, GoesOn, During
  <2>2. Flows => Flows'
    BY <1>4 DEF Connected, Flows, OwnData, OwnFrames, SessionIsOwn, OwnChunks,
                DownIsApplied, Applied
  <2> QED  BY <2>1, <2>2, GoingOn
<1>5. ASSUME SendBegin \/ SendChunk \/ SendEnd
      PROVE  FlowInv'
  <2>1. /\ UNCHANGED <<attempt, result, opened, took, disturbed, active, part, image,
                       alive, up>>
        /\ During /\ stage' \in {"begin", "sending", "polling"}
    BY <1>5 DEF SendBegin, SendChunk, SendEnd, Write, During
  <2>2. GoesOn
    BY <1>1, <2>1 DEF GoesOn
  <2>3. ASSUME Flows
        PROVE  Flows'
    <3>1. ASSUME SendBegin
          PROVE  OwnData'
      <4>1. [kind |-> "begin", ok |-> tokenOk] \in OwnFrames
        BY <1>1 DEF OwnFrames, Frames, TypeOK
      <4> QED  BY <2>3, <3>1, <4>1, OwnSent DEF SendBegin, Flows
    <3>2. ASSUME SendChunk
          PROVE  OwnData'
      <4> DEFINE c == [image |-> attempt, chunk |-> next]
      <4>1. attempt \in 1 .. MaxAttempts /\ next \in 1 .. Chunks
        BY <1>1, <3>2, OtaAssumption DEF OtaAssumption, SendChunk, BootInv, RunsAttempt,
                                         TypeOK
      <4>2. [kind |-> "data", data |-> c] \in OwnFrames
        BY <4>1 DEF OwnFrames, Frames, ChunkOf
      <4> QED  BY <2>3, <3>2, <4>2, OwnSent DEF SendChunk, Flows
    <3>3. ASSUME SendEnd
          PROVE  OwnData'
      <4>1. [kind |-> "end"] \in OwnFrames
        BY DEF OwnFrames, Frames
      <4> QED  BY <2>3, <3>3, <4>1, OwnSent DEF SendEnd, Flows
    <3>4. OwnData'
      BY <1>5, <3>1, <3>2, <3>3 DEF Flows
    <3>5. SessionIsOwn'
      BY <2>1, <2>3, SessionStays DEF Flows
    <3> QED  BY <2>1, <2>3, <3>4, <3>5 DEF Flows, DownIsApplied, Applied
  <2> QED  BY <2>2, <2>3, GoingOn
<1>6. ASSUME BeginAccepted
      PROVE  FlowInv'
  <2>0. /\ Take("begin") /\ UNCHANGED <<updater, alive, up, disturbed, took>>
        /\ opened' = attempt /\ part' \in Slots /\ image'[part'] = <<>>
    BY <1>1, <1>6, TwoSlots DEF BeginAccepted, TypeOK
  <2>1. GoesOn
    <3>1. opened' <= attempt
      BY <1>1, <2>0 DEF TypeOK
    <3> QED  BY <2>0, <3>1, SMT DEF GoesOn, During
  <2>2. ASSUME Flows
        PROVE  Flows'
    <3>1. OwnData'
      BY <1>1, <2>0, <2>2, OwnTaken DEF Flows
    <3>2. SessionIsOwn'
      BY <2>0, EmptySeq DEF SessionIsOwn
    <3> QED  BY <2>0, <2>2, <3>1, <3>2 DEF Flows, DownIsApplied, Applied
  <2> QED  BY <2>1, <2>2, GoingOn
<1>7. ASSUME ChunkWritten
      PROVE  FlowInv'
  <2>0. /\ Take("data") /\ UNCHANGED <<updater, alive, up, history, active, part>>
        /\ active /\ part \in Slots
        /\ image' = [image EXCEPT ![part] = Append(@, Head(wire).data)]
    BY <1>1, <1>7 DEF ChunkWritten, TypeOK
  <2>1. GoesOn
    BY <1>1, <2>0, SMT DEF GoesOn, During
  <2>2. ASSUME Flows
        PROVE  Flows'
    <3>1. OwnData' /\ Head(wire) \in OwnFrames
      BY <1>1, <2>0, <2>2, OwnTaken DEF Flows
    <3>2. Head(wire).data \in OwnChunks
      <4>1. Head(wire).data \in AnyChunk
        BY <1>1, <2>0, TakenFrame DEF ChunkOf, AnyChunk
      <4> QED  BY <2>0, <3>1, <4>1 DEF OwnFrames, OwnChunks, Take
    <3>3. image'[part] = Append(image[part], Head(wire).data)
      BY <1>1, <2>0 DEF TypeOK
    <3>4. OwnChunks' = OwnChunks
      BY <2>0 DEF OwnChunks
    <3>5. SessionIsOwn'
      <4> SUFFICES ASSUME opened = attempt
                   PROVE  image'[part] \in Seq(OwnChunks)
        BY <2>0, <3>4 DEF SessionIsOwn
      <4>1. image[part] \in Seq(OwnChunks)
        BY <2>0, <2>2 DEF Flows, SessionIsOwn
      <4> QED  BY <3>2, <3>3, <4>1, AppendProperties
    <3> QED  BY <2>0, <2>2, <3>1, <3>5 DEF Flows, DownIsApplied, Applied
  <2> QED  BY <2>1, <2>2, GoingOn
<1>8. ASSUME \/ BeginRejected \/ BeginFails \/ ChunkIgnored \/ ChunkFails
             \/ EndRejected \/ EndFails
      PROVE  FlowInv'
  <2>0. /\ ~active' \/ UNCHANGED session
        /\ UNCHANGED <<updater, alive, up, image, disturbed, opened, took>>
        /\ Take("begin") \/ Take("data") \/ Take("end")
    BY <1>8 DEF BeginRejected, ChunkIgnored, EndRejected, BeginFails, ChunkFails, EndFails
  <2>1. GoesOn
    BY <1>1, <2>0, SMT DEF GoesOn, During
  <2>2. ASSUME Flows
        PROVE  Flows'
    <3>1. OwnData'
      BY <1>1, <2>0, <2>2, OwnTaken DEF Flows
    <3>2. SessionIsOwn'
      <4>1. CASE ~active'
        BY <4>1 DEF SessionIsOwn
      <4>2. CASE UNCHANGED session
        BY <2>0, <2>2, <4>2, SessionStays DEF Flows
      <4> QED  BY <2>0, <4>1, <4>2
    <3> QED  BY <2>0, <2>2, <3>1, <3>2 DEF Flows, DownIsApplied, Applied
  <2> QED  BY <2>1, <2>2, GoingOn
<1>9. ASSUME EndAccepted
      PROVE  FlowInv'
  <2>0. /\ UNCHANGED <<updater, alive, disturbed, opened>>
        /\ ~active' /\ wire' = <<>> /\ active
        /\ took' = took \cup {[at |-> attempt, opened |-> opened,
                                image |-> image[part][1].image]}
    BY <1>9 DEF EndAccepted, BootPart, Restarted
  <2>1. GoesOn
    BY <1>1, <2>0, SMT DEF GoesOn, During
  <2>2. ASSUME Flows
        PROVE  Flows'
    <3>1. opened = attempt => image[part][1].image = attempt
      <4> SUFFICES ASSUME opened = attempt
                   PROVE  image[part][1].image = attempt
        OBVIOUS
      <4>1. image[part] \in Seq(OwnChunks)
        BY <2>0, <2>2 DEF Flows, SessionIsOwn
      <4>2. 1 \in 1 .. Len(image[part])
        BY <1>9, ImageIsWhole, OtaAssumption DEF OtaAssumption, EndAccepted, Valid
      <4>3. image[part][1] \in OwnChunks
        BY <4>1, <4>2, ElementOfSeq
      <4> QED  BY <4>3 DEF OwnChunks
    <3>2. Applied'
      <4> DEFINE u == [at |-> attempt, opened |-> opened,
                       image |-> image[part][1].image]
      <4>1. u \in took' /\ attempt' = attempt /\ u.at = attempt
            /\ (u.opened = attempt => u.image = attempt)
        BY <2>0, <3>1
      <4> HIDE DEF u
      <4> QED  BY <4>1 DEF Applied
    <3> QED
      BY <2>0, <3>2, EmptySeq DEF Flows, OwnData, SessionIsOwn, DownIsApplied
  <2> QED  BY <2>1, <2>2, GoingOn
<1>10. ASSUME BootNew \/ BootValid \/ RollBack \/ Confirm \/ LinkNotices
                \/ LinkReturns \/ UNCHANGED vars
       PROVE  FlowInv'
  <2>0. UNCHANGED <<updater, wire, session, image, history>>
    BY <1>10 DEF BootNew, BootValid, RollBack, Confirm, LinkNotices, LinkReturns, vars
  <2>1. GoesOn
    BY <1>1, <2>0, SMT DEF GoesOn, During
  <2>2. ASSUME Flows
        PROVE  Flows'
    <3>1. OwnData' /\ SessionIsOwn'
      BY <2>0, <2>2, SessionStays DEF Flows, OwnData, OwnFrames
    <3>2. DownIsApplied'
      BY <1>10, <2>2 DEF Flows, DownIsApplied, Applied, BootNew, BootValid, RollBack,
                         Confirm, LinkNotices, LinkReturns, vars
    <3> QED  BY <3>1, <3>2 DEF Flows
  <2> QED  BY <2>1, <2>2, GoingOn
<1>11. ASSUME FrameLost
       PROVE  FlowInv'
  <2>0. UNCHANGED <<updater, alive, up, session, image, disturbed, opened, took>>
    BY <1>11 DEF FrameLost
  <2>1. GoesOn
    BY <1>1, <2>0, SMT DEF GoesOn, During
  <2>2. ASSUME Flows
        PROVE  Flows'
    <3>1. wire' \in Seq(OwnFrames)
      BY <1>11, <2>2, SequenceWithout DEF FrameLost, Flows, OwnData
    <3>2. OwnData'
      BY <2>0, <3>1 DEF OwnData, OwnFrames
    <3>3. SessionIsOwn'
      BY <2>0, <2>2, SessionStays DEF Flows
    <3> QED  BY <2>0, <2>2, <3>2, <3>3 DEF Flows, DownIsApplied, Applied
  <2> QED  BY <2>1, <2>2, GoingOn
<1>12. ASSUME LinkDrops \/ Reset
       PROVE  FlowInv'
  <2>1. disturbed' = TRUE /\ UNCHANGED <<updater, opened, took>>
    BY <1>12 DEF LinkDrops, Reset
  <2>2. GoesOn
    BY <1>1, <2>1 DEF GoesOn
  <2> QED  BY <2>1, <2>2, GoingOn
<1>13. ASSUME Interrupted
       PROVE  FlowInv'
  <2>1. UNCHANGED <<updater, alive, part, image, opened, took>>
    BY <1>13 DEF Interrupted
  <2>2. CASE disturbed' = TRUE
    <3>1. GoesOn
      BY <1>1, <2>1, <2>2 DEF GoesOn
    <3> QED  BY <2>2, <3>1, GoingOn
  <2>3. CASE UNCHANGED <<active, wire, up, disturbed>>
    <3>1. GoesOn
      BY <1>1, <2>1, <2>3 DEF GoesOn
    <3>2. ASSUME Flows
          PROVE  Flows'
      <4>1. OwnData' /\ SessionIsOwn'
        BY <2>1, <2>3, <3>2, SessionStays DEF Flows, OwnData, OwnFrames
      <4> QED  BY <2>1, <2>3, <3>2, <4>1 DEF Flows, DownIsApplied, Applied
    <3> QED  BY <3>1, <3>2, GoingOn
  <2> QED  BY <1>13, <2>2, <2>3 DEF Interrupted
<1> QED
  BY <1>2, <1>3, <1>4, <1>5, <1>6, <1>7, <1>8, <1>9, <1>10, <1>11, <1>12, <1>13
     DEF UpdaterStep, Updater, BoardStep, Board, Environment

-----------------------------------------------------------------------------
(* The settings. *)

Agrees(k, v, w) == IF k \in S!Radio THEN S!Or(v, "on") = S!Or(w, "on") ELSE v = w

(* What would be saved now is what was asked for, but for what was torn.   *)
SavesAsked ==
    \A k \in S!Keys \ torn : Agrees(k, S!With(nvs, staged)[k], asked[k])

StagedIsSaved == handler = "none" => DOMAIN staged = {}

(* A board that has started runs with what it has saved.                   *)
RunsSaved ==
    app = "done" => /\ ssid = S!SsidOf(nvs, BuiltIn[Running])
                    /\ pass = S!PassOf(nvs, BuiltIn[Running])
                    /\ radios = S!RadiosOf(nvs, ssid)

AppRuns == up <=> app # "off"

SettingsInv ==
    SettingsTypeOK /\ SavesAsked /\ StagedIsSaved /\ RunsSaved /\ AppRuns

(* What is saved and asked for is what is in force. *)
LEMMA SavedIsInForce == SettingsInv => SettingsInForce
<1> SUFFICES ASSUME SettingsInv, app = "done", handler = "none"
             PROVE  LET b == BuiltIn[Running]
                    IN  /\ ssid = S!SsidOf(asked, b) \/ "ssid" \in torn
                        /\ pass = S!PassOf(asked, b) \/ "pass" \in torn
                        /\ \A r \in S!Radio \ torn :
                              r \in radios <=> r \in S!RadiosOf(asked, ssid)
  BY DEF SettingsInForce, S!InForce
<1>1. \A k \in S!Keys \ torn : Agrees(k, nvs[k], asked[k])
  BY DEF SettingsInv, StagedIsSaved, SavesAsked, S!With
<1>2. /\ "ssid" \notin torn => nvs["ssid"] = asked["ssid"]
      /\ "pass" \notin torn => nvs["pass"] = asked["pass"]
      /\ \A r \in S!Radio \ torn : S!ReadFlag(nvs, r) = S!ReadFlag(asked, r)
  BY <1>1 DEF Agrees, S!Keys, S!Radio, S!ReadFlag
<1> QED
  BY <1>2 DEF SettingsInv, RunsSaved, S!SsidOf, S!PassOf, S!RadiosOf

(* A board without settings runs with its image's own. *)
LEMMA InitSettingsInv == FirmwareInit => SettingsInv
<1> SUFFICES ASSUME FirmwareInit
             PROVE  SettingsInv
  OBVIOUS
<1> USE DEF FirmwareInit, S!Init, Init
<1>1. Running = 0 /\ BuiltIn[0] \in Creds \cup {S!Unset}
  <2>1. 0 \in 0 .. MaxAttempts /\ 1 \in 1 .. Chunks
    BY OtaAssumption DEF OtaAssumption
  <2>2. Running = Image(0)[1].image
    BY DEF Running, Slots
  <2> QED
    BY <2>1, <2>2, ImageIsWhole, FirmwareAssumption DEF FirmwareAssumption
<1>2. DOMAIN staged = {} /\ asked = nvs
  BY DEF S!NoKeys
<1>3. SettingsTypeOK
  BY <1>1, <1>2 DEF SettingsTypeOK, ValueOf, S!AllUnset, S!Keys, S!Radio, S!Unset,
                    S!RadiosOf
<1>4. SavesAsked
  BY <1>2 DEF SavesAsked, Agrees, S!With
<1>5. RunsSaved
  BY <1>1 DEF RunsSaved, S!SsidOf, S!PassOf, S!Or, S!AllUnset, S!Keys
<1> QED
  BY <1>2, <1>3, <1>4, <1>5 DEF SettingsInv, StagedIsSaved, AppRuns

(* What runs goes on running, until the board stops. *)
LEMMA RunningStays ==
  ASSUME BootInv, Updating \/ Confirming \/ Command
  PROVE  up' = up /\ (up => Running' = Running)
<1> USE DEF updater, session, flash, history, BootInv, TypeOK
<1>1. CASE BeginAccepted
  <2>1. part' = Other(running) /\ Other(running) # running
    BY <1>1, TwoSlots DEF BeginAccepted
  <2> QED  BY <1>1, <2>1 DEF BeginAccepted, Running
<1>2. CASE ChunkWritten
  <2>1. part # running
    BY <1>2, TwoSlots DEF ChunkWritten, WritesOther
  <2> QED  BY <1>2, <2>1 DEF ChunkWritten, Running
<1>3. CASE Confirming \/ Command
  BY <1>3 DEF Confirming, Confirm, Command, Running
<1>4. CASE Start \/ Updater
  BY <1>4 DEF Start, Updater, Connected, NotConnected, WriteFails, PollDown,
              PollTimeout, Finish, SendBegin, SendChunk, SendEnd, Write, Running
<1>5. CASE \/ BeginRejected \/ BeginFails \/ ChunkIgnored \/ ChunkFails
           \/ EndRejected \/ EndFails
           \/ LinkNotices \/ LinkReturns \/ LinkDrops \/ FrameLost
  BY <1>5 DEF BeginRejected, BeginFails, ChunkIgnored, ChunkFails, EndRejected,
              EndFails, LinkNotices, LinkReturns, LinkDrops, FrameLost, Running
<1> QED  BY <1>1, <1>2, <1>3, <1>4, <1>5 DEF Updating

(* A board that stops keeps some of what was staged. *)
LEMMA KeepsSome ==
  ASSUME SettingsInv, NEW kept \in SUBSET DOMAIN staged, S!Keep(kept), S!Off, ~up'
  PROVE  SettingsInv'
<1> USE DEF S!Keep, S!Off
<1>0. DOMAIN staged \subseteq S!Keys
  BY DEF SettingsInv, SettingsTypeOK
<1>1. nvs' = [k \in S!Keys |-> IF k \in kept THEN staged[k] ELSE nvs[k]]
  BY DEF S!With
<1>2. DOMAIN staged' = {} /\ handler' = "none" /\ app' = "off" /\ radios' = {}
  BY DEF S!NoKeys
<1>3. SettingsTypeOK'
  <2>2. DOMAIN nvs' = S!Keys /\ \A k \in S!Keys : nvs'[k] \in ValueOf(k)
    BY <1>1 DEF SettingsInv, SettingsTypeOK
  <2>3. torn' \subseteq S!Keys
    BY <1>0 DEF SettingsInv, SettingsTypeOK
  <2> QED
    BY <1>2, <2>2, <2>3 DEF SettingsInv, SettingsTypeOK
<1>4. SavesAsked'
  <2> SUFFICES ASSUME NEW k \in S!Keys, k \notin torn'
               PROVE  Agrees(k, nvs'[k], asked[k])
    BY <1>2 DEF SavesAsked, S!With
  <2>1. k \notin torn /\ nvs'[k] = S!With(nvs, staged)[k]
    BY <1>0, <1>1 DEF S!With
  <2> QED  BY <2>1 DEF SettingsInv, SavesAsked
<1> QED
  BY <1>2, <1>3, <1>4 DEF SettingsInv, StagedIsSaved, RunsSaved, AppRuns

(* A command is staged as it asks, with the rest as it is. *)
LEMMA StagesAsked ==
  ASSUME SettingsInv, NEW cmd, NEW keys, S!Handles(cmd, keys), UNCHANGED <<up, Running>>,
         DOMAIN cmd \subseteq DOMAIN keys, DOMAIN keys \subseteq S!Keys,
         \A k \in DOMAIN cmd : keys[k] = cmd[k] /\ cmd[k] \in ValueOf(k),
         \A k \in DOMAIN keys \ DOMAIN cmd :
             k \in S!Radio /\ keys[k] = S!ReadFlag(nvs, k)
  PROVE  SettingsInv'
<1> USE DEF S!Handles
<1>0. DOMAIN staged = {}
  BY DEF SettingsInv, StagedIsSaved
<1>1. \A k \in DOMAIN keys : k \in S!Keys /\ keys[k] \in ValueOf(k)
  BY DEF SettingsInv, SettingsTypeOK, ValueOf, S!ReadFlag, S!Or, S!Flag, S!Keys
<1>2. SettingsTypeOK'
  <2>1. DOMAIN asked' = S!Keys /\ \A k \in S!Keys : asked'[k] \in ValueOf(k)
    BY DEF S!With, SettingsInv, SettingsTypeOK
  <2> QED
    BY <1>1, <2>1 DEF SettingsInv, SettingsTypeOK, S!loaded
<1>3. SavesAsked'
  <2> SUFFICES ASSUME NEW k \in S!Keys, k \notin torn'
               PROVE  Agrees(k, S!With(nvs, keys)[k], asked'[k])
    BY DEF SavesAsked
  <2>1. CASE k \in DOMAIN cmd
    BY <2>1 DEF S!With, Agrees
  <2>2. CASE k \notin DOMAIN cmd
    <3>1. k \notin torn /\ asked'[k] = asked[k]
      BY <2>2 DEF S!With
    <3>2. Agrees(k, nvs[k], asked[k])
      BY <1>0, <3>1 DEF SettingsInv, SavesAsked, S!With
    <3>3. CASE k \in DOMAIN keys
      BY <2>2, <3>1, <3>2, <3>3 DEF S!With, Agrees, S!ReadFlag, S!Or
    <3>4. CASE k \notin DOMAIN keys
      BY <3>1, <3>2, <3>4 DEF S!With
    <3> QED  BY <3>3, <3>4
  <2> QED  BY <2>1, <2>2
<1>4. StagedIsSaved'
  BY DEF StagedIsSaved
<1>5. RunsSaved' /\ AppRuns'
  BY DEF SettingsInv, RunsSaved, AppRuns, S!loaded
<1> QED  BY <1>2, <1>3, <1>4, <1>5 DEF SettingsInv

(* Every step keeps what is saved what was asked for. *)
LEMMA NextSettingsInv ==
  ASSUME BootInv, SettingsInv, [FirmwareNext]_firmwareVars
  PROVE  SettingsInv'
<1>1. ASSUME UNCHANGED settings, up' = up, up => Running' = Running
      PROVE  SettingsInv'
  BY <1>1 DEF settings, SettingsInv, SettingsTypeOK, SavesAsked, StagedIsSaved,
              RunsSaved, AppRuns
<1>2. CASE Updating \/ Confirming
  BY <1>1, <1>2, RunningStays DEF Updating, Confirming
<1>3. CASE UNCHANGED firmwareVars
  <2>1. UNCHANGED settings /\ UNCHANGED <<up, running, image>>
    BY <1>3 DEF firmwareVars, vars, flash
  <2> QED  BY <1>1, <2>1 DEF Running
<1>4. CASE Stopping
  <2>1. ~up' /\ S!Stops
    BY <1>4 DEF Stopping, EndAccepted, Reset, Restarted
  <2>2. PICK kept \in SUBSET DOMAIN staged : S!Keep(kept)
    BY <2>1 DEF S!Stops
  <2> QED  BY <2>1, <2>2, KeepsSome DEF S!Stops
<1>5. CASE CommandRestarts
  <2>1. ~up' /\ (S!CommitAndRestart \/ S!SaveFails)
    BY <1>5 DEF CommandRestarts, Restarted
  <2>2. S!Off /\ \E kept \in SUBSET DOMAIN staged : S!Keep(kept)
    BY <2>1 DEF S!CommitAndRestart, S!SaveFails
  <2> QED  BY <2>1, <2>2, KeepsSome
<1>6. CASE Booting
  <2>1. up' /\ S!Boots
    BY <1>6 DEF Booting, BootNew, BootValid, RollBack
  <2> QED
    BY <2>1 DEF S!Boots, S!memory, S!wishes, SettingsInv, SettingsTypeOK,
                SavesAsked, StagedIsSaved, RunsSaved, AppRuns
<1>7. CASE Starting
  <2>1. UNCHANGED <<nvs, staged, handler, asked, torn, up, Running>>
    BY <1>7 DEF Starting, S!Start, S!memory, S!wishes, vars, flash, Running
  <2>2. /\ app = "booting" /\ app' = "done"
        /\ ssid' = S!SsidOf(nvs, BuiltIn[Running])
        /\ pass' = S!PassOf(nvs, BuiltIn[Running])
        /\ radios' = S!RadiosOf(nvs, ssid')
    BY <1>7 DEF Starting, S!Start
  <2>3. SettingsTypeOK'
    <3>1. BuiltIn[Running] \in Creds \cup {S!Unset}
      <4>1. up /\ running = boot /\ Valid(boot)
        BY <2>2 DEF SettingsInv, AppRuns, BootInv, RunsBoot, BootIsWhole
      <4>2. Running \in 0 .. MaxAttempts
        <5>1. 1 \in 1 .. Chunks
          BY OtaAssumption DEF OtaAssumption
        <5> QED  BY <4>1, <5>1, ImageIsWhole DEF Running, Valid
      <4> QED
        BY <4>2, FirmwareAssumption DEF FirmwareAssumption
    <3>2. radios' \subseteq S!Radio
      BY <2>2 DEF S!RadiosOf
    <3>3. {ssid', pass'} \subseteq Creds \cup {S!Unset}
      BY <2>2, <3>1 DEF SettingsInv, SettingsTypeOK, ValueOf, S!SsidOf, S!PassOf,
                        S!Or, S!Keys, S!Radio
    <3> QED
      BY <2>1, <2>2, <3>2, <3>3 DEF SettingsInv, SettingsTypeOK
  <2> QED
    BY <2>1, <2>2, <2>3 DEF SettingsInv, SavesAsked, StagedIsSaved, RunsSaved, AppRuns
<1>8. CASE Command
  <2>1. UNCHANGED <<up, Running>>
    BY <1>8 DEF Command, Running, flash
  <2>2. ASSUME NEW cmd \in Controls, S!ApplyControl(cmd)
        PROVE  SettingsInv'
    <3> DEFINE keys == [r \in S!Radio |-> IF r \in DOMAIN cmd THEN cmd[r]
                                          ELSE S!ReadFlag(nvs, r)]
    <3>1. S!Handles(cmd, keys)
      BY <2>2 DEF S!ApplyControl
    <3>2. \E rs \in SUBSET S!Radio : cmd \in [rs -> S!Flag]
      BY FirmwareAssumption DEF FirmwareAssumption, S!ControlCommands
    <3> QED
      BY <2>1, <3>1, <3>2, StagesAsked DEF S!Keys, ValueOf
  <2>3. ASSUME NEW cmd \in Configs, S!ApplyConfig(cmd)
        PROVE  SettingsInv'
    <3> DEFINE keys == [k \in {"ssid", "pass", "wifi"} |->
                           IF k = "wifi" THEN "on" ELSE cmd[k]]
    <3>1. S!Handles(keys, keys)
      BY <2>3 DEF S!ApplyConfig
    <3>2. \E c \in Creds : cmd = [k \in {"ssid", "pass"} |-> c]
      BY FirmwareAssumption DEF FirmwareAssumption, S!ConfigCommands
    <3> QED
      BY <2>1, <3>1, <3>2, StagesAsked DEF S!Keys, S!Radio, ValueOf, S!Flag
  <2> QED  BY <1>8, <2>2, <2>3 DEF Command
<1> QED
  BY <1>2, <1>3, <1>4, <1>5, <1>6, <1>7, <1>8 DEF FirmwareNext

-----------------------------------------------------------------------------
(* The theorems. *)

IInv == BootInv /\ FlowInv /\ SettingsInv

(* All three hold together. *)
LEMMA Inductive == FirmwareSpec => []IInv
<1>1. FirmwareInit => IInv
  BY InitBootInv, InitFlowInv, InitSettingsInv DEF FirmwareInit, IInv
<1>2. IInv /\ [FirmwareNext]_firmwareVars => IInv'
  <2> SUFFICES ASSUME IInv, [FirmwareNext]_firmwareVars
               PROVE  IInv'
    OBVIOUS
  <2>1. UpdaterStep \/ BoardStep \/ Interrupted \/ UNCHANGED vars
    BY SettingsDisturb DEF IInv, BootInv
  <2> QED
    BY <2>1, NextBootInv, NextFlowInv, NextSettingsInv DEF IInv
<1> QED  BY <1>1, <1>2, PTL DEF FirmwareSpec

(* The update's and the settings' variables keep their types. *)
THEOREM TypesCorrect == FirmwareSpec => [](TypeOK /\ SettingsTypeOK)
<1>1. IInv => TypeOK /\ SettingsTypeOK
  BY DEF IInv, BootInv, SettingsInv
<1> QED  BY <1>1, Inductive, PTL

(* Whenever the power goes, the slot that the bootloader will choose holds *)
(* a whole image: ota_begin erases, and ota_write_chunk writes, only the   *)
(* slot that does not run, ota_end makes it the one to boot only when it   *)
(* is whole, and a new image that fails falls back on one that is.         *)
THEOREM AlwaysBoots == FirmwareSpec => []AlwaysBootable
<1>1. IInv => AlwaysBootable
  BY TwoSlots DEF IInv, BootInv, TypeOK, BootIsWhole, FallbackIsWhole, RunsBoot,
                  AlwaysBootable, Chosen
<1> QED  BY <1>1, Inductive, PTL

(* A board that refuses an update, whatever the reason, is not reported as *)
(* updated, unless the link or the board was down for another one: lost    *)
(* chunks and failures of the flash are no exception, for every size of an *)
(* image and any number of attempts and faults.                            *)
THEOREM NoFalseSuccess == FirmwareSpec => []RefusalReported
<1>1. IInv => RefusalReported
  BY DEF IInv, FlowInv
<1> QED  BY <1>1, Inductive, PTL

(* A board that has started runs with the settings it was last asked for,  *)
(* over the defaults of the image that runs, whatever updates, restarts    *)
(* and power cuts came between, but for the keys that were cut off.        *)
THEOREM SettingsLast == FirmwareSpec => []SettingsInForce
<1>1. IInv => SettingsInForce
  BY SavedIsInForce DEF IInv
<1> QED  BY <1>1, Inductive, PTL
=============================================================================
