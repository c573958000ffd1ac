----------------------------- MODULE SessionProofs -----------------------------
(***************************************************************************)
(* The daemon, for any number of devices, keys, buttons, axes and slots.   *)
(*                                                                         *)
(* The Reporter comes first, by itself: its theorems are about             *)
(* ReporterSpec and follow from ReporterInv, of which the list of keys     *)
(* without doubles is the part that the properties do not mention.  Then   *)
(* the daemon: every step of it is one of the controller and one of the    *)
(* Reporter, or neither, so that the theorems about Kvm hold of it, and    *)
(* SessionInv adds to KvmProofs' IInv what readers have in hand.           *)
(* ReleasedMeansNeutral needs LocalCalm, which bounds what a reader left   *)
(* behind can still do, and NoStuckKeys needs a device to answer for every *)
(* key in the reports at every moment, not only when the readers have      *)
(* caught up.                                                              *)
(***************************************************************************)
EXTENDS Session, KvmProofs, SequenceTheorems, FiniteSetTheorems

-----------------------------------------------------------------------------
(* The list of keys: addKey and removeKey. *)

Distinct(s) == \A i, j \in 1 .. Len(s) : s[i] = s[j] => i = j

(* Reporter's sets of list members, in terms of positions. *)
LEMMA Members ==
  ASSUME NEW S, NEW s \in Seq(S)
  PROVE  \A x : x \in ToSet(s) <=> \E i \in 1 .. Len(s) : s[i] = x
BY LenProperties DEF ToSet

(* What addKey makes of a list that does not have the key. *)
LEMMA AddedKey ==
  ASSUME NEW S, NEW s \in Seq(S), Distinct(s), NEW u \in S, u \notin ToSet(s)
  PROVE  /\ Append(s, u) \in Seq(S) /\ Distinct(Append(s, u))
         /\ ToSet(Append(s, u)) = ToSet(s) \cup {u}
<1> DEFINE a == Append(s, u)
<1>1. a \in Seq(S) /\ Len(a) = Len(s) + 1 /\ a[Len(s) + 1] = u /\ Len(s) \in Nat
      /\ \A i \in 1 .. Len(s) : a[i] = s[i]
  BY AppendProperties, LenProperties
<1>2. \A i \in 1 .. Len(s) : s[i] # u
  BY Members
<1> HIDE DEF a
<1>3. Distinct(a)
  BY <1>1, <1>2 DEF Distinct
<1>4. ASSUME NEW x
      PROVE  x \in ToSet(a) <=> x \in ToSet(s) \cup {u}
  <2>1. x \in ToSet(a) <=> \E i \in 1 .. Len(a) : a[i] = x
    BY <1>1, Members
  <2>2. x \in ToSet(s) <=> \E i \in 1 .. Len(s) : s[i] = x
    BY Members
  <2> QED  BY <1>1, <2>1, <2>2
<1> QED  BY <1>1, <1>3, <1>4 DEF a

(* What removeKey leaves of a list that has no key twice. *)
LEMMA RemovedKey ==
  ASSUME NEW S, NEW s \in Seq(S), Distinct(s), NEW u
  PROVE  /\ RemoveFirst(s, u) \in Seq(S) /\ Distinct(RemoveFirst(s, u))
         /\ ToSet(RemoveFirst(s, u)) = ToSet(s) \ {u}
<1> DEFINE r == RemoveFirst(s, u)
<1>0. Len(s) \in Nat /\ DOMAIN s = 1 .. Len(s)
  BY LenProperties
<1>1. CASE u \notin ToSet(s)
  <2>1. r = s
    BY <1>0, <1>1 DEF RemoveFirst, ToSet
  <2> QED  BY <1>1, <2>1
<1>2. CASE u \in ToSet(s)
  <2>1. PICK i \in 1 .. Len(s) : s[i] = u
    BY <1>0, <1>2 DEF ToSet
  <2>2. {k \in 1 .. Len(s) : s[k] = u} = {i}
    BY <2>1 DEF Distinct
  <2>3. SelectInSeq(s, LAMBDA v : v = u) = i
    BY <1>0, <2>2 DEF SelectInSeq, Min
  <2> DEFINE front == SubSeq(s, 1, i - 1)
             back  == SubSeq(s, i + 1, Len(s))
  <2>4. r = front \o back
    BY <2>1, <2>3 DEF RemoveFirst, RemoveAt
  <2>5. /\ front \in Seq(S) /\ Len(front) = i - 1
        /\ \A j \in 1 .. i - 1 : front[j] = s[j]
    <3>1. \A j \in 1 .. i - 1 : s[j] \in S
      BY <1>0, ElementOfSeq
    <3>2. 1 \in Int /\ i - 1 \in Int /\ i - 1 \in Nat
      BY <1>0
    <3> QED  BY <3>1, <3>2, SubSeqProperties
  <2>6. /\ back \in Seq(S) /\ Len(back) = Len(s) - i
        /\ \A j \in 1 .. Len(s) - i : back[j] = s[i + j]
    <3>1. \A j \in i + 1 .. Len(s) : s[j] \in S
      BY <1>0, ElementOfSeq
    <3>2. i + 1 \in Int /\ Len(s) \in Int /\ i \in Int
      BY <1>0
    <3> QED  BY <3>1, <3>2, SubSeqProperties
  <2> HIDE DEF front, back, r
  <2>7. r \in Seq(S) /\ Len(r) = Len(s) - 1
        /\ \A j \in 1 .. Len(s) - 1 : r[j] = IF j < i THEN s[j] ELSE s[j + 1]
    <3>1. Len(front) + Len(back) = Len(s) - 1
      BY <1>0, <2>5, <2>6
    <3>2. r \in Seq(S) /\ Len(r) = Len(s) - 1
      BY <2>4, <2>5, <2>6, <3>1, ConcatProperties
    <3>3. \A j \in 1 .. Len(s) - 1 :
             r[j] = IF j <= Len(front) THEN front[j] ELSE back[j - Len(front)]
      BY <2>4, <2>5, <2>6, <3>1, ConcatProperties
    <3>4. ASSUME NEW j \in 1 .. Len(s) - 1
          PROVE  r[j] = IF j < i THEN s[j] ELSE s[j + 1]
      <4>1. CASE j < i
        BY <1>0, <2>5, <3>3, <4>1
      <4>2. CASE ~(j < i)
        <5>1. j - (i - 1) \in 1 .. Len(s) - i
          BY <1>0, <4>2
        <5>2. r[j] = back[j - (i - 1)]
          BY <1>0, <2>5, <3>3, <4>2
        <5>3. back[j - (i - 1)] = s[i + (j - (i - 1))]
          BY <2>6, <5>1
        <5>4. i + (j - (i - 1)) = j + 1
          BY <1>0
        <5> QED  BY <4>2, <5>2, <5>3, <5>4
      <4> QED  BY <4>1, <4>2
    <3> QED  BY <3>2, <3>4
  <2>8. Distinct(r)
    <3> SUFFICES ASSUME NEW j \in 1 .. Len(r), NEW m \in 1 .. Len(r), r[j] = r[m]
                 PROVE  j = m
      BY DEF Distinct
    <3> DEFINE At(n) == IF n < i THEN n ELSE n + 1
    <3>1. \A n \in 1 .. Len(r) : At(n) \in 1 .. Len(s) /\ r[n] = s[At(n)]
      BY <1>0, <2>7
    <3>2. At(j) = At(m)
      <4> HIDE DEF At
      <4> QED  BY <3>1 DEF Distinct
    <3> QED  BY <1>0, <2>7, <3>2
  <2>9. ASSUME NEW x
        PROVE  x \in ToSet(r) <=> x \in ToSet(s) \ {u}
    <3>1. x \in ToSet(r) <=> \E j \in 1 .. Len(r) : r[j] = x
      BY <2>7, Members
    <3>2. x \in ToSet(s) <=> \E j \in 1 .. Len(s) : s[j] = x
      BY Members
    <3>3. ASSUME NEW j \in 1 .. Len(r), r[j] = x
          PROVE  x \in ToSet(s) \ {u}
      BY <1>0, <2>1, <2>7, <3>2, <3>3 DEF Distinct
    <3>4. ASSUME NEW j \in 1 .. Len(s), s[j] = x, x # u
          PROVE  \E k \in 1 .. Len(r) : r[k] = x
      <4>1. j # i
        BY <2>1, <3>4
      <4>2. CASE j < i
        BY <1>0, <2>7, <3>4, <4>2
      <4>3. CASE j > i
        <5>1. j - 1 \in 1 .. Len(r) /\ r[j - 1] = s[j]
          BY <1>0, <2>7, <4>3
        <5> QED  BY <3>4, <5>1
      <4> QED  BY <1>0, <4>1, <4>2, <4>3
    <3> QED  BY <3>1, <3>2, <3>3, <3>4
  <2> QED  BY <2>7, <2>8, <2>9 DEF r
<1> QED  BY <1>1, <1>2

(* A list without doubles is as long as its set is large. *)
LEMMA LengthIsCount ==
  ASSUME NEW S, NEW s \in Seq(S), Distinct(s)
  PROVE  Cardinality(ToSet(s)) = Len(s)
<1>1. Len(s) \in Nat /\ DOMAIN s = 1 .. Len(s) /\ s \in [1 .. Len(s) -> S]
  BY LenProperties
<1> DEFINE T == ToSet(s)
<1>2. \A x : x \in T <=> \E i \in 1 .. Len(s) : s[i] = x
  BY Members
<1>3. s \in Bijection(1 .. Len(s), T)
  <2> HIDE DEF T
  <2>1. s \in [1 .. Len(s) -> T]
    BY <1>1, <1>2
  <2>2. s \in Injection(1 .. Len(s), T)
    BY <2>1 DEF Distinct, Injection, IsInjective
  <2>3. s \in Surjection(1 .. Len(s), T)
    BY <1>2, <2>1 DEF Surjection
  <2> QED  BY <2>2, <2>3 DEF Bijection
<1>4. IsFiniteSet(1 .. Len(s)) /\ Cardinality(1 .. Len(s)) = Len(s)
  BY <1>1, FS_Interval
<1> QED  BY <1>3, <1>4, FS_Bijection DEF ExistsBijection

-----------------------------------------------------------------------------
(* The Reporter by itself. *)

(* addKey and removeKey keep a list of the keys that are down, each once.  *)
KeysListed == Distinct(keys) /\ ToSet(keys) = pressed

(* With no change waiting for the end of its frame, the target has the     *)
(* last report, unless that was lost.                                      *)
KbdShown == ~kbdDirty /\ ~kbdStale => shownKbd = KeyboardReport

ClicksDirty == mouseBtn => mouseDirty

ReporterInv == /\ ReporterTypeOK /\ KeysListed /\ KbdShown
               /\ TargetShowsButtons /\ ClicksDirty /\ MotionLossless

(* A report carries usages that are in the list, or rollover. *)
LEMMA ReportIsSound ==
  ASSUME mods \subseteq Mod, keys \in Seq(Usage)
  PROVE  KeyboardReport \in KeyReports
<1>1. ToSet(keys) \subseteq Usage
  BY Members, ElementOfSeq
<1> QED  BY <1>1 DEF KeyboardReport, KeyReports

(* Motion that was owed is delivered with a report that is neither clipped *)
(* nor lost.                                                               *)
LEMMA MotionOwed ==
  ASSUME motion \in [Axis -> Int], MotionLossless, NEW ok \in BOOLEAN, FlushMouse(ok)
  PROVE  owed' = [a \in Axis |-> 0] /\ motion' = [a \in Axis |-> 0]
<1>1. ASSUME NEW a \in Axis, ~Clipped(a)
      PROVE  owed[a] - Reported(a) = 0
  <2>1. Direction(a) * motion[a] \in Int
    BY DEF Direction
  <2>2. owed[a] = Direction(a) * motion[a] /\ Reported(a) = owed[a]
    BY <1>1 DEF MotionLossless, Clipped
  <2> QED  BY <2>1, <2>2
<1> QED  BY <1>1 DEF FlushMouse, Still

(* A movement is owed with the sign that it will be reported with. *)
LEMMA MotionAdded ==
  ASSUME motion \in [Axis -> Int], MotionLossless, ReporterAssumption,
         NEW a \in Axis, NEW step \in Steps, HandleRel(a, step)
  PROVE  MotionLossless' /\ motion' \in [Axis -> Int] /\ owed' \in [Axis -> Int]
<1>1. step \in Int /\ motion' = [motion EXCEPT ![a] = motion[a] + step]
      /\ owed' = [owed EXCEPT ![a] = owed[a] + Direction(a) * step]
      /\ UNCHANGED invertWheel
  BY DEF HandleRel, ReporterAssumption, settings
<1>2. owed = [x \in Axis |-> Direction(x) * motion[x]]
  BY DEF MotionLossless
<1>3. \A x \in Axis : Direction(x) \in {1, -1} /\ Direction(x)' = Direction(x)
  BY <1>1 DEF Direction
<1>4. ASSUME NEW x \in Axis
      PROVE  owed'[x] = Direction(x)' * motion'[x] /\ owed'[x] \in Int
  <2>1. CASE x = a
    <3>1. owed'[x] = Direction(x) * motion[x] + Direction(x) * step
      BY <1>1, <1>2, <2>1
    <3>2. motion'[x] = motion[x] + step /\ motion[x] \in Int
      BY <1>1, <2>1
    <3> QED  BY <1>1, <1>3, <3>1, <3>2
  <2>2. CASE x # a
    <3>1. owed'[x] = Direction(x) * motion[x] /\ motion'[x] = motion[x]
      BY <1>1, <1>2, <2>2
    <3> QED  BY <1>3, <3>1
  <2> QED  BY <2>1, <2>2
<1>5. owed' = [x \in Axis |-> owed'[x]]
  BY <1>1, <1>2
<1> QED  BY <1>1, <1>4, <1>5 DEF MotionLossless

(* The two halves of the Reporter's state, which its events keep apart. *)
KbdTypeOK ==
    /\ mods \subseteq Mod /\ keys \in Seq(Usage) /\ kbdDirty \in BOOLEAN
    /\ shownKbd \in KeyReports /\ pressed \subseteq Usage /\ kbdStale \in BOOLEAN

MouseTypeOK ==
    /\ buttons \subseteq Button /\ motion \in [Axis -> Int]
    /\ mouseDirty \in BOOLEAN /\ mouseBtn \in BOOLEAN
    /\ shownButtons \subseteq Button /\ owed \in [Axis -> Int] /\ mouseStale \in BOOLEAN

KbdInv   == KbdTypeOK /\ KeysListed /\ KbdShown
MouseInv == MouseTypeOK /\ TargetShowsButtons /\ ClicksDirty /\ MotionLossless
SetInv   == coalesce \in BOOLEAN /\ invertWheel \in BOOLEAN

(* The two halves and the settings are all of it. *)
LEMMA Halves == ReporterInv <=> KbdInv /\ MouseInv /\ SetInv
BY DEF ReporterInv, KbdInv, MouseInv, SetInv, ReporterTypeOK, KbdTypeOK, MouseTypeOK

(* flushKeyboard and flushMouse keep their half. *)
LEMMA KbdFlushed ==
  ASSUME KbdInv, NEW ok \in BOOLEAN, FlushKeyboard(ok)
  PROVE  KbdInv'
<1>1. KeyboardReport \in KeyReports
  BY ReportIsSound DEF KbdInv, KbdTypeOK
<1>2. /\ UNCHANGED <<mods, keys, pressed>> /\ kbdDirty' = FALSE
      /\ shownKbd' = IF ok THEN KeyboardReport ELSE shownKbd
      /\ kbdStale' = ~ok
  BY DEF FlushKeyboard
<1>3. KeyboardReport' = KeyboardReport
  BY <1>2 DEF KeyboardReport, ToSet
<1>4. KeysListed'
  BY <1>2 DEF KbdInv, KeysListed, Distinct, ToSet
<1>5. KbdTypeOK'
  BY <1>1, <1>2 DEF KbdInv, KbdTypeOK, KeyReports
<1>6. KbdShown'
  BY <1>2, <1>3 DEF KbdShown
<1> QED  BY <1>4, <1>5, <1>6 DEF KbdInv

(* The report may be lost and the motion clipped: none is owed after. *)
LEMMA MouseFlushed ==
  ASSUME MouseInv, NEW ok \in BOOLEAN, FlushMouse(ok), UNCHANGED settings
  PROVE  MouseInv'
<1> USE DEF MouseInv, MouseTypeOK
<1>1. owed' = [a \in Axis |-> 0] /\ motion' = [a \in Axis |-> 0]
  BY MotionOwed
<1>2. /\ shownButtons' = IF ok THEN buttons ELSE shownButtons
      /\ mouseStale' = ~ok /\ mouseDirty' = FALSE /\ mouseBtn' = FALSE
      /\ buttons' = buttons
  BY DEF FlushMouse
<1>3. MotionLossless'
  <2>1. \A a \in Axis : Direction(a)' \in {1, -1}
    BY DEF Direction
  <2>2. \A a \in Axis : Direction(a)' * motion'[a] = 0
    BY <1>1, <2>1
  <2> QED  BY <1>1, <2>2 DEF MotionLossless
<1>4. MouseTypeOK'
  <2>1. mouseStale' \in BOOLEAN /\ mouseDirty' \in BOOLEAN /\ mouseBtn' \in BOOLEAN
    BY <1>2
  <2>2. shownButtons' \subseteq Button /\ buttons' \subseteq Button
    BY <1>2
  <2>3. owed' \in [Axis -> Int] /\ motion' \in [Axis -> Int]
    BY <1>1
  <2> QED  BY ONLY <2>1, <2>2, <2>3 DEF MouseTypeOK
<1>5. TargetShowsButtons' /\ ClicksDirty'
  BY <1>2 DEF TargetShowsButtons, ClicksDirty
<1> QED  BY <1>3, <1>4, <1>5

(* Both halves start over together. *)
LEMMA ClearedKeeps ==
  ASSUME ReporterAssumption, ReporterInv, Cleared,
         \/ UNCHANGED <<shownKbd, shownButtons>> /\ kbdStale' = TRUE /\ mouseStale' = TRUE
         \/ \E kbdOk, mouseOk \in BOOLEAN :
               /\ shownKbd' = IF kbdOk THEN NoKeys ELSE shownKbd
               /\ shownButtons' = IF mouseOk THEN {} ELSE shownButtons
               /\ kbdStale' = ~kbdOk /\ mouseStale' = ~mouseOk
  PROVE  ReporterInv'
<1>0. /\ mods' = {} /\ keys' = <<>> /\ kbdDirty' = FALSE
      /\ buttons' = {} /\ motion' = Still
      /\ mouseDirty' = FALSE /\ mouseBtn' = FALSE
      /\ pressed' = {} /\ owed' = Still
      /\ UNCHANGED <<coalesce, invertWheel>>
  BY DEF Cleared, settings
<1>1. /\ shownKbd' \in {shownKbd, NoKeys} /\ shownButtons' \in {shownButtons, {}}
      /\ kbdStale' \in BOOLEAN /\ mouseStale' \in BOOLEAN
      /\ ~kbdStale' => shownKbd' = NoKeys
      /\ ~mouseStale' => shownButtons' = {}
  OBVIOUS
<1>2. NoKeys \in KeyReports
  BY DEF NoKeys, KeyReports
<1>3. <<>> \in Seq(Usage) /\ Len(<<>>) = 0
  BY EmptySeq
<1>4. ToSet(keys') = {}
  BY <1>0 DEF ToSet
<1>5. KbdTypeOK'
  BY <1>0, <1>1, <1>2, <1>3, Halves DEF KbdInv, KbdTypeOK, KeyReports
<1>6. KeysListed'
  BY <1>0, <1>3, <1>4 DEF KeysListed, Distinct, ToSet
<1>7. KeyboardReport' = NoKeys
  <2>1. ~(Len(keys') > Slots)
    BY <1>0, <1>3 DEF ReporterAssumption
  <2> QED  BY <1>0, <1>4, <2>1 DEF KeyboardReport, NoKeys, ToSet
<1>8. KbdShown'
  BY <1>1, <1>7 DEF KbdShown
<1>9. MouseTypeOK'
  <2>1. shownButtons \subseteq Button
    BY Halves DEF MouseInv, MouseTypeOK
  <2>2. Still \in [Axis -> Int]
    BY DEF Still
  <2> QED  BY ONLY <1>0, <1>1, <2>1, <2>2 DEF MouseTypeOK
<1>10. MotionLossless'
  <2>1. \A a \in Axis : Direction(a)' \in {1, -1}
    BY DEF Direction
  <2>2. \A a \in Axis : Direction(a)' * motion'[a] = 0
    BY <1>0, <2>1 DEF Still
  <2> QED  BY <1>0, <2>2 DEF MotionLossless, Still
<1>11. TargetShowsButtons' /\ ClicksDirty'
  BY <1>0, <1>1 DEF TargetShowsButtons, ClicksDirty
<1>12. SetInv'
  BY <1>0, Halves DEF SetInv
<1>13. KbdInv' /\ MouseInv' /\ SetInv'
  BY <1>5, <1>6, <1>8, <1>9, <1>10, <1>11, <1>12 DEF KbdInv, MouseInv
<1> QED
  BY <1>13 DEF ReporterInv, KbdInv, MouseInv, SetInv, ReporterTypeOK, KbdTypeOK, MouseTypeOK

(* Keys and modifiers go down and up on however many devices. *)
LEMMA KeysKeep ==
  ASSUME KbdInv, NEW v \in {"down", "up"},
         (\E m \in Mod : HandleMod(m, v)) \/ (\E u \in Usage : HandleKey(u, v))
  PROVE  KbdInv'
<1> USE DEF KbdInv, KbdTypeOK
<1>1. ASSUME NEW m \in Mod, HandleMod(m, v)
      PROVE  KbdInv'
  <2>1. /\ mods' = Pressed(mods, m, v) /\ kbdDirty' = TRUE
        /\ UNCHANGED <<keys, shownKbd, pressed, kbdStale>>
    BY <1>1 DEF HandleMod
  <2>2. mods' \subseteq Mod
    BY <2>1 DEF Pressed
  <2> QED  BY <2>1, <2>2 DEF KeysListed, KbdShown, Distinct, ToSet, KeyReports
<1>2. ASSUME NEW u \in Usage, HandleKey(u, v)
      PROVE  KbdInv'
  <2>1. /\ keys' = IF v = "down" THEN AddKey(u) ELSE RemoveKey(u)
        /\ pressed' = Pressed(pressed, u, v) /\ kbdDirty' = TRUE
        /\ UNCHANGED <<mods, shownKbd, kbdStale>>
    BY <1>2 DEF HandleKey
  <2>2. keys' \in Seq(Usage) /\ Distinct(keys') /\ ToSet(keys') = pressed'
    <3>1. CASE v = "down" /\ u \in ToSet(keys)
      BY <2>1, <3>1 DEF AddKey, Pressed, KeysListed
    <3>2. CASE v = "down" /\ u \notin ToSet(keys)
      BY <2>1, <3>2, AddedKey DEF AddKey, Pressed, KeysListed
    <3>3. CASE v = "up"
      <4>1. keys' = RemoveFirst(keys, u) /\ pressed' = pressed \ {u}
        BY <2>1, <3>3 DEF RemoveKey, Pressed
      <4> QED  BY <4>1, RemovedKey DEF KeysListed
    <3> QED  BY <3>1, <3>2, <3>3
  <2>3. pressed' \subseteq Usage
    BY <2>1 DEF Pressed
  <2>4. KeysListed' /\ KbdShown'
    BY <2>1, <2>2 DEF KeysListed, KbdShown, Distinct, ToSet
  <2> QED  BY <2>1, <2>2, <2>3, <2>4 DEF KeyReports
<1> QED  BY <1>1, <1>2

(* The half of the state that a step does not touch. *)
LEMMA KbdAlone ==
  ASSUME KbdInv, UNCHANGED keyboard
  PROVE  KbdInv'
BY DEF KbdInv, KbdTypeOK, KeysListed, KbdShown, Distinct, ToSet, keyboard,
       KeyboardReport, KeyReports

(* Which way the wheel turns counts for the mouse. *)
LEMMA MouseAlone ==
  ASSUME MouseInv, UNCHANGED <<mouse, settings>>
  PROVE  MouseInv'
BY DEF MouseInv, MouseTypeOK, TargetShowsButtons, ClicksDirty, MotionLossless,
       Direction, mouse, settings

(* Every step of the Reporter keeps ReporterInv. *)
LEMMA ReporterInvKept ==
  ASSUME ReporterAssumption, ReporterInv, ReporterNext \/ UNCHANGED reporterVars
  PROVE  ReporterInv'
<1>0. KbdInv /\ MouseInv /\ SetInv
  BY Halves
<1>1. ASSUME KbdInv', MouseInv', UNCHANGED settings
      PROVE  ReporterInv'
  <2>1. SetInv'
    BY <1>0, <1>1 DEF SetInv, settings
  <2> QED
    BY <1>1, <2>1
       DEF ReporterInv, KbdInv, MouseInv, SetInv, ReporterTypeOK, KbdTypeOK, MouseTypeOK
<1>2. ASSUME NEW b \in Button, NEW v \in {"down", "up", "repeat"}, HandleButton(b, v)
      PROVE  ReporterInv'
  <2>1. /\ buttons' = Pressed(buttons, b, v) /\ mouseDirty' = TRUE /\ mouseBtn' = TRUE
        /\ UNCHANGED <<settings, keyboard, motion, shownButtons, owed, mouseStale>>
    BY <1>2 DEF HandleButton
  <2>2. buttons' \subseteq Button
    BY <1>0, <2>1 DEF Pressed, MouseInv, MouseTypeOK
  <2>3. MouseInv'
    <3>1. MouseTypeOK'
      BY <1>0, <2>1, <2>2 DEF MouseInv, MouseTypeOK
    <3>2. MotionLossless'
      BY <1>0, <2>1 DEF MouseInv, MotionLossless, Direction, settings
    <3> QED  BY <2>1, <3>1, <3>2 DEF MouseInv, TargetShowsButtons, ClicksDirty
  <2> QED  BY <1>0, <1>1, <2>1, <2>3, KbdAlone
<1>3. ASSUME NEW v \in {"down", "up"},
             (\E m \in Mod : HandleMod(m, v)) \/ (\E u \in Usage : HandleKey(u, v))
      PROVE  ReporterInv'
  <2>1. UNCHANGED <<mouse, settings>>
    BY <1>3 DEF HandleMod, HandleKey
  <2> QED  BY <1>0, <1>1, <1>3, <2>1, KeysKeep, MouseAlone
<1>4. ASSUME NEW a \in Axis, NEW step \in Steps, HandleRel(a, step)
      PROVE  ReporterInv'
  <2>1. MotionLossless' /\ motion' \in [Axis -> Int] /\ owed' \in [Axis -> Int]
    BY <1>0, <1>4, MotionAdded DEF MouseInv, MouseTypeOK
  <2>2. mouseDirty' = TRUE /\ UNCHANGED <<settings, keyboard, buttons, mouseBtn,
                                          shownButtons, mouseStale>>
    BY <1>4 DEF HandleRel
  <2>3. MouseTypeOK'
    BY <1>0, <2>1, <2>2 DEF MouseInv, MouseTypeOK
  <2>4. TargetShowsButtons' /\ ClicksDirty'
    BY <1>0, <2>2 DEF MouseInv, TargetShowsButtons, ClicksDirty
  <2> QED  BY <1>0, <1>1, <2>1, <2>2, <2>3, <2>4, KbdAlone DEF MouseInv
<1>5. CASE HandleRelOther
  <2>1. mouseDirty' = TRUE
        /\ UNCHANGED <<settings, keyboard, buttons, motion, mouseBtn, shownButtons,
                       owed, mouseStale>>
    BY <1>5 DEF HandleRelOther
  <2>2. MouseTypeOK'
    BY <1>0, <2>1 DEF MouseInv, MouseTypeOK
  <2>3. TargetShowsButtons' /\ ClicksDirty'
    BY <1>0, <2>1 DEF MouseInv, TargetShowsButtons, ClicksDirty
  <2>4. MotionLossless'
    BY <1>0, <2>1 DEF MouseInv, MotionLossless, Direction, settings
  <2> QED  BY <1>0, <1>1, <2>1, <2>2, <2>3, <2>4, KbdAlone DEF MouseInv
<1>6. ASSUME NEW kbdOk \in BOOLEAN, NEW mouseOk \in BOOLEAN, HandleSyn(kbdOk, mouseOk)
      PROVE  ReporterInv'
  <2>1. UNCHANGED settings
        /\ (FlushKeyboard(kbdOk) \/ UNCHANGED keyboard)
        /\ (FlushMouse(mouseOk) \/ UNCHANGED mouse)
    BY <1>6 DEF HandleSyn
  <2>2. KbdInv'
    BY <1>0, <2>1, KbdFlushed, KbdAlone
  <2>3. MouseInv'
    BY <1>0, <2>1, MouseFlushed, MouseAlone
  <2> QED  BY <1>1, <2>1, <2>2, <2>3
<1>7. ASSUME NEW ok \in BOOLEAN, CoalesceTick(ok)
      PROVE  ReporterInv'
  <2>1. FlushMouse(ok) /\ UNCHANGED <<settings, keyboard>>
    BY <1>7 DEF CoalesceTick
  <2> QED  BY <1>0, <1>1, <2>1, MouseFlushed, KbdAlone
<1>8. CASE Control
  BY <1>8, ClearedKeeps DEF Control, ClearState, Reset
<1>9. CASE UNCHANGED reporterVars
  BY <1>0, <1>1, <1>9, KbdAlone, MouseAlone DEF reporterVars
<1> QED
  BY <1>2, <1>3, <1>4, <1>5, <1>6, <1>7, <1>8, <1>9 DEF ReporterNext, Event, Tick

(* It starts with no key down and nothing to report. *)
LEMMA ReporterStarts ==
  ASSUME ReporterAssumption, ReporterInit
  PROVE  ReporterInv
<1> USE DEF ReporterInit
<1>0. ToSet(keys) = {} /\ keys \in Seq(Usage) /\ Len(keys) = 0
  BY EmptySeq DEF ToSet
<1>1. NoKeys \in KeyReports
  BY DEF NoKeys, KeyReports
<1>2. KbdInv
  <2>1. ~(Len(keys) > Slots)
    BY <1>0 DEF ReporterAssumption
  <2>2. KeysListed
    BY <1>0 DEF KeysListed, Distinct
  <2>3. KbdShown
    BY <1>0, <2>1 DEF KbdShown, KeyboardReport, NoKeys
  <2> QED  BY <1>0, <1>1, <2>2, <2>3 DEF KbdInv, KbdTypeOK
<1>3. MouseInv
  <2>1. \A a \in Axis : Direction(a) * 0 = 0
    BY DEF Direction
  <2>2. MotionLossless
    BY <2>1 DEF MotionLossless, Still
  <2>3. motion \in [Axis -> Int] /\ owed \in [Axis -> Int]
    BY DEF Still
  <2>4. MouseTypeOK
    BY <2>3 DEF MouseTypeOK
  <2> QED  BY <2>2, <2>4 DEF MouseInv, TargetShowsButtons, ClicksDirty
<1> QED  BY <1>2, <1>3, Halves DEF SetInv

(* ReporterInv is inductive. *)
LEMMA ReporterInvariance == ReporterSpec => []ReporterInv
<1>1. ReporterInit => ReporterInv
  BY ReporterAssumption, ReporterStarts
<1>2. ReporterInv /\ [ReporterNext]_reporterVars => ReporterInv'
  BY ReporterAssumption, ReporterInvKept
<1> QED  BY <1>1, <1>2, PTL DEF ReporterSpec

(* Its variables stay within their types, and the usages it reports are    *)
(* keys or rollover.                                                       *)
THEOREM ReporterTypeCorrect == ReporterSpec => []ReporterTypeOK
<1>1. ReporterInv => ReporterTypeOK
  BY DEF ReporterInv
<1> QED  BY <1>1, ReporterInvariance, PTL

(* For any keyboards and any number of slots the target shows the keys     *)
(* that are down once a frame ends, or rollover when they are too many,    *)
(* and recovers from rollover by itself: addKey keeps no key twice, so the *)
(* list is as long as keys are down.                                       *)
THEOREM KeysShown == ReporterSpec => []TargetShowsKeys
<1>1. ReporterInv => TargetShowsKeys
  <2> SUFFICES ASSUME ReporterInv, ~kbdDirty, ~kbdStale
               PROVE  /\ shownKbd.mods = mods
                      /\ shownKbd.slots = IF Cardinality(pressed) > Slots
                                          THEN {Rollover} ELSE pressed
    BY DEF TargetShowsKeys
  <2>1. shownKbd = KeyboardReport
    BY DEF ReporterInv, KbdShown
  <2>2. Cardinality(pressed) = Len(keys) /\ ToSet(keys) = pressed
    BY LengthIsCount DEF ReporterInv, KeysListed, ReporterTypeOK
  <2> QED  BY <2>1, <2>2 DEF KeyboardReport
<1> QED  BY <1>1, ReporterInvariance, PTL

(* The target shows the buttons that are down, unless a change waits for   *)
(* the end of its frame: the ticker of coalesceLoop, which sends them too, *)
(* sends what they are.                                                    *)
THEOREM ButtonsShown == ReporterSpec => []TargetShowsButtons
<1>1. ReporterInv => TargetShowsButtons
  BY DEF ReporterInv
<1> QED  BY <1>1, ReporterInvariance, PTL

(* Coalescing loses no motion, whatever the axes, the steps and the bound  *)
(* on what is pending.                                                     *)
THEOREM NoMotionLost == ReporterSpec => []MotionLossless
<1>1. ReporterInv => MotionLossless
  BY DEF ReporterInv
<1> QED  BY <1>1, ReporterInvariance, PTL

(* A click lands where the pointer was: whatever changes the buttons at    *)
(* the target is flushMouse or Reset, and leaves no motion behind.         *)
THEOREM ClicksInPlace == ReporterSpec => ClicksCarryMotion
<1>1. [ReporterNext]_reporterVars
        => [shownButtons' # shownButtons => motion' = Still]_reporterVars
  <2> SUFFICES ASSUME ReporterNext, shownButtons' # shownButtons
               PROVE  motion' = Still
    OBVIOUS
  <2> QED
    BY DEF ReporterNext, Event, Tick, Control, HandleButton, HandleMod, HandleKey,
           HandleRel, HandleRelOther, HandleSyn, CoalesceTick, ClearState, Reset,
           Cleared,
           FlushMouse, mouse
<1> QED  BY <1>1, PTL DEF ReporterSpec, ClicksCarryMotion

-----------------------------------------------------------------------------
(* The daemon: readers, controller and Reporter together. *)

Code   == Mod \cup Usage \cup Button
Events == {Key(k, v) : k \in Code, v \in {"down", "up"}}
            \cup {Rel(a, step) : a \in RelCode, step \in Steps} \cup {Syn}

InFlight == {NoEvent}
              \cup {[stage |-> st, ev |-> e] : st \in {"check", "report"}, e \in Events}

(* Asked for LOCAL mode, applyGrab does not refuse. *)
LEMMA GrabTypes ==
  ASSUME grabbed \in BOOLEAN, NEW on, ApplyGrab(on)
  PROVE  grabbed' \in BOOLEAN /\ (on = FALSE => grabbed' = FALSE)
BY DEF ApplyGrab, GrabAll, GrabRefused, UngrabAll

ReadersTypeOK ==
    /\ inflight \in [Dev -> InFlight] /\ synDue \in [Dev -> BOOLEAN]
    /\ held \in [Dev -> SUBSET Code]

(* What the events are made of tells them apart. *)
LEMMA EventFields ==
  /\ \A k, v : /\ Key(k, v).type = "key" /\ Key(k, v).code = k /\ Key(k, v).value = v
               /\ Key(k, v) # Syn
  /\ \A a, step : /\ Rel(a, step).type = "rel" /\ Rel(a, step).code = a
                  /\ Rel(a, step).value = step /\ Rel(a, step) # Syn
  /\ Syn.type = "syn"
<1>1. \A k, v : Key(k, v).type = "key" /\ Key(k, v).code = k /\ Key(k, v).value = v
  BY DEF Key
<1>2. \A a, step : /\ Rel(a, step).type = "rel" /\ Rel(a, step).code = a
                   /\ Rel(a, step).value = step
  BY DEF Rel
<1>3. Syn.type = "syn"
  BY DEF Syn
<1> QED  BY <1>1, <1>2, <1>3

(* Who is past isGrabbed has an event in hand. *)
LEMMA InHandFields ==
  ASSUME ReadersTypeOK, NEW d \in Dev
  PROVE  /\ inflight[d].stage \in {"none", "check", "report"}
         /\ inflight[d].stage = "none" <=> inflight[d] = NoEvent
         /\ inflight[d] # NoEvent => inflight[d].ev \in Events
<1>1. CASE inflight[d] = NoEvent
  BY <1>1 DEF NoEvent
<1>2. ASSUME NEW st \in {"check", "report"}, NEW e \in Events,
             inflight[d] = [stage |-> st, ev |-> e]
      PROVE  /\ inflight[d].stage = st /\ inflight[d].ev = e
             /\ inflight[d] # NoEvent
  <2>1. inflight[d].stage = st /\ inflight[d].ev = e
    BY <1>2
  <2>2. NoEvent.stage = "none"
    BY DEF NoEvent
  <2> QED  BY <2>1, <2>2
<1> QED  BY <1>1, <1>2 DEF ReadersTypeOK, InFlight

(* rep.Handle with an event in hand is a step of the Reporter. *)
LEMMA HandleIsReporters ==
  ASSUME ReadersTypeOK, NEW d \in Dev, inflight[d] # NoEvent, Handle(inflight[d].ev)
  PROVE  ReporterNext
<1> DEFINE e == inflight[d].ev
<1>1. e \in Events
  BY InHandFields
<1> HIDE DEF e
<1>2. Handle(e)
  BY DEF e
<1>3. CASE e.type = "key"
  <2>1. e.code \in Code /\ e.value \in {"down", "up"}
    BY <1>1, <1>3, EventFields DEF Events
  <2>2. \/ e.code \in Button /\ HandleButton(e.code, e.value)
        \/ e.code \in Mod    /\ HandleMod(e.code, e.value)
        \/ e.code \in Usage  /\ HandleKey(e.code, e.value)
    BY <1>2, <1>3 DEF Handle
  <2> QED  BY <2>1, <2>2 DEF ReporterNext, Event
<1>4. CASE e.type = "rel"
  <2>1. e.value \in Steps
    BY <1>1, <1>4, EventFields DEF Events
  <2> QED  BY <1>2, <1>4, <2>1 DEF Handle, ReporterNext, Event
<1>5. CASE e.type = "syn"
  BY <1>2, <1>5 DEF Handle, Arrives, ReporterNext, Event
<1> QED  BY <1>2, <1>3, <1>4, <1>5 DEF Handle

(* What the controller does to the Reporter is a step of it, too. *)
LEMMA ControlIsReporters ==
  ASSUME AfterApplyGrab \/ AfterRelease
  PROVE  ReporterNext \/ UNCHANGED reporterVars
BY DEF AfterApplyGrab, AfterRelease, ResetReports, Arrives, ReporterNext, Control

(* Every step of the daemon is the controller's and the Reporter's, either *)
(* of which may stand still.                                               *)
LEMMA StepOfReporter ==
  ASSUME ReadersTypeOK, [SessionNext]_sessionVars
  PROVE  ReporterNext \/ UNCHANGED reporterVars
<1>1. ASSUME NEW d \in Dev, Report(d)
      PROVE  ReporterNext
  <2>1. inflight[d] # NoEvent
    BY <1>1, InHandFields DEF Report
  <2> QED  BY <1>1, <2>1, HandleIsReporters DEF Report
<1>2. CASE \/ MqttAsks \/ WatchReleases \/ ShutdownReleases
           \/ \E d \in Dev : HandlesToggle(d) \/ LosesDevice(d)
  BY <1>2, ControlIsReporters
     DEF MqttAsks, WatchReleases, ShutdownReleases, HandlesToggle, LosesDevice
<1>3. CASE CoalesceLoop
  BY <1>3 DEF CoalesceLoop, Arrives, ReporterNext, Tick
<1>4. CASE Quietly \/ LinkChanges \/ \E p \in Path : Unplugs(p)
  BY <1>4 DEF Quietly, LinkChanges, Unplugs
<1>5. ASSUME NEW d \in Dev,
             \/ ReadsToggle(d) \/ ReaderFails(d) \/ CheckGrabbed(d)
             \/ \E k \in KeysOf[d] : ReadPress(d, k) \/ ReadRelease(d, k)
             \/ \E a \in RelCode, step \in Steps : ReadRel(d, a, step)
             \/ ReadSyn(d)
      PROVE  UNCHANGED reporterVars
  BY <1>5 DEF ReadsToggle, ReaderFails, CheckGrabbed, ReadPress, ReadRelease,
               ReadRel, ReadSyn, Reads
<1>6. CASE UNCHANGED sessionVars
  BY <1>6 DEF sessionVars
<1> QED
  BY <1>1, <1>2, <1>3, <1>4, <1>5, <1>6 DEF SessionNext, ReaderStep

(* The same for the controller: readers and Reporter leave it alone. *)
LEMMA StepOfController ==
  ASSUME [SessionNext]_sessionVars
  PROVE  Next \/ UNCHANGED vars
<1>1. CASE \/ MqttAsks \/ WatchReleases \/ ShutdownReleases \/ LinkChanges \/ Quietly
           \/ \E p \in Path : Unplugs(p)
  BY <1>1 DEF MqttAsks, WatchReleases, ShutdownReleases, LinkChanges, Quietly, Unplugs,
                    Next, Mqtt, Watcher, Main, Environment
<1>2. ASSUME NEW d \in Dev,
             ReadsToggle(d) \/ HandlesToggle(d) \/ ReaderFails(d) \/ LosesDevice(d)
      PROVE  Next
  BY <1>2 DEF ReadsToggle, HandlesToggle, ReaderFails, LosesDevice, Next, Reader
<1>3. ASSUME NEW d \in Dev,
             \/ Report(d) \/ CheckGrabbed(d)
             \/ \E k \in KeysOf[d] : ReadPress(d, k) \/ ReadRelease(d, k)
             \/ \E a \in RelCode, step \in Steps : ReadRel(d, a, step)
             \/ ReadSyn(d)
      PROVE  UNCHANGED vars
  BY <1>3 DEF Report, CheckGrabbed, ReadPress, ReadRelease, ReadRel, ReadSyn, Reads
<1>4. CASE CoalesceLoop
  BY <1>4 DEF CoalesceLoop
<1>5. CASE UNCHANGED sessionVars
  BY <1>5 DEF sessionVars
<1> QED
  BY <1>1, <1>2, <1>3, <1>4, <1>5 DEF SessionNext, ReaderStep

(* Who has an event in hand reads its device, which owes the end of a      *)
(* frame unless that is the event.                                         *)
HandsFull ==
    \A d \in Dev : ~Idle(d) => /\ reader[d] = "reading"
                               /\ inflight[d].ev # Syn => synDue[d]

ReadersInv == ReadersTypeOK /\ HandsFull

(* What a reader takes in hand. *)
LEMMA ReadsEffect ==
  ASSUME ReadersInv, NEW d \in Dev, NEW ev \in Events, Reads(d, ev)
  PROVE  /\ inflight' \in [Dev -> InFlight] /\ synDue' \in [Dev -> BOOLEAN] /\ HandsFull'
         /\ inflight' = [inflight EXCEPT ![d] = [stage |-> "check", ev |-> ev]]
         /\ synDue' = [synDue EXCEPT ![d] = ev # Syn]
         /\ Idle(d) /\ fd[d] = "live" /\ reader[d] = "reading" /\ Running
         /\ UNCHANGED <<vars, reporterVars, history>>
<1> USE DEF ReadersInv, ReadersTypeOK
<1>1. /\ inflight' = [inflight EXCEPT ![d] = [stage |-> "check", ev |-> ev]]
      /\ synDue' = [synDue EXCEPT ![d] = ev # Syn]
      /\ Idle(d) /\ fd[d] = "live" /\ reader[d] = "reading" /\ Running
      /\ UNCHANGED <<vars, reporterVars, history>>
  BY DEF Reads, CanRead
<1>2. [stage |-> "check", ev |-> ev] \in InFlight
  BY DEF InFlight
<1>3. inflight' \in [Dev -> InFlight]
  BY <1>1, <1>2
<1>4. synDue' \in [Dev -> BOOLEAN]
  BY <1>1
<1>5. HandsFull'
  <2>1. reader' = reader
    BY <1>1 DEF vars
  <2>2. inflight'[d].ev = ev /\ synDue'[d] = (ev # Syn)
    BY <1>1
  <2>3. \A e \in Dev \ {d} : inflight'[e] = inflight[e] /\ synDue'[e] = synDue[e]
    BY <1>1
  <2> QED  BY <1>1, <2>1, <2>2, <2>3 DEF HandsFull, Idle
<1> QED  BY <1>1, <1>3, <1>4, <1>5

(* No step makes a reader lose what it has in hand. *)
LEMMA ReadersStep ==
  ASSUME SessionAssumption, IInv, ReadersInv, [SessionNext]_sessionVars
  PROVE  ReadersInv'
<1> USE DEF ReadersInv
<1>1. ASSUME NEW d \in Dev, NEW k \in KeysOf[d], ReadPress(d, k) \/ ReadRelease(d, k)
      PROVE  ReadersInv'
  <2>1. k \in Code /\ KeysOf[d] \subseteq Code
    BY DEF SessionAssumption, Code
  <2>2. Key(k, "down") \in Events /\ Key(k, "up") \in Events
    BY <2>1 DEF Events
  <2>3. held' \in [Dev -> SUBSET Code]
    BY <1>1, <2>1 DEF ReadPress, ReadRelease, ReadersTypeOK
  <2> QED
    BY <1>1, <2>2, <2>3, ReadsEffect DEF ReadPress, ReadRelease, ReadersTypeOK
<1>2. ASSUME NEW d \in Dev, NEW a \in RelCode, NEW step \in Steps, ReadRel(d, a, step)
      PROVE  ReadersInv'
  <2>1. Rel(a, step) \in Events
    BY DEF Events
  <2> QED  BY <1>2, <2>1, ReadsEffect DEF ReadRel, ReadersTypeOK
<1>3. ASSUME NEW d \in Dev, ReadSyn(d)
      PROVE  ReadersInv'
  <2>1. Syn \in Events
    BY DEF Events
  <2> QED  BY <1>3, <2>1, ReadsEffect DEF ReadSyn, ReadersTypeOK
<1>4. ASSUME NEW d \in Dev, CheckGrabbed(d)
      PROVE  ReadersInv'
  <2>1. /\ inflight[d].stage = "check" /\ UNCHANGED <<reader, synDue, held>>
        /\ inflight' = [inflight EXCEPT ![d] = IF grabbed
                          THEN [inflight[d] EXCEPT !.stage = "report"] ELSE NoEvent]
    BY <1>4 DEF CheckGrabbed, vars
  <2>2. PICK e \in Events : inflight[d] = [stage |-> "check", ev |-> e]
    <3>1. inflight[d] # NoEvent /\ inflight[d] \in InFlight
      BY <2>1, InHandFields DEF ReadersTypeOK
    <3> QED  BY <2>1, <3>1 DEF InFlight
  <2>3. [inflight[d] EXCEPT !.stage = "report"] = [stage |-> "report", ev |-> e]
    BY <2>2
  <2>4. /\ inflight'[d] \in {NoEvent, [stage |-> "report", ev |-> e]}
        /\ \A x \in Dev \ {d} : inflight'[x] = inflight[x]
        /\ inflight' \in [Dev -> InFlight]
    BY <2>1, <2>3 DEF ReadersTypeOK, InFlight
  <2>5. ~Idle(d) /\ inflight[d].ev = e
    BY <2>1, <2>2, InHandFields DEF Idle
  <2>6. inflight'[d] = NoEvent \/ inflight'[d].ev = e
    BY <2>4
  <2> QED  BY <2>1, <2>4, <2>5, <2>6 DEF ReadersTypeOK, HandsFull, Idle
<1>5. ASSUME NEW d \in Dev, Report(d)
      PROVE  ReadersInv'
  <2>1. inflight' = [inflight EXCEPT ![d] = NoEvent] /\ UNCHANGED <<reader, synDue, held>>
    BY <1>5 DEF Report, vars
  <2> QED  BY <2>1 DEF ReadersTypeOK, HandsFull, Idle, InFlight
<1>6. ASSUME NEW d \in Dev, ReadsToggle(d)
      PROVE  ReadersInv'
  <2>1. Idle(d) /\ reader' = [reader EXCEPT ![d] = "toggle"]
        /\ synDue' = [synDue EXCEPT ![d] = TRUE] /\ UNCHANGED <<inflight, held>>
    BY <1>6 DEF ReadsToggle, ReadToggle
  <2> QED
    BY <2>1 DEF ReadersTypeOK, HandsFull, Idle, IInv, TypeOK
<1>7. ASSUME NEW d \in Dev, HandlesToggle(d)
      PROVE  ReadersInv'
  <2>1. reader' = [reader EXCEPT ![d] = "reading"] /\ UNCHANGED readers
    BY <1>7 DEF HandlesToggle, HandleToggle
  <2> QED
    BY <2>1 DEF readers, ReadersTypeOK, HandsFull, Idle, IInv, TypeOK
<1>8. ASSUME NEW d \in Dev, ReaderFails(d)
      PROVE  ReadersInv'
  <2>1. Idle(d) /\ reader' = [reader EXCEPT ![d] = "failed"] /\ UNCHANGED readers
    BY <1>8 DEF ReaderFails, ReadFails
  <2> QED
    BY <2>1 DEF readers, ReadersTypeOK, HandsFull, Idle, IInv, TypeOK
<1>9. ASSUME NEW d \in Dev, LosesDevice(d)
      PROVE  ReadersInv'
  <2>1. reader[d] = "failed" /\ reader' = [reader EXCEPT ![d] = "none"]
        /\ synDue' = [synDue EXCEPT ![d] = FALSE] /\ UNCHANGED <<inflight, held>>
    BY <1>9 DEF LosesDevice, DeviceLost
  <2> QED
    BY <2>1 DEF ReadersTypeOK, HandsFull, Idle, IInv, TypeOK
<1>10. CASE \E p \in Path : Unplugs(p)
  <2>1. UNCHANGED <<inflight, synDue, reader>> /\ held' \in [Dev -> SUBSET Code]
    BY <1>10 DEF Unplugs, Unplug, threads, ReadersTypeOK
  <2> QED  BY <2>1 DEF ReadersTypeOK, HandsFull, Idle
<1>11. CASE MqttAsks \/ WatchReleases \/ ShutdownReleases \/ LinkChanges \/ CoalesceLoop
  <2>1. UNCHANGED <<inflight, synDue, held, reader>>
    BY <1>11 DEF MqttAsks, WatchReleases, ShutdownReleases, LinkChanges,
                 CoalesceLoop, readers, ToggleGrab, SetGrab, WatchRelease,
                 ShutdownRelease, LinkChange, threads, vars
  <2> QED  BY <2>1 DEF ReadersTypeOK, HandsFull, Idle
<1>12. CASE Quietly
  <2>1. UNCHANGED readers
    BY <1>12 DEF Quietly
  <2>2. ASSUME NEW d \in Dev, reader[d] = "reading"
        PROVE  reader'[d] = "reading"
    BY <1>12, <2>2
       DEF Quietly, Plug, WatchTick, WatchAlive, Supervisor, SuperviseTick,
           SuperviseTrack, SuperviseDrop, Sigint, Exit, threads, IInv,
           TypeOK
  <2> QED  BY <2>1, <2>2 DEF readers, ReadersTypeOK, HandsFull, Idle
<1>13. CASE UNCHANGED sessionVars
  BY <1>13 DEF sessionVars, readers, vars, ReadersTypeOK, HandsFull, Idle
<1> QED
  BY <1>1, <1>2, <1>3, <1>4, <1>5, <1>6, <1>7, <1>8, <1>9, <1>10, <1>11, <1>12, <1>13
     DEF SessionNext, ReaderStep

HistoryTypeOK == overtaken \in BOOLEAN

(* How a step changes the mode, and what becomes of the Reporter then. *)
LEMMA ModeSteps ==
  ASSUME grabbed \in BOOLEAN, [SessionNext]_sessionVars, grabbed' # grabbed
  PROVE  /\ ResetReports \/ (grabbed /\ ClearState /\ Overtakes /\ UNCHANGED cutOff)
         /\ grabbed' \in BOOLEAN
         /\ UNCHANGED inflight
<1>1. CASE MqttAsks
  <2>1. grabbed' \in BOOLEAN
    BY <1>1, GrabTypes DEF MqttAsks, ToggleGrab, SetGrab
  <2> QED  BY <1>1, <2>1 DEF MqttAsks, AfterApplyGrab, readers
<1>2. CASE ShutdownReleases
  <2>1. grabbed' \in BOOLEAN
    BY <1>2, GrabTypes DEF ShutdownReleases, ShutdownRelease
  <2> QED  BY <1>2, <2>1 DEF ShutdownReleases, AfterApplyGrab, readers
<1>3. CASE WatchReleases
  <2>1. grabbed' = FALSE
    BY <1>3 DEF WatchReleases, WatchRelease, ReleaseLocked
  <2> QED  BY <1>3, <2>1 DEF WatchReleases, AfterRelease, readers
<1>4. ASSUME NEW d \in Dev, HandlesToggle(d)
      PROVE  /\ ResetReports \/ (grabbed /\ ClearState /\ Overtakes /\ UNCHANGED cutOff)
             /\ grabbed' \in BOOLEAN
             /\ UNCHANGED inflight
  <2>1. grabbed' \in BOOLEAN
    BY <1>4, GrabTypes DEF HandlesToggle, HandleToggle
  <2> QED  BY <1>4, <2>1 DEF HandlesToggle, AfterApplyGrab, readers
<1>5. ASSUME NEW d \in Dev, LosesDevice(d)
      PROVE  /\ ResetReports \/ (grabbed /\ ClearState /\ Overtakes /\ UNCHANGED cutOff)
             /\ grabbed' \in BOOLEAN
             /\ UNCHANGED inflight
  <2>1. grabbed' = FALSE
    BY <1>5 DEF LosesDevice, DeviceLost, ReleaseLocked
  <2> QED  BY <1>5, <2>1 DEF LosesDevice, AfterRelease, readers
<1>6. CASE \/ LinkChanges \/ CoalesceLoop \/ UNCHANGED sessionVars
           \/ \E p \in Path : Unplugs(p)
  BY <1>6 DEF LinkChanges, CoalesceLoop, sessionVars, vars, Unplugs, LinkChange,
              Unplug, control
<1>7. CASE Quietly
  BY <1>7 DEF Quietly, Plug, WatchTick, WatchAlive, Supervisor, SuperviseTick,
              SuperviseTrack, SuperviseDrop, Sigint, Exit, control
<1>8. ASSUME NEW d \in Dev,
             \/ ReadsToggle(d) \/ ReaderFails(d) \/ CheckGrabbed(d) \/ Report(d)
             \/ \E k \in KeysOf[d] : ReadPress(d, k) \/ ReadRelease(d, k)
             \/ \E a \in RelCode, step \in Steps : ReadRel(d, a, step)
             \/ ReadSyn(d)
      PROVE  UNCHANGED grabbed
  BY <1>8 DEF ReadsToggle, ReaderFails, CheckGrabbed, Report, ReadPress, ReadRelease,
              ReadRel, ReadSyn, Reads, ReadToggle, ReadFails, control, vars
<1> QED
  BY <1>1, <1>2, <1>3, <1>4, <1>5, <1>6, <1>7, <1>8 DEF SessionNext, ReaderStep

(* Other steps leave the Reporter to the readers and its ticker. *)
LEMMA SteadySteps ==
  ASSUME grabbed \in BOOLEAN, [SessionNext]_sessionVars, grabbed' = grabbed
  PROVE  \/ UNCHANGED <<reporterVars, overtaken>>
         \/ \E d \in Dev : Report(d)
         \/ CoalesceLoop
<1>1. CASE MqttAsks \/ ShutdownReleases \/ \E d \in Dev : HandlesToggle(d)
  BY <1>1 DEF MqttAsks, ShutdownReleases, HandlesToggle, AfterApplyGrab, history
<1>2. CASE WatchReleases \/ \E d \in Dev : LosesDevice(d)
  <2>1. grabbed' = FALSE
    BY <1>2 DEF WatchReleases, LosesDevice, WatchRelease, DeviceLost, ReleaseLocked
  <2> QED  BY <1>2, <2>1 DEF WatchReleases, LosesDevice, AfterRelease, history
<1>3. CASE LinkChanges \/ Quietly \/ UNCHANGED sessionVars \/ \E p \in Path : Unplugs(p)
  BY <1>3 DEF LinkChanges, Quietly, sessionVars, Unplugs, history
<1>4. ASSUME NEW d \in Dev,
             \/ ReadsToggle(d) \/ ReaderFails(d) \/ CheckGrabbed(d)
             \/ \E k \in KeysOf[d] : ReadPress(d, k) \/ ReadRelease(d, k)
             \/ \E a \in RelCode, step \in Steps : ReadRel(d, a, step)
             \/ ReadSyn(d)
      PROVE  UNCHANGED <<reporterVars, overtaken>>
  BY <1>4 DEF ReadsToggle, ReaderFails, CheckGrabbed, ReadPress, ReadRelease, ReadRel,
              ReadSyn, Reads, history
<1> QED
  BY <1>1, <1>2, <1>3, <1>4 DEF SessionNext, ReaderStep

(* In LOCAL mode, unless the race happened, at most one reader is past     *)
(* isGrabbed; until its event is handled the Reporter is as it was         *)
(* cleared; and what one event leaves behind is never sent: a key and a    *)
(* button wait for the end of a frame that no reader will report, and the  *)
(* ticker only sends if there is motion.                                   *)
LocalCalm ==
    ~grabbed /\ ~overtaken =>
        /\ \A d, e \in LeftBehind : d = e
        /\ LeftBehind # {} => /\ kbdDirty = FALSE /\ mouseDirty = FALSE
                              /\ mouseBtn = FALSE /\ buttons = {} /\ motion = Still
        /\ buttons # {} => motion = Still
        /\ ~kbdStale => shownKbd = NoKeys
        /\ ~mouseStale => shownButtons = {}

(* Two readers past isGrabbed at the end of KVM mode are the race. *)
LEMMA AtMostOne ==
  ASSUME SessionAssumption, grabbed = TRUE, Overtakes, ~overtaken'
  PROVE  \A d, e \in LeftBehind : d = e
<1> SUFFICES ASSUME NEW d \in LeftBehind, NEW e \in LeftBehind, d # e
             PROVE  Cardinality(LeftBehind) > 1
  BY DEF Overtakes
<1>1. IsFiniteSet(LeftBehind) /\ Cardinality(LeftBehind) \in Nat
  <2>1. LeftBehind \in SUBSET Dev
    BY DEF LeftBehind
  <2> QED  BY <2>1, FS_Subset, FS_CardinalityType DEF SessionAssumption
<1>2. IsFiniteSet({d}) /\ Cardinality({d}) = 1
  BY FS_Singleton
<1>3. {d} \in SUBSET LeftBehind /\ {d} # LeftBehind
  OBVIOUS
<1>4. /\ Cardinality({d}) <= Cardinality(LeftBehind)
      /\ Cardinality({d}) # Cardinality(LeftBehind)
  BY <1>1, <1>3, FS_Subset
<1> QED  BY <1>1, <1>2, <1>4

(* Nobody passes isGrabbed in LOCAL mode. *)
LEMMA NobodyPasses ==
  ASSUME ReadersTypeOK, grabbed = FALSE, [SessionNext]_sessionVars
  PROVE  LeftBehind' \subseteq LeftBehind
<1> USE DEF ReadersTypeOK, LeftBehind
<1>1. CASE UNCHANGED inflight
  BY <1>1
<1>2. ASSUME NEW d \in Dev, NEW ev, Reads(d, ev)
      PROVE  LeftBehind' \subseteq LeftBehind
  <2>1. inflight' = [inflight EXCEPT ![d] = [stage |-> "check", ev |-> ev]]
    BY <1>2 DEF Reads
  <2>2. inflight'[d].stage = "check" /\ \A e \in Dev \ {d} : inflight'[e] = inflight[e]
    BY <2>1
  <2> QED  BY <2>2
<1>3. ASSUME NEW d \in Dev, CheckGrabbed(d) \/ Report(d)
      PROVE  LeftBehind' \subseteq LeftBehind
  <2>1. inflight' = [inflight EXCEPT ![d] = NoEvent]
    BY <1>3 DEF CheckGrabbed, Report
  <2>2. inflight'[d].stage = "none" /\ \A e \in Dev \ {d} : inflight'[e] = inflight[e]
    BY <2>1 DEF NoEvent
  <2> QED  BY <2>2
<1> QED
  BY <1>1, <1>2, <1>3
     DEF SessionNext, ReaderStep, MqttAsks, WatchReleases, ShutdownReleases,
         LinkChanges, Quietly, CoalesceLoop, Unplugs, ReadsToggle, HandlesToggle,
         ReaderFails, LosesDevice, ReadPress, ReadRelease, ReadRel, ReadSyn,
         sessionVars, readers

(* A step in LOCAL mode presses nothing on the target. *)
LEMMA LocalStep ==
  ASSUME ReadersTypeOK, HistoryTypeOK, LocalCalm, [SessionNext]_sessionVars,
         grabbed = FALSE, grabbed' = FALSE, overtaken = FALSE
  PROVE  LocalCalm' /\ overtaken' = FALSE /\ Shown' \subseteq Shown
<1>0. /\ \A d, e \in LeftBehind : d = e
      /\ LeftBehind # {} => /\ kbdDirty = FALSE /\ mouseDirty = FALSE
                            /\ mouseBtn = FALSE /\ buttons = {} /\ motion = Still
      /\ buttons # {} => motion = Still
      /\ ~kbdStale => shownKbd = NoKeys
      /\ ~mouseStale => shownButtons = {}
  BY DEF LocalCalm
<1>1. LeftBehind' \subseteq LeftBehind
  BY NobodyPasses
<1>2. CASE UNCHANGED <<reporterVars, overtaken>>
  BY <1>0, <1>1, <1>2
     DEF reporterVars, keyboard, mouse, LocalCalm, Still, NoKeys, Shown
<1>3. ASSUME NEW d \in Dev, Report(d)
      PROVE  LocalCalm' /\ overtaken' = FALSE /\ Shown' \subseteq Shown
  <2>1. d \in LeftBehind /\ inflight' = [inflight EXCEPT ![d] = NoEvent]
        /\ overtaken' = overtaken /\ Handle(inflight[d].ev)
    BY <1>3 DEF Report, LeftBehind
  <2>2. LeftBehind' = {}
    <3>1. inflight'[d].stage = "none"
      BY <2>1 DEF ReadersTypeOK, NoEvent
    <3>2. d \notin LeftBehind'
      BY <3>1 DEF LeftBehind
    <3> QED  BY <1>0, <1>1, <2>1, <3>2
  <2>3. UNCHANGED <<shownKbd, kbdStale, shownButtons, mouseStale>>
        /\ (buttons' # {} => motion' = Still)
    <3> DEFINE e == inflight[d].ev
    <3> HIDE DEF e
    <3>0. Handle(e)
      BY <2>1 DEF e
    <3>1. kbdDirty = FALSE /\ mouseDirty = FALSE /\ mouseBtn = FALSE /\ buttons = {}
          /\ motion = Still
      BY <1>0, <2>1
    <3>2. CASE e.type = "key"
      BY <3>0, <3>1, <3>2 DEF Handle, HandleButton, HandleMod, HandleKey, keyboard,
                              mouse
    <3>3. CASE e.type = "rel"
      BY <3>0, <3>1, <3>3 DEF Handle, HandleRel, HandleRelOther, keyboard
    <3>4. CASE e.type = "syn"
      BY <3>0, <3>1, <3>4 DEF Handle, HandleSyn, keyboard, mouse
    <3> QED  BY <3>0, <3>2, <3>3, <3>4 DEF Handle
  <2> QED
    BY <1>0, <2>1, <2>2, <2>3 DEF LocalCalm, Shown, NoKeys, Still
<1>4. CASE CoalesceLoop
  <2>1. PICK ok \in BOOLEAN : CoalesceTick(ok)
    BY <1>4 DEF CoalesceLoop, Arrives
  <2>2. LeftBehind = {} /\ buttons = {}
    BY <1>0, <2>1 DEF CoalesceTick
  <2>3. /\ shownButtons' = IF ok THEN buttons ELSE shownButtons
        /\ mouseStale' = ~ok /\ buttons' = buttons
        /\ UNCHANGED <<shownKbd, kbdStale>>
    BY <2>1 DEF CoalesceTick, FlushMouse, keyboard
  <2>4. overtaken' = overtaken
    BY <1>4 DEF CoalesceLoop
  <2>5. ~mouseStale' => shownButtons' = {}
    BY <2>2, <2>3
  <2> QED
    BY <1>0, <1>1, <2>2, <2>3, <2>4, <2>5 DEF LocalCalm, Shown, NoKeys, Still
<1> QED
  BY <1>2, <1>3, <1>4, SteadySteps

(* LocalCalm is inductive, whichever way KVM mode ends. *)
LEMMA LocalCalmKept ==
  ASSUME SessionAssumption, ReadersTypeOK, HistoryTypeOK, grabbed \in BOOLEAN,
         ReporterTypeOK, LocalCalm, [SessionNext]_sessionVars
  PROVE  LocalCalm' /\ HistoryTypeOK'
<1>1. CASE grabbed' # grabbed
  <2>1. /\ ResetReports \/ (grabbed /\ ClearState /\ Overtakes /\ UNCHANGED cutOff)
        /\ grabbed' \in BOOLEAN /\ UNCHANGED inflight
    BY <1>1, ModeSteps
  <2>2. Cleared /\ Overtakes
    BY <2>1 DEF ResetReports, Reset, ClearState
  <2>3. HistoryTypeOK'
    BY <2>2 DEF Overtakes, HistoryTypeOK
  <2>4. CASE grabbed = FALSE
    BY <1>1, <2>1, <2>3, <2>4 DEF LocalCalm
  <2>5. CASE grabbed = TRUE
    <3>1. /\ kbdDirty' = FALSE /\ mouseDirty' = FALSE /\ mouseBtn' = FALSE
          /\ buttons' = {} /\ motion' = Still
      BY <2>2 DEF Cleared
    <3>2. /\ ~kbdStale' => shownKbd' = NoKeys
          /\ ~mouseStale' => shownButtons' = {}
      BY <2>1 DEF ResetReports, Reset, ClearState
    <3>3. LeftBehind' = LeftBehind
      BY <2>1 DEF LeftBehind
    <3>4. ~overtaken' => \A d, e \in LeftBehind : d = e
      BY <2>2, <2>5, AtMostOne
    <3> QED
      BY <2>3, <3>1, <3>2, <3>3, <3>4 DEF LocalCalm, Still, NoKeys
  <2> QED  BY <2>4, <2>5
<1>2. CASE grabbed' = grabbed
  <2>1. overtaken' = overtaken
    BY <1>2, SteadySteps DEF Report, CoalesceLoop
  <2>3. HistoryTypeOK'
    BY <2>1 DEF HistoryTypeOK
  <2>4. CASE grabbed = FALSE /\ overtaken = FALSE
    BY <1>2, <2>3, <2>4, LocalStep
  <2>5. CASE ~(grabbed = FALSE /\ overtaken = FALSE)
    BY <1>2, <2>1, <2>3, <2>5 DEF LocalCalm, HistoryTypeOK
  <2> QED  BY <2>4, <2>5
<1> QED  BY <1>1, <1>2

-----------------------------------------------------------------------------
(* What becomes of a key between its device and the target. *)

InHand(d, ev) == ~Idle(d) /\ inflight[d].ev = ev

(* The keys and buttons that the Reporter takes for down. *)
InReports == mods \cup ToSet(keys) \cup buttons

(* A device answers for a key while it is down there, while its reader     *)
(* brings the release, and when it is gone and KVM mode about to end.      *)
Answers(d, x) == x \in held[d] \/ InHand(d, Key(x, "up")) \/ fd[d] = "dead"

(* A device is yet to end a frame, and with it to have the changes sent.   *)
EndsFrame(d) == synDue[d] \/ InHand(d, Syn) \/ fd[d] = "dead"

PressesHeld ==
    Running => \A d \in Dev, x \in Code :
                    InHand(d, Key(x, "down")) => x \in held[d] \/ fd[d] = "dead"

KeysAnsweredFor ==
    Running /\ grabbed =>
        /\ \A x \in InReports : \E d \in devs : Answers(d, x)
        /\ kbdDirty \/ mouseBtn => \E d \in devs : EndsFrame(d)

(* A process that has exited does not come back. *)
LEMMA NeverBack ==
  ASSUME Next \/ UNCHANGED vars, Running'
  PROVE  Running
BY DEF Next, Environment, Reader, Mqtt, Watcher, Supervisor, Main, Unplug,
       Plug, LinkChange, ReadToggle, HandleToggle, ReadFails, DeviceLost,
       SetGrab, ToggleGrab, WatchTick, WatchAlive, WatchRelease,
       SuperviseTick, SuperviseTrack, SuperviseDrop, Sigint, ShutdownRelease,
       Exit, vars, Running, threads

(* A tracked device stays what it is until its loss ends KVM mode. *)
LEMMA TrackedStay ==
  ASSUME IInv, Next \/ UNCHANGED vars, Running', NEW d \in devs
  PROVE  /\ Running
         /\ \/ d \in devs' /\ (fd[d] = "dead" => fd'[d] = "dead")
            \/ reader[d] = "failed" /\ grabbed' = FALSE
<1> USE DEF IInv, TypeOK, ProbesApart, OneReaderPerNode, Running, hardware, control,
            threads
<1>1. ASSUME NEW p \in Path, Unplug(p) \/ Plug(p)
      PROVE  Running /\ d \in devs' /\ (fd[d] = "dead" => fd'[d] = "dead")
  BY <1>1 DEF Unplug, Plug
<1>2. CASE LinkChange \/ WatchTick \/ WatchAlive \/ Sigint \/ Exit
  BY <1>2 DEF LinkChange, WatchTick, WatchAlive, Sigint, Exit
<1>3. ASSUME NEW e \in Dev, ReadToggle(e) \/ ReadFails(e) \/ HandleToggle(e)
      PROVE  Running /\ d \in devs' /\ (fd[d] = "dead" => fd'[d] = "dead")
  BY <1>3 DEF ReadToggle, ReadFails, HandleToggle
<1>4. ASSUME NEW e \in Dev, DeviceLost(e)
      PROVE  /\ Running
             /\ \/ d \in devs' /\ (fd[d] = "dead" => fd'[d] = "dead")
                \/ reader[d] = "failed" /\ grabbed' = FALSE
  BY <1>4 DEF DeviceLost, ReleaseLocked
<1>5. CASE Mqtt \/ WatchRelease \/ ShutdownRelease
  BY <1>5 DEF Mqtt, SetGrab, ToggleGrab, WatchRelease, ShutdownRelease
<1>6. CASE SuperviseTick
  <2>1. PICK ds \in Probes : fd' = [x \in Dev |-> IF x \in ds THEN "live" ELSE fd[x]]
    BY <1>6 DEF SuperviseTick
  <2>2. ds \subseteq Dev /\ \A x \in ds : fd[x] = "closed"
    BY DEF Probes
  <2> QED  BY <1>6, <2>1, <2>2 DEF SuperviseTick
<1>7. ASSUME NEW e \in Dev, SuperviseTrack(e) \/ SuperviseDrop(e)
      PROVE  Running /\ d \in devs' /\ (fd[d] = "dead" => fd'[d] = "dead")
  BY <1>7 DEF SuperviseTrack, SuperviseDrop
<1>8. CASE UNCHANGED vars
  BY <1>8 DEF vars
<1> QED
  BY <1>1, <1>2, <1>3, <1>4, <1>5, <1>6, <1>7, <1>8
     DEF Next, Environment, Reader, Watcher, Supervisor, Main

(* What a step may do to what one device has to say: a press is in hand    *)
(* only while the key is down, and in KVM mode a release and the end of a  *)
(* frame are kept until they are reported.                                 *)
KeepsWord(d) ==
    /\ \A x \in Code :
          InHand(d, Key(x, "down"))'
            => \/ x \in held'[d] \/ fd'[d] = "dead"
               \/ InHand(d, Key(x, "down")) /\ held'[d] = held[d]
    /\ grabbed /\ grabbed' =>
          /\ \A x \in Code :
                x \in held[d] \/ InHand(d, Key(x, "up"))
                  => Answers(d, x)' \/ (Report(d) /\ inflight[d].ev = Key(x, "up"))
          /\ synDue[d] \/ InHand(d, Syn)
               => EndsFrame(d)' \/ (Report(d) /\ inflight[d].ev = Syn)

(* A device that only goes, or begins a frame, keeps its word. *)
LEMMA WordKept ==
  ASSUME NEW d \in Dev, inflight'[d] = inflight[d], synDue'[d] = synDue[d] \/ synDue'[d],
         held'[d] = held[d] \/ fd'[d] = "dead"
  PROVE  KeepsWord(d)
BY DEF KeepsWord, InHand, Idle, Answers, EndsFrame

(* Another event is read when there is none in hand. *)
LEMMA WordRead ==
  ASSUME NEW d \in Dev, NEW ev, Idle(d), inflight'[d] = [stage |-> "check", ev |-> ev],
         synDue'[d] = (ev # Syn),
         \/ held'[d] = held[d] /\ \A x : ev # Key(x, "down")
         \/ \E k \in Code : ev = Key(k, "down") /\ held'[d] = held[d] \cup {k}
         \/ \E k \in Code : ev = Key(k, "up") /\ held'[d] = held[d] \ {k}
  PROVE  KeepsWord(d)
<1>1. inflight'[d].ev = ev /\ ~Idle(d)'
  <2>1. inflight'[d].stage = "check" /\ inflight'[d].ev = ev
    OBVIOUS
  <2> QED  BY <2>1 DEF Idle, NoEvent
<1>2. \A e : ~InHand(d, e)
  BY DEF InHand
<1>3. \A x, y : Key(x, "down") = Key(y, "down") => x = y
  BY EventFields
<1>4. \A x, y : Key(x, "down") # Key(y, "up")
  BY EventFields
<1>5. \A x \in Code : InHand(d, Key(x, "down"))' => x \in held'[d]
  BY <1>1, <1>3, <1>4 DEF InHand
<1>6. \A x \in Code : x \in held[d] => Answers(d, x)'
  BY <1>1 DEF InHand, Answers
<1>7. EndsFrame(d)'
  BY <1>1 DEF EndsFrame, InHand
<1> QED  BY <1>2, <1>5, <1>6, <1>7 DEF KeepsWord

(* No step breaks it. *)
LEMMA WordsKept ==
  ASSUME SessionAssumption, IInv, ReadersInv, [SessionNext]_sessionVars, NEW d \in Dev
  PROVE  KeepsWord(d)
<1> USE DEF ReadersInv, ReadersTypeOK
<1>0. KeysOf[d] \subseteq Code
  BY DEF SessionAssumption, Code
<1>1. ASSUME NEW e \in Dev, NEW ev \in Events, Reads(e, ev), held'[d] = held[d] \/ e = d,
             e = d => \/ held'[d] = held[d] /\ \A x : ev # Key(x, "down")
                      \/ \E k \in Code : ev = Key(k, "down") /\ held'[d] = held[d] \cup {k}
                      \/ \E k \in Code : ev = Key(k, "up") /\ held'[d] = held[d] \ {k}
      PROVE  KeepsWord(d)
  <2>1. /\ inflight' = [inflight EXCEPT ![e] = [stage |-> "check", ev |-> ev]]
        /\ synDue' = [synDue EXCEPT ![e] = ev # Syn] /\ Idle(e)
    BY <1>1, ReadsEffect
  <2>2. CASE e = d
    <3>1. inflight'[d] = [stage |-> "check", ev |-> ev] /\ synDue'[d] = (ev # Syn)
      BY <2>1, <2>2
    <3> QED  BY <1>1, <2>1, <2>2, <3>1, WordRead
  <2>3. CASE e # d
    <3>1. inflight'[d] = inflight[d] /\ synDue'[d] = synDue[d] /\ held'[d] = held[d]
      BY <1>1, <2>1, <2>3
    <3> QED  BY <3>1, WordKept
  <2> QED  BY <2>2, <2>3
<1>2. ASSUME NEW e \in Dev, NEW k \in KeysOf[e], ReadPress(e, k)
      PROVE  KeepsWord(d)
  <2>1. k \in Code /\ Key(k, "down") \in Events
    BY DEF SessionAssumption, Code, Events
  <2>2. Reads(e, Key(k, "down")) /\ held' = [held EXCEPT ![e] = held[e] \cup {k}]
    BY <1>2 DEF ReadPress
  <2>3. held'[d] = IF d = e THEN held[d] \cup {k} ELSE held[d]
    BY <2>2
  <2> QED  BY <1>1, <2>1, <2>2, <2>3
<1>3. ASSUME NEW e \in Dev, NEW k \in KeysOf[e], ReadRelease(e, k)
      PROVE  KeepsWord(d)
  <2>1. k \in Code /\ Key(k, "up") \in Events
    BY DEF SessionAssumption, Code, Events
  <2>2. Reads(e, Key(k, "up")) /\ held' = [held EXCEPT ![e] = held[e] \ {k}]
    BY <1>3 DEF ReadRelease
  <2>3. held'[d] = IF d = e THEN held[d] \ {k} ELSE held[d]
    BY <2>2
  <2> QED  BY <1>1, <2>1, <2>2, <2>3
<1>4. ASSUME NEW e \in Dev, NEW a \in RelCode, NEW step \in Steps, ReadRel(e, a, step)
      PROVE  KeepsWord(d)
  <2>1. Rel(a, step) \in Events /\ \A x : Rel(a, step) # Key(x, "down")
    BY EventFields DEF Events
  <2> QED  BY <1>1, <1>4, <2>1 DEF ReadRel
<1>5. ASSUME NEW e \in Dev, ReadSyn(e)
      PROVE  KeepsWord(d)
  <2>1. Syn \in Events /\ \A x : Syn # Key(x, "down")
    BY EventFields DEF Events
  <2> QED  BY <1>1, <1>5, <2>1 DEF ReadSyn
<1>6. ASSUME NEW e \in Dev, CheckGrabbed(e)
      PROVE  KeepsWord(d)
  <2>1. /\ inflight[e].stage = "check" /\ UNCHANGED <<grabbed, synDue, held>>
        /\ inflight' = [inflight EXCEPT ![e] = IF grabbed
                          THEN [inflight[e] EXCEPT !.stage = "report"] ELSE NoEvent]
    BY <1>6 DEF CheckGrabbed, vars
  <2>2. CASE e # d
    <3>1. inflight'[d] = inflight[d]
      BY <2>1, <2>2
    <3> QED  BY <2>1, <3>1, WordKept
  <2>3. CASE e = d /\ grabbed
    <3>1. PICK st \in {"check", "report"}, v \in Events :
             inflight[d] = [stage |-> st, ev |-> v]
      <4>1. inflight[d] # NoEvent /\ inflight[d] \in InFlight
        BY <2>1, <2>3, InHandFields
      <4> QED  BY <4>1 DEF InFlight
    <3>2. inflight'[d] = [stage |-> "report", ev |-> v]
      BY <2>1, <2>3, <3>1
    <3>3. inflight'[d].ev = v /\ inflight[d].ev = v /\ inflight'[d].stage = "report"
          /\ inflight[d].stage = "check"
      BY <2>1, <2>3, <3>1, <3>2
    <3>4. ~Idle(d) /\ ~Idle(d)'
      BY <3>3 DEF Idle, NoEvent
    <3>5. \A x : InHand(d, x)' <=> InHand(d, x)
      BY <3>3, <3>4 DEF InHand
    <3> QED  BY <2>1, <3>5 DEF KeepsWord, Answers, EndsFrame
  <2>4. CASE e = d /\ ~grabbed
    <3>1. Idle(d)'
      BY <2>1, <2>4 DEF Idle
    <3> QED  BY <2>4, <3>1 DEF KeepsWord, InHand
  <2> QED  BY <2>2, <2>3, <2>4
<1>7. ASSUME NEW e \in Dev, Report(e)
      PROVE  KeepsWord(d)
  <2>1. /\ inflight' = [inflight EXCEPT ![e] = NoEvent] /\ UNCHANGED <<synDue, held>>
    BY <1>7 DEF Report
  <2>2. CASE e # d
    <3>1. inflight'[d] = inflight[d]
      BY <2>1, <2>2
    <3> QED  BY <2>1, <3>1, WordKept
  <2>3. CASE e = d
    <3>1. Idle(d)'
      BY <2>1, <2>3 DEF Idle
    <3> QED  BY <1>7, <2>1, <2>3, <3>1 DEF KeepsWord, InHand, Answers, EndsFrame
  <2> QED  BY <2>2, <2>3
<1>8. ASSUME NEW e \in Dev, ReadsToggle(e)
      PROVE  KeepsWord(d)
  <2>1. synDue' = [synDue EXCEPT ![e] = TRUE] /\ UNCHANGED <<inflight, held>>
    BY <1>8 DEF ReadsToggle
  <2>2. synDue'[d] = synDue[d] \/ synDue'[d]
    BY <2>1
  <2> QED  BY <2>1, <2>2, WordKept
<1>9. ASSUME NEW e \in Dev, LosesDevice(e)
      PROVE  KeepsWord(d)
  <2>1. grabbed' = FALSE /\ UNCHANGED <<inflight, held>>
    BY <1>9 DEF LosesDevice, DeviceLost, ReleaseLocked
  <2> QED  BY <2>1 DEF KeepsWord, InHand, Idle
<1>10. ASSUME NEW p \in Path, Unplugs(p)
       PROVE  KeepsWord(d)
  <2>1. UNCHANGED <<inflight, synDue>>
        /\ held' = [x \in Dev |-> IF fd'[x] = "dead" THEN {} ELSE held[x]]
    BY <1>10 DEF Unplugs
  <2>2. held'[d] = held[d] \/ fd'[d] = "dead"
    BY <2>1
  <2> QED  BY <2>1, <2>2, WordKept
<1>11. CASE UNCHANGED readers
  BY <1>11, WordKept DEF readers
<1> QED
  BY <1>2, <1>3, <1>4, <1>5, <1>6, <1>7, <1>8, <1>9, <1>10, <1>11
     DEF SessionNext, ReaderStep, MqttAsks, WatchReleases, ShutdownReleases,
         LinkChanges, Quietly, CoalesceLoop, HandlesToggle, ReaderFails, sessionVars

(* What an event does to the keys in the reports.  The tables that Handle  *)
(* looks a code up in have none in common, so a release takes the key out  *)
(* of all of them.                                                         *)
LEMMA Handled ==
  ASSUME SessionAssumption, ReporterInv, NEW e \in Events, Handle(e)
  PROVE  /\ \A x \in Code : e = Key(x, "up") => InReports' \subseteq InReports \ {x}
         /\ \A x \in InReports' \ InReports : e = Key(x, "down")
         /\ e = Syn => kbdDirty' = FALSE /\ mouseBtn' = FALSE
         /\ kbdDirty' \/ mouseBtn' => kbdDirty \/ mouseBtn \/ e.type = "key"
<1>0. /\ mods \subseteq Mod /\ keys \in Seq(Usage) /\ buttons \subseteq Button
      /\ kbdDirty \in BOOLEAN /\ mouseBtn \in BOOLEAN /\ Distinct(keys)
      /\ ToSet(keys) \subseteq Usage /\ (mouseBtn => mouseDirty)
  BY DEF ReporterInv, ReporterTypeOK, KeysListed, ClicksDirty
<1>1. CASE e.type = "key"
  <2>1. PICK x \in Code, v \in {"down", "up"} : e = Key(x, v)
    BY <1>1, EventFields DEF Events
  <2>2. e.code = x /\ e.value = v
    BY <2>1, EventFields
  <2>3. e # Syn /\ \A y \in Code : \A w : e = Key(y, w) <=> (y = x /\ w = v)
    BY <2>1, <2>2, EventFields
  <2>4. \/ x \in Button /\ HandleButton(x, v)
        \/ x \in Mod    /\ HandleMod(x, v)
        \/ x \in Usage  /\ HandleKey(x, v)
    BY <1>1, <2>2, EventFields DEF Handle
  <2>5. /\ v = "up" => InReports' \subseteq InReports \ {x}
        /\ InReports' \subseteq InReports \cup (IF v = "down" THEN {x} ELSE {})
    <3>1. CASE x \in Button /\ HandleButton(x, v)
      <4>1. buttons' = Pressed(buttons, x, v) /\ UNCHANGED <<mods, keys>>
        BY <3>1 DEF HandleButton, keyboard
      <4>2. ToSet(keys)' = ToSet(keys)
        BY <4>1 DEF ToSet
      <4>3. x \notin mods /\ x \notin ToSet(keys)
        BY <1>0, <3>1 DEF SessionAssumption
      <4> QED  BY <4>1, <4>2, <4>3 DEF InReports, Pressed
    <3>2. CASE x \in Mod /\ HandleMod(x, v)
      <4>1. mods' = Pressed(mods, x, v) /\ UNCHANGED <<buttons, keys>>
        BY <3>2 DEF HandleMod, mouse
      <4>2. ToSet(keys)' = ToSet(keys)
        BY <4>1 DEF ToSet
      <4>3. x \notin buttons /\ x \notin ToSet(keys)
        BY <1>0, <3>2 DEF SessionAssumption
      <4> QED  BY <4>1, <4>2, <4>3 DEF InReports, Pressed
    <3>3. CASE x \in Usage /\ HandleKey(x, v)
      <4>1. keys' = (IF v = "down" THEN AddKey(x) ELSE RemoveKey(x))
            /\ UNCHANGED <<buttons, mods>>
        BY <3>3 DEF HandleKey, mouse
      <4>2. ToSet(keys') = IF v = "down" THEN ToSet(keys) \cup {x}
                                           ELSE ToSet(keys) \ {x}
        <5>1. CASE v = "down" /\ x \in ToSet(keys)
          BY <4>1, <5>1 DEF AddKey
        <5>2. CASE v = "down" /\ x \notin ToSet(keys)
          BY <1>0, <3>3, <4>1, <5>2, AddedKey DEF AddKey
        <5>3. CASE v = "up"
          <6>1. keys' = RemoveFirst(keys, x)
            BY <4>1, <5>3 DEF RemoveKey
          <6> QED  BY <1>0, <5>3, <6>1, RemovedKey
        <5> QED  BY <5>1, <5>2, <5>3
      <4>3. ToSet(keys)' = ToSet(keys')
        BY DEF ToSet
      <4>4. x \notin buttons /\ x \notin mods
        BY <1>0, <3>3 DEF SessionAssumption
      <4> QED  BY <4>1, <4>2, <4>3, <4>4 DEF InReports
    <3> QED  BY <2>4, <3>1, <3>2, <3>3
  <2> QED  BY <1>1, <2>1, <2>3, <2>5
<1>2. CASE e.type = "rel"
  <2>1. UNCHANGED <<mods, keys, kbdDirty, buttons, mouseBtn>>
    BY <1>2, EventFields DEF Handle, HandleRel, HandleRelOther, keyboard
  <2>2. InReports' = InReports
    BY <2>1 DEF InReports, ToSet
  <2>3. e # Syn /\ \A x, v : e # Key(x, v)
    BY <1>2, EventFields
  <2> QED  BY <2>1, <2>2, <2>3
<1>3. CASE e.type = "syn"
  <2>1. PICK kbdOk \in BOOLEAN, mouseOk \in BOOLEAN : HandleSyn(kbdOk, mouseOk)
    BY <1>3, EventFields DEF Handle, Arrives
  <2>2. UNCHANGED <<mods, keys, buttons>>
    BY <2>1 DEF HandleSyn, FlushKeyboard, FlushMouse, keyboard, mouse
  <2>3. InReports' = InReports
    BY <2>2 DEF InReports, ToSet
  <2>4. kbdDirty' = FALSE /\ mouseBtn' = FALSE
    BY <1>0, <2>1 DEF HandleSyn, FlushKeyboard, FlushMouse, keyboard, mouse
  <2>5. \A x, v : e # Key(x, v)
    BY <1>3, EventFields
  <2> QED  BY <2>3, <2>4, <2>5
<1> QED  BY <1>1, <1>2, <1>3 DEF Handle

(* No press is in hand but of a key that is down. *)
LEMMA PressesKept ==
  ASSUME SessionAssumption, IInv, ReadersInv, PressesHeld, [SessionNext]_sessionVars
  PROVE  PressesHeld'
<1> SUFFICES ASSUME Running', NEW d \in Dev, NEW x \in Code, InHand(d, Key(x, "down"))'
             PROVE  x \in held'[d] \/ fd'[d] = "dead"
  BY DEF PressesHeld
<1>1. \/ x \in held'[d] \/ fd'[d] = "dead"
      \/ InHand(d, Key(x, "down")) /\ held'[d] = held[d]
  BY WordsKept DEF KeepsWord
<1>2. ASSUME InHand(d, Key(x, "down")), held'[d] = held[d]
      PROVE  x \in held'[d] \/ fd'[d] = "dead"
  <2>1. reader[d] = "reading" /\ d \in devs
    BY <1>2 DEF InHand, ReadersInv, HandsFull, IInv, ProbesApart, OneReaderPerNode
  <2>2. Running /\ (fd[d] = "dead" => fd'[d] = "dead")
    BY <2>1, StepOfController, TrackedStay
  <2>3. x \in held[d] \/ fd[d] = "dead"
    BY <1>2, <2>2 DEF PressesHeld
  <2> QED  BY <1>2, <2>2, <2>3
<1> QED  BY <1>1, <1>2

(* While KVM mode lasts there is a device to answer for every key in the   *)
(* reports, and one to end the frame of every change.                      *)
LEMMA AnswersKept ==
  ASSUME SessionAssumption, IInv, ReadersInv, ReporterInv, PressesHeld,
         KeysAnsweredFor, [SessionNext]_sessionVars
  PROVE  KeysAnsweredFor'
<1> SUFFICES ASSUME Running', grabbed' = TRUE
             PROVE  /\ \A x \in InReports' : \E d \in devs' : Answers(d, x)'
                    /\ kbdDirty' \/ mouseBtn' => \E d \in devs' : EndsFrame(d)'
  <2>1. grabbed' \in BOOLEAN
    BY StepOfController, NextIInv DEF IInv, TypeOK
  <2> QED  BY <2>1 DEF KeysAnsweredFor
<1>1. CASE grabbed = FALSE
  <2>1. Cleared
    BY <1>1, ModeSteps DEF IInv, TypeOK, ResetReports, Reset
  <2>2. /\ mods' = {} /\ keys' = <<>> /\ buttons' = {}
        /\ kbdDirty' = FALSE /\ mouseBtn' = FALSE
    BY <2>1 DEF Cleared
  <2>3. InReports' = {}
    BY <2>2 DEF InReports, ToSet
  <2> QED  BY <2>2, <2>3
<1>2. CASE grabbed = TRUE
  <2>1. \A d \in devs : d \in devs' /\ (fd[d] = "dead" => fd'[d] = "dead")
    BY StepOfController, TrackedStay
  <2>2. Running
    BY StepOfController, NeverBack
  <2>3. devs \subseteq Dev /\ \A d \in devs : KeepsWord(d)
    BY WordsKept DEF IInv, TypeOK
  <2>4. /\ \A x \in InReports : \E d \in devs : Answers(d, x)
        /\ kbdDirty \/ mouseBtn => \E d \in devs : EndsFrame(d)
    BY <1>2, <2>2 DEF KeysAnsweredFor
  <2>5. InReports \subseteq Code
    BY DEF ReporterInv, KeysListed, ReporterTypeOK, InReports, Code
  <2>6. ASSUME NEW x \in InReports, NEW d \in devs, Answers(d, x),
               ~(Report(d) /\ inflight[d].ev = Key(x, "up"))
        PROVE  \E b \in devs' : Answers(b, x)'
    <3>1. Answers(d, x)'
      <4>1. CASE fd[d] = "dead"
        BY <2>1, <4>1 DEF Answers
      <4>2. CASE fd[d] # "dead"
        BY <1>2, <2>3, <2>5, <2>6, <4>2 DEF Answers, KeepsWord
      <4> QED  BY <4>1, <4>2
    <3> QED  BY <2>1, <3>1
  <2>7. ASSUME NEW d \in devs, EndsFrame(d), ~(Report(d) /\ inflight[d].ev = Syn)
        PROVE  \E b \in devs' : EndsFrame(b)'
    <3>1. EndsFrame(d)'
      <4>1. CASE fd[d] = "dead"
        BY <2>1, <4>1 DEF EndsFrame
      <4>2. CASE fd[d] # "dead"
        BY <1>2, <2>3, <2>7, <4>2 DEF EndsFrame, KeepsWord
      <4> QED  BY <4>1, <4>2
    <3> QED  BY <2>1, <3>1
  <2>8. ASSUME NEW d \in Dev, Report(d)
        PROVE  /\ \A x \in InReports' : \E b \in devs' : Answers(b, x)'
               /\ kbdDirty' \/ mouseBtn' => \E b \in devs' : EndsFrame(b)'
    <3> DEFINE e == inflight[d].ev
    <3>1. ~Idle(d) /\ e \in Events
      BY <2>8, InHandFields DEF Report, Idle, ReadersInv
    <3>2. d \in devs /\ (e # Syn => synDue[d])
      BY <3>1 DEF ReadersInv, HandsFull, IInv, ProbesApart, OneReaderPerNode
    <3>3. /\ inflight' = [inflight EXCEPT ![d] = NoEvent]
          /\ UNCHANGED <<devs, synDue, held, fd>>
      BY <2>8 DEF Report, vars
    <3>4. \A b \in devs : Report(b) => b = d
      <4>1. \A b \in Dev : Report(b) => inflight'[b] = NoEvent /\ inflight[b] # NoEvent
        BY InHandFields DEF Report, ReadersInv, ReadersTypeOK
      <4>2. \A b \in Dev \ {d} : inflight'[b] = inflight[b]
        BY <3>3
      <4> QED  BY <2>3, <4>1, <4>2
    <3> HIDE DEF e
    <3>5. /\ \A x \in Code : e = Key(x, "up") => InReports' \subseteq InReports \ {x}
          /\ \A x \in InReports' \ InReports : e = Key(x, "down")
          /\ e = Syn => kbdDirty' = FALSE /\ mouseBtn' = FALSE
          /\ kbdDirty' \/ mouseBtn' => kbdDirty \/ mouseBtn \/ e.type = "key"
      <4>1. Handle(e)
        BY <2>8 DEF Report, e
      <4> QED  BY <3>1, <4>1, Handled
    <3>6. ASSUME NEW x \in InReports'
          PROVE  \E b \in devs' : Answers(b, x)'
      <4>1. CASE x \in InReports
        <5>1. e # Key(x, "up")
          BY <2>5, <3>5, <4>1
        <5>2. PICK b \in devs : Answers(b, x)
          BY <2>4, <4>1
        <5>3. ~(Report(b) /\ inflight[b].ev = Key(x, "up"))
          BY <3>4, <5>1 DEF e
        <5> QED  BY <2>6, <4>1, <5>2, <5>3
      <4>2. CASE x \notin InReports
        <5>1. e = Key(x, "down")
          BY <3>5, <4>2
        <5>2. x \in Code
          BY <3>1, <5>1, EventFields DEF Events
        <5>3. x \in held[d] \/ fd[d] = "dead"
          BY <2>2, <3>1, <5>1, <5>2 DEF PressesHeld, InHand, e
        <5> QED  BY <3>2, <3>3, <5>3 DEF Answers
      <4> QED  BY <4>1, <4>2
    <3>7. ASSUME kbdDirty' \/ mouseBtn'
          PROVE  \E b \in devs' : EndsFrame(b)'
      <4>1. e # Syn
        BY <3>5, <3>7
      <4>2. synDue'[d]
        BY <3>2, <3>3, <4>1
      <4> QED  BY <3>2, <3>3, <4>2 DEF EndsFrame
    <3> QED  BY <3>6, <3>7
  <2>9. ASSUME \A d \in Dev : ~Report(d)
        PROVE  /\ \A x \in InReports' : \E b \in devs' : Answers(b, x)'
               /\ kbdDirty' \/ mouseBtn' => \E b \in devs' : EndsFrame(b)'
    <3>1. UNCHANGED <<mods, keys, buttons, kbdDirty>> /\ (mouseBtn' => mouseBtn)
      <4>1. UNCHANGED reporterVars \/ CoalesceLoop
        BY <1>2, <2>9, SteadySteps
      <4>2. ASSUME CoalesceLoop
            PROVE  UNCHANGED <<mods, keys, buttons, kbdDirty>> /\ (mouseBtn' => mouseBtn)
        BY <4>2 DEF CoalesceLoop, CoalesceTick, FlushMouse, keyboard
      <4> QED  BY <4>1, <4>2 DEF reporterVars, keyboard, mouse
    <3>2. InReports' = InReports
      BY <3>1 DEF InReports, ToSet
    <3>3. ASSUME NEW x \in InReports
          PROVE  \E b \in devs' : Answers(b, x)'
      <4>1. PICK d \in devs : Answers(d, x)
        BY <2>4
      <4> QED  BY <2>3, <2>6, <2>9, <4>1
    <3>4. ASSUME kbdDirty \/ mouseBtn
          PROVE  \E b \in devs' : EndsFrame(b)'
      <4>1. PICK d \in devs : EndsFrame(d)
        BY <2>4, <3>4
      <4> QED  BY <2>3, <2>7, <2>9, <4>1
    <3> QED  BY <3>1, <3>2, <3>3, <3>4
  <2> QED  BY <2>8, <2>9
<1> QED  BY <1>1, <1>2 DEF IInv, TypeOK

-----------------------------------------------------------------------------
(* The inductive invariant of the daemon and what follows from it. *)

SessionInv == /\ IInv /\ ReadersInv /\ ReporterInv
              /\ HistoryTypeOK /\ LocalCalm
              /\ PressesHeld /\ KeysAnsweredFor

(* It holds at the start, every step keeps it, and so it always holds. *)
LEMMA SessionStarts ==
  ASSUME SessionAssumption, SessionInit
  PROVE  SessionInv
<1>1. IInv
  BY InitIInv DEF SessionInit
<1>2. ReadersInv /\ \A d \in Dev : Idle(d)
  <2>1. inflight = [d \in Dev |-> NoEvent] /\ synDue = [d \in Dev |-> FALSE]
        /\ held = [d \in Dev |-> {}]
    BY DEF SessionInit
  <2> QED  BY <2>1 DEF ReadersInv, ReadersTypeOK, HandsFull, Idle, InFlight
<1>3. ReporterInv
  BY ReporterAssumption, ReporterStarts DEF SessionInit
<1>4. HistoryTypeOK
  BY DEF SessionInit, HistoryTypeOK
<1>5. LocalCalm
  <2>1. LeftBehind = {}
    BY DEF SessionInit, LeftBehind, NoEvent
  <2> QED  BY <2>1 DEF SessionInit, ReporterInit, LocalCalm
<1>6. PressesHeld
  BY <1>2 DEF PressesHeld, InHand
<1>7. KeysAnsweredFor
  BY DEF SessionInit, Init, KeysAnsweredFor
<1> QED  BY <1>1, <1>2, <1>3, <1>4, <1>5, <1>6, <1>7 DEF SessionInv

(* The parts lean on one another only as they were before the step. *)
LEMMA SessionKept ==
  ASSUME SessionAssumption, SessionInv, [SessionNext]_sessionVars
  PROVE  SessionInv'
<1> USE DEF SessionInv
<1>1. IInv'
  BY StepOfController, NextIInv
<1>2. ReadersInv'
  BY ReadersStep
<1>3. ReporterInv'
  BY ReporterAssumption, StepOfReporter, ReporterInvKept DEF ReadersInv
<1>4. LocalCalm' /\ HistoryTypeOK'
  BY LocalCalmKept DEF ReadersInv, ReporterInv, IInv, TypeOK
<1>5. PressesHeld'
  BY PressesKept
<1>6. KeysAnsweredFor'
  BY AnswersKept
<1> QED  BY <1>1, <1>2, <1>3, <1>4, <1>5, <1>6

(* SessionInv is inductive. *)
LEMMA SessionInvariance == SessionSpec => []SessionInv
<1>1. SessionInit => SessionInv
  BY SessionAssumption, SessionStarts
<1>2. SessionInv /\ [SessionNext]_sessionVars => SessionInv'
  BY SessionAssumption, SessionKept
<1> QED  BY <1>1, <1>2, PTL DEF SessionSpec

(* Within the daemon the grab controller does what Kvm says: readers with  *)
(* events in hand, ticker and Reporter add no step to it.                  *)
THEOREM ControllerRuns == SessionSpec => Spec
<1>1. SessionInit => Init
  BY DEF SessionInit
<1>2. [SessionNext]_sessionVars => [Next]_vars
  BY StepOfController
<1> QED  BY <1>1, <1>2, PTL DEF SessionSpec, Spec

(* So in the daemon, too, nothing is withheld in LOCAL mode, every tracked *)
(* device has its one reader, and no file is left open (applyGrab,         *)
(* trackIfNew, deviceLost).                                                *)
THEOREM DaemonControls ==
  SessionSpec => [](NoLeftoverGrab /\ OneReaderPerNode /\ NoFdLeak)
BY ControllerRuns, LocalMeansFree, OneReader, NoLeak, PTL

(* KVM mode takes every tracked device or none, and keeps what it took, in *)
(* the daemon as a whole (applyGrab, deviceLost).                          *)
THEOREM DaemonHolds == SessionSpec => AllOrNothing /\ HoldsUntilRelease
BY ControllerRuns, NeverHalfGrab, HeldUntilReleased, PTL

(* And the user of the daemon is promised what InputOwnership says: input  *)
(* belongs to the local session or to the target, all of it.               *)
THEOREM DaemonOwns == SessionSpec => ImplementsOwnership
BY ControllerRuns, Implements, PTL

(* Within the daemon the Reporter does what Reporter says, however readers *)
(* and controller call it: each of its theorems above is true of the       *)
(* daemon.                                                                 *)
THEOREM ReporterRuns == SessionSpec => ReporterSpec
<1>1. SessionInit => ReporterInit
  BY DEF SessionInit
<1>2. SessionInv /\ [SessionNext]_sessionVars => [ReporterNext]_reporterVars
  BY StepOfReporter DEF SessionInv, ReadersInv
<1> QED  BY <1>1, <1>2, SessionInvariance, PTL DEF SessionSpec, ReporterSpec

(* So the target of the daemon shows what is down, and gets all motion,    *)
(* under every interleaving of readers, ticker and controller.             *)
THEOREM DaemonReports ==
  SessionSpec => [](TargetShowsKeys /\ TargetShowsButtons /\ MotionLossless)
BY ReporterRuns, KeysShown, ButtonsShown, NoMotionLost, PTL

(* When KVM mode ends, or the process starts, nothing stays pressed on the *)
(* target, but for reports that were lost or not sent by design and for    *)
(* the race of two readers.                                                *)
THEOREM ReleasedNeutral == SessionSpec => []ReleasedMeansNeutral
<1>1. SessionInv => ReleasedMeansNeutral
  BY DEF SessionInv, LocalCalm, ReleasedMeansNeutral, Neutral
<1> QED  BY <1>1, SessionInvariance, PTL

(* What is typed in LOCAL mode stays local, for any number of devices:     *)
(* the reader that was past isGrabbed when KVM mode ended can at most leave *)
(* a change that no frame and no tick sends.                               *)
THEOREM LocalIsLocal == SessionSpec => LocalStaysLocal
<1>1. SessionInv /\ [SessionNext]_sessionVars
        => [~grabbed /\ ~grabbed' /\ ~overtaken => Shown' \subseteq Shown]_sessionVars
  <2> SUFFICES ASSUME SessionInv, [SessionNext]_sessionVars, ~grabbed, ~grabbed', ~overtaken
               PROVE  Shown' \subseteq Shown
    OBVIOUS
  <2>1. grabbed = FALSE /\ overtaken = FALSE /\ grabbed' \in BOOLEAN
    BY StepOfController, NextIInv
       DEF SessionInv, IInv, TypeOK, HistoryTypeOK
  <2> QED  BY <2>1, LocalStep DEF SessionInv, ReadersInv
<1> QED  BY <1>1, SessionInvariance, PTL DEF SessionSpec, LocalStaysLocal

(* While KVM mode lasts and the readers have caught up, the target shows   *)
(* no key and no button that is not down on a device: the Reporter has     *)
(* none that a device does not answer for, and no change is left to send.  *)
THEOREM NoKeyStuck == SessionSpec => []NoStuckKeys
<1>1. SessionInv => NoStuckKeys
  <2> SUFFICES ASSUME SessionInv, grabbed, Running, CaughtUp, ~kbdStale, ~mouseStale
               PROVE  Shown \subseteq Down \cup {Rollover}
    BY DEF NoStuckKeys
  <2>1. devs \subseteq Dev
    BY DEF SessionInv, IInv, TypeOK
  <2>2. \A d \in devs : ~EndsFrame(d) /\ \A x : Answers(d, x) => x \in held[d]
    BY <2>1 DEF CaughtUp, EndsFrame, Answers, InHand
  <2>3. kbdDirty = FALSE /\ mouseBtn = FALSE
    BY <2>2 DEF SessionInv, KeysAnsweredFor, ReporterInv, ReporterTypeOK
  <2>4. InReports \subseteq Down
    BY <2>2 DEF SessionInv, KeysAnsweredFor, Down
  <2>5. shownKbd = KeyboardReport /\ shownButtons = buttons
    BY <2>3 DEF SessionInv, ReporterInv, KbdShown, TargetShowsButtons
  <2>6. shownKbd.mods = mods /\ shownKbd.slots \subseteq ToSet(keys) \cup {Rollover}
    BY <2>5 DEF KeyboardReport
  <2> QED  BY <2>4, <2>5, <2>6 DEF Shown, InReports
<1> QED  BY <1>1, SessionInvariance, PTL
=============================================================================
