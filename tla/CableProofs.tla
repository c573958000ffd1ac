------------------------------ MODULE CableProofs ------------------------------
(***************************************************************************)
(* The cable, for any number of transports, of kinds of report and of      *)
(* keys, any buffer and any width of the counters.                         *)
(*                                                                         *)
(* None of the properties is inductive by itself.  Those of the serial     *)
(* sink need what it holds open at each stage of a call; those of          *)
(* send_report need hid_mtx to have one holder, and what the target will   *)
(* show once it has read what is on its way.  TargetShowsLast is about a   *)
(* moment when nothing is under way; Newest says the same of the newest    *)
(* report of a kind wherever it is.                                        *)
(***************************************************************************)
EXTENDS Cable, TLAPS, SequenceTheorems, FiniteSetTheorems

-----------------------------------------------------------------------------
(* The serial sink. *)

(* What the sink holds open at each stage of a call. *)
Stages ==
    /\ call = "idle"      => port = "none" /\ report = NoReport
    /\ call = "open"      => port = "none" /\ file = "none"
    /\ call = "configure" => port # "none" /\ file = "none"
    /\ call = "write"     => port = "none" /\ file # "none" /\ report # NoReport
    /\ ~running           => call = "idle" /\ file = "none"

(* A dead file has not cost a report yet. *)
DeadIsNews ==
    node = "here" =>
        failures <= 1 /\ (file = "dead" \/ port = "dead" => failures = 0)

SerialTypeOK ==
    /\ node \in {"here", "elsewhere", "away"}
    /\ file \in {"none", "good", "dead"} /\ port \in {"none", "good", "dead"}
    /\ call \in {"idle", "open", "configure", "write"}
    /\ report \in P!Report \cup {NoReport}
    /\ running \in BOOLEAN /\ failures \in 0 .. 2

SerialInv == SerialTypeOK /\ Stages /\ NoPortLeak /\ DeadIsNews

SerialStep ==
    \/ \E r \in P!Report : D!WriteStart(r)
    \/ D!Start \/ D!Open \/ D!Configure
    \/ D!OpenFails \/ D!ConfigureFails \/ D!WriteError \/ D!WriteOk
    \/ D!Exit \/ D!Unplug \/ D!Plug

(* A call that fails is over, and costs a report if the port is here. *)
LEMMA FailsKeeps ==
  ASSUME D!Fails, report \in P!Report \cup {NoReport}, failures \in 0 .. 2
  PROVE  /\ call' = "idle" /\ report' = NoReport
         /\ running' \in BOOLEAN /\ failures' \in 0 .. 2
         /\ report # NoReport => running'
         /\ D!Alive /\ failures = 0 => failures' = 1
         /\ ~D!Alive => failures' = failures
<1>1. running' \in BOOLEAN /\ (report # NoReport => running')
  BY Zenon DEF D!Fails
<1>2. failures' \in 0 .. 2 /\ (D!Alive /\ failures = 0 => failures' = 1)
                          /\ (~D!Alive => failures' = failures)
  <2>1. failures' = IF D!Alive /\ failures < 2 THEN failures + 1 ELSE failures
    BY Zenon DEF D!Fails
  <2>2. CASE D!Alive
    BY <2>1, <2>2
  <2>3. CASE ~D!Alive
    BY <2>1, <2>3
  <2> QED  BY <2>2, <2>3
<1> QED  BY <1>1, <1>2 DEF D!Fails

(* Every system call, and every end of the port, keeps them. *)
LEMMA SerialStepKeeps ==
  ASSUME SerialInv, SerialStep \/ UNCHANGED serialVars
  PROVE  SerialInv'
<1> USE DEF SerialInv, NoPortLeak, D!NoPortLeak, D!calls
<1>1. CASE \E r \in P!Report : D!WriteStart(r)
  BY <1>1, CableAssumption
     DEF CableAssumption, D!WriteStart, SerialTypeOK, Stages, DeadIsNews
<1>2. CASE D!Start
  BY <1>2 DEF D!Start, SerialTypeOK, Stages, DeadIsNews
<1>3. CASE D!Open
  <2> USE DEF D!Open
  <2>1. SerialTypeOK' /\ NoPortLeak'
    BY <1>3 DEF SerialTypeOK, Stages
  <2>2. Stages' /\ DeadIsNews'
    BY <1>3 DEF SerialTypeOK, Stages, DeadIsNews
  <2> QED  BY <2>1, <2>2
<1>4. CASE D!Configure
  <2> USE DEF D!Configure
  <2>1. SerialTypeOK' /\ NoPortLeak'
    BY <1>4 DEF SerialTypeOK, Stages
  <2>2. Stages' /\ DeadIsNews'
    BY <1>4 DEF SerialTypeOK, Stages, DeadIsNews
  <2> QED  BY <2>1, <2>2
<1>5. CASE D!WriteOk
  BY <1>5 DEF D!WriteOk, SerialTypeOK, Stages, DeadIsNews
<1>6. CASE D!OpenFails
  BY <1>6, FailsKeeps DEF D!OpenFails, SerialTypeOK, Stages, DeadIsNews, D!Alive
<1>7. CASE D!ConfigureFails
  BY <1>7, FailsKeeps DEF D!ConfigureFails, SerialTypeOK, Stages, DeadIsNews, D!Alive
<1>8. CASE D!WriteError
  BY <1>8, FailsKeeps DEF D!WriteError, SerialTypeOK, Stages, DeadIsNews, D!Alive
<1>9. CASE D!Exit
  <2> USE DEF D!Exit
  <2>1. SerialTypeOK' /\ Stages'
    BY <1>9 DEF SerialTypeOK, Stages
  <2>2. NoPortLeak'
    BY <1>9
  <2>3. DeadIsNews'
    BY <1>9 DEF DeadIsNews
  <2> QED  BY <2>1, <2>2, <2>3
<1>10. CASE D!Unplug
  BY <1>10 DEF D!Unplug, D!Gone, SerialTypeOK, Stages, DeadIsNews
<1>11. CASE D!Plug
  BY <1>11 DEF D!Plug, SerialTypeOK, Stages, DeadIsNews
<1>12. CASE UNCHANGED serialVars
  BY <1>12 DEF serialVars, SerialTypeOK, Stages, DeadIsNews
<1> QED
  BY <1>1, <1>2, <1>3, <1>4, <1>9, <1>10, <1>11, <1>12, <1>5,
     <1>6, <1>7, <1>8 DEF SerialStep

-----------------------------------------------------------------------------
(* The send path. *)

SendTypeOK ==
    /\ task \in [Task -> {"idle", "lock", "wake", "ready"}]
    /\ calling \in [Task -> P!Report \cup {NoReport}]
    /\ mtx \in Task \cup {P!Nobody}
    /\ prev \in [Kind -> SUBSET Key] /\ shown \in [Kind -> SUBSET Key]
    /\ strokes \in 0 .. CountMod - 1 /\ presses \in 0 .. CountMod - 1
    /\ asleep \in BOOLEAN /\ armed \in BOOLEAN /\ called \in BOOLEAN
    /\ dropped \in BOOLEAN /\ disturbed \in BOOLEAN
    /\ endpoint \in P!Report \cup {NoReport}

(* hid_mtx is held by the one task that is past it, and a task that is in *)
(* send_report has a report there.                                        *)
Serialised ==
    \A t \in Task :
        /\ task[t] \in {"wake", "ready"} <=> mtx = t
        /\ task[t] = "idle" <=> calling[t] = NoReport

SendTypes == SendTypeOK /\ Serialised

SendStep ==
    \/ \E t \in Task, r \in P!Report : P!Call(t, r)
    \/ \E t \in Task : \/ P!Acquire(t) \/ P!Woken(t) \/ P!WakeTimeout(t)
                       \/ P!Send(t) \/ P!Drop(t)
    \/ P!Poll \/ P!Sleep \/ P!Wake \/ P!TargetRestarts \/ P!BoardRestarts

(* The keys of a report can be counted. *)
LEMMA KeysCount ==
  ASSUME NEW S \in SUBSET Key
  PROVE  P!Cardinality(S) \in Nat
<1>1. IsFiniteSet(S)
  BY CableAssumption, FS_Subset DEF CableAssumption
<1>2. Cardinality(S) \in Nat
  BY <1>1, FS_CardinalityType
<1>3. P!Cardinality(S) = Cardinality(S)
  BY DEF P!Cardinality, Cardinality, P!IsFiniteSet, IsFiniteSet
<1> QED  BY <1>2, <1>3

(* A counter that wraps stays in its range. *)
LEMMA CounterWraps ==
  ASSUME NEW n \in 0 .. CountMod - 1, NEW S \in SUBSET Key
  PROVE  (n + P!Cardinality(S)) % CountMod \in 0 .. CountMod - 1
<1>1. P!Cardinality(S) \in Nat
  BY KeysCount
<1> DEFINE c == P!Cardinality(S)
<1> HIDE DEF c
<1>2. (n + c) % CountMod \in 0 .. CountMod - 1
  BY <1>1, CableAssumption DEF CableAssumption, c
<1> QED  BY <1>2 DEF c

(* Whoever calls, waits, sends or gives up, and whatever the target does, *)
(* hid_mtx has one holder.                                                *)
LEMMA SendTypesKept ==
  ASSUME SendTypes, SendStep \/ UNCHANGED sendVars
  PROVE  SendTypes'
<1> USE CableAssumption
    DEF CableAssumption, P!Report, P!callers, P!stats, P!target, P!sendHistory
<1>0. 0 \in 0 .. CountMod - 1
  BY CableAssumption
<1>1. ASSUME NEW t \in Task, NEW r \in P!Report, P!Call(t, r)
      PROVE  SendTypes'
  BY <1>1 DEF P!Call, SendTypes, SendTypeOK, Serialised
<1>2. ASSUME NEW t \in Task, P!Acquire(t)
      PROVE  SendTypes'
  <2> USE DEF P!Acquire, P!Counted
  <2>1. calling[t] \in P!Report
    BY <1>2 DEF SendTypes, SendTypeOK, Serialised
  <2>2. strokes' \in 0 .. CountMod - 1
    <3>1. calling[t].down \ prev[calling[t].kind] \in SUBSET Key
      BY <2>1 DEF SendTypes, SendTypeOK
    <3> QED  BY <3>1, <1>2, CounterWraps
           DEF P!AccountReport, P!Newly, SendTypes, SendTypeOK
  <2>3. prev' \in [Kind -> SUBSET Key]
    BY <1>2, <2>1 DEF P!AccountReport, SendTypes, SendTypeOK
  <2>4. Serialised'
    BY <1>2, <2>1 DEF SendTypes, SendTypeOK, Serialised
  <2>5. task' \in [Task -> {"idle", "lock", "wake", "ready"}] /\ mtx' \in Task
        /\ disturbed' \in BOOLEAN
    BY <1>2 DEF SendTypes, SendTypeOK
  <2>6. called' \in BOOLEAN
    BY <1>2 DEF SendTypes, SendTypeOK
  <2>7. UNCHANGED <<calling, asleep, armed, endpoint, shown, presses, dropped>>
    BY <1>2
  <2>8. SendTypeOK'
    BY ONLY <2>2, <2>3, <2>5, <2>6, <2>7, SendTypes DEF SendTypes, SendTypeOK
  <2> QED  BY ONLY <2>4, <2>8 DEF SendTypes
<1>3. ASSUME NEW t \in Task, P!Woken(t) \/ P!WakeTimeout(t)
      PROVE  SendTypes'
  BY <1>3 DEF P!Woken, P!WakeTimeout, SendTypes, SendTypeOK, Serialised
<1>4. ASSUME NEW t \in Task, P!Send(t) \/ P!Drop(t)
      PROVE  SendTypes'
  <2>1. /\ task' = [task EXCEPT ![t] = "idle"]
        /\ calling' = [calling EXCEPT ![t] = NoReport]
        /\ mtx' = P!Nobody /\ task[t] = "ready"
        /\ UNCHANGED <<prev, strokes, asleep, armed, called, shown>>
    BY <1>4 DEF P!Send, P!Drop, P!Return
  <2>2. /\ endpoint' \in {endpoint, calling[t]}
        /\ presses' \in {presses, 0} /\ disturbed' \in BOOLEAN /\ dropped' \in BOOLEAN
    BY <1>4 DEF P!Send, P!Drop, SendTypes, SendTypeOK
  <2>3. Serialised'
    BY <2>1 DEF SendTypes, SendTypeOK, Serialised
  <2>4. SendTypeOK'
    BY ONLY <2>1, <2>2, <1>0, SendTypes, t \in Task DEF SendTypes, SendTypeOK
  <2> QED  BY <2>3, <2>4 DEF SendTypes
<1>5. CASE P!Poll
  <2> USE DEF P!Poll
  <2>1. endpoint \in P!Report
    BY <1>5 DEF SendTypes, SendTypeOK
  <2>2. presses' \in 0 .. CountMod - 1
    <3>1. endpoint.down \ shown[endpoint.kind] \in SUBSET Key
      BY <2>1 DEF SendTypes, SendTypeOK
    <3> QED  BY <3>1, <1>5, CounterWraps DEF SendTypes, SendTypeOK
  <2>3. shown' \in [Kind -> SUBSET Key]
    BY <1>5, <2>1 DEF SendTypes, SendTypeOK
  <2>4. UNCHANGED <<P!callers, P!stats, asleep, armed, called, dropped, disturbed>>
        /\ endpoint' = NoReport
    BY <1>5
  <2>5. SendTypeOK'
    BY ONLY <2>2, <2>3, <2>4, SendTypes
       DEF SendTypes, SendTypeOK, P!callers, P!stats
  <2>6. Serialised'
    BY ONLY <2>4, SendTypes DEF SendTypes, Serialised, P!callers
  <2> QED  BY ONLY <2>5, <2>6 DEF SendTypes
<1>6. CASE P!Sleep \/ P!Wake
  BY <1>6 DEF P!Sleep, P!Wake, SendTypes, SendTypeOK, Serialised
<1>7. CASE P!TargetRestarts
  BY <1>0, <1>7 DEF P!TargetRestarts, P!Up, SendTypes, SendTypeOK, Serialised
<1>8. CASE P!BoardRestarts
  <2>1. Serialised'
    BY <1>8 DEF P!BoardRestarts, Serialised
  <2>2. SendTypeOK'
    BY <1>0, <1>8 DEF P!BoardRestarts, P!Up, SendTypes, SendTypeOK
  <2> QED  BY <2>1, <2>2 DEF SendTypes
<1>9. CASE UNCHANGED sendVars
  BY <1>9 DEF sendVars, SendTypes, SendTypeOK, Serialised
<1> QED
  BY <1>1, <1>2, <1>3, <1>4, <1>5, <1>6, <1>7, <1>8, <1>9 DEF SendStep

(* A task that has found the target asleep, and may wake it, has asked it  *)
(* to; once it goes on, the target was too slow.                           *)
Asked ==
    /\ armed => asleep
    /\ \A t \in Task :
          /\ task[t] = "wake" /\ asleep /\ armed => called \/ disturbed
          /\ task[t] = "ready" /\ asleep /\ armed => disturbed

(* No step of the board or of the target breaks that. *)
LEMMA AskedKept ==
  ASSUME SendTypes, Asked, SendStep \/ UNCHANGED sendVars
  PROVE  Asked'
<1> USE DEF SendTypes, SendTypeOK, Asked
<1>1. ASSUME NEW t \in Task, NEW r \in P!Report, P!Call(t, r)
      PROVE  Asked'
  BY <1>1 DEF P!Call, P!target, P!sendHistory
<1>2. ASSUME NEW t \in Task, P!Acquire(t)
      PROVE  Asked'
  <2>1. \A u \in Task \ {t} : task'[u] \notin {"wake", "ready"}
    BY <1>2, CableAssumption
       DEF P!Acquire, P!Counted, Serialised, CableAssumption
  <2>2. task'[t] = (IF asleep THEN "wake" ELSE "ready")
        /\ called' = (called \/ (asleep /\ armed)) /\ UNCHANGED <<asleep, armed>>
    BY <1>2 DEF P!Acquire, P!Counted
  <2>3. armed' => asleep'
    BY <2>2
  <2>4. task'[t] = "wake" /\ asleep' /\ armed' => called'
    BY <2>2
  <2>5. ~(task'[t] = "ready" /\ asleep')
    BY <2>2
  <2> QED  BY <2>1, <2>3, <2>4, <2>5
<1>3. ASSUME NEW t \in Task, P!Woken(t)
      PROVE  Asked'
  BY <1>3 DEF P!Woken, P!target, P!sendHistory
<1>4. ASSUME NEW t \in Task, P!WakeTimeout(t)
      PROVE  Asked'
  BY <1>4 DEF P!WakeTimeout, P!target
<1>5. ASSUME NEW t \in Task, P!Send(t) \/ P!Drop(t)
      PROVE  Asked'
  BY <1>5 DEF P!Send, P!Drop, P!Return, P!target, P!sendHistory
<1>6. CASE P!Poll
  BY <1>6 DEF P!Poll, P!callers
<1>7. CASE P!Sleep \/ P!Wake
  BY <1>7 DEF P!Sleep, P!Wake, P!callers
<1>8. CASE P!TargetRestarts \/ P!BoardRestarts
  BY <1>8 DEF P!TargetRestarts, P!BoardRestarts
<1>9. CASE UNCHANGED sendVars
  BY <1>9 DEF sendVars
<1> QED
  BY <1>1, <1>2, <1>3, <1>4, <1>5, <1>6, <1>7, <1>8, <1>9 DEF SendStep

-----------------------------------------------------------------------------
(* What the counters and the target will have made of reports on their way. *)
Then(down, r) == IF r = NoReport THEN down ELSE [down EXCEPT ![r.kind] = r.down]

Pressing(n, down, r) ==
    IF r = NoReport THEN n
    ELSE (n + P!Cardinality(r.down \ down[r.kind])) % CountMod

InHand == IF mtx = P!Nobody THEN NoReport ELSE calling[mtx]

(* A report is counted when hid_mtx is taken: what is counted is what the  *)
(* target will show and have seen, once it has read the endpoint and then  *)
(* the report in hand.                                                     *)
Counted ==
    ~dropped =>
        /\ prev = Then(Then(shown, endpoint), InHand)
        /\ strokes = Pressing(Pressing(presses, shown, endpoint),
                              Then(shown, endpoint), InHand)

(* A drop and a restart of the target end that, nothing else does. *)
LEMMA CountedKept ==
  ASSUME SendTypes, Counted, SendStep \/ UNCHANGED sendVars
  PROVE  Counted'
<1> USE CableAssumption
    DEF SendTypes, SendTypeOK, Serialised, CableAssumption, Counted, Then, Pressing
<1>1. ASSUME NEW t \in Task, NEW r \in P!Report, P!Call(t, r)
      PROVE  Counted'
  <2>1. InHand' = InHand
    BY <1>1 DEF P!Call, InHand
  <2>2. UNCHANGED <<dropped, prev, shown, endpoint, strokes, presses>>
    BY <1>1 DEF P!Call, P!target, P!stats, P!sendHistory
  <2> QED  BY ONLY <2>1, <2>2, Counted DEF Counted, Then, Pressing
<1>2. ASSUME NEW t \in Task, P!Acquire(t)
      PROVE  Counted'
  <2>1. InHand = NoReport /\ InHand' = calling[t] /\ calling[t] # NoReport
    BY <1>2 DEF P!Acquire, P!Counted, InHand
  <2>2. UNCHANGED <<dropped, shown, endpoint, presses>>
    BY <1>2 DEF P!Acquire, P!Counted
  <2>3. strokes' = (strokes + P!Cardinality(calling[t].down \ prev[calling[t].kind]))
                     % CountMod
        /\ prev' = [prev EXCEPT ![calling[t].kind] = calling[t].down]
    BY <1>2 DEF P!Acquire, P!Counted, P!AccountReport, P!Newly
  <2> QED  BY ONLY <2>1, <2>2, <2>3, Counted DEF Counted, Then, Pressing
<1>3. ASSUME NEW t \in Task, P!Woken(t) \/ P!WakeTimeout(t)
      PROVE  Counted'
  <2>1. UNCHANGED <<calling, mtx, prev, strokes, dropped, shown, endpoint, presses>>
    BY <1>3 DEF P!Woken, P!WakeTimeout, P!stats, P!target, P!sendHistory
  <2> QED  BY ONLY <2>1, Counted DEF Counted, Then, Pressing, InHand
<1>4. ASSUME NEW t \in Task, P!Send(t)
      PROVE  Counted'
  <2>1. InHand = calling[t] /\ InHand' = NoReport
    BY <1>4 DEF P!Send, P!Return, InHand
  <2>2. endpoint = NoReport /\ endpoint' = calling[t]
        /\ UNCHANGED <<prev, strokes, dropped, shown, presses>>
    BY <1>4 DEF P!Send, P!Ready, P!stats, P!sendHistory
  <2> QED  BY ONLY <2>1, <2>2, Counted DEF Counted, Then, Pressing
<1>5. ASSUME NEW t \in Task, P!Drop(t)
      PROVE  Counted'
  BY <1>5 DEF P!Drop
<1>6. CASE P!Poll
  <2>1. endpoint # NoReport /\ endpoint' = NoReport
        /\ UNCHANGED <<calling, mtx, prev, strokes, dropped>>
        /\ shown' = [shown EXCEPT ![endpoint.kind] = endpoint.down]
    BY <1>6 DEF P!Poll, P!callers, P!stats
  <2>2. ~dropped => presses' = (presses + P!Cardinality(endpoint.down
                                                          \ shown[endpoint.kind]))
                                 % CountMod
    BY <1>6 DEF P!Poll
  <2> QED  BY ONLY <2>1, <2>2, Counted DEF Counted, Then, Pressing, InHand
<1>7. CASE P!Sleep \/ P!Wake
  <2>1. UNCHANGED <<calling, mtx, prev, strokes, dropped, shown, endpoint, presses>>
    BY <1>7 DEF P!Sleep, P!Wake, P!callers, P!stats, P!sendHistory
  <2> QED  BY ONLY <2>1, Counted DEF Counted, Then, Pressing, InHand
<1>8. CASE P!TargetRestarts
  BY <1>8 DEF P!TargetRestarts
<1>9. CASE P!BoardRestarts
  BY <1>9 DEF P!BoardRestarts, InHand
<1>10. CASE UNCHANGED sendVars
  BY <1>10 DEF sendVars, InHand
<1> QED
  BY <1>1, <1>2, <1>3, <1>4, <1>5, <1>6, <1>7, <1>8, <1>9, <1>10 DEF SendStep

-----------------------------------------------------------------------------
(* The whole way.  Every step of it is one of the sink's, one of the send  *)
(* path's, one of each, or of neither.                                     *)
LEMMA StepsOfParts ==
  ASSUME inbox \in Seq(P!Report), [Next]_cableVars
  PROVE  /\ SerialStep \/ UNCHANGED serialVars
         /\ SendStep \/ UNCHANGED sendVars
<1>1. CASE \E r \in P!Report : Writes(r)
  BY <1>1 DEF Writes, SerialStep
<1>2. CASE \E r \in P!Report, t \in Task : OtherCalls(t, r)
  BY <1>2 DEF OtherCalls, SendStep
<1>3. CASE Starts \/ DaemonSteps \/ DaemonExits
  BY <1>3 DEF Starts, DaemonSteps, DaemonExits, Opens, WriteFails, Written, SerialStep
<1>4. CASE Unplug \/ Plug
  BY <1>4 DEF Unplug, Plug, SerialStep
<1>5. CASE UartCalls \/ Garbled
  <2>1. CASE UartCalls
    <3>1. Head(inbox) \in P!Report
      BY <2>1, HeadTailProperties DEF UartCalls
    <3> QED  BY <2>1, <3>1, CableAssumption DEF UartCalls, SendStep, CableAssumption
  <2>2. CASE Garbled
    BY <2>2 DEF Garbled
  <2> QED  BY <1>5, <2>1, <2>2
<1>6. ASSUME NEW t \in Task, SendReport(t)
      PROVE  SendStep /\ UNCHANGED serialVars
  BY <1>6 DEF SendReport, Waits, Sends, Drops, SendStep
<1>7. CASE TargetMoves \/ TargetRestarts \/ BoardRestarts
  BY <1>7 DEF TargetMoves, TargetRestarts, BoardRestarts, SendStep
<1>8. CASE UNCHANGED cableVars
  BY <1>8 DEF cableVars
<1> QED
  BY <1>1, <1>2, <1>3, <1>4, <1>5, <1>6, <1>7, <1>8 DEF Next

WayTypeOK ==
    /\ inbox \in Seq(P!Report) /\ Len(inbox) <= Buffered
    /\ last \in [Kind -> SUBSET Key]
    /\ missed \subseteq Kind /\ by \in [Kind -> Task]

Is(r, k)  == r # NoReport /\ r.kind = k
Has(s, k) == \E i \in 1 .. Len(s) : s[i].kind = k

(* The last report of kind k in s says down. *)
LastSays(s, k, down) ==
    \A i \in 1 .. Len(s) :
        s[i].kind = k /\ (\A j \in 1 .. Len(s) : j > i => s[j].kind # k)
            => s[i].down = down

(* Of the reports of a kind that are under way the one that was written    *)
(* last, wherever it is, says what the daemon said last; what the target   *)
(* shows says it when there is none, unless that report was lost or        *)
(* another transport's came after it.                                      *)
Newest(k) ==
    IF Is(report, k) THEN report.down = last[k]
    ELSE IF Has(inbox, k) THEN LastSays(inbox, k, last[k])
    ELSE IF Is(calling[Uart], k) THEN calling[Uart].down = last[k]
    ELSE by[k] = Uart => Then(shown, endpoint)[k] = last[k]

ShowInv == \A k \in Kind \ missed : Newest(k)

WayInv == WayTypeOK /\ ShowInv

(* The sets of kinds in terms of reports. *)
LEMMA KindsOfOne ==
  ASSUME NEW r, NEW k
  PROVE  k \in KindsIn({r}) <=> Is(r, k)
BY DEF KindsIn, Is

(* And those of a list. *)
LEMMA KindsOfMany ==
  ASSUME CableAssumption, NEW s \in Seq(P!Report), NEW k
  PROVE  k \in Waiting(s) <=> Has(s, k)
<1>1. \A i \in DOMAIN s : s[i] \in P!Report /\ s[i] # NoReport
  BY DEF CableAssumption
<1> QED  BY <1>1 DEF Waiting, KindsIn, Has

(* What is written last is the last of its kind. *)
LEMMA LastOfAppend ==
  ASSUME NEW s \in Seq(P!Report), NEW r \in P!Report, NEW k, NEW down
  PROVE  /\ r.kind = k => Has(Append(s, r), k) /\ LastSays(Append(s, r), k, r.down)
         /\ r.kind # k => /\ Has(Append(s, r), k) <=> Has(s, k)
                          /\ LastSays(s, k, down) => LastSays(Append(s, r), k, down)
<1> DEFINE a == Append(s, r)
<1>1. Len(a) = Len(s) + 1 /\ a[Len(s) + 1] = r /\ Len(s) \in Nat
      /\ \A i \in 1 .. Len(s) : a[i] = s[i]
  BY AppendProperties
<1> HIDE DEF a
<1>2. CASE r.kind = k
  BY <1>1, <1>2 DEF Has, LastSays
<1>3. CASE r.kind # k
  BY <1>1, <1>3 DEF Has, LastSays
<1> QED  BY <1>2, <1>3 DEF a

(* Cutting a sequence short after the last of a kind leaves it the last.   *)
LEMMA LastOfFront ==
  ASSUME NEW s \in Seq(P!Report), NEW n \in 0 .. Len(s), NEW k, NEW down,
         \A i \in n + 1 .. Len(s) : s[i].kind # k
  PROVE  /\ Has(SubSeq(s, 1, n), k) <=> Has(s, k)
         /\ LastSays(s, k, down) => LastSays(SubSeq(s, 1, n), k, down)
<1> DEFINE f == SubSeq(s, 1, n)
<1>1. Len(f) = n /\ \A i \in 1 .. n : f[i] = s[i]
  BY SubSeqProperties
<1> HIDE DEF f
<1>2. Has(f, k) <=> Has(s, k)
  BY <1>1 DEF Has
<1>3. ASSUME LastSays(s, k, down)
      PROVE  LastSays(f, k, down)
  BY <1>1, <1>3 DEF LastSays
<1> QED  BY <1>2, <1>3 DEF f

(* What the first one was matters only if it was the last of its kind. *)
LEMMA LastOfTail ==
  ASSUME NEW s \in Seq(P!Report), s # <<>>, NEW k, NEW down
  PROVE  /\ Has(s, k) <=> Head(s).kind = k \/ Has(Tail(s), k)
         /\ LastSays(s, k, down) => LastSays(Tail(s), k, down)
         /\ LastSays(s, k, down) /\ Head(s).kind = k /\ ~Has(Tail(s), k)
               => Head(s).down = down
<1> DEFINE u == Tail(s)
<1>1. Len(s) \in Nat \ {0} /\ Len(u) = Len(s) - 1 /\ Head(s) = s[1]
      /\ \A i \in 1 .. Len(u) : u[i] = s[i + 1]
  BY HeadTailProperties, LenProperties
<1> HIDE DEF u
<1>2. \A i \in 2 .. Len(s) : i - 1 \in 1 .. Len(u) /\ s[i] = u[i - 1]
  BY <1>1
<1>3. Has(s, k) <=> Head(s).kind = k \/ Has(u, k)
  BY <1>1, <1>2 DEF Has
<1>4. ASSUME LastSays(s, k, down)
      PROVE  LastSays(u, k, down)
  <2> SUFFICES ASSUME NEW i \in 1 .. Len(u), u[i].kind = k,
                      \A j \in 1 .. Len(u) : j > i => u[j].kind # k
               PROVE  u[i].down = down
    BY DEF LastSays
  <2>1. i + 1 \in 1 .. Len(s) /\ s[i + 1] = u[i]
    BY <1>1
  <2>2. ASSUME NEW j \in 1 .. Len(s), j > i + 1
        PROVE  s[j].kind # k
    <3>1. j \in 2 .. Len(s) /\ j - 1 > i
      BY <1>1, <2>2
    <3>2. j - 1 \in 1 .. Len(u) /\ s[j] = u[j - 1]
      BY <1>2, <3>1
    <3> QED  BY <3>1, <3>2
  <2> QED  BY <1>4, <2>1, <2>2 DEF LastSays
<1>5. ASSUME LastSays(s, k, down), Head(s).kind = k, ~Has(u, k)
      PROVE  Head(s).down = down
  BY <1>1, <1>2, <1>5 DEF LastSays, Has
<1> QED  BY <1>3, <1>4, <1>5 DEF u

CableInv == SerialInv /\ SendTypes /\ Asked /\ Counted /\ WayInv

(* The types of what is under way. *)
LEMMA WayTypesKept ==
  ASSUME CableInv, [Next]_cableVars
  PROVE  WayTypeOK'
<1> USE DEF CableInv, SendTypes, SendTypeOK, WayInv, WayTypeOK
<1>0. \A k : Is(report, k) => report \in P!Report
  BY DEF SerialInv, SerialTypeOK, Is
<1>1. ASSUME NEW r \in P!Report, Writes(r)
      PROVE  WayTypeOK'
  BY <1>1 DEF Writes, P!Report
<1>2. CASE Written
  <2>1. report \in P!Report
    BY <1>2 DEF Written, D!WriteOk, SerialInv, SerialTypeOK, Stages
  <2>2. report.kind \in Kind /\ KindsIn({report}) \subseteq Kind
    BY <2>1 DEF P!Report, KindsIn
  <2>3. UNCHANGED <<last, by>> /\ missed' \subseteq Kind
    BY <1>2, <2>2 DEF Written, Lost
  <2>4. inbox' \in Seq(P!Report) /\ Len(inbox') <= Buffered
    BY <1>2, <2>1, AppendProperties, LenProperties, CableAssumption
       DEF Written, CableAssumption
  <2> QED  BY <2>3, <2>4
<1>3. CASE WriteFails \/ DaemonExits
  BY <1>0, <1>3, KindsOfOne DEF WriteFails, DaemonExits, Lost, P!Report, KindsIn, Is
<1>4. CASE Unplug
  <2>1. PICK n \in 0 .. Len(inbox) :
           /\ inbox' = SubSeq(inbox, 1, n)
           /\ Lost({inbox[i] : i \in n + 1 .. Len(inbox)}, KindsIn({report}))
    BY <1>4 DEF Unplug
  <2>2. inbox' \in Seq(P!Report) /\ Len(inbox') <= Buffered
    BY <2>1, SubSeqProperties, LenProperties, CableAssumption DEF CableAssumption
  <2>3. missed' \subseteq Kind
    <3>1. \A i \in n + 1 .. Len(inbox) : inbox[i].kind \in Kind
      <4>1. \A i \in 1 .. Len(inbox) : inbox[i] \in P!Report
        BY ElementOfSeq
      <4>2. Len(inbox) \in Nat
        BY LenProperties
      <4> QED  BY <4>1, <4>2 DEF P!Report
    <3> QED  BY <2>1, <3>1 DEF Lost, KindsIn
  <2> QED  BY <1>4, <2>2, <2>3 DEF Unplug
<1>5. CASE UartCalls \/ Garbled
  <2>1. inbox # <<>> /\ inbox' = Tail(inbox) /\ UNCHANGED <<last, by>>
    BY <1>5 DEF UartCalls, Garbled, history
  <2>2. inbox' \in Seq(P!Report) /\ Len(inbox') <= Buffered
        /\ Head(inbox) \in P!Report
    BY <2>1, HeadTailProperties, LenProperties, CableAssumption DEF CableAssumption
  <2>3. missed' \subseteq Kind
    BY <1>5, <2>2 DEF UartCalls, Garbled, history, Lost, KindsIn, P!Report
  <2> QED  BY <2>1, <2>2, <2>3
<1>6. ASSUME NEW t \in Task, SendReport(t)
      PROVE  WayTypeOK'
  <2>1. CASE Waits(t)
    BY <2>1 DEF Waits, history
  <2>2. CASE Sends(t)
    BY <2>2 DEF Sends
  <2>3. CASE Drops(t)
    BY <2>3 DEF Drops, Lost, KindsIn, P!Report
  <2> QED  BY <1>6, <2>1, <2>2, <2>3 DEF SendReport
<1>7. CASE TargetRestarts \/ BoardRestarts
  <2>1. missed' \subseteq Kind /\ UNCHANGED <<last, by>> /\ inbox' \in {inbox, <<>>}
    BY <1>7 DEF TargetRestarts, BoardRestarts, Forgotten
  <2>2. inbox' \in Seq(P!Report) /\ Len(inbox') <= Buffered
    <3>1. <<>> \in Seq(P!Report) /\ Len(<<>>) = 0 /\ Buffered \in Nat
      BY EmptySeq, CableAssumption DEF CableAssumption
    <3>2. CASE inbox' = inbox
      BY <3>2
    <3>3. CASE inbox' = <<>>
      BY <3>1, <3>3
    <3> QED  BY <2>1, <3>2, <3>3
  <2> QED  BY <2>1, <2>2
<1>8. CASE /\ ~ \E r \in P!Report : Writes(r)
           /\ ~Written /\ ~WriteFails /\ ~DaemonExits /\ ~Unplug /\ ~UartCalls /\ ~Garbled
           /\ ~ \E t \in Task : SendReport(t)
           /\ ~TargetRestarts /\ ~BoardRestarts
  BY <1>8 DEF Next, OtherCalls, Starts, DaemonSteps, Opens, Plug, TargetMoves,
              cableVars, history
<1> QED
  BY <1>1, <1>2, <1>3, <1>4, <1>5, <1>6, <1>7, <1>8

(* Of a loss, what matters to a kind that is not missed. *)
LEMMA NotLost ==
  ASSUME NEW r, NEW later, NEW k, Lost({r}, later), k \notin missed'
  PROVE  k \notin missed /\ (Is(r, k) => k \in later)
BY KindsOfOne DEF Lost

(* A step that leaves the reports of a kind, and the target, alone. *)
LEMMA NewestKept ==
  ASSUME NEW k, Newest(k),
         Is(report', k) <=> Is(report, k), Is(report, k) => report' = report,
         UNCHANGED <<inbox, calling[Uart], by[k], last[k], endpoint, shown>>
  PROVE  Newest(k)'
BY DEF Newest, Is, Has, LastSays, Then

(* The daemon's half of the way, and the UART buffer. *)
LEMMA NewestOfDaemon ==
  ASSUME CableInv, NEW k \in Kind, k \notin missed',
         \/ \E r \in P!Report : Writes(r)
         \/ WriteFails \/ Written \/ DaemonExits \/ Unplug
  PROVE  Newest(k)'
<1> USE DEF CableInv, WayInv, ShowInv
<1>0. report \in P!Report \cup {NoReport} /\ inbox \in Seq(P!Report)
      /\ last \in [Kind -> SUBSET Key] /\ NoReport \notin P!Report
  BY CableAssumption DEF CableAssumption, SerialInv, SerialTypeOK, WayTypeOK
<1>1. ASSUME NEW r \in P!Report, Writes(r)
      PROVE  Newest(k)'
  <2>1. report = NoReport /\ report' = r
        /\ last' = [last EXCEPT ![r.kind] = r.down] /\ missed' = missed \ {r.kind}
        /\ UNCHANGED <<sendVars, inbox, by>>
    BY <1>1 DEF Writes, D!WriteStart, SerialInv, Stages
  <2>2. CASE r.kind = k
    BY <1>0, <2>1, <2>2 DEF Newest, Is
  <2>3. CASE r.kind # k
    <3>1. Newest(k) /\ ~Is(report, k) /\ ~Is(report', k)
      BY <2>1, <2>3 DEF Is
    <3>2. UNCHANGED <<inbox, calling[Uart], by[k], last[k], endpoint, shown>>
      BY <1>0, <2>1, <2>3 DEF sendVars
    <3> QED  BY <3>1, <3>2, NewestKept
  <2> QED  BY <2>2, <2>3
<1>2. CASE WriteFails \/ DaemonExits
  <2>1. Lost({report}, {}) /\ report' = NoReport /\ UNCHANGED <<sendVars, inbox, last, by>>
    BY <1>2 DEF WriteFails, D!OpenFails, D!ConfigureFails, D!WriteError, D!Fails,
                DaemonExits, D!Exit
  <2>2. ~Is(report, k) /\ ~Is(report', k) /\ Newest(k)
    BY <2>1, NotLost DEF Is
  <2> QED  BY <2>1, <2>2, NewestKept DEF sendVars
<1>3. CASE Written
  <2>1. report \in P!Report /\ report' = NoReport /\ UNCHANGED <<sendVars, last, by>>
    BY <1>0, <1>3 DEF Written, D!WriteOk, SerialInv, Stages
  <2>2. CASE Len(inbox) < Buffered
    <3>1. inbox' = Append(inbox, report) /\ Newest(k)
      BY <1>3, <2>2 DEF Written
    <3>2. ~Is(report', k)
      BY <2>1 DEF Is
    <3>3. CASE report.kind = k
      <4>1. report.down = last[k]
        BY <1>0, <2>1, <3>1, <3>3 DEF Newest, Is
      <4>2. Has(inbox', k) /\ LastSays(inbox', k, last'[k])
        BY <1>0, <2>1, <3>1, <3>3, <4>1, LastOfAppend
      <4> QED  BY <3>2, <4>2 DEF Newest, Has, LastSays
    <3>4. CASE report.kind # k
      <4>1. ~Is(report, k)
        BY <3>4 DEF Is
      <4>2. Has(inbox', k) <=> Has(inbox, k)
        BY <1>0, <2>1, <3>1, <3>4, LastOfAppend
      <4>3. LastSays(inbox, k, last[k]) => LastSays(inbox', k, last'[k])
        BY <1>0, <2>1, <3>1, <3>4, LastOfAppend
      <4>4. UNCHANGED <<calling, by, last, endpoint, shown>>
        BY <2>1 DEF sendVars
      <4> QED
        BY <3>1, <3>2, <4>1, <4>2, <4>3, <4>4 DEF Newest, Has, LastSays, Then
    <3> QED  BY <3>3, <3>4
  <2>3. CASE ~(Len(inbox) < Buffered)
    <3>1. Lost({report}, {}) /\ UNCHANGED inbox
      BY <1>3, <2>3 DEF Written
    <3>2. ~Is(report, k) /\ ~Is(report', k) /\ Newest(k)
      BY <2>1, <3>1, NotLost DEF Is
    <3> QED  BY <2>1, <3>1, <3>2, NewestKept DEF sendVars
  <2> QED  BY <2>2, <2>3
<1>4. CASE Unplug
  <2>1. PICK n \in 0 .. Len(inbox) :
           /\ inbox' = SubSeq(inbox, 1, n)
           /\ Lost({inbox[i] : i \in n + 1 .. Len(inbox)}, KindsIn({report}))
    BY <1>4 DEF Unplug
  <2>2. UNCHANGED <<report, calling, by, last, endpoint, shown>>
    BY <1>4 DEF Unplug, D!Unplug, sendVars
  <2>3. Newest(k)
    BY <2>1 DEF Lost
  <2>4. CASE Is(report, k)
    BY <2>2, <2>3, <2>4 DEF Newest, Is
  <2>5. CASE ~Is(report, k)
    <3>1. \A i \in n + 1 .. Len(inbox) : inbox[i].kind # k
      <4>1. k \notin KindsIn({report})
        BY <2>5, KindsOfOne
      <4>2. k \notin KindsIn({inbox[i] : i \in n + 1 .. Len(inbox)})
        BY <2>1, <4>1 DEF Lost
      <4>3. \A i \in n + 1 .. Len(inbox) : inbox[i] # NoReport
        <5>1. \A i \in 1 .. Len(inbox) : inbox[i] # NoReport
          BY <1>0, ElementOfSeq
        <5>2. Len(inbox) \in Nat
          BY <1>0, LenProperties
        <5> QED  BY <5>1, <5>2
      <4> QED  BY <4>2, <4>3 DEF KindsIn
    <3>2. Has(inbox', k) <=> Has(inbox, k)
      BY <1>0, <2>1, <3>1, LastOfFront
    <3>3. LastSays(inbox, k, last[k]) => LastSays(inbox', k, last'[k])
      BY <1>0, <2>1, <2>2, <3>1, LastOfFront
    <3> QED
      BY <2>2, <2>3, <2>5, <3>2, <3>3 DEF Newest, Is, Has, LastSays, Then
  <2> QED  BY <2>4, <2>5
<1> QED
  BY <1>1, <1>2, <1>3, <1>4

(* uart_task and the send path. *)
LEMMA NewestOfBoard ==
  ASSUME CableInv, NEW k \in Kind, k \notin missed',
         \/ UartCalls \/ Garbled
         \/ \E t \in Task, r \in P!Report : OtherCalls(t, r)
         \/ \E t \in Task : SendReport(t)
  PROVE  Newest(k)'
<1> USE DEF CableInv, WayInv, ShowInv
<1>0. /\ inbox \in Seq(P!Report) /\ NoReport \notin P!Report
      /\ calling \in [Task -> P!Report \cup {NoReport}] /\ Uart \in Task
      /\ shown \in [Kind -> SUBSET Key] /\ by \in [Kind -> Task]
  BY CableAssumption DEF CableAssumption, WayTypeOK, SendTypes, SendTypeOK
<1>1. CASE UartCalls
  <2>1. inbox # <<>> /\ inbox' = Tail(inbox) /\ UNCHANGED <<report, by, last, missed>>
    BY <1>1 DEF UartCalls, serialVars, history
  <2>2. task[Uart] = "idle" /\ calling' = [calling EXCEPT ![Uart] = Head(inbox)]
        /\ UNCHANGED <<endpoint, shown>>
    BY <1>1 DEF UartCalls, P!Call, P!target
  <2>3. calling[Uart] = NoReport /\ calling'[Uart] = Head(inbox)
        /\ Head(inbox) \in P!Report
    BY <1>0, <2>1, <2>2, HeadTailProperties DEF SendTypes, Serialised
  <2>4. /\ Has(inbox, k) <=> Head(inbox).kind = k \/ Has(inbox', k)
        /\ LastSays(inbox, k, last[k]) => LastSays(inbox', k, last'[k])
        /\ LastSays(inbox, k, last[k]) /\ Head(inbox).kind = k /\ ~Has(inbox', k)
              => Head(inbox).down = last[k]
    BY <1>0, <2>1, LastOfTail
  <2>5. Newest(k) /\ NoReport # Head(inbox)
    BY <1>0, <2>1, <2>3
  <2> QED
    BY ONLY <2>1, <2>2, <2>3, <2>4, <2>5 DEF Newest, Is, Has, LastSays, Then
<1>2. CASE Garbled
  <2>1. inbox # <<>> /\ inbox' = Tail(inbox)
        /\ UNCHANGED <<report, by, last, calling, endpoint, shown>>
    BY <1>2 DEF Garbled, serialVars, sendVars
  <2>2. /\ Has(inbox, k) <=> Head(inbox).kind = k \/ Has(inbox', k)
        /\ LastSays(inbox, k, last[k]) => LastSays(inbox', k, last'[k])
    BY <1>0, <2>1, LastOfTail
  <2>3. Newest(k) /\ (Is(Head(inbox), k)
                        => k \in Waiting(inbox') \cup KindsIn({report}))
    BY <1>2, NotLost DEF Garbled
  <2>4. Head(inbox).kind = k => Is(report, k) \/ Has(inbox', k)
    <3>1. Head(inbox) # NoReport /\ inbox' \in Seq(P!Report)
      BY <1>0, <2>1, HeadTailProperties
    <3>2. k \in Waiting(inbox') <=> Has(inbox', k)
      BY <3>1, CableAssumption, KindsOfMany
    <3> QED  BY <2>3, <3>1, <3>2, KindsOfOne DEF Is
  <2> QED
    BY ONLY <2>1, <2>2, <2>3, <2>4 DEF Newest, Is, Has, LastSays, Then
<1>3. ASSUME NEW t \in Task, NEW r \in P!Report, OtherCalls(t, r)
      PROVE  Newest(k)'
  <2>1. UNCHANGED <<report, inbox, calling[Uart], by, last, missed, endpoint, shown>>
    BY <1>0, <1>3 DEF OtherCalls, P!Call, P!target, serialVars, history
  <2> QED  BY <2>1, NewestKept
<1>4. ASSUME NEW t \in Task, Waits(t)
      PROVE  Newest(k)'
  <2>1. UNCHANGED <<report, inbox, calling, by, last, missed, endpoint, shown>>
    BY <1>4 DEF Waits, P!Acquire, P!Counted, P!Woken, P!WakeTimeout, P!target,
                serialVars, history
  <2> QED  BY <2>1, NewestKept
<1>5. ASSUME NEW t \in Task, Sends(t)
      PROVE  Newest(k)'
  <2>1. /\ UNCHANGED <<report, inbox, last, missed, shown>>
        /\ by' = [by EXCEPT ![calling[t].kind] = t]
        /\ calling' = [calling EXCEPT ![t] = NoReport]
        /\ endpoint = NoReport /\ endpoint' = calling[t]
    BY <1>5 DEF Sends, P!Send, P!Return, P!Ready, serialVars
  <2>2. calling[t] \in P!Report /\ calling[t] # NoReport
    BY <1>0, <1>5 DEF Sends, P!Send, SendTypes, Serialised
  <2>3. Newest(k)
    BY <2>1
  <2>4. CASE calling[t].kind = k
    <3>1. by'[k] = t
      BY <1>0, <2>1, <2>4
    <3>2. Then(shown', endpoint')[k] = calling[t].down
      BY <1>0, <2>1, <2>2, <2>4 DEF Then
    <3>3. t = Uart => Is(calling[Uart], k) /\ ~Is(calling'[Uart], k)
      BY <1>0, <2>1, <2>2, <2>4 DEF Is
    <3>4. t # Uart => calling'[Uart] = calling[Uart]
      BY <1>0, <2>1
    <3> QED
      BY ONLY <2>1, <2>3, <3>1, <3>2, <3>3, <3>4 DEF Newest, Is, Has, LastSays
  <2>5. CASE calling[t].kind # k
    <3>1. by'[k] = by[k]
      BY <1>0, <2>1, <2>5
    <3>2. Then(shown', endpoint')[k] = Then(shown, endpoint)[k]
      BY <1>0, <2>1, <2>2, <2>5 DEF Then
    <3>3. /\ Is(calling'[Uart], k) <=> Is(calling[Uart], k)
          /\ Is(calling[Uart], k) => calling'[Uart] = calling[Uart]
      BY <1>0, <2>1, <2>5 DEF Is
    <3> QED
      BY ONLY <2>1, <2>3, <3>1, <3>2, <3>3 DEF Newest, Is, Has, LastSays
  <2> QED  BY <2>4, <2>5
<1>6. ASSUME NEW t \in Task, Drops(t)
      PROVE  Newest(k)'
  <2>1. UNCHANGED <<report, inbox, by, last, endpoint, shown>>
        /\ calling' = [calling EXCEPT ![t] = NoReport]
    BY <1>6 DEF Drops, P!Drop, P!Return, P!target, serialVars
  <2>2. CASE t # Uart
    <3>1. calling'[Uart] = calling[Uart] /\ missed' = missed
      BY <1>0, <1>6, <2>1, <2>2 DEF Drops
    <3> QED  BY <2>1, <3>1, NewestKept
  <2>3. CASE t = Uart
    <3>1. Newest(k) /\ (Is(calling[Uart], k)
                          => k \in Waiting(inbox) \cup KindsIn({report}))
      BY <1>6, <2>3, NotLost DEF Drops
    <3>2. Is(calling[Uart], k) => Is(report, k) \/ Has(inbox, k)
      BY <1>0, <3>1, CableAssumption, KindsOfMany, KindsOfOne
    <3>3. ~Is(calling'[Uart], k)
      BY <1>0, <2>1, <2>3 DEF Is
    <3> QED
      BY ONLY <2>1, <3>1, <3>2, <3>3 DEF Newest, Is, Has, LastSays, Then
  <2> QED  BY <2>2, <2>3
<1> QED
  BY <1>1, <1>2, <1>3, <1>4, <1>5, <1>6 DEF SendReport

(* The target: it reads the endpoint, or forgets everything. *)
LEMMA NewestOfTarget ==
  ASSUME CableInv, NEW k \in Kind, k \notin missed',
         TargetMoves \/ TargetRestarts \/ BoardRestarts
  PROVE  Newest(k)'
<1> USE DEF CableInv, WayInv, ShowInv
<1>0. /\ inbox \in Seq(P!Report) /\ NoReport \notin P!Report /\ Uart \in Task
      /\ shown \in [Kind -> SUBSET Key]
  BY CableAssumption DEF CableAssumption, WayTypeOK, SendTypes, SendTypeOK
<1>1. CASE TargetMoves
  <2>1. UNCHANGED <<report, inbox, calling, by, last, missed>>
    BY <1>1 DEF TargetMoves, P!Poll, P!Sleep, P!Wake, P!callers, serialVars, history
  <2>2. Then(shown', endpoint') = Then(shown, endpoint)
    BY <1>1 DEF TargetMoves, P!Poll, P!Sleep, P!Wake, Then
  <2>3. Newest(k)
    BY <2>1
  <2> QED  BY ONLY <2>1, <2>2, <2>3 DEF Newest, Is, Has, LastSays
<1>2. CASE TargetRestarts
  <2>1. UNCHANGED <<report, inbox, calling, by, last>>
        /\ endpoint' = NoReport /\ shown' = P!Up
    BY <1>2 DEF TargetRestarts, P!TargetRestarts, P!callers, serialVars
  <2>2. Newest(k) /\ (last[k] # {} => k \in Waiting(inbox)
                                           \cup KindsIn({report, calling[Uart]}))
    BY <1>2 DEF TargetRestarts, Forgotten
  <2>3. last[k] # {} => Is(report, k) \/ Has(inbox, k) \/ Is(calling[Uart], k)
    <3>1. k \in Waiting(inbox) <=> Has(inbox, k)
      BY <1>0, CableAssumption, KindsOfMany
    <3> QED  BY <2>2, <3>1 DEF KindsIn, Is
  <2>4. Then(shown', endpoint')[k] = {}
    BY <2>1 DEF Then, P!Up
  <2> QED
    BY ONLY <2>1, <2>2, <2>3, <2>4 DEF Newest, Is, Has, LastSays
<1>3. CASE BoardRestarts
  <2>1. UNCHANGED <<report, by, last>> /\ inbox' = <<>>
        /\ calling'[Uart] = NoReport /\ endpoint' = NoReport /\ shown' = P!Up
    BY <1>0, <1>3 DEF BoardRestarts, P!BoardRestarts, serialVars
  <2>2. Newest(k) /\ (last[k] # {} => Is(report, k))
    BY <1>3, KindsOfOne DEF BoardRestarts, Forgotten
  <2>3. ~Has(inbox', k)
    BY <2>1 DEF Has
  <2>4. Then(shown', endpoint')[k] = {}
    BY <2>1 DEF Then, P!Up
  <2> QED
    BY ONLY <2>1, <2>2, <2>3, <2>4 DEF Newest, Is, Has
<1> QED  BY <1>1, <1>2, <1>3

-----------------------------------------------------------------------------
(* The way starts with nothing under way, and every step keeps CableInv. *)
LEMMA InitCableInv == Init => CableInv
<1> SUFFICES ASSUME Init
             PROVE  CableInv
  OBVIOUS
<1> USE CableAssumption DEF CableAssumption, Init, D!Init, P!Init, P!Up
<1>1. SerialInv
  <2>1. SerialTypeOK
    <3>1. running \in BOOLEAN /\ report = NoReport
      BY Zenon
    <3>2. node = "here" /\ file = "none" /\ call = "idle" /\ port = "none" /\ failures = 0
      BY Zenon
    <3> QED  BY ONLY <3>1, <3>2 DEF SerialTypeOK
  <2>3. Stages
    BY DEF Stages
  <2>2. NoPortLeak /\ DeadIsNews
    BY DEF NoPortLeak, D!NoPortLeak, DeadIsNews
  <2> QED  BY <2>1, <2>2, <2>3 DEF SerialInv
<1>2. SendTypes
  <2>1. 0 \in 0 .. CountMod - 1
    OBVIOUS
  <2> QED  BY <2>1 DEF SendTypes, SendTypeOK, Serialised
<1>3. Asked
  BY DEF Asked
<1>4. Counted
  BY DEF Counted, Then, Pressing, InHand
<1>5. WayTypeOK
  <2>1. <<>> \in Seq(P!Report) /\ Len(<<>>) = 0
    BY EmptySeq
  <2> QED  BY <2>1 DEF WayTypeOK
<1>6. ShowInv
  BY EmptySeq DEF ShowInv, Newest, Is, Has, Then
<1> QED  BY <1>1, <1>2, <1>3, <1>4, <1>5, <1>6 DEF CableInv, WayInv

(* Every step keeps it, part by part. *)
LEMMA NextCableInv == CableInv /\ [Next]_cableVars => CableInv'
<1> SUFFICES ASSUME CableInv, [Next]_cableVars
             PROVE  CableInv'
  OBVIOUS
<1>1. SerialInv' /\ SendTypes' /\ Asked' /\ Counted'
  <2>1. SerialStep \/ UNCHANGED serialVars
    BY StepsOfParts DEF CableInv, WayInv, WayTypeOK
  <2>2. SendStep \/ UNCHANGED sendVars
    BY StepsOfParts DEF CableInv, WayInv, WayTypeOK
  <2> QED
    BY <2>1, <2>2, SerialStepKeeps, SendTypesKept, AskedKept, CountedKept DEF CableInv
<1>2. WayTypeOK'
  BY WayTypesKept
<1>3. ASSUME NEW k \in Kind, k \notin missed'
      PROVE  Newest(k)'
  <2>1. CASE \/ \E r \in P!Report : Writes(r)
             \/ WriteFails \/ Written \/ DaemonExits \/ Unplug
    BY <1>3, <2>1, NewestOfDaemon
  <2>2. CASE \/ UartCalls \/ Garbled
             \/ \E t \in Task, r \in P!Report : OtherCalls(t, r)
             \/ \E t \in Task : SendReport(t)
    BY <1>3, <2>2, NewestOfBoard
  <2>3. CASE TargetMoves \/ TargetRestarts \/ BoardRestarts
    BY <1>3, <2>3, NewestOfTarget
  <2>4. CASE Starts \/ Opens \/ Plug \/ UNCHANGED cableVars
    <3>1. UNCHANGED <<inbox, calling, by, last, missed, endpoint, shown>>
      BY <2>4 DEF Starts, Opens, Plug, cableVars, sendVars, history
    <3>2. report' = report
      BY <2>4 DEF Starts, Opens, Plug, cableVars, serialVars, D!Start, D!Open,
                  D!Configure, D!Plug, D!calls
    <3>3. Newest(k)
      BY <1>3, <3>1 DEF CableInv, WayInv, ShowInv
    <3> QED  BY <3>1, <3>2, <3>3, NewestKept
  <2> QED  BY <2>1, <2>2, <2>3, <2>4 DEF Next, DaemonSteps
<1> QED  BY <1>1, <1>2, <1>3 DEF CableInv, WayInv, ShowInv

(* Every variable of the way stays within its type: the serial sink's call, *)
(* the tasks in send_report, the counters, which wrap, and the UART buffer, *)
(* which never holds more than it can.                                      *)
THEOREM TypeCorrect == Spec => []TypeOK
<1>1. CableInv => TypeOK
  <2> SUFFICES ASSUME CableInv
               PROVE  TypeOK
    OBVIOUS
  <2>1. ports \in Nat
    BY DEF CableInv, SerialInv, NoPortLeak, D!NoPortLeak
  <2> QED
    BY <2>1 DEF CableInv, SerialInv, SerialTypeOK, SendTypes, SendTypeOK, WayInv,
                WayTypeOK, TypeOK
<1> QED  BY <1>1, InitCableInv, NextCableInv, PTL DEF Spec

(* However system calls fail and the port comes and goes, the daemon has a *)
(* file open on it for s.f and for the one that is configured, no other.   *)
THEOREM PortsClosed == Spec => []NoPortLeak
<1>1. CableInv => NoPortLeak
  BY DEF CableInv, SerialInv
<1> QED  BY <1>1, InitCableInv, NextCableInv, PTL DEF Spec

(* A port that is back costs at most one report: write closes the dead     *)
(* file, and the next one opens the port again.                            *)
THEOREM ReplugCostsOne == Spec => []OneFailurePerReplug
<1>1. CableInv => OneFailurePerReplug
  BY DEF CableInv, SerialInv, DeadIsNews, OneFailurePerReplug, D!OneFailurePerReplug,
         D!Alive
<1> QED  BY <1>1, InitCableInv, NextCableInv, PTL DEF Spec

(* For any number of transports that send at once, what account_report     *)
(* compares the next report with is what the target shows, and the         *)
(* counters have counted what it has seen.                                 *)
THEOREM CountersRight == Spec => []CountersShowTarget
<1>1. CableInv => CountersShowTarget
  BY DEF CableInv, Counted, InHand, Then, Pressing, CountersShowTarget,
         P!CountersShowTarget
<1> QED  BY <1>1, InitCableInv, NextCableInv, PTL DEF Spec

(* When nothing of a kind is under way, the target shows the daemon's last *)
(* report of that kind, unless that one was lost or another transport has  *)
(* spoken since: with any buffer, any tasks and any restarts, a loss never *)
(* outlives the next report that gets through.                             *)
THEOREM LastReportShown == Spec => []TargetShowsLast
<1>1. CableInv => TargetShowsLast
  <2> SUFFICES ASSUME CableInv, NEW k \in Kind \ (UnderWay \cup missed), by[k] = Uart
               PROVE  shown[k] = last[k]
    BY DEF TargetShowsLast
  <2>1. Newest(k)
    BY DEF CableInv, WayInv, ShowInv
  <2>2. ~Is(report, k) /\ ~Is(calling[Uart], k) /\ ~Is(endpoint, k)
    BY DEF UnderWay, KindsIn, Is
  <2>3. ~Has(inbox, k)
    BY CableAssumption, KindsOfMany DEF UnderWay, CableInv, WayInv, WayTypeOK
  <2>4. Then(shown, endpoint)[k] = shown[k]
    BY <2>2 DEF Then, Is, CableInv, SendTypes, SendTypeOK
  <2> QED  BY <2>1, <2>2, <2>3, <2>4 DEF Newest
<1> QED  BY <1>1, InitCableInv, NextCableInv, PTL DEF Spec

(* While a target that may be woken sleeps, send_report gives no report up *)
(* unless the target was too slow or slept again: whoever waits has asked  *)
(* it to wake up first.                                                    *)
THEOREM WakingKept == Spec => WakingReportKept
<1>1. CableInv /\ [Next]_cableVars
        => [\A t \in Task :
              task[t] = "ready" /\ task'[t] = "idle" /\ endpoint' # calling[t] /\ armed
                 => disturbed']_P!sendVars
  <2> SUFFICES ASSUME CableInv, SendStep, NEW t \in Task,
                      task[t] = "ready", task'[t] = "idle", endpoint' # calling[t], armed
               PROVE  disturbed'
    BY StepsOfParts DEF CableInv, WayInv, WayTypeOK, sendVars, P!sendVars, P!callers,
                        P!stats, P!target, P!sendHistory
  <2> USE DEF CableInv, SendTypes, SendTypeOK
  <2>1. CASE P!Sleep \/ P!TargetRestarts \/ P!BoardRestarts
    BY <2>1 DEF P!Sleep, P!TargetRestarts, P!BoardRestarts
  <2>2. ASSUME NEW u \in Task, P!Send(u) \/ P!Drop(u)
        PROVE  disturbed'
    <3>1. u = t
      BY <2>2 DEF P!Send, P!Drop, Serialised
    <3>2. CASE P!Send(u)
      BY <3>1, <3>2 DEF P!Send
    <3>3. CASE P!Drop(u)
      BY <3>1, <3>3 DEF P!Drop, Asked
    <3> QED  BY <2>2, <3>2, <3>3
  <2>3. CASE /\ ~P!Sleep /\ ~P!TargetRestarts /\ ~P!BoardRestarts
             /\ ~ \E u \in Task : P!Send(u) \/ P!Drop(u)
    BY <2>3 DEF SendStep, P!Call, P!Acquire, P!Counted, P!Woken, P!WakeTimeout,
                P!Poll, P!Wake, P!callers
  <2> QED  BY <2>1, <2>2, <2>3
<1> QED  BY <1>1, InitCableInv, NextCableInv, PTL
       DEF Spec, WakingReportKept, P!WakingReportKept
=============================================================================
