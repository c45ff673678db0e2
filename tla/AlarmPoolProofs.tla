-------------------------- MODULE AlarmPoolProofs --------------------------
(***************************************************************************)
(* Proofs about AlarmPool for every value of its constants: types, the     *)
(* deduplication of alarms, and the silence of filtered targets.           *)
(***************************************************************************)
EXTENDS AlarmPool, TLAPS

USE DEF Requesters

\* The assumptions on the constants, one constant at a time.
LEMMA Windows ==
  /\ MaxAge \in Nat /\ FilterTtl \in Nat /\ FilterTtl # 0
  /\ DedupWindow \in Nat /\ PushInterval \in 0..MaxAge
  /\ PruneAge \in Nat /\ PublishAge \in Nat
  BY WindowAssumption DEF WindowAssumption

LEMMA Data ==
  /\ Scores \subseteq Nat /\ DefaultScore \in Scores
  /\ StoredAs \in [Targets -> Targets]
  /\ Suppressible \subseteq Targets /\ Confirmable \subseteq Targets /\ Suspects \subseteq Targets
  BY DataAssumption DEF DataAssumption

USE Windows, Data

-----------------------------------------------------------------------------
(* Typing *)

\* Ages stay within their bound.
LEMMA OlderType == \A n \in 0..MaxAge : Older(n) \in 0..MaxAge /\ Older(n) >= n
  BY DEF Older

\* What is left of a filter stays within its bound and never grows.
LEMMA LessType == \A n \in 0..FilterTtl : Less(n) \in 0..FilterTtl /\ Less(n) <= n
  BY DEF Less

\* A refreshed alarm is an alarm of the same id, target and rule.
LEMMA RefreshedType ==
  ASSUME NEW a \in AlarmData, NEW c \in Candidate
  PROVE  /\ Refreshed(a, c) \in AlarmData
         /\ Refreshed(a, c).id = a.id /\ Refreshed(a, c).uid = a.uid
         /\ Refreshed(a, c).rule = a.rule /\ Refreshed(a, c).age = 0
<1> DEFINE b == [a EXCEPT !.age = 0]
<1>1. b \in AlarmData /\ b.id = a.id /\ b.uid = a.uid /\ b.rule = a.rule /\ b.age = 0
  BY DEF AlarmData
<1>2. Refreshed(a, c) = [b EXCEPT !.score = c.score]
  BY DEF Refreshed
<1>3. c.score \in Scores
  BY DEF Candidate
<1> HIDE DEF b
<1> QED
  BY <1>1, <1>2, <1>3 DEF AlarmData

\* A raised alarm differs from what it was in its score only.
LEMMA RaisedType ==
  ASSUME NEW a \in AlarmData
  PROVE  /\ Raised(a) \in AlarmData
         /\ Raised(a).id = a.id /\ Raised(a).uid = a.uid
         /\ Raised(a).rule = a.rule /\ Raised(a).age = a.age
  BY DEF Raised, AlarmData

\* An alarm a tick older differs from what it was in its age only.
LEMMA OlderAlarmType ==
  ASSUME NEW a \in AlarmData, NEW b, b = [a EXCEPT !.age = Older(@)]
  PROVE  /\ b \in AlarmData
         /\ b.uid = a.uid /\ b.rule = a.rule /\ b.age >= a.age
  BY OlderType DEF AlarmData

\* Ids and targets of alarms are ids and targets.
LEMMA PoolTypes ==
  ASSUME NEW A \in SUBSET AlarmData
  PROVE  /\ IdsOf(A) \subseteq AlarmIds
         /\ UidsOf(A) \subseteq Targets
         /\ \A ok : NewlyResolved(A, ok) \subseteq AlarmIds
         /\ Publishable(A) \subseteq A
  BY DEF IdsOf, UidsOf, NewlyResolved, Publishable, AlarmData

\* Recording an alarm time keeps the type of the evaluation table.
LEMMA RecordAlarmTimeType ==
  ASSUME eval \in [AlarmIds -> {"none", "threat", "both"}], NEW ids, NEW lost
  PROVE  RecordAlarmTime(ids, lost) \in [AlarmIds -> {"none", "threat", "both"}]
  BY DEF RecordAlarmTime

\* The manual alarms a publisher keeps are manual alarms.
LEMMA SyncedManualType ==
  ASSUME manual \subseteq ManualAlarm
  PROVE  SyncedManual \subseteq ManualAlarm /\ UidsOf(SyncedManual) \subseteq Targets
  BY DEF SyncedManual, ManualAlarm, UidsOf

\* Setting a filter keeps the type of the filter map.
LEMMA FilterType ==
  ASSUME NEW f \in [Types -> [Targets -> 0..FilterTtl]], NEW t \in Types, NEW u \in Targets
  PROVE  [f EXCEPT ![t][u] = FilterTtl] \in [Types -> [Targets -> 0..FilterTtl]]
<1> FilterTtl \in 0..FilterTtl
  OBVIOUS
<1> QED
  OBVIOUS

\* Lifting a filter keeps the type of the filter map.
LEMMA WithoutFilterType ==
  ASSUME filter \in [Types -> [Targets -> 0..FilterTtl]], NEW u \in Targets
  PROVE  WithoutFilter(u) \in [Types -> [Targets -> 0..FilterTtl]]
  BY DEF WithoutFilter

\* The name a manual alarm is stored under is a target.
LEMMA StorageIdType == \A u \in Targets : StorageId(u) \in Targets
  BY DEF StorageId

LEMMA TypeInit == Init => TypeOK
  BY DEF Init, TypeOK

LEMMA TypeTrackAlarmThread == TypeOK /\ TrackAlarmThread => TypeOK'
<1> SUFFICES ASSUME TypeOK, TrackAlarmThread PROVE TypeOK'
  OBVIOUS
<1> USE DEF TypeOK, poolVars, trackVars, pushVars, dbVars
<1>1. ASSUME CopyTracks  PROVE  TypeOK'
  BY <1>1 DEF CopyTracks
<1>2. ASSUME NEW c \in cand, CheckFilter(c)  PROVE  TypeOK'
  BY <1>2 DEF CheckFilter
<1>3. ASSUME NEW c \in cand, NEW a \in alarms, SaveRefresh(c, a)  PROVE  TypeOK'
  <2>1. alarms' \subseteq AlarmData
    BY <1>3, RefreshedType DEF SaveRefresh
  <2>2. pending' \subseteq Write
    BY <1>3 DEF SaveRefresh, FinishSave, Write, AlarmData
  <2> QED
    BY <1>3, <2>1, <2>2 DEF SaveRefresh, FinishSave
<1>4. ASSUME NEW c \in cand, NEW id \in AlarmIds, SaveNew(c, id)  PROVE  TypeOK'
  <2>1. alarms' \subseteq AlarmData
    BY <1>4 DEF SaveNew, AlarmData, Candidate
  <2>2. pending' \subseteq Write
    BY <1>4 DEF SaveNew, FinishSave, Write
  <2> QED
    BY <1>4, <2>1, <2>2 DEF SaveNew, FinishSave
<1>5. ASSUME NEW w \in pending, NEW lostEval \in BOOLEAN, NEW lostRow \in BOOLEAN,
             WriteDb(w, lostEval, lostRow)
      PROVE  TypeOK'
  BY <1>5 DEF WriteDb, RecordThreat, Write
<1>6. ASSUME EndPass  PROVE  TypeOK'
  BY <1>6 DEF EndPass
<1>7. ASSUME NEW ok, NEW lost, BuildEvent(ok, lost)  PROVE  TypeOK'
  <2>1. manual' \subseteq ManualAlarm
    BY <1>7, SyncedManualType DEF BuildEvent
  <2>2. event' \subseteq Targets
    <3>1. UidsOf(Publishable(alarms)) \subseteq Targets
      BY PoolTypes DEF UidsOf
    <3>2. UidsOf({m \in Publishable(SyncedManual) : Found(m.uid)}) \subseteq Targets
      BY SyncedManualType DEF UidsOf, Publishable
    <3> QED
      BY <1>7, <3>1, <3>2 DEF BuildEvent
  <2>3. NewlyResolved(Publishable(alarms), ok) \subseteq AlarmIds
    BY PoolTypes
  <2>4. resolved' \subseteq AlarmIds
    BY <1>7, <2>3 DEF BuildEvent
  <2>5. eval' \in [AlarmIds -> {"none", "threat", "both"}]
    BY <1>7, RecordAlarmTimeType DEF BuildEvent
  <2> QED
    BY <1>7, <2>1, <2>2, <2>4, <2>5 DEF BuildEvent
<1>8. ASSUME SendEvent  PROVE  TypeOK'
  BY <1>8 DEF SendEvent
<1>9. ASSUME PruneStale  PROVE  TypeOK'
  BY <1>9 DEF PruneStale
<1>10. CASE \E u \in Targets, r \in Rules, s \in Scores, pass, zone \in BOOLEAN,
              list \in {"none", "black", "notWhite"} : Judge(u, r, s, pass, zone, list)
  BY <1>10 DEF Judge, Candidate
<1>11. CASE \E w \in pending : \E lostEval, lostRow \in BOOLEAN : WriteDb(w, lostEval, lostRow)
  BY <1>5, <1>11, ZenonT(30)
<1>12. ASSUME NEW c \in cand, NoIdLeft(c)  PROVE  TypeOK'
  BY <1>12 DEF NoIdLeft
<1> QED
  BY <1>1, <1>2, <1>3, <1>4, <1>6, <1>7, <1>8, <1>9, <1>10, <1>11, <1>12 DEF TrackAlarmThread

LEMMA TypeSnapshotThread == TypeOK /\ SnapshotThread => TypeOK'
<1> SUFFICES ASSUME TypeOK, SnapshotThread PROVE TypeOK'
  OBVIOUS
<1> USE DEF TypeOK, poolVars, trackVars, pushVars, dbVars
<1>1. ASSUME NEW ok, NEW lost, BuildSnapshot(ok, lost)  PROVE  TypeOK'
  <2>1. snap' \subseteq Targets
    <3>1. UidsOf(Publishable(alarms)) \subseteq Targets
      BY PoolTypes DEF UidsOf
    <3>2. UidsOf(Publishable(manual)) \subseteq Targets
      BY DEF UidsOf, Publishable, ManualAlarm
    <3> QED
      BY <1>1, <3>1, <3>2 DEF BuildSnapshot
  <2>2. NewlyResolved(Publishable(alarms), ok) \subseteq AlarmIds
    BY PoolTypes
  <2>3. resolved' \subseteq AlarmIds
    BY <1>1, <2>2 DEF BuildSnapshot
  <2>4. eval' \in [AlarmIds -> {"none", "threat", "both"}]
    BY <1>1, RecordAlarmTimeType DEF BuildSnapshot
  <2> QED
    BY <1>1, <2>1, <2>3, <2>4 DEF BuildSnapshot
<1>2. ASSUME NEW suspicious \in SUBSET Suspects, ReleaseSnapshot(suspicious)  PROVE  TypeOK'
  BY <1>2 DEF ReleaseSnapshot
<1>3. ASSUME NEW taken \in BOOLEAN, RpcReturns(taken)  PROVE  TypeOK'
  BY <1>3 DEF RpcReturns
<1> QED
  BY <1>1, <1>2, <1>3 DEF SnapshotThread

LEMMA TypeRequests == TypeOK /\ Requests => TypeOK'
<1> SUFFICES ASSUME TypeOK, Requests PROVE TypeOK'
  OBVIOUS
<1> USE DEF TypeOK, poolVars, trackVars, pushVars, dbVars
<1>1. ASSUME NEW b \in Requesters, NEW t \in Types, NEW u \in Suppressible, AddFilter(b, t, u)
      PROVE  TypeOK'
  <2>1. filter' \in [Types -> [Targets -> 0..FilterTtl]]
    BY <1>1, FilterType DEF AddFilter
  <2>2. calls' \subseteq Call
    <3>1. [by |-> b, op |-> "purge", uid |-> u, hint |-> FALSE] \in Call
      BY Zenon DEF Call
    <3> QED
      BY <1>1, <3>1 DEF AddFilter
  <2> QED
    BY <1>1, <2>1, <2>2 DEF AddFilter
<1>2. ASSUME NEW u \in Confirmable, NEW hint \in BOOLEAN, BeginConfirm(u, hint)
      PROVE  TypeOK'
  BY <1>2, WithoutFilterType DEF BeginConfirm, Call
<1>3. ASSUME NEW c \in calls, Purge(c)  PROVE  TypeOK'
  BY <1>3 DEF Purge
<1>4. ASSUME NEW c \in calls, NEW lost, ConfirmRuleAlarms(c, lost)  PROVE  TypeOK'
  <2>1. AlarmsOf(c.uid) \in SUBSET AlarmData
    BY DEF AlarmsOf
  <2>2. alarms' \subseteq AlarmData
    BY <1>4, <2>1, RaisedType DEF ConfirmRuleAlarms
  <2>3. resolved' \subseteq AlarmIds
    BY <1>4, <2>1, PoolTypes DEF ConfirmRuleAlarms
  <2>4. eval' \in [AlarmIds -> {"none", "threat", "both"}]
    BY <1>4, RecordAlarmTimeType DEF ConfirmRuleAlarms
  <2> QED
    BY <1>4, <2>2, <2>3, <2>4 DEF ConfirmRuleAlarms, Call
<1>5. ASSUME NEW c \in calls, ConfirmManually(c)  PROVE  TypeOK'
  BY <1>5, StorageIdType, WithoutFilterType DEF ConfirmManually, Call, ManualAlarm
<1>6. ASSUME NEW c \in calls, ConfirmNotFound(c)  PROVE  TypeOK'
  BY <1>6 DEF ConfirmNotFound, Call
<1> QED
  BY <1>1, <1>2, <1>3, <1>4, <1>5, <1>6 DEF Requests, FinishCall

LEMMA TypeTick == TypeOK /\ Tick => TypeOK'
<1> SUFFICES ASSUME TypeOK, Tick PROVE TypeOK'
  OBVIOUS
<1> USE DEF TypeOK, poolVars, trackVars, pushVars, dbVars
<1>1. alarms' \subseteq AlarmData
  BY OlderAlarmType DEF Tick
<1>2. manual' \subseteq ManualAlarm
  BY OlderType DEF Tick, ManualAlarm
<1>3. filter' \in [Types -> [Targets -> 0..FilterTtl]]
  BY LessType DEF Tick
<1>4. sincePush' \in 0..PushInterval
  BY WindowAssumption DEF Tick, WindowAssumption
<1> QED
  BY <1>1, <1>2, <1>3, <1>4 DEF Tick

LEMMA TypeNext == TypeOK /\ [Next]_vars => TypeOK'
<1> SUFFICES ASSUME TypeOK, [Next]_vars PROVE TypeOK'
  OBVIOUS
<1>1. ASSUME NEW u \in Targets, TrackAppears(u) \/ TrackVanishes(u)  PROVE  TypeOK'
  BY <1>1 DEF TrackAppears, TrackVanishes, TypeOK, poolVars, trackVars, pushVars, dbVars
<1>2. CASE UNCHANGED vars
  BY <1>2 DEF TypeOK, vars, poolVars, trackVars, pushVars, dbVars
<1> QED
  BY <1>1, <1>2, TypeTrackAlarmThread, TypeSnapshotThread, TypeRequests, TypeTick DEF Next

\* The state of the pool has its type in every reachable state: ages and filter
\* times stay in range, and nothing refers to an unknown target, rule or id.
THEOREM TypeCorrect == Spec => []TypeOK
  BY TypeInit, TypeNext, PTL DEF Spec

-----------------------------------------------------------------------------
(* One fresh alarm per deduplication key *)

\* SameKey looks at the target and the rule of a record only.
LEMMA SameKeyCongruence ==
  ASSUME NEW a, NEW b, NEW x, NEW y,
         a.uid = x.uid, a.rule = x.rule, b.uid = y.uid, b.rule = y.rule
  PROVE  SameKey(a, b) <=> SameKey(x, y)
  BY DEF SameKey

LEMMA SameKeySymmetry ==
  ASSUME NEW a, NEW b  PROVE  SameKey(a, b) <=> SameKey(b, a)
  BY DEF SameKey

LEMMA DedupSave ==
  ASSUME TypeOK, OneLiveAlarmPerKey, NEW c \in cand
  PROVE  /\ \A a \in alarms : SaveRefresh(c, a) => OneLiveAlarmPerKey'
         /\ \A id \in AlarmIds : SaveNew(c, id) => OneLiveAlarmPerKey'
<1>1. ASSUME NEW a \in alarms, SaveRefresh(c, a)  PROVE  OneLiveAlarmPerKey'
  <2> DEFINE r == Refreshed(a, c)
  <2>1. /\ a \in AlarmData /\ a.age < DedupWindow
        /\ r.uid = a.uid /\ r.rule = a.rule
        /\ alarms' = (alarms \ {a}) \cup {r}
    BY <1>1, RefreshedType DEF TypeOK, SaveRefresh, DedupHits
  <2> HIDE DEF r
  <2> SUFFICES ASSUME NEW x \in alarms', NEW y \in alarms', SameKey(x, y),
                      x.age < DedupWindow, y.age < DedupWindow
               PROVE  x = y
    BY DEF OneLiveAlarmPerKey, SameKey
  <2>2. CASE x = r /\ y \in alarms \ {a}
    <3>1. SameKey(a, y)
      BY <2>1, <2>2, SameKeyCongruence
    <3> QED
      BY <2>1, <2>2, <3>1 DEF OneLiveAlarmPerKey
  <2>3. CASE y = r /\ x \in alarms \ {a}
    <3>1. SameKey(x, a)
      BY <2>1, <2>3, SameKeyCongruence
    <3> QED
      BY <2>1, <2>3, <3>1 DEF OneLiveAlarmPerKey
  <2>4. CASE x \in alarms \ {a} /\ y \in alarms \ {a}
    BY <2>4 DEF OneLiveAlarmPerKey
  <2> QED
    BY <2>1, <2>2, <2>3, <2>4
<1>2. ASSUME NEW id \in AlarmIds, SaveNew(c, id)  PROVE  OneLiveAlarmPerKey'
  <2> DEFINE n == [id |-> id, uid |-> c.uid, rule |-> c.rule, age |-> 0, score |-> c.score]
  <2>1. /\ n.uid = c.uid /\ n.rule = c.rule
        /\ alarms' = alarms \cup {n}
        /\ \A a \in alarms : ~(SameKey(a, c) /\ a.age < DedupWindow)
    BY <1>2 DEF SaveNew, DedupHits
  <2> HIDE DEF n
  <2> SUFFICES ASSUME NEW x \in alarms', NEW y \in alarms', SameKey(x, y),
                      x.age < DedupWindow, y.age < DedupWindow
               PROVE  x = y
    BY DEF OneLiveAlarmPerKey, SameKey
  <2>2. CASE x \in alarms /\ y = n
    BY <2>1, <2>2, SameKeyCongruence
  <2>3. CASE y \in alarms /\ x = n
    BY <2>1, <2>3, SameKeyCongruence, SameKeySymmetry
  <2>4. CASE x \in alarms /\ y \in alarms
    BY <2>4 DEF OneLiveAlarmPerKey
  <2> QED
    BY <2>1, <2>2, <2>3, <2>4
<1> QED
  BY <1>1, <1>2

LEMMA DedupConfirm ==
  ASSUME TypeOK, OneLiveAlarmPerKey, NEW c \in calls, NEW lost, ConfirmRuleAlarms(c, lost)
  PROVE  OneLiveAlarmPerKey'
<1>1. \A x \in alarms' : \E a \in alarms :
        /\ a.uid = x.uid /\ a.rule = x.rule /\ a.age = x.age
        /\ x = IF a.uid = c.uid THEN Raised(a) ELSE a
  BY RaisedType DEF ConfirmRuleAlarms, AlarmsOf, TypeOK
<1> SUFFICES ASSUME NEW x \in alarms', NEW y \in alarms', SameKey(x, y),
                    x.age < DedupWindow, y.age < DedupWindow
             PROVE  x = y
  BY DEF OneLiveAlarmPerKey, SameKey
<1>2. PICK a \in alarms : /\ a.uid = x.uid /\ a.rule = x.rule /\ a.age = x.age
                          /\ x = IF a.uid = c.uid THEN Raised(a) ELSE a
  BY <1>1
<1>3. PICK b \in alarms : /\ b.uid = y.uid /\ b.rule = y.rule /\ b.age = y.age
                          /\ y = IF b.uid = c.uid THEN Raised(b) ELSE b
  BY <1>1
<1>4. a = b
  <2>1. SameKey(a, b)
    BY <1>2, <1>3, SameKeyCongruence
  <2> QED
    BY <1>2, <1>3, <2>1 DEF OneLiveAlarmPerKey
<1> QED
  BY <1>2, <1>3, <1>4

LEMMA DedupTick ==
  ASSUME TypeOK, OneLiveAlarmPerKey, Tick
  PROVE  OneLiveAlarmPerKey'
<1> SUFFICES ASSUME NEW x \in alarms', NEW y \in alarms', SameKey(x, y),
                    x.age < DedupWindow, y.age < DedupWindow
             PROVE  x = y
  BY DEF OneLiveAlarmPerKey, SameKey
<1>1. PICK a \in alarms : x = [a EXCEPT !.age = Older(@)]
  BY DEF Tick
<1>2. PICK b \in alarms : y = [b EXCEPT !.age = Older(@)]
  BY DEF Tick
<1>3. a \in AlarmData /\ b \in AlarmData
  BY DEF TypeOK
<1>4. x.uid = a.uid /\ x.rule = a.rule /\ x.age >= a.age /\ x \in AlarmData
  BY <1>1, <1>3, OlderAlarmType
<1>5. y.uid = b.uid /\ y.rule = b.rule /\ y.age >= b.age /\ y \in AlarmData
  BY <1>2, <1>3, OlderAlarmType
<1>6. a.age < DedupWindow /\ b.age < DedupWindow
  BY <1>3, <1>4, <1>5 DEF AlarmData
<1>7. SameKey(a, b)
  BY <1>4, <1>5, SameKeyCongruence
<1> QED
  BY <1>1, <1>2, <1>6, <1>7 DEF OneLiveAlarmPerKey

\* Removing alarms, or leaving them alone, keeps the invariant.
LEMMA DedupSubset ==
  ASSUME OneLiveAlarmPerKey, alarms' \subseteq alarms
  PROVE  OneLiveAlarmPerKey'
  BY DEF OneLiveAlarmPerKey, SameKey

LEMMA DedupNext == TypeOK /\ OneLiveAlarmPerKey /\ [Next]_vars => OneLiveAlarmPerKey'
<1> SUFFICES ASSUME TypeOK, OneLiveAlarmPerKey, [Next]_vars  PROVE  OneLiveAlarmPerKey'
  OBVIOUS
<1>1. CASE TrackAlarmThread
  <2>1. \/ \E c \in cand : \/ \E a \in alarms : SaveRefresh(c, a)
                          \/ \E id \in AlarmIds : SaveNew(c, id)
        \/ alarms' \subseteq alarms
    BY <1>1 DEF TrackAlarmThread, CopyTracks, Judge, CheckFilter, NoIdLeft, WriteDb, EndPass, BuildEvent,
                SendEvent, PruneStale, poolVars
  <2> QED
    BY <2>1, DedupSave, DedupSubset
<1>2. CASE SnapshotThread
  BY <1>2, DedupSubset
  DEF SnapshotThread, BuildSnapshot, ReleaseSnapshot, RpcReturns, poolVars
<1>3. CASE Requests
  <2>1. \/ \E c \in calls : \E lost : ConfirmRuleAlarms(c, lost)
        \/ alarms' \subseteq alarms
    BY <1>3 DEF Requests, FinishCall, AddFilter, BeginConfirm, Purge, ConfirmManually,
                ConfirmNotFound
  <2> QED
    BY <2>1, DedupConfirm, DedupSubset
<1>4. CASE \E u \in Targets : TrackAppears(u) \/ TrackVanishes(u)
  BY <1>4, DedupSubset DEF TrackAppears, TrackVanishes, poolVars
<1>5. CASE Tick
  BY <1>5, DedupTick
<1>6. CASE UNCHANGED vars
  BY <1>6, DedupSubset DEF vars, poolVars
<1> QED
  BY <1>1, <1>2, <1>3, <1>4, <1>5, <1>6 DEF Next

\* SaveToDB never leaves two alarms of one deduplication key inside the window,
\* whatever the snapshot thread, the requests, the clock and the pruning do.
THEOREM DedupCorrect == Spec => []OneLiveAlarmPerKey
<1>1. Init => OneLiveAlarmPerKey
  BY DEF Init, OneLiveAlarmPerKey
<1> QED
  BY <1>1, DedupNext, TypeCorrect, PTL DEF Spec

-----------------------------------------------------------------------------
(* Silenced targets *)

\* What a publisher takes from a table is not filtered.
LEMMA PublishableNotFiltered ==
  ASSUME NEW A, NEW u \in UidsOf(Publishable(A))
  PROVE  ~Filtered(u)
  BY DEF UidsOf, Publishable

\* The invariant of one target: SilencedNeverBuilt is this for all targets.
SilencedInv(u) ==
  /\ Filtered(u)
  /\ \/ phase = "publishing" /\ u \in event
     \/ push = "building" /\ u \in snap
  => \E c \in calls : c.op = "purge" /\ c.uid = u

LEMMA SilencedSplit == SilencedNeverBuilt <=> \A u \in Targets : SilencedInv(u)
  BY DEF SilencedNeverBuilt, SilencedInv

\* A step keeps the invariant of u if it puts u in no message, removes no purge of
\* u and sets no filter of u.
LEMMA SilencedFrame ==
  ASSUME NEW u \in Targets, SilencedInv(u),
         Filtered(u)' => Filtered(u),
         phase' = "publishing" /\ u \in event' => phase = "publishing" /\ u \in event,
         push' = "building" /\ u \in snap' => push = "building" /\ u \in snap,
         \A c \in calls : c.op = "purge" => c \in calls'
  PROVE  SilencedInv(u)'
  BY DEF SilencedInv

LEMMA SilencedTrackAlarmThread ==
  ASSUME TypeOK, NEW u \in Targets, SilencedInv(u), TrackAlarmThread
  PROVE  SilencedInv(u)'
<1> USE DEF poolVars, pushVars
<1>1. (Filtered(u)' <=> Filtered(u)) /\ push' = push /\ snap' = snap /\ calls' = calls
  BY DEF TrackAlarmThread, CopyTracks, Judge, CheckFilter, NoIdLeft, SaveRefresh, SaveNew, FinishSave, WriteDb,
         EndPass, BuildEvent, SendEvent, PruneStale, Filtered
<1>2. CASE phase' # "publishing"
  BY <1>1, <1>2, SilencedFrame
<1>3. CASE phase' = "publishing"
  <2>1. PICK ok, lost : BuildEvent(ok, lost)
    BY <1>3 DEF TrackAlarmThread, CopyTracks, Judge, CheckFilter, NoIdLeft, SaveRefresh, SaveNew, FinishSave,
                WriteDb, EndPass, SendEvent, PruneStale
  <2>2. u \in event' => ~Filtered(u)
    <3>1. u \in UidsOf(Publishable(alarms)) => ~Filtered(u)
      BY PublishableNotFiltered
    <3>2. u \in UidsOf({m \in Publishable(SyncedManual) : Found(m.uid)}) => ~Filtered(u)
      BY DEF UidsOf, Publishable
    <3> QED
      BY <2>1, <3>1, <3>2 DEF BuildEvent
  <2>3. push # "building"
    BY <2>1 DEF BuildEvent, MutexFree
  <2> QED
    BY <1>1, <2>2, <2>3 DEF SilencedInv
<1> QED
  BY <1>2, <1>3

LEMMA SilencedSnapshotThread ==
  ASSUME TypeOK, NEW u \in Targets, SilencedInv(u), SnapshotThread
  PROVE  SilencedInv(u)'
<1> USE DEF poolVars, trackVars
<1>1. ASSUME NEW ok, NEW lost, BuildSnapshot(ok, lost)  PROVE  SilencedInv(u)'
  <2>1. u \in snap' => ~Filtered(u)
    BY <1>1, PublishableNotFiltered DEF BuildSnapshot
  <2>2. phase' # "publishing" /\ (Filtered(u)' <=> Filtered(u))
    BY <1>1 DEF BuildSnapshot, MutexFree, Filtered
  <2> QED
    BY <2>1, <2>2 DEF SilencedInv
<1>2. ASSUME NEW suspicious, ReleaseSnapshot(suspicious)  PROVE  SilencedInv(u)'
  BY <1>2, SilencedFrame DEF ReleaseSnapshot, Filtered
<1>3. ASSUME NEW taken, RpcReturns(taken)  PROVE  SilencedInv(u)'
  BY <1>3, SilencedFrame DEF RpcReturns, Filtered
<1> QED
  BY <1>1, <1>2, <1>3 DEF SnapshotThread

LEMMA SilencedRequests ==
  ASSUME TypeOK, NEW u \in Targets, SilencedInv(u), Requests
  PROVE  SilencedInv(u)'
<1> USE DEF trackVars, pushVars
<1>1. ASSUME NEW b, NEW t \in Types, NEW v \in Suppressible, AddFilter(b, t, v)
      PROVE  SilencedInv(u)'
  <2>1. CASE u = v
    <3> DEFINE call == [by |-> b, op |-> "purge", uid |-> v, hint |-> FALSE]
    <3>1. call \in calls'
      BY <1>1 DEF AddFilter
    <3>2. call.op = "purge" /\ call.uid = u
      BY <2>1
    <3> HIDE DEF call
    <3> QED
      BY <3>1, <3>2 DEF SilencedInv
  <2>2. CASE u # v
    <3>1. Filtered(u)' <=> Filtered(u)
      BY <1>1, <2>2 DEF AddFilter, Filtered, TypeOK
    <3> QED
      BY <1>1, <3>1, SilencedFrame DEF AddFilter
  <2> QED
    BY <2>1, <2>2
<1>2. \A v : Filtered(u) \/ \A t \in Types : WithoutFilter(v)[t][u] = 0
  BY DEF WithoutFilter, Filtered, TypeOK
<1>3. ASSUME NEW v \in Confirmable, NEW hint, BeginConfirm(v, hint)  PROVE  SilencedInv(u)'
  <2>1. Filtered(u)' => Filtered(u)
    BY <1>2, <1>3 DEF BeginConfirm, Filtered
  <2> QED
    BY <1>3, <2>1, SilencedFrame DEF BeginConfirm
<1>4. ASSUME NEW c \in calls, FinishCall(c)  PROVE  SilencedInv(u)'
  \* Every second section needs the mutex, which a message under construction holds.
  <2>1. MutexFree /\ phase' = phase /\ push' = push
    BY <1>4 DEF FinishCall, Purge, ConfirmRuleAlarms, ConfirmManually, ConfirmNotFound
  <2> QED
    BY <2>1 DEF MutexFree, SilencedInv
<1> QED
  BY <1>1, <1>3, <1>4 DEF Requests

LEMMA SilencedTime ==
  ASSUME TypeOK, NEW u \in Targets, SilencedInv(u),
         Tick \/ (\E v \in Targets : TrackAppears(v) \/ TrackVanishes(v)) \/ UNCHANGED vars
  PROVE  SilencedInv(u)'
<1>1. Filtered(u)' => Filtered(u)
  <2>1. CASE Tick
    BY <2>1, LessType DEF Tick, Filtered, TypeOK
  <2> QED
    BY <2>1 DEF TrackAppears, TrackVanishes, vars, poolVars, Filtered
<1> QED
  BY <1>1, SilencedFrame
  DEF Tick, TrackAppears, TrackVanishes, vars, trackVars, pushVars

\* Once addAlarmFilter has returned, no AlarmEvent carries the target and no
\* snapshot is under construction with it.
THEOREM SilenceCorrect == Spec => []SilencedNeverBuilt
<1>1. Init => SilencedNeverBuilt
  BY DEF Init, SilencedNeverBuilt, Filtered
<1>2. TypeOK /\ SilencedNeverBuilt /\ [Next]_vars => SilencedNeverBuilt'
  <2> SUFFICES ASSUME TypeOK, SilencedNeverBuilt, [Next]_vars, NEW u \in Targets
               PROVE  SilencedInv(u)'
    BY DEF SilencedNeverBuilt, SilencedInv
  <2> SilencedInv(u)
    BY SilencedSplit
  <2> QED
    BY SilencedTrackAlarmThread, SilencedSnapshotThread, SilencedRequests, SilencedTime
    DEF Next
<1> QED
  BY <1>1, <1>2, TypeCorrect, PTL DEF Spec

-----------------------------------------------------------------------------
(* The evaluation rows *)

\* The inductive form of EvaluationKeepsUp speaks of ids without a row too: one may
\* be resolved before SaveToDB writes its row.
EvaluationInv ==
  /\ \A i \in AlarmIds :
       SaveDb => eval[i] = IF i \in resolved THEN "both" ELSE IF i \in rows THEN "threat" ELSE "none"
  /\ ~SaveDb => rows = {} /\ pending = {}

\* Resolving alarms and recording their alarm times in one step keeps it.
LEMMA EvaluationResolve ==
  ASSUME TypeOK, EvaluationInv, ~DbMayFail, NEW new \in SUBSET AlarmIds,
         NEW lost \in Losses(new), resolved' = resolved \cup new,
         eval' = RecordAlarmTime(new, lost), rows' = rows, pending' = pending
  PROVE  EvaluationInv'
<1>1. lost = {}
  BY DEF Losses
<1> QED
  BY <1>1 DEF EvaluationInv, RecordAlarmTime, TypeOK

\* Leaving the tables alone keeps it.
LEMMA EvaluationFrame ==
  ASSUME EvaluationInv, UNCHANGED <<resolved, eval, rows>>, pending' = pending \/ pending' = {}
  PROVE  EvaluationInv'
  BY DEF EvaluationInv

LEMMA EvaluationTrackAlarmThread ==
  ASSUME TypeOK, EvaluationInv, ~DbMayFail, TrackAlarmThread
  PROVE  EvaluationInv'
<1> USE DEF poolVars, dbVars
<1>1. ASSUME NEW c, NEW a, SaveRefresh(c, a)  PROVE  EvaluationInv'
  BY <1>1 DEF SaveRefresh, FinishSave, EvaluationInv
<1>2. ASSUME NEW c, NEW id, SaveNew(c, id)  PROVE  EvaluationInv'
  BY <1>2 DEF SaveNew, FinishSave, EvaluationInv
<1>3. ASSUME NEW w \in pending, NEW lostEval \in BOOLEAN, NEW lostRow \in BOOLEAN,
             WriteDb(w, lostEval, lostRow)
      PROVE  EvaluationInv'
  <2>1. /\ w.id \in AlarmIds /\ SaveDb /\ pending' = {} /\ resolved' = resolved
        /\ \/ w.kind = "insert" /\ eval' = RecordThreat(w.id) /\ rows' = rows \cup {w.id}
           \/ eval' = eval /\ rows' = rows
    BY <1>3 DEF WriteDb, TypeOK, Write, EvaluationInv
  <2> QED
    BY <2>1 DEF RecordThreat, EvaluationInv, TypeOK
<1>4. ASSUME NEW ok, NEW lost, BuildEvent(ok, lost)  PROVE  EvaluationInv'
  <2> DEFINE new == NewlyResolved(Publishable(alarms), ok)
  <2>1. new \in SUBSET AlarmIds
    BY PoolTypes DEF TypeOK
  <2>2. /\ lost \in Losses(new) /\ resolved' = resolved \cup new
        /\ eval' = RecordAlarmTime(new, lost) /\ rows' = rows /\ pending' = pending
    BY <1>4 DEF BuildEvent
  <2> HIDE DEF new
  <2> QED
    BY <2>1, <2>2, EvaluationResolve
<1>5. CASE \/ \E u \in Targets, r \in Rules, s \in Scores, pass, zone \in BOOLEAN,
                 list \in {"none", "black", "notWhite"} : Judge(u, r, s, pass, zone, list)
           \/ \E c \in cand : CheckFilter(c) \/ NoIdLeft(c)
           \/ CopyTracks \/ EndPass \/ SendEvent \/ PruneStale
  BY <1>5, EvaluationFrame DEF CopyTracks, Judge, CheckFilter, NoIdLeft, EndPass, SendEvent, PruneStale
<1>6. CASE \E w \in pending : \E lostEval, lostRow \in BOOLEAN : WriteDb(w, lostEval, lostRow)
  BY <1>3, <1>6, ZenonT(30)
<1> QED
  BY <1>1, <1>2, <1>4, <1>5, <1>6 DEF TrackAlarmThread

LEMMA EvaluationOthers ==
  ASSUME TypeOK, EvaluationInv, ~DbMayFail, [Next]_vars, ~TrackAlarmThread
  PROVE  EvaluationInv'
<1> USE DEF poolVars, trackVars, dbVars
<1>1. ASSUME NEW ok, NEW lost, BuildSnapshot(ok, lost)  PROVE  EvaluationInv'
  <2> DEFINE new == NewlyResolved(Publishable(alarms), ok)
  <2>1. new \in SUBSET AlarmIds
    BY PoolTypes DEF TypeOK
  <2>2. /\ lost \in Losses(new) /\ resolved' = resolved \cup new
        /\ eval' = RecordAlarmTime(new, lost) /\ rows' = rows /\ pending' = pending
    BY <1>1 DEF BuildSnapshot
  <2> HIDE DEF new
  <2> QED
    BY <2>1, <2>2, EvaluationResolve
<1>2. ASSUME NEW c \in calls, NEW lost, ConfirmRuleAlarms(c, lost)  PROVE  EvaluationInv'
  <2> DEFINE new == IdsOf(AlarmsOf(c.uid)) \ resolved
  <2>1. new \in SUBSET AlarmIds
    BY PoolTypes DEF TypeOK, AlarmsOf
  <2>2. /\ lost \in Losses(new) /\ resolved' = resolved \cup new
        /\ eval' = RecordAlarmTime(new, lost) /\ rows' = rows /\ pending' = pending
    BY <1>2 DEF ConfirmRuleAlarms
  <2> HIDE DEF new
  <2> QED
    BY <2>1, <2>2, EvaluationResolve
<1>3. CASE SnapshotThread
  BY <1>1, <1>3, EvaluationFrame DEF SnapshotThread, ReleaseSnapshot, RpcReturns
<1>4. CASE Requests
  BY <1>2, <1>4, EvaluationFrame
  DEF Requests, FinishCall, AddFilter, BeginConfirm, Purge, ConfirmManually, ConfirmNotFound
<1>5. CASE (\E u \in Targets : TrackAppears(u) \/ TrackVanishes(u)) \/ Tick \/ UNCHANGED vars
  BY <1>5, EvaluationFrame DEF TrackAppears, TrackVanishes, Tick, vars
<1> QED
  BY <1>3, <1>4, <1>5 DEF Next

\* With a database that takes every statement, the two writers of
\* system_evaluation_data agree with the table in whatever order they come.
THEOREM EvaluationCorrect == ~DbMayFail => (Spec => []EvaluationKeepsUp)
<1> SUFFICES ASSUME ~DbMayFail PROVE Spec => []EvaluationKeepsUp
  OBVIOUS
<1>1. Init => EvaluationInv
  BY DEF Init, EvaluationInv
<1>2. TypeOK /\ EvaluationInv /\ [Next]_vars => EvaluationInv'
  BY EvaluationTrackAlarmThread, EvaluationOthers
<1>3. TypeOK /\ EvaluationInv => EvaluationKeepsUp
  BY DEF TypeOK, EvaluationInv, EvaluationKeepsUp
<1> QED
  BY <1>1, <1>2, <1>3, TypeCorrect, PTL DEF Spec
=============================================================================
