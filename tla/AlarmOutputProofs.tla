-------------------------- MODULE AlarmOutputProofs --------------------------
(* Proofs about AlarmOutput, for any alarms, scores and number of levels. *)
EXTENDS AlarmOutput, AlarmReports, FiniteSetTheorems, WellFoundedInduction, TLAPS

IsTable(p) == DOMAIN p \subseteq Alarms /\ \A a \in DOMAIN p : p[a] \in Entry

\* Scores, ages and ids of a table are numbers.
LEMMA TableFacts ==
  ASSUME NEW p, IsTable(p), NEW a \in DOMAIN p
  PROVE  a \in Nat /\ p[a].score \in Nat /\ p[a].age \in Nat /\ a \in Alarms
<1>1. p[a] \in [score : Scores, age : 0..MaxAge]
  BY DEF IsTable, Entry
<1>2. p[a].score \in Scores /\ p[a].age \in 0..MaxAge
  BY <1>1
<1>3. ShowAge \in Nat /\ Scores \subseteq Nat /\ Alarms \subseteq Nat
  BY OutputAssumption DEF OutputAssumption
<1>4. a \in Alarms /\ p[a].score \in Nat
  BY <1>2, <1>3 DEF IsTable
<1>5. p[a].age \in Nat
  <2>1. 0..MaxAge \subseteq Nat
    BY <1>3 DEF MaxAge
  <2> QED
    BY <1>2, <2>1
<1> QED
  BY <1>3, <1>4, <1>5

\* The alarms before another one are finitely many.
LEMMA BeforeFinite ==
  ASSUME NEW p, IsTable(p), NEW a
  PROVE  IsFiniteSet(Before(p, a)) /\ Cardinality(Before(p, a)) \in Nat
<1>1. Before(p, a) \in SUBSET Alarms
  BY DEF Before, Ranked, IsTable
<1>2. IsFiniteSet(Alarms)
  BY OutputAssumption DEF OutputAssumption
<1>3. IsFiniteSet(Before(p, a))
  BY <1>1, <1>2, FS_Subset
<1> QED
  BY <1>3, FS_CardinalityType

\* Precedes orders the ranked alarms, so that fewer come before the one that precedes.
LEMMA BeforeGrows ==
  ASSUME NEW p, IsTable(p), NEW a \in Ranked(p), NEW b \in Ranked(p), Precedes(p, a, b)
  PROVE  Cardinality(Before(p, a)) < Cardinality(Before(p, b))
<1>1. \A c \in Ranked(p) : c \in Nat /\ p[c].score \in Nat
  BY TableFacts DEF Ranked
<1>2. Before(p, a) \in SUBSET Before(p, b)
  BY <1>1 DEF Before, Precedes
<1>3. a \in Before(p, b) /\ a \notin Before(p, a)
  BY <1>1 DEF Before, Precedes
<1>4. Cardinality(Before(p, a)) <= Cardinality(Before(p, b))
      /\ Cardinality(Before(p, a)) # Cardinality(Before(p, b))
  BY <1>2, <1>3, BeforeFinite, FS_Subset
<1> QED
  BY <1>4, BeforeFinite

\* One of two ranked alarms precedes the other.
LEMMA PrecedesTotal ==
  ASSUME NEW p, IsTable(p), NEW a \in Ranked(p), NEW b \in Ranked(p), a # b
  PROVE  Precedes(p, a, b) \/ Precedes(p, b, a)
<1>1. a \in Nat /\ b \in Nat /\ p[a].score \in Nat /\ p[b].score \in Nat
  BY TableFacts DEF Ranked
<1> QED
  BY <1>1 DEF Precedes

\* Some ranked alarm is preceded by none.
LEMMA WorstExists ==
  ASSUME NEW p, IsTable(p), Ranked(p) # {}
  PROVE  \E a \in Ranked(p) : Before(p, a) = {}
<1> DEFINE Counts == {Cardinality(Before(p, a)) : a \in Ranked(p)}
<1>1. Counts \subseteq Nat /\ Counts # {}
  BY BeforeFinite
<1>2. PICK n \in Counts : \A m \in Counts : ~(<<m, n>> \in OpToRel(<, Nat))
  BY <1>1, NatLessThanWellFounded, WFMin
<1>3. PICK a \in Ranked(p) : n = Cardinality(Before(p, a))
  BY <1>2
<1>4. ASSUME NEW b \in Before(p, a) PROVE FALSE
  <2>1. b \in Ranked(p) /\ Cardinality(Before(p, b)) < Cardinality(Before(p, a))
    BY BeforeGrows DEF Before
  <2>2. Cardinality(Before(p, b)) \in Counts /\ Cardinality(Before(p, b)) \in Nat
        /\ Cardinality(Before(p, a)) \in Nat
    BY <2>1, BeforeFinite
  <2>3. <<Cardinality(Before(p, b)), Cardinality(Before(p, a))>> \in OpToRel(<, Nat)
    BY <2>1, <2>2 DEF OpToRel
  <2> QED
    BY <1>2, <1>3, <2>2, <2>3
<1> QED
  BY <1>3, <1>4

\* Levels are numbers up to TopLevel, and rank the alarms.
LEMMA LevelType ==
  ASSUME NEW p, IsTable(p), NEW a
  PROVE  Level(p, a) \in Levels
<1>1. Cardinality(Before(p, a)) \in Nat /\ TopLevel \in Nat
  BY BeforeFinite, OutputAssumption DEF OutputAssumption
<1> QED
  BY <1>1 DEF Level, Levels

LEMMA LevelRanks ==
  ASSUME NEW p, IsTable(p)
  PROVE  /\ \A a, b \in Ranked(p) :
              /\ a # b /\ Level(p, a) = Level(p, b) => Level(p, a) = 0
              /\ p[a].score > p[b].score => Level(p, a) >= Level(p, b)
         /\ Ranked(p) # {} =>
              \E a \in Ranked(p) : Level(p, a) = TopLevel /\ \A b \in Ranked(p) : ~(p[b].score > p[a].score)
<1>1. TopLevel \in Nat
  BY OutputAssumption DEF OutputAssumption
<1>2. \A a, b \in Ranked(p) : Precedes(p, a, b) =>
         Cardinality(Before(p, a)) < Cardinality(Before(p, b))
  BY BeforeGrows
<1>3. \A a \in Ranked(p) : Cardinality(Before(p, a)) \in Nat
  BY BeforeFinite
<1>4. ASSUME NEW a \in Ranked(p), NEW b \in Ranked(p), a # b, Level(p, a) = Level(p, b)
      PROVE  Level(p, a) = 0
  BY <1>1, <1>2, <1>3, <1>4, PrecedesTotal DEF Level
<1>5. ASSUME NEW a \in Ranked(p), NEW b \in Ranked(p), p[a].score > p[b].score
      PROVE  Level(p, a) >= Level(p, b)
  <2>1. Precedes(p, a, b)
    BY <1>5 DEF Precedes
  <2> QED
    BY <1>1, <1>2, <1>3, <2>1 DEF Level
<1>6. ASSUME Ranked(p) # {}
      PROVE  \E a \in Ranked(p) : Level(p, a) = TopLevel /\ \A b \in Ranked(p) : ~(p[b].score > p[a].score)
  <2>1. PICK a \in Ranked(p) : Before(p, a) = {}
    BY <1>6, WorstExists
  <2>2. Cardinality(Before(p, a)) = 0
    BY <2>1, FS_EmptySet
  <2>3. Level(p, a) = TopLevel
    BY <1>1, <2>2 DEF Level
  <2>4. \A b \in Ranked(p) : ~(p[b].score > p[a].score)
    BY <2>1 DEF Before, Precedes
  <2> QED
    BY <2>3, <2>4
<1> QED
  BY <1>4, <1>5, <1>6

-----------------------------------------------------------------------------
LEMMA SyncedIsTable ==
  ASSUME TypeOK
  PROVE  IsTable(Synced) /\ DOMAIN Synced \subseteq DOMAIN pool
<1>1. 0 \in 0..MaxAge
  BY OutputAssumption DEF OutputAssumption, MaxAge
<1>2. \A e \in Entry : [e EXCEPT !.age = 0] \in Entry
  BY <1>1 DEF Entry
<1> QED
  BY <1>2 DEF TypeOK, Synced, IsTable

\* The type invariant holds.
LEMMA TypeInit == Init => TypeOK
<1> SUFFICES ASSUME Init PROVE TypeOK
  OBVIOUS
<1>1. DOMAIN pool = {}
  BY DEF Init
<1>2. level \in [Alarms -> Levels]
  BY OutputAssumption DEF OutputAssumption, Init, Unranked, Levels
<1> QED
  BY <1>1, <1>2 DEF Init, TypeOK, Domains

LEMMA TypeStep == TypeOK /\ [Next]_vars => TypeOK'
<1> SUFFICES ASSUME TypeOK, [Next]_vars PROVE TypeOK'
  OBVIOUS
<1> USE DEF bootVars, sendVars, envVars, outVars
<1>t. IsTable(pool)
  BY DEF TypeOK, IsTable
<1>1. CASE InitFastdds
  <2>1. ASSUME NEW d \in Domains, PublisherMade(d) PROVE TypeOK'
    BY <2>1 DEF PublisherMade, TypeOK, Domains
  <2>2. ASSUME NEW d \in Domains, PublisherFails(d) PROVE TypeOK'
    BY <2>2 DEF PublisherFails, TypeOK
  <2>3. CASE MakeRawPublishers
    BY <2>3 DEF MakeRawPublishers, TypeOK
  <2>4. CASE FinishInit
    BY <2>4 DEF FinishInit, TypeOK
  <2> QED
    BY <1>1, <2>1, <2>2, <2>3, <2>4 DEF InitFastdds
<1>2. CASE BeginSend
  <2>1. IsTable(pool')
    BY <1>2, SyncedIsTable DEF BeginSend
  <2>2. level' \in [Alarms -> Levels]
    BY <1>2, <2>1, LevelType DEF BeginSend
  <2> QED
    BY <1>2, <2>1, <2>2 DEF BeginSend, TypeOK, IsTable
<1>3. CASE VisitAlarm
  BY <1>3 DEF VisitAlarm, TypeOK
<1>4. CASE HandToMulti \/ HandToSingle
  BY <1>4 DEF HandToMulti, HandToSingle, SendLst, TypeOK
<1>5. CASE SendNewTrackStructAlarmMsg
  <2>1. level' \in [Alarms -> Levels]
    BY <1>5, OutputAssumption DEF SendNewTrackStructAlarmMsg, OutputAssumption, Unranked, Levels
  <2>2. raw' \subseteq Targets
    BY <1>5 DEF SendNewTrackStructAlarmMsg, TypeOK
  <2> QED
    BY <1>5, <2>1, <2>2 DEF SendNewTrackStructAlarmMsg, TypeOK
<1>6. CASE Publish \/ OnPublicationMatched
  BY <1>6 DEF Publish, OnPublicationMatched, TypeOK
<1>7. ASSUME NEW a \in Alarms, NEW s \in Scores, SaveAlarm(a, s) PROVE TypeOK'
  <2>1. [score |-> s, age |-> 0] \in Entry
    BY OutputAssumption DEF OutputAssumption, Entry, MaxAge
  <2>2. IsTable(pool') /\ DOMAIN pool \subseteq DOMAIN pool'
    BY <1>7, <1>t, <2>1 DEF SaveAlarm, With, IsTable
  <2> QED
    BY <1>7, <2>2 DEF SaveAlarm, TypeOK, IsTable
<1>8. ASSUME NEW gone, sending = "idle", pool' = Without(gone),
             UNCHANGED <<bootVars, envVars, sendVars, cur, outVars, raw>>
      PROVE  TypeOK'
  <2>1. IsTable(pool')
    BY <1>8, <1>t DEF Without, IsTable
  <2> QED
    BY <1>8, <2>1 DEF TypeOK, IsTable
<1>9. CASE (\E a \in Alarms : Prune(a)) \/ (\E t \in Targets : Purge(t))
  BY <1>8, <1>9 DEF Prune, Purge
<1>10. ASSUME NEW t \in Targets, FilterChanges(t) \/ TrackChanges(t) PROVE TypeOK'
  BY <1>10 DEF FilterChanges, TrackChanges, TypeOK
<1>11. CASE Tick
  <2>1. \A e \in Entry : [e EXCEPT !.age = IF @ < MaxAge THEN @ + 1 ELSE @] \in Entry
    BY OutputAssumption DEF OutputAssumption, Entry, MaxAge
  <2>2. IsTable(pool') /\ DOMAIN pool' = DOMAIN pool
    BY <1>11, <1>t, <2>1 DEF Tick, IsTable
  <2> QED
    BY <1>11, <2>2 DEF Tick, TypeOK, IsTable
<1>12. CASE UNCHANGED vars
  BY <1>12 DEF vars, TypeOK
<1> QED
  BY <1>1, <1>2, <1>3, <1>4, <1>5, <1>6, <1>7, <1>9, <1>10, <1>11, <1>12
    DEF Next, SendAllAlarmEventMsg

\* The type invariant, for every instance.
THEOREM OutputTypeCorrect == Spec => []TypeOK
  BY TypeInit, TypeStep, PTL DEF Spec

-----------------------------------------------------------------------------
\* Where InitFastdds is, and which publishers there are by then.
BootInv ==
  /\ boot = "multi" => writer = {}
  /\ boot = "single" => writer = {"multi"}
  /\ boot \in {"raws", "finish"} => writer \in {{}, Domains}
  /\ BothOrNeither

LEMMA BootInit == Init => BootInv
  BY DEF Init, BootInv, BothOrNeither

LEMMA BootStep == TypeOK /\ BootInv /\ [Next]_vars => BootInv'
<1> SUFFICES ASSUME TypeOK, BootInv, [Next]_vars PROVE BootInv'
  OBVIOUS
<1> USE DEF BootInv, BothOrNeither
<1>1. ASSUME NEW d \in Domains, PublisherMade(d) \/ PublisherFails(d) PROVE BootInv'
  BY <1>1 DEF PublisherMade, PublisherFails, Domains
<1>2. CASE MakeRawPublishers \/ FinishInit
  BY <1>2 DEF MakeRawPublishers, FinishInit, Domains
<1>3. CASE UNCHANGED bootVars
  BY <1>3 DEF bootVars
<1> QED
  BY <1>1, <1>2, <1>3 DEF Next, InitFastdds, SendAllAlarmEventMsg, BeginSend, VisitAlarm, HandToMulti,
    HandToSingle, SendNewTrackStructAlarmMsg, Publish, OnPublicationMatched, Prune, SaveAlarm, Purge,
    FilterChanges, TrackChanges, Tick, vars

\* The publishers of both domains are made or neither, and ready tells which.
THEOREM PublishersTogether == Spec => []BothOrNeither
<1>1. TypeOK /\ BootInv /\ [Next]_vars => (TypeOK /\ BootInv)'
  BY TypeStep, BootStep
<1>2. BootInv => BothOrNeither
  BY DEF BootInv
<1> QED
  BY <1>1, <1>2, TypeInit, BootInit, PTL DEF Spec

-----------------------------------------------------------------------------
\* Only BeginSend gives out levels, and it ranks the table as it then is.
LEMMA BeginOnly ==
  ASSUME [Next]_vars, sending = "idle", sending' = "build"
  PROVE  BeginSend
  BY DEF Next, InitFastdds, PublisherMade, PublisherFails, MakeRawPublishers, FinishInit,
    SendAllAlarmEventMsg, VisitAlarm, HandToMulti, HandToSingle, SendNewTrackStructAlarmMsg, Publish,
    OnPublicationMatched, Prune, SaveAlarm, Purge, FilterChanges, TrackChanges, Tick, vars, sendVars

\* Each pass ranks the alarms by their scores, with distinct levels from the top.
THEOREM LevelsCorrect == Spec => LevelsRank
<1> DEFINE A == sending = "idle" /\ sending' = "build" =>
       LET ranked == Ranked(pool')
           Worse(a, b) == pool'[a].score > pool'[b].score
       IN  /\ \A a, b \in ranked :
                /\ a # b /\ level'[a] = level'[b] => level'[a] = 0
                /\ Worse(a, b) => level'[a] >= level'[b]
           /\ ranked # {} => \E a \in ranked : level'[a] = TopLevel /\ \A b \in ranked : ~Worse(b, a)
<1>1. TypeOK /\ [Next]_vars => A
  <2> SUFFICES ASSUME TypeOK, [Next]_vars, sending = "idle", sending' = "build" PROVE A
    OBVIOUS
  <2>1. BeginSend
    BY BeginOnly
  <2>2. IsTable(pool')
    BY <2>1, SyncedIsTable DEF BeginSend
  <2>3. Ranked(pool') \subseteq Alarms
    BY <2>2 DEF Ranked, IsTable
  <2>4. \A a \in Ranked(pool') : level'[a] = Level(pool', a)
    BY <2>1, <2>3 DEF BeginSend
  <2> QED
    BY <2>2, <2>4, LevelRanks
<1>2. A => [A]_vars
  OBVIOUS
<1> QED
  BY <1>1, OutputTypeCorrect, PTL DEF Spec, LevelsRank

\* A raw sample is sent while the mutex is held, for alarms that are in the table.
THEOREM RawCorrect == Spec => RawHasAlarm
<1> DEFINE A == raw' # raw => raw' \subseteq {TargetOf[a] : a \in DOMAIN pool}
<1>1. [Next]_vars => A
  <2> SUFFICES ASSUME [Next]_vars PROVE A
    OBVIOUS
  <2>1. CASE SendNewTrackStructAlarmMsg
    BY <2>1 DEF SendNewTrackStructAlarmMsg, AlarmTargets
  <2>2. CASE raw' = raw
    BY <2>2
  <2> QED
    BY <2>1, <2>2 DEF Next, InitFastdds, PublisherMade, PublisherFails, MakeRawPublishers, FinishInit,
      SendAllAlarmEventMsg, BeginSend, VisitAlarm, HandToMulti, HandToSingle, Publish,
      OnPublicationMatched, Prune, SaveAlarm, Purge, FilterChanges, TrackChanges, Tick, vars
<1> QED
  BY <1>1, PTL DEF Spec, RawHasAlarm

-----------------------------------------------------------------------------
(* What the two reports say of one alarm (AlarmReports), for any alarm and memory *)

\* The two translations of a task agree on the tasks there are.
LEMMA TasksAgree == \A t \in 0..3 : DispositionFromTaskStatus(t) = TaskOf(t)
<1>1. ASSUME NEW t, t = 0  PROVE  DispositionFromTaskStatus(t) = TaskOf(t)
  BY <1>1 DEF DispositionFromTaskStatus, TaskOf
<1>2. ASSUME NEW t, t = 1  PROVE  DispositionFromTaskStatus(t) = TaskOf(t)
  BY <1>2 DEF DispositionFromTaskStatus, TaskOf
<1>3. ASSUME NEW t, t = 2  PROVE  DispositionFromTaskStatus(t) = TaskOf(t)
  BY <1>3 DEF DispositionFromTaskStatus, TaskOf
<1>4. ASSUME NEW t, t = 3  PROVE  DispositionFromTaskStatus(t) = TaskOf(t)
  BY <1>4 DEF DispositionFromTaskStatus, TaskOf
<1>5. \A t \in 0..3 : t = 0 \/ t = 1 \/ t = 2 \/ t = 3
  OBVIOUS
<1> QED
  BY <1>1, <1>2, <1>3, <1>4, <1>5

\* A memory holds times, of confirmations and of resolved alarms, and a clock.
IsMemory(m) ==
  /\ \A t \in DOMAIN m.confirmed : m.confirmed[t] \in Nat
  /\ \A i \in DOMAIN m.resolved : m.resolved[i] \in Nat
  /\ m.now \in Nat

LEMMA ResolvedIsTime == ASSUME NEW a, NEW m, IsMemory(m) PROVE ResolvedTime(a, m) \in Nat
BY DEF IsMemory, ResolvedTime, Get, Has

\* TrackManager and the subscribers of the AlarmEvent are told the same state and the same
\* handling of a rule alarm, whatever its columns hold and whoever was confirmed, and both
\* the same resolved time or none; a verified alarm has one (resolveRuleAlarmDisposition).
THEOREM ReportsAgree ==
  ASSUME NEW a, NEW m, IsMemory(m), NEW rank
  PROVE  LET item == RuleItem(a, m)
             entry == RuleEntry(a, m, rank)
         IN  /\ item.disposition = entry.task /\ item.status = entry.status
             /\ IF entry.resolved = NoTime THEN item.resolved = 0
                ELSE item.resolved = entry.resolved
             /\ Verified(a, m) => entry.task = "VERIFY_SUCCESS" /\ entry.resolved # NoTime
<1> DEFINE known == EffectiveResolved(a, m)
           base == BuildAlarmItem(a, m.now)
           item == RuleItem(a, m)
<1>1. /\ item.disposition = DispositionFromTaskStatus(EffectiveTask(a, m))
      /\ item.status = LifecycleFromStatus(a.status)
      /\ item.resolved = IF known = NoTime THEN 0 ELSE ParseAlarmTimeSec(known, m.now)
  BY DEF RuleItem, BuildAlarmItem
<1>2. EffectiveTask(a, m) \in 0..3
  BY DEF EffectiveTask
<1>3. known # NoTime => ParseAlarmTimeSec(known, m.now) = known
  BY DEF ParseAlarmTimeSec
<1>4. LifecycleFromStatus(a.status) = StatusOf(a.status)
  BY DEF LifecycleFromStatus, StatusOf
<1>5. /\ RuleEntry(a, m, rank).task = TaskOf(EffectiveTask(a, m))
      /\ RuleEntry(a, m, rank).status = StatusOf(a.status)
      /\ RuleEntry(a, m, rank).resolved = known
  BY DEF RuleEntry
<1>6. Verified(a, m) => EffectiveTask(a, m) = 3 /\ known = ResolvedTime(a, m)
  BY DEF EffectiveTask, EffectiveResolved
<1>7. Verified(a, m) => TaskOf(EffectiveTask(a, m)) = "VERIFY_SUCCESS" /\ known # NoTime
  BY <1>6, ResolvedIsTime DEF TaskOf, NoTime
<1> HIDE DEF known, item
<1> QED
  BY <1>1, <1>2, <1>3, <1>4, <1>5, <1>7, TasksAgree DEF known, item

\* A confirmation raises the score of a rule alarm to the default at least: the snapshot then
\* calls it severe, as the alarm centre does, exactly if it was so before or the default is 70
\* or more, or not set; and a manual alarm always (confirmAlarmByUniqueId,
\* threatLevelFromScore).
THEOREM ConfirmedNeedsHighDefault ==
  ASSUME NEW a, NEW now, NEW default \in Nat, a.score \in Nat
  PROVE  LET floor == ConfirmThreatFloor(default)
             raised == IF a.score < floor THEN floor ELSE a.score
         IN  /\ ThreatLevelFromScore(raised) = High <=> a.score >= 70 \/ default = 0 \/ default >= 70
             /\ a.rule = ManualConfirm => BuildAlarmItem(a, now).level = High
<1>1. ConfirmThreatFloor(default) = IF default = 0 THEN 90 ELSE default
  BY DEF ConfirmThreatFloor
<1>2. \A s \in Nat : ThreatLevelFromScore(s) = High <=> s >= 70
  BY DEF ThreatLevelFromScore, High, Medium, Low
<1>3. a.rule = ManualConfirm => BuildAlarmItem(a, now).level = High
  BY DEF BuildAlarmItem
<1> QED
  BY <1>1, <1>2, <1>3

\* Confirmed again, a target keeps the time at which its manual alarm was raised and its
\* score does not sink, whatever the defaults were (buildManualAlarmDataFromTrack).
THEOREM ConfirmedAgainGoesOn ==
  ASSUME NEW t, NEW then \in Nat, NEW now \in Nat, NEW first \in Nat, NEW second \in Nat
  PROVE  LET old == ManualAlarm(t, then, first, <<>>)
             new == ManualAlarm(t, now, second, old)
         IN  new.raised = then /\ new.time = now /\ new.score \in Nat /\ new.score >= old.score
<1> DEFINE old == ManualAlarm(t, then, first, <<>>)
           new == ManualAlarm(t, now, second, old)
<1>1. \A d \in Nat : ConfirmThreatFloor(d) \in Nat
  BY DEF ConfirmThreatFloor
<1>2. old.raised = then /\ old.score = ConfirmThreatFloor(first)
  BY <1>1 DEF ManualAlarm
<1>3. old # <<>>
  <2>1. DOMAIN <<>> = {}
    OBVIOUS
  <2>2. "raised" \in DOMAIN old
    BY DEF ManualAlarm
  <2> QED
    BY <2>1, <2>2
<1>4. /\ new.raised = IF old.raised # NoTime THEN old.raised ELSE now
      /\ new.time = now
      /\ new.score = IF old.score > ConfirmThreatFloor(second) THEN old.score
                     ELSE ConfirmThreatFloor(second)
  BY <1>3 DEF ManualAlarm
<1> HIDE DEF old, new
<1>5. new.raised = then /\ new.score \in Nat /\ new.score >= old.score
  BY <1>1, <1>2, <1>4 DEF NoTime
<1> QED
  BY <1>4, <1>5 DEF old, new

-----------------------------------------------------------------------------
(* Suspicious targets and the replies over HTTP *)

LEMMA LeastIndex ==
  ASSUME NEW S, S \subseteq Nat, S # {}
  PROVE  \E i \in S : \A j \in S : i <= j
<1>1. PICK i \in S : \A j \in S : ~(<<j, i>> \in OpToRel(<, Nat))
  BY NatLessThanWellFounded, WFMin
<1>2. \A j \in S : ~(j < i)
  BY <1>1 DEF OpToRel
<1> QED
  BY <1>2

\* A message that goes out names each suspicious target once, however often the batch has
\* it: by its first object if there is one, else by itself (SendSuspiciousTargetMsg).
THEOREM EachSuspiciousOnce ==
  ASSUME NEW ids, NEW n \in Nat, NEW batch, DOMAIN batch = 1..n, NEW sent,
         ids # {}, TRUE \in sent
  PROVE  LET message == SendSuspiciousTargetMsg(ids, batch, TRUE, TRUE, sent)
         IN  /\ message.objects \cup message.stubs = ids
             /\ message.objects \cap message.stubs = {}
             /\ \A i, j \in FirstObjects(ids, batch) : batch[i] = batch[j] => i = j
<1> DEFINE first == FirstObjects(ids, batch)
<1>1. \A i \in first : i \in 1..n /\ batch[i] \in ids /\ \A j \in 1..(i - 1) : batch[j] # batch[i]
  BY DEF FirstObjects
<1>2. \A i, j \in first : batch[i] = batch[j] => i = j
  BY <1>1
<1>3. ASSUME NEW id \in ids, NEW k \in DOMAIN batch, batch[k] = id
      PROVE  \E i \in first : batch[i] = id
  <2> DEFINE places == {i \in 1..n : batch[i] = id}
  <2>0. k \in places /\ places \subseteq Nat
    BY <1>3
  <2>1. PICK i \in places : \A j \in places : i <= j
    BY <2>0, LeastIndex
  <2>2. \A j \in 1..(i - 1) : batch[j] # batch[i]
    BY <2>1
  <2> QED
    BY <2>1, <2>2 DEF FirstObjects
<1>4. /\ {batch[i] : i \in first} \cup Stubs(ids, batch) = ids
      /\ {batch[i] : i \in first} \cap Stubs(ids, batch) = {}
  <2>1. \A id \in ids : id \in {batch[i] : i \in first} \/ id \in Stubs(ids, batch)
    BY <1>3 DEF Stubs
  <2>2. \A i \in first : batch[i] \in ids /\ batch[i] \notin Stubs(ids, batch)
    BY <1>1 DEF Stubs
  <2>3. Stubs(ids, batch) \subseteq ids
    BY DEF Stubs
  <2> QED
    BY <2>1, <2>2, <2>3
<1>5. /\ SendSuspiciousTargetMsg(ids, batch, TRUE, TRUE, sent).objects = {batch[i] : i \in first}
      /\ SendSuspiciousTargetMsg(ids, batch, TRUE, TRUE, sent).stubs = Stubs(ids, batch)
  BY DEF SendSuspiciousTargetMsg
<1> QED
  BY <1>2, <1>4, <1>5

\* A request that is refused has changed nothing, except that a confirmation of a target
\* that is not found, answered by 404, has lifted its filter and marked it as confirmed
\* (AlarmHttpServer's handlers).
THEOREM RefusedChangesNothing ==
  ASSUME NEW r, r.parts \in Nat, NEW found \in BOOLEAN,
         HandleRequest(r, found).code # 200, HandleRequest(r, found).does # "nothing"
  PROVE  /\ HandleRequest(r, found) = [code |-> 404, does |-> "confirm"]
         /\ ~found /\ r.method = "POST" /\ r.body.json /\ ~(r.body.id <= 0)
<1> DEFINE Fine(x) == x.code = 200 \/ x.does = "nothing"
<1>1. \A code : Fine(Refuse(code))
  BY DEF Refuse
<1>2. \A what : Fine(Done(what))
  BY DEF Done
<1>3. Fine(FilterReply(r))
  <2>1. CASE r.method # "POST"
    <3>1. FilterReply(r) = Refuse(405)
      BY <2>1 DEF FilterReply
    <3> QED
      BY <1>1, <3>1
  <2>2. CASE r.method = "POST" /\ (~r.body.json \/ ~r.body.atType)
    <3>1. FilterReply(r) = Refuse(400)
      BY <2>2 DEF FilterReply
    <3> QED
      BY <1>1, <3>1
  <2>3. CASE r.method = "POST" /\ ~(~r.body.json \/ ~r.body.atType)
    <3>1. FilterReply(r) = Done("filter") \/ FilterReply(r) = Refuse(400)
      BY <2>3 DEF FilterReply
    <3> QED
      BY <1>1, <1>2, <3>1
  <2> QED
    BY <2>1, <2>2, <2>3
<1>4. Fine(PushReply(r))
  <2>1. CASE r.method = "GET"
    <3>1. PushReply(r) = Done("nothing")
      BY <2>1 DEF PushReply
    <3> QED
      BY <1>2, <3>1
  <2>2. CASE r.method = "PUT"
    <3>1. PushReply(r) = Done("push") \/ PushReply(r) = Refuse(400)
      BY <2>2 DEF PushReply
    <3> QED
      BY <1>1, <1>2, <3>1
  <2>3. CASE r.method # "GET" /\ r.method # "PUT"
    <3>1. PushReply(r) = Refuse(405)
      BY <2>3 DEF PushReply
    <3> QED
      BY <1>1, <3>1
  <2> QED
    BY <2>1, <2>2, <2>3
<1>5. \/ Fine(ConfirmReply(r, found))
      \/ /\ ConfirmReply(r, found) = [code |-> 404, does |-> "confirm"]
         /\ ~found /\ r.method = "POST" /\ r.body.json /\ ~(r.body.id <= 0)
  <2>1. CASE r.method # "POST"
    <3>1. ConfirmReply(r, found) = Refuse(405)
      BY <2>1 DEF ConfirmReply
    <3> QED
      BY <1>1, <3>1
  <2>2. CASE r.method = "POST" /\ (~r.body.json \/ r.body.id <= 0)
    <3>1. ConfirmReply(r, found) = Refuse(400)
      BY <2>2 DEF ConfirmReply
    <3> QED
      BY <1>1, <3>1
  <2>3. CASE r.method = "POST" /\ ~(~r.body.json \/ r.body.id <= 0)
    <3>1. ConfirmReply(r, found) = [code |-> IF found THEN 200 ELSE 404, does |-> "confirm"]
      BY <2>3 DEF ConfirmReply
    <3> QED
      BY <2>3, <3>1
  <2> QED
    BY <2>1, <2>2, <2>3
<1> HIDE DEF Fine
<1>6. \/ Fine(HandleRequest(r, found))
      \/ HandleRequest(r, found) = ConfirmReply(r, found)
  <2>1. CASE r.parts < 3
    <3>1. HandleRequest(r, found) = Refuse(0)
      BY <2>1 DEF HandleRequest
    <3> QED
      BY <1>1, <3>1
  <2>2. CASE r.parts >= 3 /\ r.method = "OPTIONS"
    <3>1. HandleRequest(r, found) = Done("nothing")
      BY <2>2 DEF HandleRequest
    <3> QED
      BY <1>2, <3>1
  <2>3. CASE r.parts >= 3 /\ r.method # "OPTIONS"
    <3> DEFINE reply == CASE r.path = "filter" -> FilterReply(r)
                          [] r.path = "update" -> Done("reload")
                          [] r.path = "push" -> PushReply(r)
                          [] r.path = "confirm" -> ConfirmReply(r, found)
                          [] OTHER -> Refuse(404)
    <3>1. HandleRequest(r, found) = reply
      BY <2>3 DEF HandleRequest
    <3>2. \/ reply = FilterReply(r) \/ reply = Done("reload") \/ reply = PushReply(r)
          \/ reply = ConfirmReply(r, found) \/ reply = Refuse(404)
      OBVIOUS
    <3> HIDE DEF reply
    <3> QED
      BY <1>1, <1>2, <1>3, <1>4, <3>1, <3>2
  <2> QED
    BY <2>1, <2>2, <2>3
<1>7. ~Fine(HandleRequest(r, found))
  BY DEF Fine
<1> QED
  BY <1>5, <1>6, <1>7
=============================================================================
