--------------------------- MODULE SuspiciousProofs ---------------------------
(* Proofs about Suspicious, for any number of targets and alarms. *)
EXTENDS Suspicious, TLAPS

LEMMA TypeInit == Init => TypeOK
<1> SUFFICES ASSUME Init PROVE TypeOK
  OBVIOUS
<1>1. tracks \in [Envs -> [Keys -> Sighting \cup {NoTrack}]]
  BY DEF Init, NoTracks
<1>2. items \in [Envs -> [Keys -> Item \cup {NoItem}]]
  BY DEF Init, Nothing
<1>3. /\ check \in [Envs -> [Kinds -> [Keys -> {"none", "yes", "no"}]]]
      /\ streak \in [Envs -> [Kinds -> [Keys -> 0..2]]]
      /\ ids \in [Envs -> SUBSET Keys] /\ view \in [Envs -> SUBSET Keys]
  BY DEF Init
<1>4. centers \in BOOLEAN /\ look \in BOOLEAN
  BY DEF Init
<1> QED
  BY <1>1, <1>2, <1>3, <1>4 DEF Init, TypeOK

\* A pass keeps the types of the verdicts and the lists.
LEMMA JudgeType ==
  ASSUME TypeOK, JudgeTracks
  PROVE  TypeOK'
<1>1. check' \in [Envs -> [Kinds -> [Keys -> {"none", "yes", "no"}]]]
  <2>1. ASSUME NEW e \in Envs, NEW d \in Kinds, NEW k \in Keys
        PROVE  NextCheck(e, d, k) \in {"none", "yes", "no"}
    BY <2>1 DEF TypeOK, NextCheck, Yes
  <2> QED
    BY <2>1 DEF JudgeTracks
<1>2. streak' \in [Envs -> [Kinds -> [Keys -> 0..2]]]
  <2>1. ASSUME NEW e \in Envs, NEW d \in Kinds, NEW k \in Keys
        PROVE  NextStreak(e, d, k) \in 0..2
    <3>1. streak[e][d][k] \in 0..2
      BY DEF TypeOK
    <3> QED
      BY <3>1 DEF NextStreak
  <2> QED
    BY <2>1 DEF JudgeTracks
<1>3. ids' \in [Envs -> SUBSET Keys]
  BY DEF JudgeTracks, Confirmed
<1>4. seen' \in [Envs -> [Keys -> Sighting \cup {NoTrack}]] /\ look' \in BOOLEAN
  BY DEF JudgeTracks, NoTracks
<1> QED
  BY <1>1, <1>2, <1>3, <1>4 DEF JudgeTracks, TypeOK, sVars, eVars

LEMMA ItemTypes ==
  /\ \A a \in Alarms : [alarm |-> a, level |-> a.level, tagged |-> FALSE] \in Item
  /\ \A i \in Item \cup {NoItem} : EnrichOrCreate(i) \in Item
  BY SuspiciousAssumption DEF SuspiciousAssumption, Item, EnrichOrCreate

LEMMA SnapshotType ==
  ASSUME TypeOK,
         \/ \E pool \in SUBSET Alarms : BeginSnapshot(pool)
         \/ \E a \in left : VisitAlarm(a) \/ PassOver(a)
         \/ EndVisits \/ Embed("sea", "air") \/ Embed("air", "send") \/ Delivered \/ Lost
  PROVE  TypeOK'
<1> USE DEF TypeOK, tVars, eVars
<1>1. ASSUME NEW pool \in SUBSET Alarms, BeginSnapshot(pool)  PROVE TypeOK'
  BY <1>1 DEF BeginSnapshot, Nothing
<1>2. ASSUME NEW a \in left, VisitAlarm(a)  PROVE TypeOK'
  <2>1. a \in Alarms /\ a.env \in Envs /\ a.key \in Keys
    BY SuspiciousAssumption DEF SuspiciousAssumption
  <2>2. Better(a) \in Item \cup {NoItem}
    BY <2>1, ItemTypes DEF Better
  <2>3. items' \in [Envs -> [Keys -> Item \cup {NoItem}]]
    BY <1>2, <2>1, <2>2 DEF VisitAlarm
  <2> QED
    BY <1>2, <2>1, <2>3 DEF VisitAlarm
<1>3. ASSUME NEW a \in left, PassOver(a)  PROVE TypeOK'
  BY <1>3 DEF PassOver
<1>4. CASE EndVisits
  BY <1>4 DEF EndVisits
<1>5. CASE Embed("sea", "air") \/ Embed("air", "send")
  <2>1. items' \in [Envs -> [Keys -> Item \cup {NoItem}]]
    <3>1. \A x \in Envs, k \in Keys : EnrichOrCreate(items[x][k]) \in Item
      BY ItemTypes
    <3>2. PICK e \in {"sea", "air"} :
            items' = [x \in Envs |-> [k \in Keys |->
              IF x = e /\ k \in ids[x] THEN EnrichOrCreate(items[x][k]) ELSE items[x][k]]]
      BY <1>5 DEF Embed
    <3> QED
      BY <3>1, <3>2
  <2> QED
    BY <1>5, <2>1 DEF Embed
<1>6. CASE Delivered
  BY <1>6 DEF Delivered, Nothing
<1>7. CASE Lost
  BY <1>7 DEF Lost, Nothing
<1> QED
  BY <1>1, <1>2, <1>3, <1>4, <1>5, <1>6, <1>7

\* The verdicts, lists and items are of their kinds; a copy of the tracks lives for one
\* pass and alarms wait only while the mutex of the pool is held.
THEOREM SuspiciousTypeCorrect == Spec => []TypeOK
<1>1. TypeOK /\ [Next]_vars => TypeOK'
  <2> SUFFICES ASSUME TypeOK, [Next]_vars PROVE TypeOK'
    OBVIOUS
  <2>1. CASE ClearChecks
    BY <2>1 DEF ClearChecks, TypeOK, sVars, eVars
  <2>2. CASE CopyTracks
    BY <2>2 DEF CopyTracks, TypeOK, sVars, eVars
  <2>3. CASE JudgeTracks
    BY <2>3, JudgeType
  <2>4. ASSUME NEW e \in Envs, NEW k \in Keys, NEW s \in Sightings[e] \cup {NoTrack}, Report(e, k, s)
        PROVE  TypeOK'
    <3>1. s \in Sighting \cup {NoTrack}
      BY SuspiciousAssumption DEF SuspiciousAssumption
    <3> QED
      BY <2>4, <3>1 DEF Report, TypeOK, tVars, sVars
  <2>5. CASE Reconfigure
    BY <2>5 DEF Reconfigure, TypeOK, tVars, sVars
  <2>6. CASE UNCHANGED vars
    BY <2>6 DEF vars, tVars, sVars, eVars, TypeOK
  <2> QED
    BY <2>1, <2>2, <2>3, <2>4, <2>5, <2>6, SnapshotType DEF Next
<1> QED
  BY <1>1, TypeInit, PTL DEF Spec

-----------------------------------------------------------------------------
(* The double check *)

\* A kept positive verdict was the last one.
StreakInv ==
  \A e \in Envs, d \in Kinds, k \in Keys : check[e][d][k] = "yes" => streak[e][d][k] >= 1

\* A target is listed only when one criterion was met in the last two passes that judged
\* it by that criterion.
THEOREM SuspiciousDoubleChecked == Spec => []ListedWasConfirmed
<1>1. Init => StreakInv /\ ListedWasConfirmed
  BY DEF Init, StreakInv, ListedWasConfirmed
<1>2. TypeOK /\ StreakInv /\ ListedWasConfirmed /\ [Next]_vars => (StreakInv /\ ListedWasConfirmed)'
  <2> SUFFICES ASSUME TypeOK, StreakInv, ListedWasConfirmed, [Next]_vars
               PROVE  (StreakInv /\ ListedWasConfirmed)'
    OBVIOUS
  <2>1. CASE UNCHANGED <<check, ids, streak>>
    BY <2>1 DEF StreakInv, ListedWasConfirmed
  <2>2. CASE ClearChecks
    BY <2>2 DEF ClearChecks, StreakInv, ListedWasConfirmed, TypeOK
  <2>3. CASE JudgeTracks
    <3>1. ASSUME NEW e \in Envs, NEW d \in Kinds, NEW k \in Keys
          PROVE  /\ check'[e][d][k] = "yes" => streak'[e][d][k] >= 1
                 /\ DoubleCheck(e, d, k) => streak'[e][d][k] = 2
      <4>1. /\ check'[e][d][k] = NextCheck(e, d, k) /\ streak'[e][d][k] = NextStreak(e, d, k)
            /\ streak[e][d][k] \in 0..2
            /\ check[e][d][k] = "yes" => streak[e][d][k] >= 1
        BY <2>3 DEF JudgeTracks, TypeOK, StreakInv
      <4>2. CASE Judged(e, k) /\ Looks(d)
        BY <4>1, <4>2 DEF NextCheck, NextStreak, DoubleCheck, Yes
      <4>3. CASE ~(Judged(e, k) /\ Looks(d))
        <5>1. NextCheck(e, d, k) = "yes" => check[e][d][k] = "yes"
          BY <4>3 DEF NextCheck
        <5> QED
          BY <4>1, <4>3, <5>1 DEF NextStreak, DoubleCheck
      <4> QED
        BY <4>2, <4>3
    <3>2. \A e \in Envs : ids'[e] = Confirmed(e)
      BY <2>3 DEF JudgeTracks
    <3> QED
      BY <3>1, <3>2 DEF StreakInv, ListedWasConfirmed, Confirmed
  <2> QED
    BY <2>1, <2>2, <2>3 DEF Next, CopyTracks, BeginSnapshot, VisitAlarm, PassOver, EndVisits, Embed,
      Delivered, Lost, Report, Reconfigure, vars, tVars
<1> QED
  BY <1>1, <1>2, SuspiciousTypeCorrect, PTL DEF Spec

-----------------------------------------------------------------------------
(* The items of the snapshot *)

\* While the alarms are visited, every item is that of an alarm.
OfAlarm(e, k) ==
  LET i == items[e][k]
  IN i # NoItem => /\ i.alarm \in taken /\ i.alarm.env = e /\ i.alarm.key = k
                   /\ i.level = i.alarm.level
ItemsInv == snap = "alarms" => \A e \in Envs, k \in Keys : OfAlarm(e, k)

LEMMA VisitKeepsHighest ==
  ASSUME TypeOK, ItemsInv, HighestAlarmWins, NEW a \in left, VisitAlarm(a)
  PROVE  (ItemsInv /\ HighestAlarmWins)'
<1>1. a \in Alarms /\ a.env \in Envs /\ a.key \in Keys /\ a.level \in Nat
  BY SuspiciousAssumption DEF SuspiciousAssumption, TypeOK
<1>2. \A b \in taken : b.env \in Envs /\ b.key \in Keys /\ b.level \in Nat
  BY SuspiciousAssumption DEF SuspiciousAssumption, TypeOK
<1>3. [alarm |-> a, level |-> a.level, tagged |-> FALSE] # NoItem
  BY <1>1, ItemTypes, ItemAssumption DEF ItemAssumption
<1>4. \A e \in Envs, k \in Keys :
         items'[e][k] = IF e = a.env /\ k = a.key THEN Better(a) ELSE items[e][k]
  BY <1>1 DEF VisitAlarm, TypeOK
<1>5. taken' = taken \cup {a} /\ snap' = "alarms" /\ snap = "alarms"
  BY DEF VisitAlarm
<1>6. ASSUME NEW e \in Envs, NEW k \in Keys  PROVE OfAlarm(e, k)'
  BY <1>1, <1>4, <1>5 DEF ItemsInv, OfAlarm, Better
<1>7. ASSUME NEW b \in taken, ~(b.env = a.env /\ b.key = a.key)
      PROVE  LET i == items'[b.env][b.key]
             IN /\ i # NoItem /\ i.alarm \in taken'
                /\ i.alarm.env = b.env /\ i.alarm.key = b.key
                /\ i.level = i.alarm.level /\ b.level <= i.level
  BY <1>2, <1>4, <1>5, <1>7 DEF HighestAlarmWins
<1>8. ASSUME NEW b \in taken', b.env = a.env, b.key = a.key
      PROVE  LET i == items'[b.env][b.key]
             IN /\ i # NoItem /\ i.alarm \in taken'
                /\ i.alarm.env = b.env /\ i.alarm.key = b.key
                /\ i.level = i.alarm.level /\ b.level <= i.level
  <2> DEFINE old == items[a.env][a.key]
  <2>1. items'[b.env][b.key] = Better(a)
    BY <1>1, <1>4, <1>8
  <2>2. CASE old = NoItem
    <3>1. b = a
      BY <1>5, <1>8, <2>2 DEF HighestAlarmWins
    <3> QED
      BY <1>1, <1>3, <1>5, <2>1, <2>2, <3>1 DEF Better
  <2>3. CASE old # NoItem /\ old.level < a.level
    <3>1. b.level <= a.level
      <4>1. CASE b = a
        BY <1>1, <4>1
      <4>2. CASE b \in taken
        <5>1. old \in Item /\ old.level \in Nat
          BY <1>1, <2>3 DEF TypeOK, Item
        <5>2. b.level <= old.level
          BY <1>8, <4>2 DEF HighestAlarmWins
        <5> QED
          BY <1>1, <1>2, <2>3, <4>2, <5>1, <5>2
      <4> QED
        BY <1>5, <1>8, <4>1, <4>2
    <3> QED
      BY <1>1, <1>3, <1>5, <1>8, <2>1, <2>3, <3>1 DEF Better
  <2>4. CASE old # NoItem /\ ~(old.level < a.level)
    <3>1. old \in Item /\ old.level \in Nat
      BY <1>1, <2>4 DEF TypeOK, Item
    <3>2. OfAlarm(a.env, a.key)
      BY <1>1, <1>5 DEF ItemsInv
    <3>3. b.level <= old.level
      BY <1>1, <1>5, <1>8, <2>4, <3>1 DEF HighestAlarmWins
    <3>4. Better(a) = old
      BY <2>4 DEF Better
    <3> QED
      BY <1>5, <1>8, <2>1, <2>4, <3>2, <3>3, <3>4 DEF OfAlarm
  <2> QED
    BY <2>2, <2>3, <2>4
<1>9. HighestAlarmWins'
  BY <1>5, <1>7, <1>8 DEF HighestAlarmWins
<1> QED
  BY <1>6, <1>9 DEF ItemsInv

LEMMA EmbedKeepsHighest ==
  ASSUME TypeOK, HighestAlarmWins, NEW e, NEW next, next # "alarms", Embed(e, next)
  PROVE  (ItemsInv /\ HighestAlarmWins)'
<1>1. \A b \in taken : b.env \in Envs /\ b.key \in Keys
  BY SuspiciousAssumption DEF SuspiciousAssumption, TypeOK
<1>2. ASSUME NEW x \in Envs, NEW k \in Keys, items[x][k] # NoItem
      PROVE  /\ items'[x][k] # NoItem
             /\ items'[x][k].alarm = items[x][k].alarm /\ items'[x][k].level = items[x][k].level
  <2>1. items[x][k] \in Item
    BY <1>2 DEF TypeOK
  <2>2. items'[x][k] \in {items[x][k], [items[x][k] EXCEPT !.tagged = TRUE]}
    BY <1>2 DEF Embed, EnrichOrCreate
  <2> QED
    BY <1>2, <2>1, <2>2, ItemAssumption DEF ItemAssumption, Item
<1>3. taken' = taken /\ snap' = next
  BY DEF Embed, tVars
<1> QED
  BY <1>1, <1>2, <1>3 DEF ItemsInv, HighestAlarmWins

\* The item of a target is that of its highest alarm that passed the filter, whatever the
\* order of the visits, and being suspicious does not change it.
THEOREM SnapshotHighestAlarmWins == Spec => []HighestAlarmWins
<1>1. Init => ItemsInv /\ HighestAlarmWins
  BY DEF Init, ItemsInv, HighestAlarmWins
<1>2. TypeOK /\ ItemsInv /\ HighestAlarmWins /\ [Next]_vars => (ItemsInv /\ HighestAlarmWins)'
  <2> SUFFICES ASSUME TypeOK, ItemsInv, HighestAlarmWins, [Next]_vars
               PROVE  (ItemsInv /\ HighestAlarmWins)'
    OBVIOUS
  <2>1. CASE UNCHANGED <<snap, items, taken>>
    BY <2>1 DEF ItemsInv, OfAlarm, HighestAlarmWins
  <2>2. ASSUME NEW pool \in SUBSET Alarms, BeginSnapshot(pool)
        PROVE  (ItemsInv /\ HighestAlarmWins)'
    BY <2>2 DEF BeginSnapshot, Nothing, ItemsInv, OfAlarm, HighestAlarmWins
  <2>3. ASSUME NEW a \in left, VisitAlarm(a)  PROVE (ItemsInv /\ HighestAlarmWins)'
    BY <2>3, VisitKeepsHighest
  <2>4. CASE EndVisits
    BY <2>4 DEF EndVisits, ItemsInv, HighestAlarmWins
  <2>5. CASE Embed("sea", "air") \/ Embed("air", "send")
    BY <2>5, EmbedKeepsHighest
  <2>6. CASE Delivered \/ Lost
    BY <2>6 DEF Delivered, Lost, ItemsInv, HighestAlarmWins
  <2> QED
    BY <2>1, <2>2, <2>3, <2>4, <2>5, <2>6 DEF Next, ClearChecks, CopyTracks, JudgeTracks, PassOver,
      Report, Reconfigure, vars, sVars
<1> QED
  BY <1>1, <1>2, SuspiciousTypeCorrect, PTL DEF Spec
=============================================================================
