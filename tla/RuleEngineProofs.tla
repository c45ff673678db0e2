--------------------------- MODULE RuleEngineProofs ---------------------------
(* Proofs about RuleEngine, for any targets, rules, areas, detections and lengths *)
(* of trails. *)
EXTENDS RuleEngine, WellFoundedInduction, TLAPS

\* appendTrailPoint makes a trail that is not empty and not too long.
LEMMA AppendedTrail ==
  ASSUME NEW s \in Seq(Cells), NEW p \in Cells, NEW max \in Nat, Len(s) <= max + 1
  PROVE  /\ AppendTrailPoint(s, p, max) \in Seq(Cells)
         /\ Len(AppendTrailPoint(s, p, max)) \in 1..max + 1
<1>1. CASE Holds(s, p)
  BY <1>1 DEF AppendTrailPoint, Holds
<1>2. CASE ~Holds(s, p)
  <2> DEFINE t == IF Len(s) > max THEN Tail(s) ELSE s
  <2>1. t \in Seq(Cells) /\ Len(t) <= max
    BY Len(s) \in Nat
  <2>2. AppendTrailPoint(s, p, max) = Append(t, p)
    BY <1>2 DEF AppendTrailPoint
  <2> HIDE DEF t
  <2> QED
    BY <2>1, <2>2
<1> QED
  BY <1>1, <1>2

-----------------------------------------------------------------------------
(* What the conditions select *)

\* A condition selects known targets.
LEMMA MeetsFacts == ASSUME NEW r PROVE Meets(r) \subseteq Keys
<1>1. \A t : Seen(t) \subseteq Keys /\ Trailed(t) \subseteq Keys
  BY DEF Seen, Trailed
<1>2. CASE r.judge = "linger"
  <2>1. /\ LingerFuse(r) \subseteq Keys /\ LingerRadar(r) \subseteq Keys
        /\ LingerBird(r) \subseteq Keys /\ LingerDrone(r) \subseteq Keys
        /\ LingerAis(r) \subseteq Keys
    BY <1>1 DEF LingerFuse, LingerRadar, LingerAis, LingerBird, LingerDrone
  <2>2. Meets(r) \in {LingerFuse(r), LingerRadar(r), LingerAis(r), LingerBird(r), LingerDrone(r), {}}
    BY <1>2 DEF Meets
  <2> QED
    BY <2>1, <2>2
<1>3. CASE r.judge # "linger"
  <2>1. /\ EnterTrail(r) \subseteq Trailed(r.type) /\ LeaveTrail(r) \subseteq Trailed(r.type)
        /\ Away(r) \subseteq Trailed(r.type) /\ Closer(r) \subseteq Trailed(r.type)
        /\ Withdraw(r) \subseteq Trailed(r.type)
    BY DEF EnterTrail, LeaveTrail, Away, Closer, Withdraw
  <2>2. /\ Approach(r) \subseteq Seen(r.type) /\ Slow(r) \subseteq Seen(r.type)
        /\ Fast(r) \subseteq Seen(r.type) /\ All(r) \subseteq Seen(r.type)
        /\ Within(r) \subseteq Seen(r.type) /\ Nearing(r) \subseteq Seen(r.type)
    BY DEF Approach, Slow, Fast, All, Within, Nearing
  <2>3. Meets(r) \in {EnterTrail(r), LeaveTrail(r), Away(r), Closer(r), Withdraw(r), Approach(r),
                      Slow(r), Fast(r), All(r), Within(r), Nearing(r), {}}
    BY <1>3 DEF Meets
  <2> QED
    BY <1>1, <2>1, <2>2, <2>3
<1> QED
  BY <1>2, <1>3

\* What a rule selects is an id, looked up in the map of that rule.
Selected(r, c) == c[2] \in Ids /\ c = LookedUp(r, c[2])

LEMMA SelectsFacts ==
  ASSUME NEW r, NEW c \in Selects(r)
  PROVE  Selected(r, c)
<1>1. PICK k \in Meets(r) \cup {Stranger} : c = LookedUp(r, k)
  BY DEF Selects
<1>2. k \in Ids
  BY <1>1, MeetsFacts DEF Ids
<1>3. c[2] = k
  BY <1>1 DEF LookedUp
<1> QED
  BY <1>1, <1>2, <1>3 DEF Selected

-----------------------------------------------------------------------------
(* Types *)

\* A target is judged by what some track shows.
LEMMA FoundFacts ==
  ASSUME TypeOK, NEW c, NEW s \in Found(c)
  PROVE  s \in Sightings
<1>1. \A m : \A k \in Seen(m) : seen[k] \in Sightings
  BY DEF Seen, TypeOK, AreTracks
<1>2. CASE c[1] = "ais"
  BY <1>2 DEF Found
<1>3. CASE c[1] # "ais" /\ c[2] \in Seen(c[1])
  BY <1>1, <1>3 DEF Found
<1>4. CASE c[1] \in {"radar", "bird"} /\ c[2] \notin Seen(c[1])
  <2>1. Named(c) \subseteq Seen(c[1])
    BY DEF Named
  <2>2. Found(c) = {seen[k] : k \in Named(c)}
    BY <1>4 DEF Found
  <2> QED
    BY <1>1, <2>1, <2>2
<1> QED
  BY <1>2, <1>3, <1>4 DEF Found

\* Everything a save needs is there while it is due.
SelectInv == \A c \in selected : Selected(rule, c)
SaveInv == pending # NoSave => pending.key \in Ids
IsAlarm(a) == a = [rule |-> a.rule, key |-> a.key, evidence |-> a.evidence]
TypeInv == TypeOK /\ SelectInv /\ SaveInv /\ \A a \in pool : IsAlarm(a)

LEMMA TypeInit == Init => TypeInv
<1> SUFFICES ASSUME Init  PROVE  TypeInv
  OBVIOUS
<1>1. AreTracks(track) /\ AreTracks(seen)
  BY DEF Init, Nothing, AreTracks
<1>2. AreTrails(trail) /\ AreTrails(trails)
  BY DEF Init, NoTrails, AreTrails
<1> QED
  BY <1>1, <1>2, RuleAssumption DEF Init, TypeInv, TypeOK, IsAlarm, SelectInv, SaveInv, RuleAssumption

\* The report of a target leaves tracks and trails well-formed.
LEMMA ReportType ==
  ASSUME TypeOK, NEW k \in Keys, NEW s \in SightingsOf[k], Report(k, s)
  PROVE  /\ AreTracks(track') /\ AreTrails(trail')
         /\ k \notin Untrailed => trail'[k] \in Seq(Cells) \ {<<>>}
<1>1. s \in Sightings /\ s.pos \in Cells
  BY RuleAssumption DEF RuleAssumption, Sightings
<1>2. AreTracks(track')
  BY <1>1 DEF Report, TypeOK, AreTracks
<1> DEFINE old == IF trail[k] = NoTrail THEN <<>> ELSE trail[k]
           new == IF k \in Untrailed THEN NoTrail ELSE AppendTrailPoint(old, s.pos, TrailMax)
<1>3. old \in Seq(Cells) /\ Len(old) <= TrailMax + 1 /\ TrailMax \in Nat
  BY RuleAssumption DEF TypeOK, AreTrails, RuleAssumption
<1>4. k \notin Untrailed => new \in Seq(Cells) /\ Len(new) \in 1..TrailMax + 1
  <2> HIDE DEF old
  <2> QED
    BY <1>1, <1>3, AppendedTrail
<1>5. trail' = [trail EXCEPT ![k] = new]
  BY DEF Report
<1>6. trail'[k] = new /\ \A x \in Keys \ {k} : trail'[x] = trail[x]
  BY <1>5 DEF TypeOK, AreTrails
<1>7. new \in {NoTrail} \cup Seq(Cells) /\ (new # NoTrail => Len(new) <= TrailMax + 1)
  BY <1>3, <1>4
<1>8. AreTrails(trail')
  <2> HIDE DEF new
  <2> QED
    BY <1>5, <1>6, <1>7 DEF TypeOK, AreTrails
<1> QED
  BY <1>2, <1>4, <1>6, <1>8

\* operator[] makes empty trails only.
LEMMA AskedTrails ==
  ASSUME AreTrails(trails), NEW S,
         trails' = [k \in Keys |-> IF k \in S /\ trails[k] = NoTrail THEN <<>> ELSE trails[k]]
  PROVE  AreTrails(trails')
<1>1. TrailMax \in Nat
  BY RuleAssumption DEF RuleAssumption
<1> QED
  BY <1>1 DEF AreTrails

LEMMA LastType ==
  ASSUME TypeOK, NEW r, NEW c, c[2] \in Ids, NEW s
  PROVE  LastAfter(r, c, s) \in [Ids -> {"none", "yes", "no"}]
  BY DEF LastAfter, TypeOK

\* An alarm of the pool after a save: an old one, the new one, or the refreshed one.
LEMMA SavedAlarm ==
  ASSUME SaveToDB, NEW b \in pool'
  PROVE  \/ b \in pool
         \/ b = [rule |-> rule, key |-> pending.key, evidence |-> pending.evidence]
         \/ \E a \in pool : /\ SameAlarm(a) /\ pending.evidence # NoEvidence
                            /\ b = [a EXCEPT !.evidence = pending.evidence]
<1> DEFINE e == pending.evidence
           same == {a \in pool : SameAlarm(a)}
<1>1. CASE pool' = pool \/ pool' = pool \cup {[rule |-> rule, key |-> pending.key, evidence |-> e]}
  BY <1>1
<1>2. CASE pool' = {IF a \in same /\ e # NoEvidence THEN [a EXCEPT !.evidence = e] ELSE a : a \in pool}
  BY <1>2
<1> QED
  BY <1>1, <1>2 DEF SaveToDB

LEMMA TypeNext == TypeInv /\ [Next]_vars => TypeInv'
<1> SUFFICES ASSUME TypeInv, [Next]_vars  PROVE  TypeInv'
  OBVIOUS
<1> USE DEF TypeInv
<1>1. ASSUME NEW k \in Keys, Remove(k)  PROVE  TypeInv'
  <2>1. AreTracks(track') /\ AreTrails(trail')
    BY <1>1 DEF Remove, TypeOK, AreTracks, AreTrails
  <2> QED
    BY <1>1, <2>1 DEF Remove, pass, TypeOK, AreTracks, AreTrails, SelectInv, SaveInv
<1>2. ASSUME NEW k \in Ids, Purge(k)  PROVE  TypeInv'
  BY <1>2 DEF Purge, store, pass, TypeOK, AreTracks, AreTrails, SelectInv, SaveInv
<1>3. ASSUME NEW k \in Keys, NEW s \in SightingsOf[k], Report(k, s)  PROVE  TypeInv'
  <2>1. AreTracks(track') /\ AreTrails(trail')
    BY <1>3, ReportType
  <2> QED
    BY <1>3, <2>1 DEF Report, pass, TypeOK, AreTracks, AreTrails, SelectInv, SaveInv
<1>4. CASE ReloadRules \/ ReloadAreas
  BY <1>4 DEF ReloadRules, ReloadAreas, pass, TypeOK, AreTracks, AreTrails, SelectInv, SaveInv
<1>5. CASE ClearSpeedChecks \/ GetAlarmArea
  BY <1>5 DEF ClearSpeedChecks, GetAlarmArea, store, TypeOK, AreTracks, AreTrails, SelectInv, SaveInv
<1>6. CASE CopyTracks
  <2>1. AreTrails(trails')
    BY <1>6 DEF CopyTracks, TypeOK, AreTrails
  <2>2. AreTracks(seen')
    BY <1>6 DEF CopyTracks, TypeOK, AreTracks
  <2>3. todo' \subseteq DOMAIN Order
    BY <1>6 DEF CopyTracks
  <2> QED
    BY <1>6, <2>1, <2>2, <2>3 DEF CopyTracks, store, TypeOK, AreTracks, AreTrails, SelectInv, SaveInv
<1>7. CASE RuleWithoutArea \/ RuleReadsPastEnd
  BY <1>7 DEF RuleWithoutArea, RuleReadsPastEnd, store, pass, TypeOK, AreTracks, AreTrails, SelectInv, SaveInv
<1>8. CASE SelectTargets
  <2>1. PICK i \in todo : /\ selected' = Selects(Order[i]) /\ rule' = Order[i]
                          /\ todo' = todo \ {i}
                          /\ trails' = [k \in Keys |->
                               IF k \in Asks(Order[i]) /\ trails[k] = NoTrail THEN <<>> ELSE trails[k]]
    BY <1>8 DEF SelectTargets
  <2>2. rule' \in Rules /\ rule' # NoRule
    BY <2>1, RuleAssumption DEF TypeOK, Rules, RuleAssumption
  <2>3. AreTrails(trails')
    BY <2>1, AskedTrails DEF TypeOK
  <2>4. SelectInv'
    <3>1. \A c \in Selects(Order[i]) : Selected(Order[i], c)
      BY SelectsFacts
    <3> QED
      BY <2>1, <3>1 DEF SelectInv, Selected
  <2> QED
    BY <1>8, <2>1, <2>2, <2>3, <2>4 DEF SelectTargets, store, TypeOK, AreTracks, AreTrails, SelectInv,
      Selected, SaveInv
<1>9. ASSUME NEW c \in selected, Drop(c)  PROVE  TypeInv'
  BY <1>9 DEF Drop, store, TypeOK, AreTracks, AreTrails, SelectInv, Selected, SaveInv
<1>10. ASSUME NEW c \in selected, RaiseBlack(c)  PROVE  TypeInv'
  <2>1. pending'.key = c[2]
    BY <1>10 DEF RaiseBlack
  <2>2. pending'.key \in Ids
    BY <2>1 DEF SelectInv, Selected
  <2> QED
    BY <1>10, <2>2 DEF RaiseBlack, store, TypeOK, AreTracks, AreTrails, SelectInv, Selected, SaveInv
<1>11. ASSUME NEW c \in selected, Judge(c)  PROVE  TypeInv'
  <2>1. PICK s \in Found(c) : /\ last' = LastAfter(rule, c, s)
                              /\ pending' = NoSave \/ pending'.key = c[2]
    BY <1>11 DEF Judge
  <2>2. c[2] \in Ids
    BY DEF SelectInv, Selected
  <2>3. last' \in [Ids -> {"none", "yes", "no"}]
    BY <2>1, <2>2, LastType
  <2> QED
    BY <1>11, <2>1, <2>2, <2>3 DEF Judge, store, TypeOK, AreTracks, AreTrails, SelectInv, Selected, SaveInv
<1>12. CASE SaveToDB
  <2>1. rule \in Rules /\ pending.key \in Ids
    BY <1>12 DEF SaveToDB, TypeOK, SaveInv
  <2>2. \A b \in pool' : IsAlarm(b) /\ b.key \in Ids /\ b.rule \in Rules
    <3>1. SUFFICES ASSUME NEW b \in pool'  PROVE  IsAlarm(b) /\ b.key \in Ids /\ b.rule \in Rules
      OBVIOUS
    <3>2. CASE b \in pool
      BY <3>2 DEF TypeOK
    <3>3. CASE b = [rule |-> rule, key |-> pending.key, evidence |-> pending.evidence]
      BY <2>1, <3>3 DEF IsAlarm
    <3>4. CASE \E a \in pool : b = [a EXCEPT !.evidence = pending.evidence]
      BY <3>4 DEF TypeOK, IsAlarm
    <3> QED
      BY <1>12, <3>2, <3>3, <3>4, SavedAlarm
  <2> QED
    BY <1>12, <2>2 DEF SaveToDB, store, TypeOK, AreTracks, AreTrails, SelectInv, SaveInv
<1>13. CASE NextRule
  BY <1>13 DEF NextRule, store, TypeOK, AreTracks, AreTrails, SelectInv, SaveInv
<1>14. CASE EndPass
  <2>1. AreTracks(seen') /\ AreTrails(trails')
    BY <1>14 DEF EndPass, Nothing, NoTrails, AreTracks, AreTrails
  <2> QED
    BY <1>14, <2>1 DEF EndPass, store, TypeOK, AreTracks, AreTrails, SelectInv, SaveInv
<1>15. CASE UNCHANGED vars
  BY <1>15 DEF vars, store, pass, TypeOK, AreTracks, AreTrails, SelectInv, SaveInv
<1> QED
  BY <1>1, <1>2, <1>3, <1>4, <1>5, <1>6, <1>7, <1>8, <1>9, <1>10, <1>11, <1>12, <1>13, <1>14, <1>15
  DEF Next

LEMMA TypeInvariant == Spec => []TypeInv
  BY TypeInit, TypeNext, PTL DEF Spec

\* Trails keep their bound through every update and copy, and a save is due only while
\* the targets of a rule are judged.
THEOREM RulesTypeCorrect == Spec => []TypeOK
  BY TypeInvariant, PTL DEF TypeInv

-----------------------------------------------------------------------------
(* Reads of trails *)

\* A trail that is stored is not empty, and a track that gets one has it from the first
\* report on; so has its copy, for the targets whose trails are copied with the tracks.
\* AIS trails are copied whole and are not meant here.
StoredTrails ==
  \A k \in Keys : /\ trail[k] # <<>>
                  /\ track[k] # NoTrack /\ k \notin Untrailed => trail[k] # NoTrail
CopiedTrails ==
  \A k \in Keys : MapOf[k] # "ais" =>
    /\ trails[k] # <<>>
    /\ seen[k] # NoTrack => trails[k] # NoTrail
TrailInv == StoredTrails /\ CopiedTrails

LEMMA NoTrailIsNone == NoTrail # <<>>
<1>1. <<>> \in Seq(Cells)
  OBVIOUS
<1> QED
  BY <1>1, RuleAssumption DEF RuleAssumption

LEMMA TrailInit == Init => TrailInv
  BY NoTrailIsNone DEF Init, Nothing, NoTrails, TrailInv, StoredTrails, CopiedTrails

\* Nothing of the pass but the copy and the conditions touches the copy.
LEMMA TrailFrame ==
  ASSUME TrailInv, UNCHANGED <<track, trail, seen, trails>>
  PROVE  TrailInv'
  BY DEF TrailInv, StoredTrails, CopiedTrails

LEMMA TrailNext == TypeInv /\ TrailInv /\ [Next]_vars => TrailInv'
<1> SUFFICES ASSUME TypeInv, TrailInv, [Next]_vars  PROVE  TrailInv'
  OBVIOUS
<1> USE DEF TypeInv
<1>1. ASSUME NEW k \in Keys, Remove(k)  PROVE  TrailInv'
  <2>1. /\ \A x \in Keys \ {k} : track'[x] = track[x] /\ trail'[x] = trail[x]
        /\ track'[k] = NoTrack /\ trail'[k] = NoTrail
    BY <1>1 DEF Remove, TypeOK, AreTracks, AreTrails
  <2>2. UNCHANGED <<seen, trails>>
    BY <1>1 DEF Remove, pass
  <2> QED
    BY <2>1, <2>2, NoTrailIsNone DEF TrailInv, StoredTrails, CopiedTrails
<1>2. ASSUME NEW k \in Keys, NEW s \in SightingsOf[k], Report(k, s)  PROVE  TrailInv'
  <2>1. NoTrail \notin Seq(Cells)
    BY RuleAssumption DEF RuleAssumption
  <2>2. k \notin Untrailed => trail'[k] \in Seq(Cells) \ {<<>>}
    BY <1>2, ReportType
  <2>3. /\ \A x \in Keys \ {k} : track'[x] = track[x] /\ trail'[x] = trail[x]
        /\ k \in Untrailed => trail'[k] = NoTrail
    BY <1>2 DEF Report, TypeOK, AreTracks, AreTrails
  <2>4. UNCHANGED <<seen, trails>>
    BY <1>2 DEF Report, pass
  <2>5. trail'[k] # <<>> /\ (k \notin Untrailed => trail'[k] # NoTrail)
    BY <2>1, <2>2, <2>3, NoTrailIsNone
  <2> QED
    BY <2>3, <2>4, <2>5 DEF TrailInv, StoredTrails, CopiedTrails
<1>3. CASE CopyTracks
  <2>1. \A k \in Untrailed : MapOf[k] = "ais"
    BY RuleAssumption DEF RuleAssumption
  <2> QED
    BY <1>3, <2>1, NoTrailIsNone DEF CopyTracks, store, TrailInv, StoredTrails, CopiedTrails
<1>4. CASE SelectTargets
  <2>1. PICK i \in todo :
          trails' = [k \in Keys |->
            IF k \in Asks(Order[i]) /\ trails[k] = NoTrail THEN <<>> ELSE trails[k]]
    BY <1>4 DEF SelectTargets
  <2>2. \A k \in Asks(Order[i]) : k \in Keys /\ seen[k] # NoTrack
    BY DEF Asks, Seen
  <2>3. \A k \in Keys : MapOf[k] # "ais" => trails'[k] = trails[k]
    BY <2>1, <2>2 DEF TrailInv, CopiedTrails
  <2>4. UNCHANGED <<track, trail, seen>>
    BY <1>4 DEF SelectTargets, store
  <2> QED
    BY <2>3, <2>4 DEF TrailInv, StoredTrails, CopiedTrails
<1>5. CASE EndPass
  BY <1>5, NoTrailIsNone DEF EndPass, Nothing, NoTrails, store, TrailInv, StoredTrails, CopiedTrails
<1>6. ASSUME NEW k \in Ids, Purge(k)  PROVE  TrailInv'
  BY <1>6, TrailFrame DEF Purge, store, pass
<1>7. CASE ReloadRules \/ ReloadAreas \/ ClearSpeedChecks \/ GetAlarmArea
  BY <1>7, TrailFrame DEF ReloadRules, ReloadAreas, ClearSpeedChecks, GetAlarmArea, store, pass
<1>8. CASE RuleWithoutArea \/ RuleReadsPastEnd \/ SaveToDB \/ NextRule
  BY <1>8, TrailFrame DEF RuleWithoutArea, RuleReadsPastEnd, SaveToDB, NextRule, store, pass
<1>9. ASSUME NEW c, Drop(c) \/ RaiseBlack(c) \/ Judge(c)  PROVE  TrailInv'
  BY <1>9, TrailFrame DEF Drop, RaiseBlack, Judge, store
<1>10. CASE UNCHANGED vars
  BY <1>10, TrailFrame DEF vars, store, pass
<1> QED
  BY <1>1, <1>2, <1>3, <1>4, <1>5, <1>6, <1>7, <1>8, <1>9, <1>10 DEF Next

\* The conditions on fused trails read no position that the trail does not have, and the
\* enter rule never stays in its loop, for any trails, rules and reloads.
THEOREM FusedReadsCorrect == Spec => []FusedReadsStayInTrails
<1>1. TypeInv /\ TrailInv => FusedReadsStayInTrails
  <2>1. SUFFICES ASSUME TypeInv, TrailInv, NEW r
                 PROVE  /\ ~Spins(r)
                        /\ r.type = "fuse" /\ r.judge \in {"leave", "withdraw"} => ~ReadsPastEnd(r)
    BY DEF FusedReadsStayInTrails
  <2>2. \A k \in Trailed("fuse") : trails[k] \in Seq(Cells) /\ trails[k] # <<>>
    <3>1. \A k \in Trailed("fuse") : k \in Keys /\ MapOf[k] # "ais" /\ trails[k] # NoTrail
      BY DEF Trailed
    <3>2. \A k \in Keys : trails[k] \in {NoTrail} \cup Seq(Cells)
      BY <2>1 DEF TypeInv, TypeOK, AreTrails
    <3> QED
      BY <2>1, <3>1, <3>2 DEF TrailInv, CopiedTrails
  <2>3. \A k \in Trailed("fuse") : ~(Len(trails[k]) < 1)
    <3>1. \A t \in Seq(Cells) : t # <<>> => ~(Len(t) < 1)
      OBVIOUS
    <3> QED
      BY <2>2, <3>1
  <2> QED
    BY <2>2, <2>3 DEF Spins, ReadsPastEnd
<1> QED
  BY <1>1, TypeInvariant, TrailInit, TrailNext, PTL DEF Spec

-----------------------------------------------------------------------------
(* The threat of a target *)

\* A set of indices has a least one.
LEMMA LeastIndex ==
  ASSUME NEW S, S \subseteq Nat, S # {}
  PROVE  \E i \in S : \A j \in S : i <= j
<1>1. PICK i \in S : \A j \in S : ~(<<j, i>> \in OpToRel(<, Nat))
  BY NatLessThanWellFounded, WFMin
<1>2. \A j \in S : ~(j < i)
  BY <1>1 DEF OpToRel
<1> QED
  BY <1>2

IsParams(p) ==
  /\ \A c \in Weights : p[c] \in Int
  /\ \A n \in DOMAIN DefaultScores : p.score[n] \in Int

\* Parameters are numbers, whichever row or default they come from.
LEMMA ParamsType == ASSUME NEW area PROVE IsParams(ParamsFor(ParamRows, area))
<1> DEFINE found == {i \in 1..Len(ParamRows) : ParamRows[i].area = area}
<1>1. IsParams(DefaultParams)
  BY DEF IsParams, DefaultParams, DefaultScores, Weights
<1>2. ASSUME NEW row, IsParamRow(row)  PROVE  IsParams(ParamsOfRow(row))
  <2>1. DOMAIN DefaultParams = Weights \cup {"score"}
    BY DEF DefaultParams, Weights
  <2>2. \A c \in Weights : ParamsOfRow(row)[c] = IF c \in DOMAIN row THEN row[c] ELSE 0
    BY <2>1 DEF ParamsOfRow, Weights
  <2>3. ParamsOfRow(row).score =
          [n \in DOMAIN DefaultScores |-> IF n \in DOMAIN row.score THEN row.score[n] ELSE 0]
    BY <2>1 DEF ParamsOfRow
  <2> QED
    BY <1>2, <2>2, <2>3 DEF IsParams, IsParamRow
<1>3. CASE found # {}
  <2>1. found \subseteq Nat
    BY RuleAssumption DEF RuleAssumption
  <2>2. \E i \in found : \A j \in found : i <= j
    BY <1>3, <2>1, LeastIndex
  <2>3. (CHOOSE i \in found : \A j \in found : i <= j) \in 1..Len(ParamRows)
    BY <2>2
  <2> QED
    BY <1>2, <1>3, <2>3, RuleAssumption DEF ParamsFor, RuleAssumption
<1> QED
  BY <1>1, <1>3 DEF ParamsFor

\* A score is read from the parameters, or is 0.
LEMMA TypeScoreType == ASSUME NEW p, IsParams(p), NEW name PROVE TypeScore(p, name) \in Int
<1>1. \A n \in DOMAIN ScoreName : ScoreName[n] \in DOMAIN DefaultScores
  BY DEF ScoreName, DefaultScores
<1>2. "seaUnknown" \in DOMAIN DefaultScores
  BY DEF DefaultScores
<1>3. \A n \in DOMAIN DefaultScores : p.score[n] \in Int
  BY DEF IsParams
<1>4. p.score.seaUnknown \in Int
  BY <1>2, <1>3
<1>5. CASE name = ""
  <2>1. "" \notin DOMAIN ScoreName
    BY DEF ScoreName
  <2>2. TypeScore(p, name) = 0
    BY <1>5, <2>1, Zenon DEF TypeScore
  <2> QED
    BY <2>2
<1>6. CASE name # "" /\ name \in DOMAIN ScoreName
  <2>1. TypeScore(p, name) = p.score[ScoreName[name]]
    BY <1>6, Zenon DEF TypeScore
  <2> QED
    BY <1>1, <1>3, <1>6, <2>1, Zenon
<1>7. CASE name # "" /\ name \notin DOMAIN ScoreName
  BY <1>4, <1>7, Zenon DEF TypeScore
<1> QED
  BY <1>5, <1>6, <1>7

\* A threat is not a number only for an empty range of speeds, and never the mark of a
\* threat that was not assessed.
LEMMA ThreatType ==
  ASSUME NEW p, IsParams(p), NEW name, NEW v \in Int, NEW dist \in Int, NEW angle \in Int
  PROVE  ThreatOf(p, name, v, dist, angle) \in Nat \cup {NaN}
<1>1. /\ p.type \in Int /\ p.angle \in Int /\ p.speed \in Int /\ p.distance \in Int
      /\ p.low \in Int /\ p.high \in Int /\ p.reach \in Int
  BY DEF IsParams, Weights
<1>2. TypeScore(p, name) \in Int
  BY TypeScoreType
<1>3. SpeedScore(p, v) \in Int
  <2>1. ASSUME v >= p.low, v <= p.high, p.low # p.high
        PROVE  ((v - p.low) * 10000) \div (p.high - p.low) \in Int
    BY <1>1, <2>1
  <2> QED
    BY <1>1, <2>1 DEF SpeedScore, NaN
<1>4. DistanceScore(p, dist) \in Int
  <2>1. p.reach > 0 => ((p.reach - dist) * 10000) \div p.reach \in Int
    BY <1>1
  <2> QED
    BY <2>1 DEF DistanceScore
<1>5. CapabilityScore(name, angle) \in Int
  BY DEF CapabilityScore
<1> DEFINE speed == SpeedScore(p, v)
           sum == TypeScore(p, name) * p.type + CapabilityScore(name, angle) * p.angle
                    + speed * p.speed + DistanceScore(p, dist) * p.distance
<1>6. sum \in Int
  BY <1>1, <1>2, <1>3, <1>4, <1>5
<1> HIDE DEF sum
<1> DEFINE level == sum \div 100
<1>7. level \in Int
  BY <1>6
<1>8. ThreatOf(p, name, v, dist, angle) = IF speed = NaN THEN NaN ELSE Clamped(level)
  BY DEF ThreatOf, sum
<1> HIDE DEF level, speed
<1>9. Clamped(level) \in Nat
  BY <1>7 DEF Clamped
<1> QED
  BY <1>8, <1>9, Zenon

LEMMA ThreatOfRule ==
  ASSUME NEW r \in Rules, NEW s \in Sightings, NEW d
  PROVE  Threat(r, s, d) \in Nat \cup {NaN}
<1>1. s.speed \in Int /\ s.course \in Int /\ s.angle \in Int /\ s.center \in Int /\ s.range \in Int
  BY RuleAssumption DEF RuleAssumption
<1>2. AngleToCheck(r, s) \in Int
  BY <1>1 DEF AngleToCheck, Course
<1>3. IsParams(ParamsFor(ParamRows, r.area))
  BY ParamsType
<1> DEFINE p == ParamsFor(ParamRows, r.area)
<1>4. \A name : /\ ThreatOf(p, name, s.speed, s.center, AngleToCheck(r, s)) \in Nat \cup {NaN}
                /\ ThreatOf(p, name, s.speed, s.range, s.course) \in Nat \cup {NaN}
  <2> HIDE DEF p
  <2> QED
    BY <1>1, <1>2, <1>3, ThreatType DEF p
<1> QED
  BY <1>4 DEF Threat

-----------------------------------------------------------------------------
(* The text of an alarm *)

\* The text that is written when a target passes says what it passed.
LEMMA TextOfMatch ==
  ASSUME NEW r \in Rules, NEW s \in Sightings, NEW c, NEW d \in Detections, NEW later, NEW again,
         SpeedFits(r, c, s), Fits(r, c, s, d)
  PROVE  NamesConditions(Evidence(r, s, ContentFor(r, s, d, later, again)))
<1> DEFINE threat == IF Assessed(r) THEN Threat(r, s, d) ELSE NoThreat
           angle == ContentAngle(r, s)
           text == ContentFor(r, s, d, later, again)
           e == Evidence(r, s, text)
<1>1. /\ text.says = TriggerSummary(r, s, angle, later, Score(threat))
      /\ text.threat = threat
  BY DEF ContentFor, RuleContent
<1>2. e.rule = r /\ e.sight = s /\ e.text = text
  BY DEF Evidence
<1>3. /\ Names(e, "speed") <=> SpeedSaid(r, s.speed)
      /\ Names(e, "course") <=> CourseSaid(r, angle)
      /\ Names(e, "height") <=> HeightSaid(r, s.height)
      /\ Names(e, "threat") <=> ThreatSaid(r, Score(threat))
  <2> HIDE DEF threat, angle, text, e
  <2> QED
    BY <1>1, <1>2 DEF Names, TriggerSummary, Looks
<1>4. SpeedSaid(r, s.speed) <=> r.speedCondition \in {1, 2}
  BY DEF SpeedFits, SpeedNow, SpeedSaid
<1>5. CourseSaid(r, angle) <=>
        r.courseMin # r.courseMax /\ <<r.courseMin, r.courseMax>> # <<0, 360>>
  <2>1. r.courseMin \in Int /\ r.courseMax \in Int
    BY RuleAssumption DEF RuleAssumption
  <2>2. r.courseMin # r.courseMax => angle = Course(r, s)
    BY DEF ContentAngle, AngleToCheck, Looked, Course
  <2>3. CourseFits(r, s)
    BY DEF Fits
  <2> HIDE DEF angle
  <2> QED
    BY <2>1, <2>2, <2>3 DEF CourseFits, CourseSaid
<1>6. ThreatSaid(r, Score(threat)) <=> r.threat > 0 /\ threat # NaN
  <2>1. r.threat \in Int
    BY RuleAssumption DEF RuleAssumption
  <2>2. CASE r.threat > 0
    <3>1. threat = Threat(r, s, d)
      BY <2>2 DEF Assessed
    <3>2. Cognitive(r)
      BY <2>2 DEF Cognitive
    <3>3. ~BelowLevel(threat, r.threat)
      BY <2>2, <3>1, <3>2 DEF Fits, CognitionFits
    <3> HIDE DEF threat
    <3>4. threat \in Nat \cup {NaN}
      BY <3>1, ThreatOfRule
    <3>5. CASE threat = NaN
      BY <2>1, <2>2, <3>5 DEF ThreatSaid, Score, NaN, NoThreat
    <3>6. CASE threat \in Nat
      <4>1. threat >= r.threat * 1000
        BY <2>1, <3>3, <3>6 DEF BelowLevel, NaN
      <4>2. (threat + 500) \div 1000 >= r.threat
        BY <2>1, <3>6, <4>1
      <4>3. threat # NaN
        BY <3>6 DEF NaN
      <4>4. threat # NoThreat
        BY <3>6 DEF NoThreat
      <4>5. Score(threat) = (threat + 500) \div 1000
        BY <4>3, <4>4, Zenon DEF Score
      <4> QED
        BY <2>2, <4>2, <4>3, <4>5 DEF ThreatSaid
    <3> QED
      BY <3>4, <3>5, <3>6
  <2> QED
    BY <2>1, <2>2 DEF ThreatSaid
<1> HIDE DEF threat, angle, text, e
<1>7. NamesConditions(e)
  BY <1>1, <1>2, <1>3, <1>4, <1>5, <1>6 DEF NamesConditions, HeightSaid
<1> QED
  BY <1>7 DEF e, text

\* What an alarm on a target may carry: nothing, or a match of a rule and a text that
\* says so.
GoodEvidence(k, e) ==
  e # NoEvidence =>
    /\ MetRule(k, e)
    /\ ~Names(e, "black") => NamesConditions(e)

LEMMA BlackIsGood ==
  ASSUME NEW r, NEW k, NEW s, NEW again, Black(r, k)
  PROVE  GoodEvidence(k, Evidence(r, s, BlackContent(again)))
<1> DEFINE e == Evidence(r, s, BlackContent(again))
<1>1. e.rule = r /\ e.text = BlackContent(again)
  BY DEF Evidence
<1>2. Names(e, "black")
  BY <1>1 DEF Names, BlackContent
<1> HIDE DEF e
<1>3. GoodEvidence(k, e)
  BY <1>1, <1>2 DEF GoodEvidence, MetRule
<1> QED
  BY <1>3 DEF e

LEMMA MatchIsGood ==
  ASSUME NEW r \in Rules, NEW s \in Sightings, NEW c, c = LookedUp(r, c[2]), NEW d \in Detections,
         NEW later, NEW again, SpeedFits(r, c, s), Fits(r, c, s, d)
  PROVE  GoodEvidence(c[2], Evidence(r, s, ContentFor(r, s, d, later, again)))
<1> DEFINE e == Evidence(r, s, ContentFor(r, s, d, later, again))
<1>1. e.rule = r /\ e.sight = s
  BY DEF Evidence
<1>2. NamesConditions(e)
  BY TextOfMatch
<1> HIDE DEF e
<1>3. r.speedCondition # 0 => SpeedNow(r, s)
  BY DEF SpeedFits
<1>4. Fits(r, LookedUp(r, c[2]), s, d)
  OBVIOUS
<1>5. MetRule(c[2], e)
  BY <1>1, <1>3, <1>4 DEF MetRule
<1>6. GoodEvidence(c[2], e)
  BY <1>2, <1>5 DEF GoodEvidence
<1> QED
  BY <1>6 DEF e

\* What waits to be saved and what the alarms carry is good.
EvidenceInv ==
  /\ pending # NoSave => GoodEvidence(pending.key, pending.evidence)
  /\ \A a \in pool : GoodEvidence(a.key, a.evidence)

LEMMA EvidenceFrame ==
  ASSUME EvidenceInv, pool' \subseteq pool, pending' = pending
  PROVE  EvidenceInv'
  BY DEF EvidenceInv

LEMMA EvidenceNext == TypeInv /\ EvidenceInv /\ [Next]_vars => EvidenceInv'
<1> SUFFICES ASSUME TypeInv, EvidenceInv, [Next]_vars  PROVE  EvidenceInv'
  OBVIOUS
<1>1. ASSUME NEW c \in selected, RaiseBlack(c)  PROVE  EvidenceInv'
  <2>1. PICK s \in Found(c), again \in Detections :
          /\ Black(rule, c[2])
          /\ pending' = [key |-> c[2], evidence |-> Evidence(rule, s, BlackContent(again))]
    BY <1>1 DEF RaiseBlack
  <2>2. GoodEvidence(pending'.key, pending'.evidence)
    BY <2>1, BlackIsGood
  <2>3. pool' = pool
    BY <1>1 DEF RaiseBlack
  <2> QED
    BY <2>2, <2>3 DEF EvidenceInv
<1>2. ASSUME NEW c \in selected, Judge(c)  PROVE  EvidenceInv'
  <2>1. PICK s \in Found(c), d \in Detections, later \in Detections, again \in Detections :
          \/ /\ SpeedFits(rule, c, s) /\ Fits(rule, c, s, d)
             /\ pending' = [key |-> c[2],
                            evidence |-> Evidence(rule, s, ContentFor(rule, s, d, later, again))]
          \/ pending' = [key |-> c[2], evidence |-> NoEvidence]
          \/ pending' = NoSave
    BY <1>2, Zenon DEF Judge, KeptEvidence
  <2>2. rule \in Rules /\ s \in Sightings /\ c = LookedUp(rule, c[2])
    BY <1>2, FoundFacts DEF Judge, TypeInv, TypeOK, SelectInv, Selected
  <2>3. pending' # NoSave => GoodEvidence(pending'.key, pending'.evidence)
    <3>1. CASE SpeedFits(rule, c, s) /\ Fits(rule, c, s, d) /\
               pending' = [key |-> c[2],
                           evidence |-> Evidence(rule, s, ContentFor(rule, s, d, later, again))]
      BY <2>2, <3>1, MatchIsGood
    <3>2. CASE pending' = [key |-> c[2], evidence |-> NoEvidence]
      BY <3>2 DEF GoodEvidence
    <3> QED
      BY <2>1, <3>1, <3>2
  <2>4. pool' = pool
    BY <1>2 DEF Judge
  <2> QED
    BY <2>3, <2>4 DEF EvidenceInv
<1>3. CASE SaveToDB
  <2>1. pending # NoSave /\ pending' = NoSave
    BY <1>3 DEF SaveToDB
  <2>2. ASSUME NEW b \in pool'  PROVE  GoodEvidence(b.key, b.evidence)
    <3>1. CASE b \in pool
      BY <3>1 DEF EvidenceInv
    <3>2. CASE b = [rule |-> rule, key |-> pending.key, evidence |-> pending.evidence]
      BY <2>1, <3>2 DEF EvidenceInv
    <3>3. ASSUME NEW a \in pool, SameAlarm(a), b = [a EXCEPT !.evidence = pending.evidence]
          PROVE  GoodEvidence(b.key, b.evidence)
      <4>1. b.key = pending.key /\ b.evidence = pending.evidence
        BY <3>3 DEF TypeInv, IsAlarm, SameAlarm
      <4> QED
        BY <2>1, <4>1 DEF EvidenceInv
    <3> QED
      BY <1>3, <3>1, <3>2, <3>3, SavedAlarm
  <2> QED
    BY <2>1, <2>2 DEF EvidenceInv
<1>4. ASSUME NEW k \in Ids, Purge(k) \/ Remove(k)  PROVE  EvidenceInv'
  BY <1>4, EvidenceFrame DEF Purge, Remove, pass
<1>5. ASSUME NEW k \in Keys, NEW s \in SightingsOf[k], Report(k, s)  PROVE  EvidenceInv'
  BY <1>5, EvidenceFrame DEF Report, pass
<1>6. CASE ReloadRules \/ ReloadAreas \/ ClearSpeedChecks \/ GetAlarmArea \/ CopyTracks
  BY <1>6, EvidenceFrame DEF ReloadRules, ReloadAreas, ClearSpeedChecks, GetAlarmArea, CopyTracks, pass
<1>7. CASE RuleWithoutArea \/ RuleReadsPastEnd \/ SelectTargets \/ NextRule
  BY <1>7, EvidenceFrame DEF RuleWithoutArea, RuleReadsPastEnd, SelectTargets, NextRule, pass
<1>8. ASSUME NEW c \in selected, Drop(c)  PROVE  EvidenceInv'
  BY <1>8, EvidenceFrame DEF Drop
<1>9. CASE EndPass
  <2>1. pool' \subseteq pool /\ pending' = pending
    BY <1>9 DEF EndPass
  <2> QED
    BY <2>1, EvidenceFrame
<1>10. CASE UNCHANGED vars
  BY <1>10, EvidenceFrame DEF vars, pass
<1> QED
  BY <1>1, <1>2, <1>3, <1>4, <1>5, <1>6, <1>7, <1>8, <1>9, <1>10 DEF Next, Ids

LEMMA EvidenceInvariant == Spec => []EvidenceInv
<1>1. Init => EvidenceInv
  BY DEF Init, EvidenceInv
<1> QED
  BY <1>1, TypeInvariant, EvidenceNext, PTL DEF Spec

\* The evidence of an alarm is of a moment when the target met the rule that the
\* evidence names, however the alarm was raised, refreshed and kept up.
THEOREM EvidenceCorrect == Spec => []EvidenceWasMatch
<1>1. EvidenceInv => EvidenceWasMatch
  BY DEF EvidenceInv, GoodEvidence, EvidenceWasMatch
<1> QED
  BY <1>1, EvidenceInvariant, PTL

\* The text of an alarm names the conditions of its rule, no more and no fewer, for any
\* rules, parameters and sightings: what it says of course and threat is what the
\* filters compared.
THEOREM TextCorrect == Spec => []TextNamesConditions
<1>1. EvidenceInv => TextNamesConditions
  BY DEF EvidenceInv, GoodEvidence, TextNamesConditions
<1> QED
  BY <1>1, EvidenceInvariant, PTL
=============================================================================
