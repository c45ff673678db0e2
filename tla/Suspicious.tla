------------------------------ MODULE Suspicious ------------------------------
(***************************************************************************)
(* SuspiciousTargetThread and its way into the alarm snapshot.  Every few  *)
(* seconds the thread copies the fused tracks, judges each with a double   *)
(* check against its previous verdict, and replaces the two lists of       *)
(* suspicious ids.  The snapshot thread folds the alarms of the pool into  *)
(* one item per target under m_alarmDataMutex, then adds the ids of the    *)
(* two lists, read one after the other.                                    *)
(***************************************************************************)
EXTENDS Integers, FiniteSets

CONSTANTS
  Envs,      \* sea (m_mapFuseTrack) and air (m_mapBirdFuseTrack)
  Keys,      \* target ids
  Sightings, \* what a track of each may show: [high, low, drone, skip]
  NoTrack,
  Alarms,    \* the alarms that may be in the pool: [env, key, level, id]
  NoItem, Medium

Kinds == {"high", "low"}

Sighting == [high : BOOLEAN, low : BOOLEAN, drone : BOOLEAN, skip : BOOLEAN]

ASSUME SuspiciousAssumption ==
  /\ Envs \subseteq {"sea", "air"}
  /\ \A e \in Envs : Sightings[e] \subseteq Sighting /\ NoTrack \notin Sightings[e]
  /\ \A a \in Alarms : a.env \in Envs /\ a.key \in Keys /\ a.level \in Nat
  /\ Medium \in Nat

\* An item of the snapshot: of an alarm or only of a suspicious target (NoAlarm);
\* tagged when the rule id of suspicious targets is among its rule ids.
NoAlarm == [env |-> "none"]
Item == [alarm : Alarms \cup {NoAlarm}, level : Nat, tagged : BOOLEAN]

ASSUME ItemAssumption == NoItem \notin Item /\ NoAlarm \notin Alarms

VARIABLES
  tracks,   \* m_mapFuseTrack and m_mapBirdFuseTrack
  centers,  \* whether the active schemes have a protection area to look at
  phase,    \* where the suspicious thread is
  seen,     \* its copy of the tracks
  look,     \* whether it found centers
  check,    \* m_mapSpeedHighLastCheckSea, ...Low..., ...Air
  ids,      \* m_suspiciousSeaUniqueIds, m_suspiciousAirUniqueIds
  streak,   \* history: verdicts in a row that were positive, up to 2
  snap,     \* where the snapshot thread is
  left,     \* alarms its loop has not come to
  taken,    \* history: alarms that passed the filter
  items,    \* dedup
  view      \* the targets that are suspicious in the snapshot TrackManager has

tVars == <<phase, seen, look, check, ids, streak>>
sVars == <<snap, left, taken, items, view>>
eVars == <<tracks, centers>>
vars == <<tVars, sVars, eVars>>

NoTracks == [e \in Envs |-> [k \in Keys |-> NoTrack]]
Nothing == [e \in Envs |-> [k \in Keys |-> NoItem]]

Init ==
  /\ tracks = NoTracks
  /\ centers \in BOOLEAN
  /\ phase = "copy" /\ seen = tracks /\ look = FALSE
  /\ check = [e \in Envs |-> [d \in Kinds |-> [k \in Keys |-> "none"]]]
  /\ ids = [e \in Envs |-> {}]
  /\ streak = [e \in Envs |-> [d \in Kinds |-> [k \in Keys |-> 0]]]
  /\ snap = "idle" /\ left = {} /\ taken = {} /\ items = Nothing /\ view = [e \in Envs |-> {}]

-----------------------------------------------------------------------------
(* The suspicious thread *)

\* The maps of previous verdicts are emptied every speedCheckClearIntervalMin.
ClearChecks ==
  /\ phase = "copy"
  /\ check' = [e \in Envs |-> [d \in Kinds |-> [k \in Keys |-> "none"]]]
  /\ UNCHANGED <<phase, seen, look, ids, streak, sVars, eVars>>

\* The areas are loaded and the protection centers collected; then the tracks are
\* copied under the read lock.
CopyTracks ==
  /\ phase = "copy"
  /\ seen' = tracks /\ look' = centers /\ phase' = "judge"
  /\ UNCHANGED <<check, ids, streak, sVars, eVars>>

Yes(b) == IF b THEN "yes" ELSE "no"
Judged(e, k) == seen[e][k] # NoTrack /\ (e = "air" => seen[e][k].drone /\ ~seen[e][k].skip)
Skipped(e, k) == e = "air" /\ seen[e][k] # NoTrack /\ seen[e][k].drone /\ seen[e][k].skip
Looks(d) == d = "high" \/ look
Now(e, d, k) == IF d = "high" THEN seen[e][k].high ELSE seen[e][k].low

\* Mutant: one positive verdict is enough.
SingleCheck(e, d, k) == Judged(e, k) /\ Looks(d) /\ Now(e, d, k)

\* applySpeedDoubleCheck: positive now and the time before.
DoubleCheck(e, d, k) == Judged(e, k) /\ Looks(d) /\ check[e][d][k] = "yes" /\ Now(e, d, k)

\* The verdict that is kept for the next time; those of tracks that are not there, or
\* are no drones, stay as they are.
NextCheck(e, d, k) ==
  CASE Judged(e, k) /\ Looks(d) -> Yes(Now(e, d, k))
    [] Judged(e, k) /\ ~Looks(d) -> "none"
    [] Skipped(e, k) -> "none"
    [] OTHER -> check[e][d][k]

NextStreak(e, d, k) ==
  IF Judged(e, k) /\ Looks(d)
  THEN IF ~Now(e, d, k) THEN 0 ELSE IF streak[e][d][k] = 2 THEN 2 ELSE streak[e][d][k] + 1
  ELSE streak[e][d][k]

Confirmed(e) == {k \in Keys : \E d \in Kinds : DoubleCheck(e, d, k)}

\* Mutant: the ids found are added to the list.
AddToLists ==
  /\ phase = "judge"
  /\ check' = [e \in Envs |-> [d \in Kinds |-> [k \in Keys |-> NextCheck(e, d, k)]]]
  /\ streak' = [e \in Envs |-> [d \in Kinds |-> [k \in Keys |-> NextStreak(e, d, k)]]]
  /\ ids' = [e \in Envs |-> ids[e] \cup Confirmed(e)]
  /\ phase' = "copy" /\ seen' = NoTracks /\ look' = FALSE
  /\ UNCHANGED <<sVars, eVars>>

\* All tracks of the copy are judged and both lists replaced.
JudgeTracks ==
  /\ phase = "judge"
  /\ check' = [e \in Envs |-> [d \in Kinds |-> [k \in Keys |-> NextCheck(e, d, k)]]]
  /\ streak' = [e \in Envs |-> [d \in Kinds |-> [k \in Keys |-> NextStreak(e, d, k)]]]
  /\ ids' = [e \in Envs |-> Confirmed(e)]
  /\ phase' = "copy" /\ seen' = NoTracks /\ look' = FALSE
  /\ UNCHANGED <<sVars, eVars>>

-----------------------------------------------------------------------------
(* The snapshot thread *)

\* pushSnapshot takes m_alarmDataMutex; the pool may hold any alarms.
BeginSnapshot(pool) ==
  /\ snap = "idle"
  /\ snap' = "alarms" /\ left' = pool /\ taken' = {} /\ items' = Nothing
  /\ UNCHANGED <<view, tVars, eVars>>

\* Mutant: the last alarm that is visited makes the item.
LastAlarm(a) == [alarm |-> a, level |-> a.level, tagged |-> FALSE]

\* The alarm with the highest level makes the item of its target.
Better(a) ==
  LET i == items[a.env][a.key]
  IN IF i = NoItem \/ i.level < a.level
     THEN [alarm |-> a, level |-> a.level, tagged |-> FALSE] ELSE i

VisitAlarm(a) ==
  /\ snap = "alarms" /\ a \in left
  /\ left' = left \ {a}
  /\ items' = [items EXCEPT ![a.env][a.key] = Better(a)] /\ taken' = taken \cup {a}
  /\ UNCHANGED <<snap, view, tVars, eVars>>

\* The target is silenced (the filter has a mutex of its own and may change between
\* two visits), the alarm is older than 600 s, or it has no target id.
PassOver(a) ==
  /\ snap = "alarms" /\ a \in left
  /\ left' = left \ {a}
  /\ UNCHANGED <<snap, taken, items, view, tVars, eVars>>

\* Mutant: the mutex is released while alarms are left.
EndVisitsEarly ==
  /\ snap = "alarms"
  /\ snap' = "sea"
  /\ UNCHANGED <<left, taken, items, view, tVars, eVars>>

\* The mutex is released when all alarms are visited.
EndVisits ==
  /\ snap = "alarms" /\ left = {}
  /\ snap' = "sea"
  /\ UNCHANGED <<left, taken, items, view, tVars, eVars>>

\* enrichOrCreate: the item of an alarm gets the rule id and nothing else.
EnrichOrCreate(i) ==
  IF i = NoItem THEN [alarm |-> NoAlarm, level |-> Medium, tagged |-> TRUE]
  ELSE [i EXCEPT !.tagged = TRUE]

Embed(e, next) ==
  /\ snap = e
  /\ items' = [x \in Envs |-> [k \in Keys |->
       IF x = e /\ k \in ids[x] THEN EnrichOrCreate(items[x][k]) ELSE items[x][k]]]
  /\ snap' = next
  /\ UNCHANGED <<left, taken, view, tVars, eVars>>

\* UpdateAlarmSnapshot: TrackManager takes the snapshot, or the call fails and it may
\* have taken it.
Delivered ==
  /\ snap = "send"
  /\ view' = [e \in Envs |-> {k \in Keys : items[e][k] # NoItem /\ items[e][k].tagged}]
  /\ snap' = "idle" /\ items' = Nothing /\ taken' = {}
  /\ UNCHANGED <<left, tVars, eVars>>

Lost ==
  /\ snap = "send"
  /\ snap' = "idle" /\ items' = Nothing /\ taken' = {}
  /\ UNCHANGED <<left, view, tVars, eVars>>

-----------------------------------------------------------------------------
(* Ingest and configuration *)

Report(e, k, s) ==
  /\ tracks' = [tracks EXCEPT ![e][k] = s]
  /\ UNCHANGED <<centers, tVars, sVars>>

Reconfigure ==
  /\ centers' = ~centers
  /\ UNCHANGED <<tracks, tVars, sVars>>

Next ==
  \/ ClearChecks \/ CopyTracks \/ JudgeTracks
  \/ \E pool \in SUBSET Alarms : BeginSnapshot(pool)
  \/ \E a \in left : VisitAlarm(a) \/ PassOver(a)
  \/ EndVisits
  \/ Embed("sea", "air") \/ Embed("air", "send")
  \/ Delivered \/ Lost
  \/ \E e \in Envs, k \in Keys : \E s \in Sightings[e] \cup {NoTrack} : Report(e, k, s)
  \/ Reconfigure

\* Both threads go on, and TrackManager answers now and then.
Fairness ==
  /\ WF_vars(CopyTracks) /\ WF_vars(JudgeTracks)
  /\ WF_vars(\E pool \in SUBSET Alarms : BeginSnapshot(pool))
  /\ WF_vars(\E a \in left : VisitAlarm(a) \/ PassOver(a)) /\ WF_vars(EndVisits)
  /\ WF_vars(Embed("sea", "air")) /\ WF_vars(Embed("air", "send"))
  /\ SF_vars(Delivered)

Spec == Init /\ [][Next]_vars /\ Fairness

-----------------------------------------------------------------------------
(* Properties *)

\* The verdicts, lists and items are of their kinds; a copy of the tracks lives for a
\* pass and alarms are left only while the mutex is held.
TypeOK ==
  /\ tracks \in [Envs -> [Keys -> Sighting \cup {NoTrack}]]
  /\ seen \in [Envs -> [Keys -> Sighting \cup {NoTrack}]]
  /\ centers \in BOOLEAN /\ look \in BOOLEAN
  /\ phase \in {"copy", "judge"}
  /\ check \in [Envs -> [Kinds -> [Keys -> {"none", "yes", "no"}]]]
  /\ ids \in [Envs -> SUBSET Keys]
  /\ streak \in [Envs -> [Kinds -> [Keys -> 0..2]]]
  /\ snap \in {"idle", "alarms", "sea", "air", "send"}
  /\ (phase = "copy" => seen = NoTracks) /\ (snap # "alarms" => left = {})
  /\ left \subseteq Alarms /\ taken \subseteq Alarms
  /\ items \in [Envs -> [Keys -> Item \cup {NoItem}]]
  /\ view \in [Envs -> SUBSET Keys]

\* A target is listed only when one and the same criterion was met in the last two
\* passes that judged the target by it, although tracks come and go, drones become
\* birds, protection areas appear and the kept verdicts are emptied in between.
ListedWasConfirmed ==
  \A e \in Envs : \A k \in ids[e] : \E d \in Kinds : streak[e][d][k] = 2

\* The item of a target is that of an alarm of the highest level among those that
\* passed the filter, in whatever order the pool is visited; being suspicious as well
\* neither hides the alarm nor changes its level.
HighestAlarmWins ==
  \A a \in taken :
    LET i == items[a.env][a.key]
    IN /\ i # NoItem /\ i.alarm \in taken
       /\ i.alarm.env = a.env /\ i.alarm.key = a.key
       /\ i.level = i.alarm.level /\ a.level <= i.level

\* A target that has gone is in the end not suspicious any more for TrackManager,
\* through two threads, two lists and a lossy call.
VanishedLeavesView ==
  \A e \in Envs, k \in Keys : <>[](tracks[e][k] = NoTrack) => <>[](k \notin view[e])
=============================================================================
