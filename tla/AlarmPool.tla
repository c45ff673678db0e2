------------------------------ MODULE AlarmPool ------------------------------
(***************************************************************************)
(* The alarm table of AlarmSys-linux and the threads that share it.        *)
(*                                                                         *)
(*   track    TrackAlarmThread: judge candidates, save them (SaveToDB),    *)
(*            publish the AlarmEvent (SendAllAlarmEventMsg), prune.        *)
(*   grpc     the GrpcSnapshot thread: pushSnapshot once per second.       *)
(*   http     the Qt main thread: /api/alarm_filter, /api/alarm_confirm.   *)
(*   destroy  the destroy-event subscriber: addAlarmFilter.                *)
(*                                                                         *)
(* m_alarmDataMutex guards the tables (except where PruneStale ignores it) *)
(* and m_alarmFilterMutex the filter map, which is only ever held for one  *)
(* step.  Time is kept as ages that saturate at MaxAge: the code compares  *)
(* "now - time" with windows and nothing else.  What a record says about   *)
(* the target (position, content, area, count) is left out.                *)
(***************************************************************************)
EXTENDS Naturals, FiniteSets

CONSTANTS
  Targets,       \* unique ids of tracks
  Rules,         \* condition ids of the alarm rules
  AlarmIds,      \* the UUIDs a run may hand out (bound)
  Scores,        \* threat scores a rule evaluation may return
  DefaultScore,  \* AlarmLogic/DefaultThreatScore
  StoredAs,      \* secondary.uniqueID of the track stored under a map key
  PruneAge,      \* AlarmLogic/AlarmMapPruneNonFirstStaleMs
  DedupWindow,   \* AlarmLogic/DedupSameAlarmWindowMs
  SustainWindow, \* AlarmLogic/TrackAlreadyHasAlarmWindowMs
  PublishAge,    \* the 600 s of the two publishers and of the manual table
  FilterTtl,     \* AlarmLogic/AlarmFilterTtlMs
  PushInterval,  \* the 1 s throttle of tickAlarmGrpcSnapshot
  MaxAge,        \* where ages saturate (bound)
  MatchRule,     \* AlarmLogic/DedupMatchConditionAndTrack
  SaveDb,        \* AlarmLogic/SaveAlarmToDb
  DbMayFail,     \* whether a statement may fail
  DdsOn,         \* DDS/PublishAlarmEventDds
  Verifying,     \* whether identification rules with constraints exist
  Types,         \* filter types: 0 for sea, 1 for air
  Suppressible,  \* targets that filter requests name
  Confirmable,   \* targets that confirm requests name
  Suspects       \* targets SuspiciousTargetThread may list

ASSUME WindowAssumption ==
  /\ {PruneAge, DedupWindow, SustainWindow, PublishAge, PushInterval, MaxAge} \subseteq Nat
  /\ \A w \in {PruneAge, PublishAge} : w < MaxAge
  /\ \A w \in {DedupWindow, SustainWindow, PushInterval} : w <= MaxAge
  /\ FilterTtl \in Nat \ {0}

ASSUME DataAssumption ==
  /\ Scores \subseteq Nat /\ DefaultScore \in Scores
  /\ StoredAs \in [Targets -> Targets]
  /\ Types \subseteq {0, 1}
  /\ Suppressible \subseteq Targets /\ Confirmable \subseteq Targets /\ Suspects \subseteq Targets
  /\ {MatchRule, SaveDb, DbMayFail, DdsOn, Verifying} \subseteq BOOLEAN

VARIABLES
  alarms,    \* m_mapAlarmData
  manual,    \* m_mapManualAlarmData
  filter,    \* m_mapAlarmFilterExpireMs, as the time left; 0 is expired or absent
  confirmed, \* m_setManualConfirmedUniqueIds
  resolved,  \* keys of m_mapAlarmIdentificationResolvedTime
  live,      \* map keys present in the track maps
  phase,     \* where TrackAlarmThread is in its loop
  copied,    \* the track maps as copied at the start of the pass
  cand,      \* the candidate SaveToDB was called with
  pending,   \* the write SaveToDB does after it released the mutex
  event,     \* targets of the AlarmEvent under construction
  push,      \* where the snapshot thread is
  snap,      \* targets of the AlarmSnapshotRequest under construction or in flight
  sincePush, \* age of m_lastAlarmGrpcPushMs
  calls,     \* addAlarmFilter and confirmAlarmByUniqueId calls between their locks
  rows,      \* alarm ids with a row in alarm_data
  eval,      \* system_evaluation_data
  tmView     \* targets TrackManager shows as alarmed

poolVars == <<alarms, manual, filter, confirmed, resolved>>
trackVars == <<phase, copied, cand, pending, event>>
pushVars == <<push, snap, sincePush, tmView>>
dbVars == <<rows, eval>>
vars == <<poolVars, live, trackVars, pushVars, calls, dbVars>>

Requesters == {"http", "destroy"}

AlarmData == [id : AlarmIds, uid : Targets, rule : Rules, age : 0..MaxAge, score : Scores]
Candidate == [uid : Targets, rule : Rules, score : Scores]
ManualAlarm == [uid : Targets, age : 0..MaxAge]
Call == [by : Requesters, op : {"purge", "confirm"}, uid : Targets, hint : BOOLEAN]
Write == [kind : {"insert", "update"}, id : AlarmIds]

Init ==
  /\ alarms = {} /\ manual = {} /\ confirmed = {} /\ resolved = {} /\ live = {}
  /\ filter = [t \in Types |-> [u \in Targets |-> 0]]
  /\ phase = "copy" /\ copied = {} /\ cand = {} /\ pending = {} /\ event = {}
  /\ push = "idle" /\ snap = {} /\ sincePush = PushInterval /\ tmView = {}
  /\ calls = {}
  /\ rows = {} /\ eval = [i \in AlarmIds |-> "none"]

-----------------------------------------------------------------------------
(* Queries shared by the threads *)

\* No thread is inside a section of m_alarmDataMutex that spans several steps.
MutexFree == phase # "publishing" /\ push # "building"

\* isUniqueIdAlarmFiltered: either type silences the target.
Filtered(u) == \E t \in Types : filter[t][u] > 0

\* findTrackByUniqueId: by map key, else by secondary.uniqueID.
Found(u) == u \in live \/ \E k \in live : StoredAs[k] = u

\* effectiveUniqueIdFromTrackHit.
StorageId(u) == IF u \in live THEN StoredAs[u] ELSE u

AlarmsOf(u) == {a \in alarms : a.uid = u}
IdsOf(A) == {a.id : a \in A}

\* trackHasPublishedAlarm.
HasPublished(u) == \E a \in AlarmsOf(u) : a.age < SustainWindow

\* trackAlreadyHasAlarm in updataAlarmTrackToDB.
Sustained(u, r) == \E a \in AlarmsOf(u) : a.rule = r /\ a.age < SustainWindow

\* matchesDedupKey in SaveToDB.
SameKey(a, c) == a.uid = c.uid /\ (MatchRule => a.rule = c.rule)
\* Mutant: the sustain window in place of the deduplication window.
ShortDedupHits(c) == {a \in alarms : SameKey(a, c) /\ a.age < SustainWindow}

DedupHits(c) == {a \in alarms : SameKey(a, c) /\ a.age < DedupWindow}

\* QUuid::createUuid: an id nothing refers to.
FreshIds == AlarmIds \ (IdsOf(alarms) \cup resolved \cup rows
                        \cup {i \in AlarmIds : eval[i] # "none"})

\* resolveRuleAlarmDisposition: the alarms among A that get a resolved time when
\* the identification rules accept the alarms in ok.
NewlyResolved(A, ok) ==
  {a.id : a \in {b \in A : b.uid \in confirmed \/ b.id \in ok}} \ resolved

\* setSystemEvaluationAlarmTimeOnce for the alarms in ids; those in lost fail.
RecordAlarmTime(ids, lost) ==
  [i \in AlarmIds |-> IF SaveDb /\ i \in ids \ lost THEN "both" ELSE eval[i]]

Losses(ids) == IF DbMayFail THEN SUBSET ids ELSE {{}}
Verdicts(A) == IF Verifying THEN SUBSET IdsOf(A) ELSE {{}}

-----------------------------------------------------------------------------
(* TrackAlarmThread *)

\* processAlarms starts from a copy of the track maps.
CopyTracks ==
  /\ phase = "copy"
  /\ copied' = live /\ phase' = "judge"
  /\ UNCHANGED <<poolVars, live, cand, pending, event, pushVars, calls, dbVars>>

\* Mutant: an alarm that is still fresh is kept up although its track is gone.
JudgeLost(u, r, s, pass, zone, list) ==
  /\ phase = "judge" /\ MutexFree
  /\ u \in copied \/ Sustained(u, r)
  /\ zone => HasPublished(u)
  /\ list # "notWhite"
  /\ list = "black" => s = DefaultScore
  /\ list = "black" \/ pass \/ Sustained(u, r)
  /\ cand' = {[uid |-> u, rule |-> r, score |-> s]}
  /\ phase' = "check"
  /\ UNCHANGED <<poolVars, live, copied, pending, event, pushVars, calls, dbVars>>

\* updataAlarmTrackToDB, one candidate: the no-alarm zone, the black and white
\* lists, and the rule's own conditions (pass) or an alarm that is still fresh.
Judge(u, r, s, pass, zone, list) ==
  /\ phase = "judge" /\ MutexFree
  /\ u \in copied
  /\ zone => HasPublished(u)
  /\ list # "notWhite"
  /\ list = "black" => s = DefaultScore
  /\ list = "black" \/ pass \/ Sustained(u, r)
  /\ cand' = {[uid |-> u, rule |-> r, score |-> s]}
  /\ phase' = "check"
  /\ UNCHANGED <<poolVars, live, copied, pending, event, pushVars, calls, dbVars>>

\* SaveToDB reads the filter before it takes m_alarmDataMutex.
CheckFilter(c) ==
  /\ phase = "check" /\ c \in cand
  /\ IF Filtered(c.uid) THEN phase' = "judge" /\ cand' = {}
                        ELSE phase' = "save" /\ UNCHANGED cand
  /\ UNCHANGED <<poolVars, live, copied, pending, event, pushVars, calls, dbVars>>

\* SaveToDB under m_alarmDataMutex: what is left to write once it is released.
FinishSave(kind, id) ==
  /\ cand' = {}
  /\ phase' = IF SaveDb THEN "write" ELSE "judge"
  /\ pending' = IF SaveDb THEN {[kind |-> kind, id |-> id]} ELSE {}
  /\ UNCHANGED <<manual, filter, confirmed, resolved, live, copied, event, pushVars, calls, dbVars>>

Refreshed(a, c) == [a EXCEPT !.age = 0, !.score = c.score]

SaveRefresh(c, a) ==
  /\ phase = "save" /\ MutexFree /\ c \in cand
  /\ a \in DedupHits(c)
  /\ alarms' = (alarms \ {a}) \cup {Refreshed(a, c)}
  /\ FinishSave("update", a.id)

SaveNew(c, id) ==
  /\ phase = "save" /\ MutexFree /\ c \in cand
  /\ DedupHits(c) = {}
  /\ id \in FreshIds
  /\ alarms' = alarms \cup
       {[id |-> id, uid |-> c.uid, rule |-> c.rule, age |-> 0, score |-> c.score]}
  /\ FinishSave("insert", id)

\* The bound on ids: with none left, the new alarm is not saved.
NoIdLeft(c) ==
  /\ phase = "save" /\ MutexFree /\ c \in cand
  /\ DedupHits(c) = {} /\ FreshIds = {}
  /\ cand' = {} /\ phase' = "judge"
  /\ UNCHANGED <<poolVars, live, copied, pending, event, pushVars, calls, dbVars>>

\* Mutant: the threat row overwrites what a confirmation wrote first.
OverwriteThreat(id) == [eval EXCEPT ![id] = "threat"]

\* The threat row of a new alarm: ON CONFLICT DO NOTHING.
RecordThreat(id) == [eval EXCEPT ![id] = IF @ = "none" THEN "threat" ELSE @]

\* addAlarmData writes the evaluation row and then the alarm row, whatever became
\* of the first; updateAlarmData adds no row.
WriteDb(w, lostEval, lostRow) ==
  /\ phase = "write" /\ w \in pending
  /\ (lostEval \/ lostRow) => DbMayFail
  /\ eval' = IF w.kind = "insert" /\ ~lostEval THEN RecordThreat(w.id) ELSE eval
  /\ rows' = IF w.kind = "insert" /\ ~lostRow THEN rows \cup {w.id} ELSE rows
  /\ pending' = {} /\ phase' = "judge"
  /\ UNCHANGED <<poolVars, live, copied, cand, event, pushVars, calls>>

EndPass ==
  /\ phase = "judge"
  /\ phase' = IF DdsOn THEN "publish" ELSE "prune"
  /\ UNCHANGED <<poolVars, live, copied, cand, pending, event, pushVars, calls, dbVars>>

\* Mutant: manual alarms are refreshed whether or not the track is there.
SyncedWithoutTrack == {[m EXCEPT !.age = 0] : m \in manual}

\* syncManualAlarmsBeforePublish: refreshed while the track is there, dropped
\* when it is gone and the record is too old.
SyncedManual ==
  {IF Found(m.uid) THEN [m EXCEPT !.age = 0] ELSE m :
     m \in {n \in manual : Found(n.uid) \/ n.age <= PublishAge}}

Publishable(A) == {a \in A : ~Filtered(a.uid) /\ a.age <= PublishAge}
UidsOf(A) == {a.uid : a \in A}

\* SendAllAlarmEventMsg up to the send, with m_alarmDataMutex held.
BuildEvent(ok, lost) ==
  /\ phase = "publish" /\ MutexFree
  /\ manual' = SyncedManual
  /\ LET shown == Publishable(alarms)
         new == NewlyResolved(shown, ok)
     IN /\ event' = UidsOf(shown) \cup
                      UidsOf({m \in Publishable(SyncedManual) : Found(m.uid)})
        /\ resolved' = resolved \cup new
        /\ lost \in Losses(new)
        /\ eval' = RecordAlarmTime(new, lost)
  /\ phase' = "publishing"
  /\ UNCHANGED <<alarms, filter, confirmed, live, copied, cand, pending, pushVars, calls, rows>>

SendEvent ==
  /\ phase = "publishing"
  /\ event' = {} /\ phase' = "prune"
  /\ UNCHANGED <<poolVars, live, copied, cand, pending, pushVars, calls, dbVars>>

\* The tail of run(): it removes stale records without taking m_alarmDataMutex.
PruneStale ==
  /\ phase = "prune"
  /\ alarms' = {a \in alarms : a.age <= PruneAge}
  /\ phase' = "copy"
  /\ UNCHANGED <<manual, filter, confirmed, resolved, live, copied, cand, pending, event,
                 pushVars, calls, dbVars>>

TrackAlarmThread ==
  \/ CopyTracks
  \/ \E u \in Targets, r \in Rules, s \in Scores, pass, zone \in BOOLEAN,
        list \in {"none", "black", "notWhite"} : Judge(u, r, s, pass, zone, list)
  \/ \E c \in cand : CheckFilter(c)
  \/ \E c \in cand : \E a \in alarms : SaveRefresh(c, a)
  \/ \E c \in cand : \E id \in AlarmIds : SaveNew(c, id)
  \/ \E c \in cand : NoIdLeft(c)
  \/ \E w \in pending : \E lostEval, lostRow \in BOOLEAN : WriteDb(w, lostEval, lostRow)
  \/ EndPass
  \/ \E ok \in Verdicts(alarms) : \E lost \in SUBSET IdsOf(alarms) : BuildEvent(ok, lost)
  \/ SendEvent
  \/ PruneStale

-----------------------------------------------------------------------------
(* GrpcSnapshot thread *)

\* tickAlarmGrpcSnapshot and the part of pushSnapshot that holds m_alarmDataMutex.
BuildSnapshot(ok, lost) ==
  /\ push = "idle" /\ MutexFree
  /\ sincePush >= PushInterval
  /\ LET shown == Publishable(alarms)
         new == NewlyResolved(shown, ok)
     IN /\ snap' = UidsOf(shown) \cup UidsOf(Publishable(manual))
        /\ resolved' = resolved \cup new
        /\ lost \in Losses(new)
        /\ eval' = RecordAlarmTime(new, lost)
  /\ sincePush' = 0
  /\ push' = "building"
  /\ UNCHANGED <<alarms, manual, filter, confirmed, live, trackVars, tmView, calls, rows>>

\* Once the mutex is released, the suspicious targets of the moment are added,
\* silenced or not.
ReleaseSnapshot(suspicious) ==
  /\ push = "building" /\ push' = "rpc"
  /\ snap' = snap \cup suspicious
  /\ UNCHANGED <<poolVars, live, trackVars, sincePush, tmView, calls, dbVars>>

\* Mutant: an empty snapshot is not sent.
RpcReturnsNonEmpty(taken) ==
  /\ push = "rpc"
  /\ tmView' = IF taken /\ snap # {} THEN snap ELSE tmView
  /\ push' = "idle" /\ snap' = {}
  /\ UNCHANGED <<poolVars, live, trackVars, sincePush, calls, dbVars>>

\* UpdateAlarmSnapshot: accepted, or an error after which TrackManager may or may
\* not have taken the snapshot.
RpcReturns(taken) ==
  /\ push = "rpc"
  /\ tmView' = IF taken THEN snap ELSE tmView
  /\ push' = "idle" /\ snap' = {}
  /\ UNCHANGED <<poolVars, live, trackVars, sincePush, calls, dbVars>>

SnapshotThread ==
  \/ \E ok \in Verdicts(alarms) : \E lost \in SUBSET IdsOf(alarms) : BuildSnapshot(ok, lost)
  \/ \E suspicious \in SUBSET Suspects : ReleaseSnapshot(suspicious)
  \/ \E taken \in BOOLEAN : RpcReturns(taken)

-----------------------------------------------------------------------------
(* Filter and confirm requests *)

Idle(b) == \A c \in calls : c.by # b

\* Mutant: a repeated request adds to what is left of the first.
AddFilterExtends(b, t, u) ==
  /\ Idle(b)
  /\ filter' = [filter EXCEPT ![t][u] = @ + FilterTtl]
  /\ calls' = calls \cup {[by |-> b, op |-> "purge", uid |-> u, hint |-> FALSE]}
  /\ UNCHANGED <<alarms, manual, confirmed, resolved, live, trackVars, pushVars, dbVars>>

\* addAlarmFilter, first section: under m_alarmFilterMutex; the time counts anew.
AddFilter(b, t, u) ==
  /\ Idle(b)
  /\ filter' = [filter EXCEPT ![t][u] = FilterTtl]
  /\ calls' = calls \cup {[by |-> b, op |-> "purge", uid |-> u, hint |-> FALSE]}
  /\ UNCHANGED <<alarms, manual, confirmed, resolved, live, trackVars, pushVars, dbVars>>

\* Mutant: the table is purged without the mutex.
PurgeUnlocked(c) ==
  /\ c.op = "purge"
  /\ alarms' = {a \in alarms : a.uid # c.uid}
  /\ manual' = {m \in manual : m.uid # c.uid}
  /\ calls' = calls \ {c}
  /\ UNCHANGED <<filter, confirmed, resolved, live, trackVars, pushVars, dbVars>>

\* addAlarmFilter, second section: under m_alarmDataMutex.
Purge(c) ==
  /\ c.op = "purge" /\ MutexFree
  /\ alarms' = {a \in alarms : a.uid # c.uid}
  /\ manual' = {m \in manual : m.uid # c.uid}
  /\ calls' = calls \ {c}
  /\ UNCHANGED <<filter, confirmed, resolved, live, trackVars, pushVars, dbVars>>

\* removeAlarmFilterForUniqueId.
WithoutFilter(u) == [t \in Types |-> [filter[t] EXCEPT ![u] = 0]]

\* confirmAlarmByUniqueId, before it takes m_alarmDataMutex.
BeginConfirm(u, hint) ==
  /\ Idle("http")
  /\ filter' = WithoutFilter(u)
  /\ calls' = calls \cup {[by |-> "http", op |-> "confirm", uid |-> u, hint |-> hint]}
  /\ UNCHANGED <<alarms, manual, confirmed, resolved, live, trackVars, pushVars, dbVars>>

\* A rule alarm exists: raise its score and fix its resolved time.
Raised(a) == IF a.score < DefaultScore THEN [a EXCEPT !.score = DefaultScore] ELSE a

ConfirmRuleAlarms(c, lost) ==
  /\ c.op = "confirm" /\ MutexFree
  /\ AlarmsOf(c.uid) # {}
  /\ alarms' = (alarms \ AlarmsOf(c.uid)) \cup {Raised(a) : a \in AlarmsOf(c.uid)}
  /\ LET new == IdsOf(AlarmsOf(c.uid)) \ resolved
     IN /\ resolved' = resolved \cup new
        /\ lost \in Losses(new)
        /\ eval' = RecordAlarmTime(new, lost)
  /\ confirmed' = confirmed \cup {c.uid}
  /\ calls' = calls \ {c}
  /\ UNCHANGED <<manual, filter, live, trackVars, pushVars, rows>>

\* No rule alarm: a manual one, from the track or from the caller's hint.
ConfirmManually(c) ==
  /\ c.op = "confirm" /\ MutexFree
  /\ AlarmsOf(c.uid) = {}
  /\ Found(c.uid) \/ c.hint
  /\ LET u == StorageId(c.uid)
     IN /\ manual' = {m \in manual : m.uid # u} \cup {[uid |-> u, age |-> 0]}
        /\ confirmed' = confirmed \cup {c.uid, u}
        /\ filter' = IF u = c.uid THEN filter ELSE WithoutFilter(u)
  /\ calls' = calls \ {c}
  /\ UNCHANGED <<alarms, resolved, live, trackVars, pushVars, dbVars>>

\* Neither: "track not found", with the confirmation kept.
ConfirmNotFound(c) ==
  /\ c.op = "confirm" /\ MutexFree
  /\ AlarmsOf(c.uid) = {}
  /\ ~(Found(c.uid) \/ c.hint)
  /\ confirmed' = confirmed \cup {c.uid}
  /\ calls' = calls \ {c}
  /\ UNCHANGED <<alarms, manual, filter, resolved, live, trackVars, pushVars, dbVars>>

FinishCall(c) ==
  \/ Purge(c)
  \/ \E lost \in SUBSET IdsOf(alarms) : ConfirmRuleAlarms(c, lost)
  \/ ConfirmManually(c)
  \/ ConfirmNotFound(c)

Requests ==
  \/ \E b \in Requesters, t \in Types, u \in Suppressible : AddFilter(b, t, u)
  \/ \E u \in Confirmable, hint \in BOOLEAN : BeginConfirm(u, hint)
  \/ \E c \in calls : FinishCall(c)

-----------------------------------------------------------------------------
(* Tracks and time *)

TrackAppears(u) ==
  /\ u \notin live /\ live' = live \cup {u}
  /\ UNCHANGED <<poolVars, trackVars, pushVars, calls, dbVars>>

TrackVanishes(u) ==
  /\ u \in live /\ live' = live \ {u}
  /\ UNCHANGED <<poolVars, trackVars, pushVars, calls, dbVars>>

Older(n) == IF n < MaxAge THEN n + 1 ELSE n
Less(n) == IF n > 0 THEN n - 1 ELSE 0

Tick ==
  /\ alarms' = {[a EXCEPT !.age = Older(@)] : a \in alarms}
  /\ manual' = {[m EXCEPT !.age = Older(@)] : m \in manual}
  /\ filter' = [t \in Types |-> [u \in Targets |-> Less(filter[t][u])]]
  /\ sincePush' = IF sincePush < PushInterval THEN sincePush + 1 ELSE sincePush
  /\ UNCHANGED <<confirmed, resolved, live, trackVars, push, snap, tmView, calls, dbVars>>

Next ==
  \/ TrackAlarmThread
  \/ SnapshotThread
  \/ Requests
  \/ \E u \in Targets : TrackAppears(u) \/ TrackVanishes(u)
  \/ Tick

Spec == Init /\ [][Next]_vars

\* The loops keep running and a mutex is eventually granted to whoever waits for
\* it; requests that have started finish; the RPC is not refused forever.  Of the
\* steps of a thread that stand in one disjunction its position allows one kind.
Fairness ==
  /\ WF_vars(CopyTracks \/ (\E c \in cand : CheckFilter(c)) \/ SendEvent \/ PruneStale
             \/ \E w \in pending : \E lostEval, lostRow \in BOOLEAN : WriteDb(w, lostEval, lostRow))
  /\ SF_vars(\/ \E c \in cand : \/ \E a \in alarms : SaveRefresh(c, a)
                               \/ \E id \in AlarmIds : SaveNew(c, id)
                               \/ NoIdLeft(c)
             \/ \E ok \in Verdicts(alarms) : \E lost \in SUBSET IdsOf(alarms) : BuildEvent(ok, lost))
  /\ SF_vars(EndPass)
  /\ SF_vars(\E ok \in Verdicts(alarms) : \E lost \in SUBSET IdsOf(alarms) : BuildSnapshot(ok, lost))
  /\ WF_vars(\/ \E suspicious \in SUBSET Suspects : ReleaseSnapshot(suspicious)
             \/ \E taken \in BOOLEAN : RpcReturns(taken))
  /\ SF_vars(RpcReturns(TRUE))
  /\ \A b \in Requesters : SF_vars(\E c \in calls : c.by = b /\ FinishCall(c))
  /\ WF_vars(Tick)

FairSpec == Spec /\ Fairness

-----------------------------------------------------------------------------
(* Properties *)

\* Every variable keeps its type; what is left of a filter is never more than its
\* TTL, however often the target is silenced (addAlarmFilter sets the expiry anew).
TypeOK ==
  /\ alarms \subseteq AlarmData
  /\ manual \subseteq ManualAlarm
  /\ filter \in [Types -> [Targets -> 0..FilterTtl]]
  /\ confirmed \subseteq Targets
  /\ resolved \subseteq AlarmIds
  /\ live \subseteq Targets
  /\ copied \subseteq Targets
  /\ phase \in {"copy", "judge", "check", "save", "write", "publish", "publishing", "prune"}
  /\ cand \subseteq Candidate
  /\ pending \subseteq Write
  /\ event \subseteq Targets
  /\ push \in {"idle", "building", "rpc"}
  /\ snap \subseteq Targets
  /\ sincePush \in 0..PushInterval
  /\ calls \subseteq Call
  /\ rows \subseteq AlarmIds
  /\ eval \in [AlarmIds -> {"none", "threat", "both"}]
  /\ tmView \subseteq Targets

\* SaveToDB keeps one alarm per deduplication key: two alarms of one key are never
\* both younger than the window, whatever the other threads remove or raise.
OneLiveAlarmPerKey ==
  \A a, b \in alarms :
    SameKey(a, b) /\ a.age < DedupWindow /\ b.age < DedupWindow => a = b

\* A message built under m_alarmDataMutex names a silenced target only while the
\* addAlarmFilter call that silenced it waits for that mutex: once the call has
\* returned, no AlarmEvent carries the target and no new snapshot is built with it.
SilencedNeverBuilt ==
  \A u \in Targets :
    /\ Filtered(u)
    /\ \/ phase = "publishing" /\ u \in event
       \/ push = "building" /\ u \in snap
    => \E c \in calls : c.op = "purge" /\ c.uid = u

\* system_evaluation_data has two writers in no fixed order, SaveToDB after it
\* released the mutex and a confirmation or publisher before or after that: an
\* alarm with a row has its threat time, and its alarm time exactly if resolved.
EvaluationKeepsUp ==
  \A i \in rows : eval[i] = IF i \in resolved THEN "both" ELSE "threat"

\* A target that stays silenced leaves TrackManager's view and does not come back:
\* the snapshot is pushed even when it is empty, and a push that failed is made up
\* for by a later one.  (A suspect may stay there as one.)
SilencedLeavesView ==
  \A u \in Targets \ Suspects : <>[]Filtered(u) => <>[](u \notin tmView)

\* The alarms of a target whose track is gone for good leave the table, although
\* SaveToDB refreshes an alarm, and so starts its age anew, at every pass whose
\* copy of the tracks still has the target.
StaleAlarmsLeave ==
  \A u \in Targets : <>[](u \notin live) => <>[](AlarmsOf(u) = {})

\* So does its manual alarm, unless it is confirmed again and again.
StaleManualLeaves ==
  \A u \in Targets :
    <>[](~Found(u) /\ \A c \in calls : c.op # "confirm") => <>[](u \notin UidsOf(manual))
=============================================================================
