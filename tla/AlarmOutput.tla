----------------------------- MODULE AlarmOutput -----------------------------
(***************************************************************************)
(* The alarm output over FastDDS (PublishAlarmEventDds=1).  InitFastdds    *)
(* makes one publisher per domain, each with a thread of its own.  The     *)
(* alarm thread gathers the alarms of the table into an AlarmEvent, ranks  *)
(* the worst of them, and hands the event to the publishers, which write   *)
(* what they were handed last once per second while somebody listens.      *)
(* Ages are 0 up to RankAge, ShowAge, and one more.                        *)
(***************************************************************************)
EXTENDS Naturals, FiniteSets

CONSTANTS
  Targets,
  Alarms,   \* ids, in the order of the map
  Manual,   \* those of confirmed targets without a rule alarm
  TargetOf, \* the target of an alarm
  Scores,   \* threat scores
  ManualScore, \* the one of a confirmed target (m_alarmLogic.defaultThreatScore)
  TopLevel, \* 5
  RankAge,  \* 5 s
  ShowAge   \* 600 s

ASSUME OutputAssumption ==
  /\ Alarms \subseteq Nat /\ IsFiniteSet(Alarms) /\ Manual \subseteq Alarms
  /\ TargetOf \in [Alarms -> Targets]
  /\ Scores \subseteq Nat /\ ManualScore \in Scores
  /\ TopLevel \in Nat /\ RankAge \in Nat /\ ShowAge \in Nat

VARIABLES
  boot,    \* where InitFastdds is
  writer,  \* domains whose publisher pointer is set
  thread,  \* domains whose publisher thread runs
  raws,    \* whether raw tracks can be sent: both a source and publishers were made
  ready,   \* m_bFastDDSInitialized
  pool,    \* m_mapAlarmData and m_mapManualAlarmData
  tracks,  \* targets with a track
  filter,  \* silenced targets
  sending, \* where SendAllAlarmEventMsg is; it holds m_alarmDataMutex unless idle
  todo,    \* alarms it has still to visit
  level,   \* alarmLevelMap
  event,   \* the alarms of the AlarmEvent it builds
  domain,  \* the domain in which we look at a subscriber
  cur,     \* m_curAlarm of the publisher there
  heard,   \* whether the subscriber listens
  written, \* the last sample there, which a late subscriber gets too
  raw      \* targets of the last sample of raw tracks

bootVars == <<boot, writer, thread, raws, ready>>
sendVars == <<sending, todo, level, event>>
envVars == <<tracks, filter>>
outVars == <<domain, heard, written>>
vars == <<bootVars, pool, envVars, sendVars, cur, outVars, raw>>

Domains == {"multi", "single"}
MaxAge == ShowAge + 1
Levels == 0..TopLevel
Entry == [score : Scores, age : 0..MaxAge]
Unranked == [a \in Alarms |-> 0]

Init ==
  /\ boot = "multi" /\ writer = {} /\ thread = {}
  /\ raws = FALSE /\ ready = FALSE
  /\ pool = <<>> /\ tracks = {} /\ filter = {}
  /\ sending = "idle" /\ todo = {} /\ level = Unranked /\ event = {}
  /\ domain \in Domains /\ cur = {} /\ heard = FALSE /\ written = {} /\ raw = {}

-----------------------------------------------------------------------------
(* InitFastdds. *)

\* One try block for both: the pointer of the first is dropped, its thread runs on.
PublisherFails(d) ==
  /\ boot = d /\ boot' = "raws"
  /\ writer' = {}
  /\ UNCHANGED <<thread, raws, ready, pool, envVars, sendVars, cur, outVars, raw>>

PublisherMade(d) ==
  /\ boot = d /\ boot' = IF d = "multi" THEN "single" ELSE "raws"
  /\ writer' = writer \cup {d} /\ thread' = thread \cup {d}
  /\ UNCHANGED <<raws, ready, pool, envVars, sendVars, cur, outVars, raw>>

\* Any of the objects may fail to be made.
MakeRawPublishers ==
  /\ boot = "raws" /\ boot' = "finish"
  /\ raws' \in BOOLEAN
  /\ UNCHANGED <<writer, thread, ready, pool, envVars, sendVars, cur, outVars, raw>>

FinishInit ==
  /\ boot = "finish" /\ boot' = "done"
  /\ ready' = ("multi" \in writer)
  /\ UNCHANGED <<writer, thread, raws, pool, envVars, sendVars, cur, outVars, raw>>

InitFastdds ==
  \/ \E d \in Domains : PublisherMade(d) \/ PublisherFails(d)
  \/ MakeRawPublishers \/ FinishInit

-----------------------------------------------------------------------------
(* SendAllAlarmEventMsg, on TrackAlarmThread. *)

\* A manual alarm is refreshed while its track is there, and erased when it has
\* long been gone.
Synced ==
  LET erased == {a \in Manual \cap DOMAIN pool :
                   TargetOf[a] \notin tracks /\ pool[a].age > ShowAge}
  IN  [a \in DOMAIN pool \ erased |->
         IF a \in Manual /\ TargetOf[a] \in tracks THEN [pool[a] EXCEPT !.age = 0]
                                                   ELSE pool[a]]

\* The alarms of entries p that are ranked.
Ranked(p) == {a \in DOMAIN p : TargetOf[a] \in tracks /\ p[a].age <= RankAge}

\* Mutant of Precedes: without the id, equal scores share a level.
PrecedesByScore(p, a, b) == p[a].score > p[b].score

Precedes(p, a, b) ==
  \/ p[a].score > p[b].score
  \/ p[a].score = p[b].score /\ a < b

Before(p, a) == {b \in Ranked(p) : Precedes(p, b, a)}

Level(p, a) ==
  LET before == Cardinality(Before(p, a))
  IN  IF a \in Ranked(p) /\ before < TopLevel THEN TopLevel - before ELSE 0

BeginSend ==
  /\ boot = "done" /\ ready /\ sending = "idle" /\ sending' = "build"
  /\ pool' = Synced
  /\ todo' = DOMAIN pool'
  /\ level' = [a \in Alarms |-> Level(pool', a)]
  /\ UNCHANGED <<bootVars, envVars, event, cur, outVars, raw>>

\* The filter, the time and the tracks may have changed since the ranking.
IsShown(a) ==
  /\ TargetOf[a] \notin filter
  /\ pool[a].age <= ShowAge
  /\ a \in Manual => TargetOf[a] \in tracks

VisitAlarm ==
  /\ sending = "build"
  /\ \E a \in todo :
       /\ \A b \in todo : a <= b
       /\ todo' = todo \ {a}
       /\ event' = IF IsShown(a) THEN event \cup {a} ELSE event
  /\ UNCHANGED <<bootVars, pool, envVars, sending, level, cur, outVars, raw>>

\* Mutant of SendLst: an empty list is not handed over.
SendLstNonEmpty(d) == cur' = IF d = domain /\ d \in writer /\ event # {} THEN event ELSE cur

SendLst(d) == cur' = IF d = domain /\ d \in writer THEN event ELSE cur

HandToMulti ==
  /\ sending = "build" /\ todo = {} /\ sending' = "single"
  /\ SendLst("multi")
  /\ UNCHANGED <<bootVars, pool, envVars, todo, level, event, outVars, raw>>

HandToSingle ==
  /\ sending = "single" /\ sending' = "raw"
  /\ SendLst("single")
  /\ UNCHANGED <<bootVars, pool, envVars, todo, level, event, outVars, raw>>

AlarmTargets(sample) == {TargetOf[a] : a \in sample \cap DOMAIN pool}

\* The latest batch of tracks has any targets; only those of the alarms go out, and
\* nothing when there are none.
SendNewTrackStructAlarmMsg ==
  /\ sending = "raw" /\ sending' = "idle"
  /\ \E batch \in SUBSET Targets :
       LET sample == batch \cap AlarmTargets(event)
       IN  raw' = IF raws /\ sample # {} THEN sample ELSE raw
  /\ event' = {} /\ level' = Unranked
  /\ UNCHANGED <<bootVars, pool, envVars, todo, cur, outVars>>

SendAllAlarmEventMsg ==
  \/ BeginSend \/ VisitAlarm \/ HandToMulti \/ HandToSingle
  \/ SendNewTrackStructAlarmMsg

-----------------------------------------------------------------------------
(* The publisher threads and their subscribers. *)

\* Once per second, and again until a write succeeds.
Publish ==
  /\ domain \in thread /\ heard /\ cur # {}
  /\ written' = cur
  /\ UNCHANGED <<bootVars, pool, envVars, sendVars, cur, domain, heard, raw>>

OnPublicationMatched ==
  /\ domain \in thread /\ heard' = ~heard
  /\ UNCHANGED <<bootVars, pool, envVars, sendVars, cur, domain, written, raw>>

-----------------------------------------------------------------------------
(* The table, which changes only while its mutex is free (AlarmPool has it in  *)
(* detail), and what changes at any time.                                      *)

With(a, e) == [b \in DOMAIN pool \cup {a} |-> IF b = a THEN e ELSE pool[b]]
Without(gone) == [b \in DOMAIN pool \ gone |-> pool[b]]

\* A rule raises or refreshes an alarm; a target with a track is confirmed.
SaveAlarm(a, s) ==
  /\ boot = "done" /\ sending = "idle"
  /\ TargetOf[a] \notin filter
  /\ a \in Manual => TargetOf[a] \in tracks /\ s = ManualScore
  /\ pool' = With(a, [score |-> s, age |-> 0])
  /\ UNCHANGED <<bootVars, envVars, sendVars, cur, outVars, raw>>

Prune(a) ==
  /\ sending = "idle"
  /\ a \in DOMAIN pool \ Manual /\ pool[a].age > RankAge
  /\ pool' = Without({a})
  /\ UNCHANGED <<bootVars, envVars, sendVars, cur, outVars, raw>>

\* Mutant of Purge: without m_alarmDataMutex.
PurgeUnlocked(t) ==
  /\ t \in filter
  /\ pool' = Without({a \in Alarms : TargetOf[a] = t})
  /\ UNCHANGED <<bootVars, envVars, sendVars, cur, outVars, raw>>

\* The second half of addAlarmFilter.
Purge(t) ==
  /\ sending = "idle" /\ t \in filter
  /\ pool' = Without({a \in Alarms : TargetOf[a] = t})
  /\ UNCHANGED <<bootVars, envVars, sendVars, cur, outVars, raw>>

FilterChanges(t) ==
  /\ filter' = IF t \in filter THEN filter \ {t} ELSE filter \cup {t}
  /\ UNCHANGED <<bootVars, pool, tracks, sendVars, cur, outVars, raw>>

TrackChanges(t) ==
  /\ tracks' = IF t \in tracks THEN tracks \ {t} ELSE tracks \cup {t}
  /\ UNCHANGED <<bootVars, pool, filter, sendVars, cur, outVars, raw>>

Tick ==
  /\ pool' = [a \in DOMAIN pool |->
                [pool[a] EXCEPT !.age = IF @ < MaxAge THEN @ + 1 ELSE @]]
  /\ UNCHANGED <<bootVars, envVars, sendVars, cur, outVars, raw>>

Next ==
  \/ InitFastdds \/ SendAllAlarmEventMsg
  \/ Publish \/ OnPublicationMatched
  \/ \E a \in Alarms : Prune(a) \/ \E s \in Scores : SaveAlarm(a, s)
  \/ \E t \in Targets : Purge(t) \/ FilterChanges(t) \/ TrackChanges(t)
  \/ Tick

\* TrackAlarmThread and the publishers are loops; writes do not fail for ever.
Fairness ==
  /\ WF_vars(InitFastdds) /\ WF_vars(SendAllAlarmEventMsg) /\ WF_vars(Publish)

Spec == Init /\ [][Next]_vars /\ Fairness
-----------------------------------------------------------------------------
TypeOK ==
  /\ boot \in Domains \cup {"raws", "finish", "done"}
  /\ writer \subseteq thread /\ thread \subseteq Domains
  /\ raws \in BOOLEAN /\ ready \in BOOLEAN
  /\ DOMAIN pool \subseteq Alarms /\ \A a \in DOMAIN pool : pool[a] \in Entry
  /\ tracks \subseteq Targets /\ filter \subseteq Targets
  /\ sending \in {"idle", "build", "single", "raw"}
  /\ todo \subseteq DOMAIN pool /\ (sending # "build" => todo = {})
  /\ level \in [Alarms -> Levels]
  /\ event \subseteq Alarms
  /\ domain \in Domains /\ cur \subseteq Alarms /\ written \subseteq Alarms
  /\ heard \in BOOLEAN /\ (heard => domain \in thread)
  /\ raw \subseteq Targets

\* InitFastdds ends with both publishers or with none, and SendAllAlarmEventMsg, which
\* looks at the first only, hands events to nobody or to all.
BothOrNeither == boot = "done" => writer = IF ready THEN Domains ELSE {}

\* The levels that a pass gives out rank the fresh alarms with a track: the top level goes
\* to a worst one, a worse alarm never has the lower level, and no two share a level.
LevelsRank ==
  [][sending = "idle" /\ sending' = "build" =>
       LET ranked == Ranked(pool')
           Worse(a, b) == pool'[a].score > pool'[b].score
       IN  /\ \A a, b \in ranked :
                /\ a # b /\ level'[a] = level'[b] => level'[a] = 0
                /\ Worse(a, b) => level'[a] >= level'[b]
           /\ ranked # {} => \E a \in ranked : level'[a] = TopLevel /\ \A b \in ranked : ~Worse(b, a)]_vars

\* A sample of raw tracks names targets that have an alarm when it is sent.
RawHasAlarm ==
  [][raw' # raw => raw' \subseteq {TargetOf[a] : a \in DOMAIN pool}]_vars

\* An alarm that stays in the table, is not silenced and whose manual track is there,
\* reaches a subscriber that stays, in either domain.
Stays(a) == a \in DOMAIN pool /\ IsShown(a)
RaisedIsShown ==
  \A a \in Alarms :
    <>[](ready /\ heard /\ Stays(a)) => <>[](a \in written)

\* An alarm that is gone for good is not written again, and leaves the subscriber's view
\* as long as some other alarm stays.  (The empty list is never written.)
GoneLeavesView ==
  \A a, b \in Alarms :
    /\ <>[](ready /\ a \notin DOMAIN pool) => <>[](a \notin cur)
    /\ <>[](ready /\ heard /\ a \notin DOMAIN pool /\ Stays(b)) => <>[](a \notin written)

\* What a subscriber sees settles on the table, in either domain.
ViewSettles == RaisedIsShown /\ GoneLeavesView
=============================================================================
