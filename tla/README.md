# AlarmSys-linux in TLA+

AlarmSys-linux raises alarms on tracks. One process reads fused, radar, bird and AIS tracks
over gRPC or FastDDS, matches them with the alarm rules of a database, keeps the alarms in
memory, and publishes them: an `AlarmEvent` over DDS, a snapshot to TrackManager over gRPC
once per second, rows in PostgreSQL. Operators silence and confirm targets over HTTP. Beside
the alarm thread run a thread that looks for suspicious targets, one that fuses target types,
and a gRPC store of alarms that other systems report.

This directory holds TLA+ modules of that process, TLC configurations that check them on
small instances, and TLAPS proofs. Paths below are relative to `src/src/`; `C` is
`customconfig.cpp`, `T` is `dialog/alarm/TrackAlarmThread.cpp`, `D` is
`db/DataAccessLayer.cpp`.

To check: `tlc -config PoolSafety.cfg MCAlarmPool` (section 4 lists the runs with their
modules), `tlapm AlarmPoolProofs.tla` (section 5 lists the proof modules).

## 1. Inventory

| Component | State | Operations | Threads and hard behaviour | What makes it correct |
|---|---|---|---|---|
| Alarm pool (`C`, `customconfig.h`, `T`) | `m_mapAlarmData`, `m_mapManualAlarmData`, `m_mapAlarmFilterExpireMs`, `m_setManualConfirmedUniqueIds`, `m_mapAlarmIdentificationResolvedTime` | judge and save, publish, prune, `addAlarmFilter`, `confirmAlarmByUniqueId` | four threads, two mutexes taken one after the other, ageing by wall clock | one live alarm per key; silenced targets are not sent; stale records leave; the evaluation rows agree with the pool |
| Rule engine (`T` 610-4224) | `m_mapSpeedLastCheck`, copies of tracks, trails and rules | area, trail, speed, direction, distance and protection-area conditions | a pass works on a copy; rules are reloaded under its feet; trails are read at fixed positions | a rule fires when its condition holds, and for each rule |
| Track ingest (`grpc_track/`, `fastdds_track/`, `fastdds_newtrack/`) | `m_mapFuseTrack` ... `m_mapAisTrack`, trails | update, LOST/MERGED, stale prune | stream threads, listeners and timers write the same maps | vanished tracks leave with their trails |
| Snapshot client (`grpc_alarm/AlarmGrpcSnapshotClient.cpp`) | channel and stub, `m_lastAlarmGrpcPushMs` | `pushSnapshot` | its own timer thread; RPC with a 3 s deadline | TrackManager shows what is in the pool, the worst alarm of each target; an empty snapshot clears it |
| Suspicious target thread (`dialog/alarm/SuspiciousTargetThread.cpp`) | kept verdicts, two lists of ids | look twice, replace the lists | the snapshot reads the lists one after the other | only targets suspicious twice running are listed, and they leave when they vanish |
| Alarm output over FastDDS (`C`, `fastdds_alarmevent/`) | two publishers with a current event each | rank, build, hand over, write once per second | one thread per publisher; subscribers come and go | the subscriber's view settles on the pool |
| Configuration (`C` reloadAlarmConfigFromDb, `D`) | rule, area, scheme and identification maps | load at boot, reload by scope | the HTTP thread replaces map after map while others read | an answered reload has taken effect; alarms are verified by what is configured |
| Database access (`db/`, `db/postgres/`) | idle and used connections, a transaction per thread | acquire, release, reconnect, transactions, `mergeTargets` | exhaustion, broken connections, lost answers | no connection is used twice or lost; a merge is done as a whole |
| Process (`main.cpp`, `alarmsys.service`) | threads, all memory | start, serve, die, start again | the snapshot thread starts in a constructor; services come later | what a dead process showed leaves; what is loaded is current |
| Destroy subscriber (`grpc_alarm/AlarmGrpcDestroySubscriber.cpp`) | stream, thread | one `addAlarmFilter` per event; reconnect after 3 s | events are lost while disconnected | a destroyed target is silenced |
| HTTP server (`AlarmHttpServer.cpp`) | none of its own | alarm_filter, alarm_confirm, alarms/update, alarm_event/push | Qt main thread, runs into the pool's mutexes | requests have their effect whatever the other threads do |
| Evaluation rows (`D`) | `alarm_data`, `system_evaluation_data` | insert, threat time once, alarm time once | written by several threads in no fixed order; statements fail | one row per alarm, both times, no overwriting |
| Type fusion (`dialog/analysis/TargetTypeFusion*`, `grpc_target_type/`) | `m_lastGrpcPushedType` | 5 s cycle: fetch, judge, store, push | rows change under the cycle; statements and RPCs fail, answers get lost | stored judgement follows the llm type; TrackManager learns of a mismatch |
| System alarm store (`grpc_system_alarm/`) | `m_active` | report, cancel, query | gRPC thread pool | every call is atomic |
| Texts, log files, geometry | none that others depend on | what the text of an alarm claims | the detection is read a second time for it | the text names the conditions that were met |
| Third-party and generated code | - | - | - | - |

The parts interact through `CustomConfig`, a singleton whose maps are shared. The ingest
writes the track maps under `m_trackDataLock`; TrackAlarmThread copies them and writes the
pool under `m_alarmDataMutex`; the snapshot thread and the HTTP thread read and write the pool
under the same mutex; the filter map has its own mutex, which is never held together with work
on the pool; the configuration maps have none. The hazards that weigh most are in
`PROJECT.json` at their lines, with the properties about them or the reason why there are none; the
others that were met are among the disagreements of section 4.

## 2. Plan and status

| Module | Models | Proofs | Status |
|---|---|---|---|
| `AlarmPool` | the pool and every thread that touches it | `AlarmPoolProofs` | done |
| `TargetTypeFusion` | the fusion thread | `ServiceProofs` | done |
| `SystemAlarm`, implements `SystemAlarmSpec` | the store of system alarms | `ServiceProofs` | done |
| `Trails`, `TrackStore` | trails; the ingest over all transports | `TrackStoreProofs` | done |
| `RuleEngine` (uses `Trails`) | a pass over the rules | `RuleEngineProofs` | done |
| `Suspicious` | suspicious targets and the snapshot's items | `SuspiciousProofs` | done |
| `DbPool`, implements `ConnectionPoolSpec` | connections, transactions, merges | `DatabaseProofs` | done |
| `AlarmProcess` | start, death, restart, reload, destroy events | `AlarmProcessProofs` | done |
| `AlarmConfig` | the loading of maps and what verification makes of them | `DatabaseProofs` | done |
| `AlarmOutput` | the alarm output over DDS | `AlarmOutputProofs` | done |
| `ThreatAssessment`, `AlarmContent` (used by `RuleEngine`) | the threat formula, the claims of a text | lemmas in `RuleEngineProofs` | done |
| `ConfigFile` | LoadConfig and what QSettings makes of Config.ini | - | done |
| `TrackConvert` | ids, keys, routes and slots of converted tracks | `TrackStoreProofs` | done |
| `DbCalls`, `TargetArchive` | statements, parameters and results over both accesses; the tables | `DatabaseProofs` | done |
| `AlarmReports` | items, entries, messages and HTTP replies | `AlarmOutputProofs` | done |

`MC...` modules are the instances for TLC. The last four rows are modules without variables: operators
that take what a function reads and give what it returns or leaves behind. An `MC...` module extends
them and states facts about them as named `ASSUME`s over bounded inputs, which TLC evaluates before
the run that the module belongs to: `MCAlarmConfig` has those of `ConfigFile`, `MCTrackStore` those of
`TrackConvert` (its batches are converted messages), `MCDbPool` those of `DbCalls` and `TargetArchive`,
`MCAlarmOutput` those of `AlarmReports`. What could come next: a run of `AlarmPool` with failing statements once the code says what
should happen then; a composition of `RuleEngine` with `AlarmPool` (today each leaves open
what the other decides, which allows more behaviours than the two together).

## 3. Modules

Operators marked "Mutant" in a comment are faulty variants of a definition. No specification
uses them; each run property is known to fail when one takes the place of the definition it
varies.

### AlarmPool

Time is kept as ages which saturate at `MaxAge`, since the code only compares `now - time`
with windows. An alarm is its id, target, rule, age and threat score. The two clocks of a
filter are one countdown per type.

| Thread | Actions | Code |
|---|---|---|
| TrackAlarmThread | `CopyTracks`, `Judge` | processAlarms, updataAlarmTrackToDB |
| | `CheckFilter`, `SaveRefresh`, `SaveNew`, `WriteDb` | SaveToDB (`T` 305-508), cut where it takes and releases the mutexes; `NoIdLeft` is the bound on ids: a candidate that needs a new id when none is left is not saved |
| | `EndPass`, `BuildEvent`, `SendEvent` | SendAllAlarmEventMsg, with `m_alarmDataMutex` held from one to the other |
| | `PruneStale` | tail of run() (`T` 253-301), without the mutex |
| GrpcSnapshot | `BuildSnapshot`, `ReleaseSnapshot`, `RpcReturns` | tickAlarmGrpcSnapshot, pushSnapshot |
| HTTP, destroy | `AddFilter`, `Purge` | addAlarmFilter, its two sections |
| HTTP | `BeginConfirm`, `ConfirmRuleAlarms`, `ConfirmManually`, `ConfirmNotFound` | confirmAlarmByUniqueId |
| environment | `TrackAppears`, `TrackVanishes`, `Tick` | ingest, wall clock |

Abstractions: `Judge` lets any rule produce a candidate with any score for any copied track, in
any order and number per pass, so it has every behaviour of the rule engine and more; the
no-alarm zone, black list, white list and the sustain window restrict it as in the code. The
sections of `Judge` that take the mutex only to read are one step. `PruneStale` is atomic: the
data race it has with the snapshot thread is undefined behaviour and what follows from it is
not modelled. The snapshot and the event are the sets of targets in them; levels and the
choice among alarms of one target are in `AlarmOutput` and `Suspicious`. `StoredAs` maps a map
key to the `secondary.uniqueID` of the track under it (the identity in the runs; anything in the
proofs). Statements may fail if `DbMayFail`; no run sets it, as the code records the resolved
time before the statement, never tries a failed one again, and nothing in the repository
promises otherwise.

### TargetTypeFusion

`Collect`, `Fetch`, then per row `Skip`, `StoreJudgement`, `StoreFails`, `PushOnly`, then
`SkipPush` or `CallRpc` and `RpcReturns`, and `EndCycle` follow processOnce. Types are tokens
with a family (`coarseFamily`). A failed RPC may have been taken by TrackManager. The writers
of the rows (`WriteLlm`, `WriteTrackType`) are outside the repository and modelled from the
columns the code reads. `dbInit` is `m_dbInitSuccess`, which main() sets once: without it a cycle ends
where it begins (`Collect`). `MismatchIsPushed` asks for the end that matters: TrackManager has the
judgement and keeps it, if at some moment of the lasting mismatch the type last acknowledged is another
one. Without that condition it does not hold: see the disagreement about lost answers in section 4.

### SystemAlarm and SystemAlarmSpec

A caller is a call being served by a gRPC thread; a client that gave up and calls again is
another caller. Parameter checks run before the mutex is taken; report and cancel are one step
under it; a query holds it while it copies the alarms one by one (`BeginList`, `Visit`,
`EndList`). `SystemAlarmSpec` has one atomic step per call, and `Linearizable` says that
`SystemAlarm` implements it (instance `Promise`). The refinement mapping is the identity on the
pool, requests and answers; the query takes effect at `EndList`. The handlers take the mutex
once more to log the size of the pool, which changes nothing and is left out.

### Trails and TrackStore

`AppendTrailPoint` (appendTrailPoint) does not repeat a position and keeps `TrailMax + 1` of
them. `TrackStore` has the five track maps with their trails, and four writers, of which
InitFastdds starts one for the fused tracks and at most one for the others.

| Writer | Actions | Code |
|---|---|---|
| gRPC streams (fused; radar, bird, AIS) | `Connect`, `StreamEnds` | runLoop, subscribeOnce |
| all | `BeginBatch`, `ApplyReport`, `EndBatch` under `m_trackDataLock`, the report by `ApplyTargetOutputSet`, `ApplyDdsOutputSet`, `ApplyTrackDataClass` or `ApplySample` | applyTargetOutputSet, on_data_available of NewTrackStruct, applyTrackDataClass, on_data_available of TrackClass |
| streams, fused listener | `ClearAfterBatch`, if 2 s have passed | the clear at the end of a batch |
| prune thread, Qt timer | `PruneThread`, `SlotClearTrack` | prune loop of the fused client, slotClearTrack |

Every clearing takes stale tracks with their trails (`Clear`); from the maps in its last argument it also
takes trails that have no track, which clearStaleIngestedTracks does for AIS only.

Ids that do not parse and tracks that are not routed are `BadKey`: the report is passed over,
the batch goes on. What a report says of a track beyond its position is part of a sighting.

`TrackConvert` is how a message becomes a report: the 32 low bits of a target's id
(`targetToSpxExtended`), the eight slots of fusion ids and the own report over the first of them, the
key a routed track gets, the topics and keys of the older DDS types. `Word` stands for 2^32 and `Low`
for the bound on fused track ids. The batches of `MCTrackStore` are made with it.

### RuleEngine

A pass: `ClearSpeedChecks` (every 30 min), `GetAlarmArea`, `CopyTracks`, then per rule
`RuleWithoutArea` (the `break` that ends the pass), `RuleReadsPastEnd` or `SelectTargets`, per
selected target `Drop`, `RaiseBlack` or `Judge` and `SaveToDB`, `NextRule`, and `EndPass`.
`ReloadRules`, `ReloadAreas`, `Purge`, `Report` and `Remove` are what other threads do meanwhile.

`Meets` has one operator per condition and track type where the code differs between them
(`LingerFuse`, `LingerRadar`, `LingerAis`, `LingerBird`, `LingerDrone`, `EnterTrail`,
`EnterDrone`, `LeaveTrail`, `Approach`, `Slow`, `Fast`, `Away`, `Closer`, `All`, `Within`,
`Withdraw`, `Nearing`), with the differences left as they are in the code: the height of a bird
need be above the minimum *or* below the maximum, a radar track in a circle is read without a
look at the length of its trail, drones are looked up among the radar tracks (`LookedUp`), a radar or
bird track that has no such key is sought by its unique and local id (`Named`; which of several comes
first is left open), the speed of fused tracks alone or of all is checked twice
(`DoubleCheckFuseOnly` is speedDoubleCheckFuseTrackOnly), the enter rule for
drones selects the key of an iterator that is at its end (`Stranger`), and AIS tracks are judged
by a local that was never assigned (any sighting). A read past the end of a trail leads to
`"undefined"`, where nothing is known any more: that happens for an AIS rule on a target without a
trail, and for an enter rule on a circle, which reads a drone of the bird map at positions its short
trail need not have. For fused targets it does not (`FusedReadsStayInTrails`). `todo` holds the places
in `Order`, the order of the rules in memory, that the pass has not come to. Geometry is abstracted: positions are cells, an
area is the set of cells in it, those within a mile outside and inside, and the distances to its
road; time to the protected circle, angle and edge distance are attributes of a sighting.

`ThreatAssessment` is calculateThreatAssessment with the parameters of the area, in thousandths, and
the classes of types that the three looks (camera, model, drone) are compared by. An empty range of
speeds gives `NaN`, which no threshold stops. `AlarmContent` is buildRuleAlarmContent: which conditions
a text claims, the type it gives (from a detection that is read again) and the threat. The comparisons
of the text are its own, as in the code.

### Suspicious

`ClearChecks`, `CopyTracks`, `JudgeTracks` are a round of SuspiciousTargetThread: the double
check against the verdict kept per target and criterion, then both lists are replaced.
`BeginSnapshot`, `VisitAlarm`, `PassOver`, `EndVisits` fold the alarms of the pool into one item
per target while the mutex is held; `Embed("sea", ...)` and `Embed("air", ...)` add the ids of the
two lists, read one after the other; `Delivered` and `Lost` end the call. Distances and course
differences are attributes of a sighting (`high`, `low`, `drone`, `skip`). `streak` and `taken`
are history variables.

### DbPool and ConnectionPoolSpec

Both pools: PgConnectionPool (`libpq`, AccessMode 1) and DbConnectionPool (`qt`, AccessMode 0).
`TakeIdle`, `Create`, `Refuse`, `Wait`, `TakeAfterWait`, `GiveUp` are getConnection; `RemoveStale`,
`EnsureMin`, `ReopenIdle`, `KillUsed` the check every 30 s; `CloseAllConnections` the exit;
`Begin`, `Exec`, `Commit`, `Rollback` and their failures the managers and the transactions of
mergeTargets and deleteTarget. With libpq a statement finds the transaction of its thread, with
Qt it takes a connection of its own and commits by itself. `CommitLosesAnswer` is a connection
that breaks after the server has committed. `Contract` is the instance of `ConnectionPoolSpec`
(a connection is in one hand at a time) with `hands <- Hands` and
`closed <- closed \/ mode # "libpq"`: it is promised for libpq and before the close only, since
the Qt check takes connections away that are in use and its rollback releases twice.

`DbCalls` is a statement over either access: which is used (`SetUp`), placeholders, parameters that
change on their way, rows that come back as text or by name, scalars, time-outs, batches. `Half` stands
for 2^31 and `BatchSize` for the 100 rows of a batch. `TargetArchive` has the operations of `D` on
targets, associations, collections, sensors, dictionaries, alarm rules, threat parameters and cognitive
results as functions from tables to tables or answers; other programs share them, and this one calls
those on rules, areas, parameters, detections and pictures. `DeleteTarget` takes how far deleteTarget
came and whether its statements were in a transaction: it looks neither at the begin nor at the commit,
so it may stop halfway without a transaction, and tell as done what was not committed.

### AlarmProcess

`MainStep` is the order of main(): the constructor of CustomConfig reads its settings (the
snapshot thread starts here), connects to the database and loads; main() reads the settings
again, which resets the stub, connects again and starts the threads. `BeginReload` with the
loads is `/api/alarms/update`; `BuildSnapshot`, `CallRpc`, `RpcReturns`, `RpcFails` the snapshot
thread; `Subscribe`, `EventSent`, `HandleDestroyEvent`, `StreamEnds` the destroy subscriber;
`Raise`, `Prune`, `FilterRequest`, `FilterLapses` a coarse alarm pool; `Crash` and `UseResetStub`
(the snapshot thread uses the stub that main() reset) the deaths. systemd restarts the process.

### AlarmConfig

The tables are an `edition`; a map in memory is the edition and scheme it was loaded from, or
`Empty` after a failed query. `Boot`, `StartThreads`, `UpdateAlarms` (with the scope, and a body
that comes in a later segment than the head, which reloads everything), `getActiveSchemeId` and
one load per map are the main thread; `RefreshTargetInfoFilter` is TrackAlarmThread's;
`BeginJudge` and `JudgeByRule` are the verification of an alarm by identification rules, which
reads the maps without a lock. One criterion whose enabled rows are all met suffices; a criterion of
blank rows accepts. The rows' `logic_operator` is loaded and not used, and so are the target
list, verification and handle maps: they are loaded in the model and read by nobody.

`ConfigFile` is LoadConfig: keys with defaults, values kept when the key is missing, bounds, lists
that QSettings splits at commas, tables of routes and codes, and the second call from main(). A value
is what QSettings would hand over: a number, a text, or a list with or without quotes.

### AlarmOutput

`InitFastdds` step by step (both AlarmEvent publishers in one try block); `BeginSend` (manual
alarms are synchronised, the worst are ranked), `VisitAlarm`, `HandToMulti`, `HandToSingle`,
`SendNewTrackStructAlarmMsg` are SendAllAlarmEventMsg with `m_alarmDataMutex` held; `Publish`
and `OnPublicationMatched` a publisher thread and its listener, looked at in one of the two
domains, chosen at the start; `SaveAlarm`, `Prune`, `Purge` a coarse pool. `m_mapTargetType` is
never filled and left out. The shipped configuration has `PublishAlarmEventDds=0`; the module is
the system with 1.

`AlarmReports` is what is said of one alarm: the item of the snapshot (`RuleItem`, `ManualItem`), the entry
of the AlarmEvent (`RuleEntry`, `ManualEntry`, `TypeEntry`), the disposition both ask for, the message
of suspicious targets, and which HTTP request gets which reply and does what (`HandleRequest`).

## 4. Runs

| Run | Instance | Question |
|---|---|---|
| `PoolSafety` | 1 target, 2 rules, 2 ids (symmetric), both filter types, windows 1 and 2 of ages 0..2, DDS, database and identification rules on | type, deduplication, silence and evaluation invariants under every interleaving |
| `PoolDrain` | 1 target, 1 id, windows 2 of ages 0..2, prune after 1, manual alarms, filters that last 2 ticks and may be renewed, no push throttle, fair | do silenced targets leave TrackManager's view, and alarms and manual alarms of vanished tracks the tables although they are refreshed |
| `Fusion` | 2 targets, of which one has a row, 2 types of one family, everything may fail, with the database from the start and without, fair | stored before told, judgement settles, mismatch is pushed |
| `SystemAlarm` | 3 concurrent calls, 2 ids, 2 systems, 10 requests, two of them illegal | one alarm per id, atomicity of every call |
| `TrackStore` | bird and AIS map, 1 key and one bad key, 2 positions, trails of 2 and 1, ages 0..2, all transports, 8 batches with LOST before and after a position | trails go with tracks, the last report of a batch counts, silent tracks leave; facts about conversions |
| `Suspicious` | air, 1 key, 4 sightings (drone suspicious, drone not, drone skipped, no drone), alarms of levels 1 and 3 around Medium = 2 | double check, worst alarm, vanished targets leave |
| `Rules` | a fused target and an AIS target without trail, 3 cells; 4 rules in 2 loads (fast linger, ship enters, AIS linger, AIS leave), the area usable or not, trails of 2 | reads of fused trails, alarms and their texts name what was met, a lingering target is raised |
| `RulesLeave` | the fused target, a leave rule | violation, below |
| `DbPool` | 2 clients, 2 connections, merges of 2 statements, both modes | one hand per connection, merges as a whole, no deadlock, calls end; facts about calls and the archive |
| `Process` | 1 target, 2 versions of the configuration of which the second matches nothing, 3 services that come and go | reload is current, old alarms leave, destroy events silence |
| `Config` | 1 alarm, 2 schemes, 3 editions (one scheme enabled, the other, none), 3 scopes, 1 change of the database | answered reloads have taken effect, verification as configured; facts about Config.ini |
| `Output` | 1 target with a rule alarm and a manual one, scores 1 and 2, one level to give | ranking, the view settles; facts about reports and replies |

Why the bounds are enough. Targets do not share state in the pool except through the mutex, the
thread's program position and fresh ids, so one target with two threads in each other's way
shows the races; the second id is there for the deduplication.
In `PoolDrain` an alarm is refreshed, at which its age starts anew, for as long as its track is copied;
a second alarm of the target would be one more to be pruned, so a candidate that needs one is not saved
(`NoIdLeft`). No run has two tracks of which one has the key of the other as id: `Named` and `StoredAs`
are open in the proofs. Windows keep their order and every comparison is
met from both sides of it: the ages are 0, the window, and one more. Tracks of different keys
meet only in the lock, so `TrackStore` and `Suspicious` have one key, and a key that is passed
over in the middle of a batch. The trail constants 10, 10 and 2 of the rule engine become 1, 2
and 1, so a trail is shorter, as long and longer than each. Two clients on two connections run
out of connections when both have a transaction and (with Qt) want a statement. One change of
the database is enough for a load that straddles it, and a request repeated after it. Two alarms
are enough to be ranked with one level to give: the proofs have any number of both. Bounds of
the modules: `MaxAge`, `AlarmIds` (`NoIdLeft`), `MaxChanges`, `Batches`, `Loads`, `AreaLists`, `Conns`, `Statements`. The facts are evaluated over all inputs that are built from a few values on
both sides of each comparison, with sequences up to length 3 (5 for texts with placeholders and
batches); `Word`, `Half` and `BatchSize` are small so that ids, numbers and batches go beyond them.

Deadlock is checked in every run.

### The violation: what the code does against what it says

**RulesLeave**: `commonStruct.h`:1904 and `T`:2446 call area judge 2 leaving the area. The condition
(`T`:2453) reads the oldest position of the trail as the present one and fires for a
track that came in. The enter condition has the same inversion.

### Disagreements that were met and have no run

- `C`:1769 says the purge keeps TrackAlarmThread from refreshing the alarm again. SaveToDB reads
  the filter before it takes the mutex (`T`:313) and puts the alarm back; it is not published
  while the filter lasts (`SilencedNeverBuilt`).
- `C`:1840 raises the score of a confirmed target; the next pass writes the score of the
  rule over it (`T`:454).
- `C`:456 calls the snapshot timer thread-safe because of the mutex; the prune at the tail of
  run() (`T`:276) does not take it.
- `customconfig.h`:475 promises a push per second while there is an alarm. With DDS publishing off
  (the default, `C`:1250) manual alarms are never refreshed and leave the snapshot after 600 s.
- `TargetTypeFusionLogic.h`:21 says that a judgement not equivalent to the type of the track has to be
  told to the external fusion. The thread compares it with the type last acknowledged
  (`TargetTypeFusionThread.cpp`:197). One type is acknowledged, another is taken by TrackManager but its
  answer is lost, the judgement goes back to the first: from then on every cycle skips the push, and
  TrackManager keeps the second. Hence the hypothesis of `MismatchIsPushed`.
- main() resets the stub (`C`:2362) while the snapshot thread may be using it: `UseResetStub`.
- The alarm_event/push switch is set and read back, and changes nothing (`C`:1265 against
  `customconfig.h`:497).
- getAlarmRule reads `ais_type` from the column `corp_judge` (`D`:1652).
- `/api/alarms/update` answers "ok" when the database is not ready or the scope unknown, and a
  failed query empties the map it should have replaced.
- `m_dbInitSuccess` is not set by a reload: in a process started before its database the fusion
  thread skips every cycle (`Collect`; the properties of `Fusion` speak of the other case).
- deleteTarget tells TRUE although the commit failed or the parts could not be listed
  (`DeleteLeavesNothing`).
- An empty event is never written by the DDS publishers, so the last alarm stays with
  subscribers that do not age it themselves (`GoneLeavesView` therefore asks for some other alarm).
- `LIMIT 1` without `ORDER BY` picks any of several enabled schemes.
- QSettings splits at commas: a list of routes has to be in quotes, a list of numbers must not be
  (`RoutesNeedQuotes`, `NumbersMustBeBare`).
- `commonStruct.h`:120 says that an empty areaGroupIdAllow is no restriction; LoadConfig (`C`:2298) puts
  1 and 2 into an empty one.
- `commonStruct.h`:1994 calls threat_level2 the alarm threshold; it only makes the detection be read
  and is compared with nothing (`T`:1242). isValid of the threat parameters has no caller.
- `C`:1840 says that a confirmed rule alarm is severe; it is so in the snapshot if the default score is 70
  or more (`ConfirmedNeedsHighDefault`).
- A confirmation that is answered by 404 has lifted the filter and marked the target (`C`:1883,
  `RefusedChangesNothing`).
- An alarm whose rule was taken away by a reload is reported at the surface (`GoneRuleIsSurface`).
- With libpq the text 'f' of a boolean reads as TRUE (`D`:1703, `FlagsDiffer`), results without rows are
  never given back, temporary tables never dropped.
- The hard timeout of a statement (`db/DatabaseManager.cpp`:543) waits for the statement all the same and
  then reports a failure although it was done (`ToldIsDone`).
- Times are written in UTC and read back as local time (`ParametersChange`).
- The id of a target's own report is written over the first fusion slot (`FusionIdsKept`).
- A target that changes from sea to air, or is lost under the other environment, stays in the first map
  until its clock runs out (`SilentTracksLeave`).
- With AccessMode 0 statements of a merge take connections of their own and commit one by one.

### Fairness

Each `Fairness` definition states its reason. In all modules the threads are loops that nothing
ends, so their own steps are weakly fair; a step that has to get a lock which is free again and
again is strongly fair, since Qt's locks park their waiters and wake them; requests, reports,
services and editors have no fairness. Beyond that:

- `AlarmPool`: a pass ends (`EndPass`) because it has finitely many candidates;
  `RpcReturns(TRUE)` is strongly fair: TrackManager is not down for ever.
- `TargetTypeFusion`: a statement or RPC tried again and again succeeds once.
- `TrackStore`: clock and timers go on; nothing is assumed of the network.
- `Suspicious`: a snapshot tried again and again is delivered once (`SF` of `Delivered`).
- `DbPool`: a client goes on (a statement answers or fails, a wait is limited); nothing is assumed
  of the server.
- `AlarmProcess`: systemd starts the process again; a peer that answers again and again answers
  one call. Crashes are not bounded; the properties speak of a process that in the end stays.
- `AlarmConfig`: main() finishes boot and requests; judging an alarm comes round again.
- `AlarmOutput`: a publisher's write succeeds in the end.
- `RuleEngine`: the steps of the pass. `LingererIsRaised` assumes in its own text that the kept
  verdicts are not cleared in every pass (they are every 30 min).

`SystemAlarm` has safety properties only.

## 5. Proofs

All theorems hold for every value of the constants that satisfies the modules' assumptions
(`WindowAssumption`, `DataAssumption`, `TypesAssumption`, `RequestAssumption`,
`StoreAssumption`, `SuspiciousAssumption`, `ItemAssumption`, `PoolAssumption`, `ConfigAssumption`,
`RuleAssumption`, `ProcessAssumption`, `OutputAssumption`, `WordAssumption`), which TLC evaluates in the runs, as it does
those of modules without proofs and the facts of section 2. Two proof modules have two components
each, whose definitions have no name in common; three also prove facts about the operators of a
module without variables (the last rows), each for every value of what the function reads.

| Theorem | Statement | Argument |
|---|---|---|
| `AlarmPoolProofs!TypeCorrect` | `Spec => []TypeOK` | inductive; one lemma per thread |
| `AlarmPoolProofs!DedupCorrect` | `Spec => []OneLiveAlarmPerKey` | inductive with `TypeOK`: only SaveToDB makes an alarm young, in one step in which it found none (insert) or the only one (refresh); time only ages |
| `AlarmPoolProofs!SilenceCorrect` | `Spec => []SilencedNeverBuilt` | inductive with `TypeOK`, proved for one target at a time (`SilencedInv`): a publisher takes only targets that are not filtered, and keeps the mutex until the message is built; a request that sets a filter meanwhile is recorded in `calls`, and its purge has to wait for the mutex |
| `AlarmPoolProofs!EvaluationCorrect` | if no statement fails, `Spec => []EvaluationKeepsUp` | `EvaluationInv` speaks of every id, not only of those with a row: the evaluation row is "both" if the alarm is resolved, else "threat" if its row is written, else "none". Without it nothing is known of an alarm that was resolved before SaveToDB wrote its row |
| `ServiceProofs!FusionTypeCorrect`, `!ToldIsStored` | `FusionSpec => []FusionTypeOK`, `FusionSpec => []ToldOnlyWhatIsStored` | `StoredInv` adds the rows between fetch and push: each target has one, it agrees with the stored judgement although other columns change, and only the thread itself writes judgements |
| `ServiceProofs!TypeCorrect`, `!ListCorrect`, `!Implements` | `Spec => []TypeOK`, `Spec => []ListInv`, `Spec => Linearizable` | copied plus not yet visited is the pool, which stands still; then step by step from the two invariants |
| `TrackStoreProofs!StoreTypeCorrect` | `Spec => []TypeOK` | inductive, with the length of what `AppendTrailPoint` returns as a lemma; `BatchInv` keeps a batch with the writer that may apply it |
| `TrackStoreProofs!StoreTrailFollowsTrack` | `Spec => []TrailFollowsTrack` | an appended position is in the trail, removals and both ways of clearing take track and trail in one step |
| `TrackStoreProofs!StoreLastReportWins` | `Spec => []LastReportWins` | while a batch is applied its writer holds the lock, so nothing else touches the maps; the report just applied is the last of its target |
| `SuspiciousProofs!SuspiciousTypeCorrect` | `Spec => []TypeOK` | inductive |
| `SuspiciousProofs!SuspiciousDoubleChecked` | `Spec => []ListedWasConfirmed` | `StreakInv`: a kept verdict "yes" means that the last look was positive; so the second look makes two |
| `SuspiciousProofs!SnapshotHighestAlarmWins` | `Spec => []HighestAlarmWins` | `ItemsInv`: an item with an alarm has that alarm's level and target; embedding changes neither |
| `DatabaseProofs!DbTypeCorrect` | `DbSpec => []DbTypeOK` | with `ClientInv`, which ties program positions to connections and transactions |
| `DatabaseProofs!DbFlagsMatchHands` | with libpq and before the close, the connections marked as used are those in somebody's hands | inductive with `ClientInv` and `OneOwner` (no connection in two hands); not a property of a run |
| `DatabaseProofs!DbPoolExclusive` | `DbSpec => Exclusive` (refinement of `ConnectionPoolSpec`) | `MovesRefine`: every step takes one connection nobody has, gives one back, or moves none; that nobody has it follows from `FlagsMatchHands` |
| `DatabaseProofs!DbMergeAllOrNothing` | `DbSpec => []MergeAllOrNothing` | in a libpq merge statements only run in the open transaction, `applied` moves at the commit only, which comes when all are done |
| `AlarmProcessProofs!ProcessTypeCorrect`, `!ReloadCorrect` | `Spec => []TypeOK`, `Spec => []ReloadedIsCurrent` | `LoadInv` says for each position of the main thread which maps are current already, while `steady` |
| `DatabaseProofs!ConfigTypeCorrect` | `Spec => []TypeOK` of `AlarmConfig` | `TodoInv`: what is still to be loaded is the connect alone or a sequence of maps. The lemmas on `Head`, `Tail` and `ToSet` replace an induction over the sequence |
| `DatabaseProofs!ReloadCorrectInMemory` | `Spec => []ReloadTakesEffect` | `ReloadInv`: while the database stays as it is, a map that was asked for is current or still to be loaded, whichever scopes are asked for on top; the database answers, and a scheme that was found is an active one. The property speaks of the end of a reload only |
| `DatabaseProofs!VerifiedCorrect` | `Spec => VerifiedAsConfigured` (an action property) | `SureInv`: the rules an alarm is judged by were taken from a map that is current since the judgement began, and so is the map of their rows, although they are read apart and without a lock; `MetIsSatisfied` ties what the code computes from the rows to what they ask for |
| `RuleEngineProofs!RulesTypeCorrect` | `Spec => []TypeOK` of `RuleEngine` | `TypeInv` adds the types of the selection and of the alarm to be saved; every condition selects keys, or the key of an ended iterator |
| `RuleEngineProofs!FusedReadsCorrect` | `Spec => []FusedReadsStayInTrails` | `TrailInv`: a stored trail is never empty, a fused track has its trail, and the copy has both although a condition that looks for the trail of a track without one makes an empty entry in it |
| `RuleEngineProofs!EvidenceCorrect`, `!TextCorrect` | `Spec => []EvidenceWasMatch`, `Spec => []TextNamesConditions` | `EvidenceInv`: what is pending or in the pool carries a sighting, a rule and an angle of one moment at which the filters let it pass (`GoodEvidence`), through refreshes by other rules. `TextOfMatch` shows that the comparisons of buildRuleAlarmContent then claim what the filters checked, with `ThreatType` for the arithmetic of the threat |
| `AlarmOutputProofs!OutputTypeCorrect` | `Spec => []TypeOK` | inductive |
| `AlarmOutputProofs!PublishersTogether` | `Spec => []BothOrNeither` | `BootInv`: what is set at each position of InitFastdds; not a property of a run |
| `AlarmOutputProofs!LevelsCorrect` | `Spec => LevelsRank` | the alarms before another one are a finite proper superset of those before a better one, so cardinalities, and levels, differ; a finite set has a first one |
| `AlarmOutputProofs!RawCorrect` | `Spec => RawHasAlarm` | the pool stands still while the mutex is held, so what the event has is still there; not a property of a run |
| `AlarmOutputProofs!ReportsAgree` | the item for TrackManager and the entry of the AlarmEvent tell the same status, handling and resolved time | both read `EffectiveTask` and `EffectiveResolved`; `TasksAgree` goes through every task status, `ResolvedIsTime` shows that a time that was remembered parses. Hypothesis: the two memories are maps of ids (`IsMemory`) |
| `AlarmOutputProofs!ConfirmedNeedsHighDefault`, `!ConfirmedAgainGoesOn` | what a confirmation does to level and score | by cases on the default; scores and defaults are naturals |
| `AlarmOutputProofs!EachSuspiciousOnce` | each suspicious target is once in a message | an object is the first of its target, and a set of places has a least one |
| `AlarmOutputProofs!RefusedChangesNothing` | of the replies other than 200 only one comes after a change: the 404 of a confirmation | handler by handler along the order of its checks |
| `TrackStoreProofs!KeysArePositive` | under which ids tracks are kept | `SignedFacts` on two's complement of any even width (`WordAssumption`) |
| `DatabaseProofs!MergeKeepsAll`, `!DeleteLeavesNothing` | what a merge and a delete leave in each table, the delete also when it stops halfway or is not committed | table by table; the delete from how far it came. Hypothesis `IsArchive`: rows are functions of columns, and a collection is known by its id (a primary key) |
| `DatabaseProofs!SaveKeepsOneRow`, `!UpdateKeepsKind` | what happens to the row of a recognised target | row by row. Hypothesis `AreResults`: one row for a target before, which the save preserves |
| `DatabaseProofs!BatchesTellTooMuch` | all or nothing of a batch is stored, but of one that was rolled back rows may be told | `FailedTellsFewer`: a set of inserts has a least one, and its rows come after those of the inserts that are told |

Every invariant and every action property of a passing run is proved. Only model-checked are the
liveness properties (the prover has no liveness under fairness and no ENABLED), the violation of
`RulesLeave`, and the facts about operators over bounded inputs that have no row above, of which
those about folds (`ConfigFile`, `Placeholders`) would need induction over data. No module uses
RECURSIVE operators.

## 6. What is not modelled

- **Generated code**: the types, serialisation and type objects that fastddsgen wrote
  (`fastdds_alarmevent/AlarmEvent*`, `BaseEvent*`, `fastdds_track/TrackClass*` except the
  applications; about 10,000 of the 42,000 lines), and the proto files.
- **Data declarations**: `datastruct/` (3,600 lines) declares the records of this and of sibling
  programs; the fields the rules look at are fields of the records here.
- **Code that nothing calls**: some single inserts and dictionary getters of `D`,
  `dbhelper`, `dbconnthread`, `PgHelper`, the files whose name ends in `-`, SendNewAlarm,
  SaveConfig, `BaseEvent` publishers and subscribers.
- **Shutdown**: nothing quits the event loop, so what follows app.exec() in main() is not reached;
  the process dies (`AlarmProcess`).
- **Undefined behaviour** after a data race (prune, reload of the maps under a reader) or a read
  past the end of a trail is not modelled further than that it is reached.
- **Wording, logging, geometry** (labels and pictures in AlarmContentBuilder, AlarmFileLogger,
  `alarm_geoproj.cpp`).

These, the generated code above all, are the reason why the definitions stand for less than a third of
the lines of the repository's implementation: what is left of it has no state, or no caller.
