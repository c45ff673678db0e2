------------------------------ MODULE TargetArchive ------------------------------
(***************************************************************************)
(* The operations of DataAccessLayer on the archive of targets and on the  *)
(* small tables beside it.  A table is a set of rows.  The schema is that  *)
(* of the database server: whether an insert is refused comes from it.     *)
(***************************************************************************)
EXTENDS DbCalls
LOCAL INSTANCE SequencesExt

CONSTANTS
  NoTime \* the time of a row that has none

InOrder(rows, Before(_, _)) == SetToSortSeq(rows, Before)
Earlier(r, s) == r.time < s.time

\* A statement that is accepted and that the server does: `after`, and success.
Write(access, s, done, before, after) ==
  IF Accepted(access, s) /\ done THEN [table |-> after, told |-> TRUE]
  ELSE [table |-> before, told |-> FALSE]

\* The rows of a query; none if it was not accepted.
Rows(access, s, rows) == IF Accepted(access, s) THEN rows ELSE {}

-----------------------------------------------------------------------------
(* Targets: a database has the tables info, assoc, coll and, by the kind of what was *)
(* collected, parts                                                                  *)

Kinds == {"radar_echo", "video", "sonar", "ais", "track", "adsb"}

\* Without such a target what is returned was never written: any row.
GetTargetInfo(info, id, any) ==
  LET found == {r \in info : r.id = id} IN IF found = {} THEN any ELSE found

UpdateTargetInfo(info, new) == {IF r.id = new.id THEN new ELSE r : r \in info}

\* The order of deleteTarget: the associations, what was collected kind by kind, the
\* collections, the target.  After `n` of these steps; of the next, if it is one of a kind,
\* the statements of the collections in `some` were done.  A target of which the query of
\* its collections fails looks like one that has none.
DeleteOrder == <<"assoc", "radar_echo", "video", "sonar", "ais", "track", "adsb", "coll", "info">>
Deleted(db, id, listed, n, some) ==
  LET own == IF listed THEN {c.id : c \in {d \in db.coll : d.target = id}} ELSE {}
      AfterStep(what) == \E i \in 1..n : DeleteOrder[i] = what
      Emptied(k) == IF AfterStep(k) THEN own
                    ELSE IF n < 9 /\ DeleteOrder[n + 1] = k THEN own \cap some ELSE {}
  IN [info |-> {r \in db.info : AfterStep("info") => r.id # id},
      assoc |-> {r \in db.assoc : AfterStep("assoc") => r.target # id},
      coll |-> {c \in db.coll : AfterStep("coll") => c.target # id},
      parts |-> [k \in Kinds |-> {p \in db.parts[k] : p.coll \notin Emptied(k)}]]

\* Neither the begin nor the commit is looked at.  `inTxn`: the statements are in a
\* transaction, which DbPool!TakesEffect says of libpq after a begin; there a failed
\* statement makes the server refuse all others, and what is not committed has no effect.
\* Otherwise each takes effect at once and is not taken back.
DeleteTarget(db, id, inTxn, listed, n, some, commits) ==
  LET all == n = Len(DeleteOrder) /\ (inTxn => listed)
  IN [table |-> IF inTxn /\ ~(all /\ commits) THEN db ELSE Deleted(db, id, listed, n, some),
      told |-> all]

\* `keyed` is whether two targets cannot have one id.  A merge of none is no statement.
MergeTargets(keyed, db, ids, new) ==
  LET Moved(rows) == {IF r.target \in ids THEN [r EXCEPT !.target = new.id] ELSE r : r \in rows}
      refused == ids = {} \/ (keyed /\ \E r \in db.info : r.id = new.id)
  IN IF refused THEN [table |-> db, told |-> FALSE]
     ELSE [table |-> [db EXCEPT !.info = {r \in @ \cup {new} : r.id \notin ids},
                                !.assoc = Moved(@), !.coll = Moved(@)],
           told |-> TRUE]

\* 64 bits of a hash without the sign.
GenerateUniqueTargetId(hash) == hash % Half

\* What is shown of a target, with the time of its last collection.  The statement for
\* one target has a name, that for all of them has none.
LastCollected(coll, id) ==
  LET times == {c.time : c \in {d \in coll : d.target = id}}
  IN IF times = {} THEN NoTime ELSE Sets!Max(times)
GetTargetCaptureInfo(access, db, id, default) ==
  LET of == Rows(access, Names(1), {r \in db.info : r.id = id})
  IN IF of = {} THEN {default} ELSE {[target |-> r, time |-> LastCollected(db.coll, id)] : r \in of}
GetAllTargetCaptureInfo(access, db) ==
  [id \in {r.id : r \in Rows(access, Asks(0), db.info)} |->
     [target |-> CHOOSE r \in db.info : r.id = id, time |-> LastCollected(db.coll, id)]]

AssociationsOf(assoc, id) == {r \in assoc : r.target = id}
GetTargetAssociations(assoc, id) ==
  InOrder(AssociationsOf(assoc, id), LAMBDA r, s : Earlier(s, r))

\* The first of them, or the default association: an id of 0.
GetLatestTargetAssociation(assoc, id, default) ==
  LET all == GetTargetAssociations(assoc, id) IN IF all = <<>> THEN default ELSE all[1]

\* One row for each target that has any.
GetAllLatestTargetAssociations(assoc) ==
  [id \in {r.target : r \in assoc} |->
     CHOOSE r \in AssociationsOf(assoc, id) : \A s \in AssociationsOf(assoc, id) : ~Earlier(r, s)]

GetTargetCollections(coll, id) ==
  InOrder({c \in coll : c.target = id}, LAMBDA r, s : Earlier(s, r))

\* The parts of the collections of a target, by time.
PartsOf(access, db, kind, id) ==
  LET own == {c.id : c \in {d \in db.coll : d.target = id}}
  IN InOrder(Rows(access, Names(1), {p \in db.parts[kind] : p.coll \in own}), Earlier)

\* Of the visible camera (1) or the infrared one (0).
GetVideoCollectionsByCameraType(access, db, id, type) ==
  SelectSeq(PartsOf(access, db, "video", id), LAMBDA p : p.camera = type)

\* The tracks, gathered by collection; it is fused if one of its rows is, and has its
\* time and sensor of the first.
GetTrackCollections(access, db, id) ==
  LET rows == PartsOf(access, db, "track", id)
      Of(c) == SelectSeq(rows, LAMBDA p : p.coll = c)
  IN [c \in {p.coll : p \in ToSet(rows)} |->
        [tracks |-> Of(c), time |-> Of(c)[1].time, fused |-> \E p \in ToSet(Of(c)) : p.fused]]

DeletePart(access, db, kind, coll, seq) ==
  Write(access, Names(2), TRUE, db,
        [db EXCEPT !.parts[kind] = {p \in @ : p.coll # coll \/ p.seq # seq}])

DeleteVideoRecord(access, db, coll, seq, type) ==
  Write(access, Names(3), TRUE, db,
        [db EXCEPT !.parts["video"] = {p \in @ : p.coll # coll \/ p.seq # seq \/ p.camera # type}])

\* All of a collection.
DeleteTrackRecords(access, db, coll) ==
  Write(access, Names(1), TRUE, db, [db EXCEPT !.parts["track"] = {p \in @ : p.coll # coll}])

\* Inserts one after the other, each for itself: the answer is for all, but those that
\* are not refused stay.
AddEach(access, names, table, new, refused) ==
  LET done == IF Accepted(access, Names(names)) THEN new \ refused ELSE {}
  IN [table |-> table \cup done, told |-> done = new]

AddRadarEchoCollections(access, table, new, refused) == AddEach(access, 8, table, new, refused)
AddVideoCollections(access, table, new, refused) == AddEach(access, 10, table, new, refused)
AddPicDict(access, table, new, refused) == AddEach(access, 12, table, new, refused)
AddSonarCollections(access, table, new, refused) == AddEach(access, 6, table, new, refused)
AddAlarmPic(access, table, new, refused) == AddEach(access, 3, table, new, refused)

\* A fused record has eight columns for the ids of its tracks.
OriginalTrackIds(ids) == [i \in 1..8 |-> IF i \in DOMAIN ids THEN ids[i] ELSE Null]

\* The records of AIS, ADS-B and radar are batches, each record with all its columns.
AddRecords(pools, records, bad, commits) == BatchInsert(pools, Len(records), bad, commits)

\* What is known of a ship: with every entry all the pictures.
GetShipFileCollections(access, entries, pictures) ==
  {[entry |-> r, pictures |-> pictures] : r \in Rows(access, Names(1), entries)}

\* These two take a connection of Qt's pool themselves, and the first row.
GetShipFileInfo(pools, entries) == IF "qt" \in pools /\ entries # <<>> THEN {entries[1]} ELSE {}
GetShipPicture(pools, pictures) == IF "qt" \in pools /\ pictures # <<>> THEN <<pictures[1]>> ELSE <<>>

Coalesce(x, y) == IF x = Null THEN y ELSE x

\* The last track and the last AIS record of a target; its position is that of the
\* track, as far as the track has one.  An AIS record has no distance or direction.
GetTargetRealtimeInfo(access, db, id) ==
  LET tracks == PartsOf(access, db, "track", id)
      ais == PartsOf(access, db, "ais", id)
      none == [pos |-> Null, distance |-> Null, speed |-> Null, time |-> Null]
      t == IF tracks = <<>> THEN none ELSE Last(tracks)
      a == IF ais = <<>> THEN none ELSE Last(ais)
  IN [found |-> tracks # <<>> \/ ais # <<>>, pos |-> Coalesce(t.pos, a.pos),
      distance |-> Coalesce(t.distance, 0), speed |-> Coalesce(t.speed, a.speed),
      time |-> Coalesce(t.time, a.time)]

\* A coordinate in ten thousandths of a minute as sign, degrees, minutes and thousandths,
\* which are rounded for themselves.
ConvertToDegreeMinute(n) ==
  LET m == IF n < 0 THEN -n ELSE n
  IN [minus |-> n < 0, degrees |-> m \div 600000, minutes |-> (m % 600000) \div 10000,
      thousandths |-> ((m % 10000) + 5) \div 10]

-----------------------------------------------------------------------------
(* What is kept in memory *)

\* The last row of a key counts, and a key that is gone stays; a list grows with each load.
LoadDictionary(old, rows) ==
  [k \in DOMAIN old \cup {r[1] : r \in ToSet(rows)} |->
     LET of == SelectSeq(rows, LAMBDA r : r[1] = k)
     IN IF of = <<>> THEN old[k] ELSE Last(of)[2]]
LoadDictionaryVec(old, rows) == old \o [i \in DOMAIN rows |-> rows[i][2]]

\* Sensors and cameras are tables of a number and a name or a place, with no memory of
\* the names that are kept.
GetSensorInfo(rows, id, default) ==
  LET of == SelectSeq(rows, LAMBDA r : r[1] = id) IN IF of = <<>> THEN default ELSE of[1]
UpdateSensorInfo(rows, id, name) ==
  [i \in DOMAIN rows |-> IF rows[i][1] = id THEN <<id, name>> ELSE rows[i]]
UpdateCameraRoot(rows, id, root) == UpdateSensorInfo(rows, id, root)
GetAllSensorInfo(rows) == LoadDictionary(<<>>, rows)
GetAllCameraRootPos(rows) == LoadDictionary(<<>>, rows)

\* The names of sensors are those of this query, none if it failed.
LoadSensorInfo(rows) == GetAllSensorInfo(rows)

\* To ask for the name of a sensor makes an entry for it.
SensorNames(names, id) ==
  [k \in DOMAIN names \cup {id} |-> IF k \in DOMAIN names THEN names[k] ELSE ""]
GetCameraRootPos(roots, camera) == IF camera \in DOMAIN roots THEN roots[camera] ELSE 0

-----------------------------------------------------------------------------
(* Rules, alarms, areas *)

\* A rule has columns that are written here (`listed`) and others.
AddAlarmSetting(access, rules, new) ==
  IF Accepted(access, Names(38)) THEN rules \cup {[new EXCEPT !.others = Null]} ELSE rules

UpdateAlarmSetting(access, rules, new) ==
  IF Accepted(access, Names(38))
  THEN {IF r.id = new.id THEN [new EXCEPT !.others = r.others] ELSE r : r \in rules} ELSE rules

\* All rules are deleted, then they are inserted one by one; that one fails is not told.
SaveAlarmSetting(access, new, refused) ==
  IF Accepted(access, Names(38)) THEN {[r EXCEPT !.others = Null] : r \in new \ refused} ELSE {}

DeleteAlarmSetting(rules, ids) == {r \in rules : r.id \notin ids}

\* The levels that a number up to 7 stands for, bit by bit; a greater one is a level.
AlarmLevels(n) == IF n > 7 THEN {n} ELSE {l \in 1..3 : (n \div 2^(l - 1)) % 2 = 1}

\* The alarms since a time whose rule has one of the levels; with 0 all of them.
GetAlarmData(alarms, rules, from, n) ==
  {r \in alarms : r.time > from /\ (n = 0 \/ \E s \in rules : s.id = r.rule /\ s.level \in AlarmLevels(n))}

UpdateAlarmStatus(alarms, id, status) ==
  {IF r.id = id THEN [r EXCEPT !.status = status] ELSE r : r \in alarms}

\* Texts for the speakers of drones: a change of the content leaves its sum and its file.
ReadAllUavTextMsg(rows) == InOrder(rows, Earlier)
UpdateUavTextMsg(rows, new) ==
  {IF r.id = new.id THEN [r EXCEPT !.name = new.name, !.content = new.content] ELSE r : r \in rows}
DeleteUavTextMsg(rows, id) == {r \in rows : r.id # id}

\* The last area of this number, and the areas of every group: the statement has no
\* question mark for the group it is given.
GetAlarmArea(areas, group, area, default) ==
  LET of == SelectSeq(areas, LAMBDA r : r.group = group /\ r.area = area)
  IN IF of = <<>> THEN default ELSE Last(of)
GetGroupArea(access, areas) == Rows(access, [Asks(0) EXCEPT !.params = 1], areas)

\* The weather of seven days, and of today by another statement: the last row of a day.
WeatherOf(rows, day, none) ==
  LET of == SelectSeq(rows, LAMBDA r : r[1] = day) IN IF of = <<>> THEN none ELSE Last(of)[2]
GetWeatherInfo(rows, today, none) == [i \in 1..7 |-> WeatherOf(rows, today + i - 1, none)]
GetTodayWeatherInfo(access, rows, today, none) ==
  IF Accepted(access, Names(1)) THEN WeatherOf(rows, today, none) ELSE none

\* The latest picture of a target that has a place in the store; a time that is missing
\* comes last here, and first for the types of a target, which has the latest row too.
GetLatestMinioMetadata(rows, unique, none) ==
  LET of == {r \in rows : r.unique = unique /\ r.bucket # "" /\ r.key # ""}
  IN IF unique <= 0 \/ of = {} THEN none
     ELSE CHOOSE r \in of : \A s \in of : s.time = NoTime \/ (r.time # NoTime /\ ~Earlier(r, s))
GetDetectionTypesByReId(rows, unique, none) ==
  LET of == {r \in rows : r.unique = unique}
  IN IF of = {} THEN none
     ELSE CHOOSE r \in of : r.time = NoTime \/ \A s \in of : s.time # NoTime /\ ~Earlier(r, s)

\* Parameters of an area belong to a scheme; they are saved for whichever has them, or
\* without one.
GetThreatAssessmentParams(rows, area, scheme, default) ==
  LET of == {r \in rows : r.area = area /\ r.scheme = scheme}
  IN IF of = {} THEN {default} ELSE {r.params : r \in of}
SaveThreatAssessmentParams(rows, area, params) ==
  IF \E r \in rows : r.area = area
  THEN {IF r.area = area THEN [r EXCEPT !.params = params] ELSE r : r \in rows}
  ELSE rows \cup {[area |-> area, scheme |-> Null, params |-> params]}

-----------------------------------------------------------------------------
(* The results of cognition, one row for a target *)

Sources == {"ais", "llm", "fusion_engine", "radar", "manual", "archive", "cam", "track"}
SourceText(s) == IF s \in Sources THEN s ELSE "llm"
SourceOfText(t) == IF t \in Sources THEN t ELSE "unknown"
Affiliations == {"enemy", "ownership", "friendly", "neutral"}
AffiliationText(a) == IF a \in Affiliations THEN a ELSE "unknown"

\* Types that may replace each other.
TypesLike(type) ==
  CASE type \in {"ship", "buoy"} -> {"ship", "buoy"}
    [] type \in {"uav", "missile"} -> {"uav", "missile"}
    [] OTHER -> {type}

UpdateCognitiveResult(rows, new) ==
  {IF r.unique = new.unique /\ r.type \in TypesLike(new.type)
   THEN [r EXCEPT !.type = new.type, !.time = new.time] ELSE r : r \in rows}

\* Whatever the type was; the status and its source stay those of the first time.
SaveCognitiveResult(rows, new) ==
  IF \E r \in rows : r.unique = new.unique
  THEN {IF r.unique = new.unique THEN [new EXCEPT !.status = r.status] ELSE r : r \in rows}
  ELSE rows \cup {[new EXCEPT !.status = SourceText(@)]}
=============================================================================
