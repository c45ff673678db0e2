------------------------------- MODULE MCDbPool -------------------------------
(***************************************************************************)
(* Instances of DbPool for TLC: two clients, two connections.  Beside them *)
(* facts about the calls and the archive, over bounded inputs.             *)
(***************************************************************************)
EXTENDS DbPool, TargetArchive, Sequences
Seqs == INSTANCE SequencesExt

-----------------------------------------------------------------------------
(* Calls *)

\* convertQtPlaceholders numbers the question marks before which the quotes are in pairs,
\* doubled ones among them.
Texts == UNION {[1..n -> {"?", "'", "x"}] : n \in 0..5}
ASSUME QuestionMarksOutsideQuotes ==
  \A s \in Texts :
    Placeholders(s) =
      {i \in DOMAIN s : s[i] = "?" /\ Cardinality({j \in 1..i : s[j] = "'"}) % 2 = 0}

\* What is told as done was done, with either access; what was done may not be told.
Events == [valid : BOOLEAN, open : BOOLEAN, reopens : BOOLEAN, done : BOOLEAN,
           answered : BOOLEAN, inTime : BOOLEAN]
ASSUME ToldIsDone ==
  \A e \in Events, late, accepted \in BOOLEAN :
    LET qt == CallQt(late, accepted, e) pg == CallPg(FALSE, accepted, e)
    IN /\ qt.told => qt.effect
       /\ pg.told => pg.effect
       /\ e.answered /\ (late => e.inTime) => qt.told = qt.effect
       /\ e.answered => pg.told = pg.effect
       /\ QueryQt(late, accepted, e, <<1>>) # <<>> => e.answered
       /\ QueryPg(TRUE, accepted, e, <<1>>) = <<>>

\* A batch is stored as a whole or not at all, and never more is stored than told; but
\* what is told of a batch that was rolled back is not 0 unless its first insert failed.
ASSUME BatchesTellTooMuch ==
  \A n \in 0..5, commits \in BOOLEAN : \A bad \in SUBSET (1..n) :
    \A b \in {BatchQt(TRUE, n, bad, commits), BatchPg(TRUE, n, bad, commits)} :
      /\ b.stored \in {0, n} /\ b.stored <= b.told /\ b.told <= n
      /\ bad = {} /\ commits => b = [told |-> n, stored |-> n]
      /\ bad # {} => b.stored = 0 /\ b.told < n
ASSUME BatchesNeedQt ==
  \A given \in 0..2, reachable \in BOOLEAN, n \in 1..3 :
    AddRecords(SetUp(given, reachable), [i \in 1..n |-> i], {}, TRUE).stored = n <=> given = 0 /\ reachable

\* By place the two accesses give the same, but "" for NULL and, past the last column, a
\* text for none; by name if no two columns of the name differ.
Cells == {"a", "f", "t", Null}
Columns == UNION {[1..n -> 1..2] : n \in 1..3}
ASSUME AccessesByPlaceAndName ==
  \A columns \in Columns : \A cells \in [DOMAIN columns -> Cells] :
    /\ \A i \in DOMAIN columns :
         /\ ValueAt("libpq", columns, cells, i) = Text(ValueAt("qt", columns, cells, i))
         /\ (\A j \in DOMAIN columns : columns[i] = columns[j] => cells[i] = cells[j]) =>
              ValueOf("libpq", columns, cells, columns[i]) = Text(ValueOf("qt", columns, cells, columns[i]))
    /\ ValueAt("qt", columns, cells, Len(columns) + 1) = Null
    /\ ValueAt("libpq", columns, cells, Len(columns) + 1) # Null

\* A single value is the same by all ways if the first column is the first by name, its
\* only one of that name, and the row has it.
ASSUME ScalarsAgree ==
  \A columns \in Columns : \A cells \in [DOMAIN columns -> Cells] :
    (cells[1] # Null /\ \A i \in 2..Len(columns) : columns[1] < columns[i]) =>
      /\ ScalarPg(columns, <<cells>>) = cells[1]
      /\ ScalarInTxn(<<cells>>) = cells[1] /\ ScalarQt(<<cells>>) = cells[1]

\* A flag that the database has as false, or not at all, is read otherwise with libpq.
ASSUME FlagsDiffer ==
  \A cell \in {"t", "f", Null} : FlagOf("libpq", cell) # FlagOf("qt", cell) <=> cell # "t"

\* A time comes back as it was written only where the clock shows UTC; unsigned numbers
\* from 2^31 become negative; no bytes become NULL.
ASSUME ParametersChange ==
  /\ \A h \in 0..23, zone \in {-5, 0, 8} :
       ReadTime(Wire(ToPgParam([type |-> "datetime", v |-> h], zone)).v).v = h <=> zone = 0
  /\ \A n \in 0..(2 * Half - 1) :
       Wire(ToPgParam([type |-> "uint", v |-> n], 0)).v >= 0 <=> n < Half
  /\ Wire(ToPgParam([type |-> "bytea", v |-> <<>>], 0)).v = Null

-----------------------------------------------------------------------------
(* The archive *)

Targets == 1..3
Assocs == {[n |-> n, target |-> t, time |-> t + n] : n \in 1..2, t \in 1..2}
Colls == {[id |-> 10 * t + n, target |-> t, time |-> n] : n \in 1..2, t \in 1..2}
PartsOfAll ==
  [k \in Kinds |-> {[coll |-> c.id, seq |-> 1, time |-> c.id, camera |-> c.id % 2, fused |-> c.id = 12,
                     pos |-> IF c.id = 21 THEN Null ELSE c.id, distance |-> 5, speed |-> 1] : c \in Colls}]
Archives ==
  {[info |-> {[id |-> t, name |-> "x"] : t \in i}, assoc |-> a, coll |-> c, parts |-> PartsOfAll] :
     i \in {{1, 2}, {1, 2, 3}}, a \in SUBSET Assocs, c \in SUBSET Colls}

\* A merge loses no association and no collection and leaves none with a target that is
\* gone; what is refused changes nothing.  Only if ids are no key, a merge into one of the
\* merged targets loses the target itself (mergeTargets).
ASSUME MergeKeepsAll ==
  \A db \in Archives, ids \in SUBSET Targets, to \in Targets, keyed \in BOOLEAN :
    LET new == [id |-> to, name |-> "new"]
        m == MergeTargets(keyed, db, ids, new)
    IN IF ~m.told THEN m.table = db
       ELSE /\ \A r \in m.table.assoc \cup m.table.coll : r.target \notin ids \ {to}
            /\ Cardinality(m.table.coll) = Cardinality(db.coll)
            /\ \A r \in db.assoc : [r EXCEPT !.target = IF @ \in ids THEN to ELSE @] \in m.table.assoc
            /\ new \in m.table.info <=> to \notin ids

\* A delete that is told as done has left nothing of the target, nor of its collections in
\* any of the six tables, if these could be listed and the commit, which is not looked at,
\* was done; one that is not told has changed nothing if it was in a transaction, and may
\* have stopped halfway if not.  Nothing of another target goes (deleteTarget).
ASSUME DeleteLeavesNothing ==
  \A db \in {d \in Archives : d.assoc \in {{}, Assocs}}, id \in Targets :
    \A inTxn, listed, commits \in BOOLEAN, n \in 0..9, some \in SUBSET {10 * id + 1, 10 * id + 2} :
      LET d == DeleteTarget(db, id, inTxn, listed, n, some, commits)
          OwnParts(k) == {p \in d.table.parts[k] : \E c \in db.coll : c.target = id /\ c.id = p.coll}
          OfOthers(rows) == {r \in rows : r.target # id}
          clean == /\ \A r \in d.table.info : r.id # id
                   /\ \A r \in d.table.assoc \cup d.table.coll : r.target # id
                   /\ \A k \in Kinds : OwnParts(k) = {}
      IN /\ d.told /\ listed /\ (inTxn => commits) => clean
         /\ ~d.told /\ inTxn => d.table = db
         /\ d.told /\ inTxn /\ ~commits => d.table = db
         /\ d.told /\ ~listed => /\ d.table.parts = db.parts
                                /\ \A c \in d.table.coll : c.target # id
         /\ \A r \in db.info : r.id # id => r \in d.table.info
         /\ OfOthers(db.assoc) \subseteq d.table.assoc /\ OfOthers(db.coll) \subseteq d.table.coll
         /\ \A k \in Kinds : db.parts[k] \ d.table.parts[k] \subseteq {p \in db.parts[k] : p.coll \div 10 = id}

\* The latest association of a target is the same by the three ways to ask for it.
ASSUME LatestAgree ==
  \A db \in Archives, id \in Targets :
    LET all == GetTargetAssociations(db.assoc, id)
        latest == GetAllLatestTargetAssociations(db.assoc)
        none == [n |-> 0, target |-> 0, time |-> 0]
    IN /\ id \in DOMAIN latest <=> all # <<>>
       /\ all # <<>> => /\ latest[id] = all[1]
                        /\ GetLatestTargetAssociation(db.assoc, id, none) = all[1]

\* Each row of a target's tracks is in one collection; the last position is of the last
\* track that has one, although the record of AIS may be newer.
ASSUME TracksOnce ==
  \A db \in Archives, id \in 1..2 :
    LET rows == PartsOf("qt", db, "track", id)
        sets == GetTrackCollections("qt", db, id)
        now == GetTargetRealtimeInfo("qt", db, id)
    IN /\ DOMAIN sets \subseteq {c.id : c \in db.coll}
       /\ \A p \in Seqs!ToSet(rows) : Cardinality({c \in DOMAIN sets : p \in Seqs!ToSet(sets[c].tracks)}) = 1
       /\ \A c \in DOMAIN sets : sets[c].fused <=> c = 12
       /\ now.found <=> rows # <<>>

\* With Qt a target is shown alike alone and among all, with the time of its newest
\* collection; with libpq it is not found alone (getTargetCaptureInfo).
ASSUME ShownAlike ==
  \A db \in Archives, id \in Targets :
    LET all == GetAllTargetCaptureInfo("qt", db)
        none == [target |-> [id |-> 0, name |-> ""], time |-> NoTime]
    IN /\ GetTargetCaptureInfo("qt", db, id, none) = {IF id \in DOMAIN all THEN all[id] ELSE none}
       /\ GetTargetCaptureInfo("libpq", db, id, none) = {none}
       /\ GetAllTargetCaptureInfo("libpq", db) = all
       /\ id \in DOMAIN all => LET cs == GetTargetCollections(db.coll, id) IN
            all[id].time = IF cs = <<>> THEN NoTime ELSE cs[1].time

\* With libpq nothing is stored or found by a statement with names, and saving the
\* rules deletes them all; with Qt the columns that are not listed are lost.
Settings == {[id |-> i, level |-> i, others |-> "x"] : i \in 1..3}
ASSUME NamesNeedQt ==
  \A new, refused \in SUBSET Settings :
    /\ SaveAlarmSetting("libpq", new, refused) = {}
    /\ {r.id : r \in SaveAlarmSetting("qt", new, refused)} = {r.id : r \in new \ refused}
    /\ \A r \in SaveAlarmSetting("qt", new, refused) : r.others = Null
    /\ AddAlarmPic("libpq", {}, new, refused) = [table |-> {}, told |-> new = {}]
    /\ LET a == AddVideoCollections("qt", {}, new, refused)
       IN (a.told <=> new \cap refused = {}) /\ a.table = new \ refused
    /\ \A access \in {"qt", "libpq"} : GetGroupArea(access, new) = {}

\* Of the numbers 1 to 7 each bit is a level; 8 and more are levels themselves.
ASSUME LevelMask ==
  /\ AlarmLevels(1) = {1} /\ AlarmLevels(2) = {2} /\ AlarmLevels(4) = {3} /\ AlarmLevels(8) = {8}
  /\ \A m, n \in 0..7 : AlarmLevels(m) = AlarmLevels(n) <=> m = n
  /\ \A n \in 0..9 :
       {r.rule : r \in GetAlarmData({[rule |-> i, time |-> 1] : i \in 1..3}, Settings, 0, n)}
         = IF n = 0 THEN 1..3 ELSE AlarmLevels(n) \cap (1..3)

\* The minutes of a coordinate have 1000 thousandths where they are rounded up to the
\* next minute, which is not carried (convertToDegreeMinute).
ASSUME MinutesNotCarried ==
  \A d \in {0, 29}, m \in {0, 59}, rest \in {0, 4, 5, 9994, 9995, 9999}, sign \in {-1, 1} :
    LET c == ConvertToDegreeMinute(sign * (600000 * d + 10000 * m + rest))
    IN c.degrees = d /\ c.minutes = m /\ (c.thousandths = 1000 <=> rest >= 9995)

\* What is saved for an area is found in every scheme the area has, and in none if it
\* had none: it is saved without one.
Params == {[area |-> a, scheme |-> s, params |-> "old"] : a \in 1..2, s \in {"s1", "s2"}}
ASSUME ParamsOfEveryScheme ==
  \A rows \in SUBSET Params, scheme \in {"s1", "s2"} :
    LET saved == SaveThreatAssessmentParams(rows, 1, "new")
        got == GetThreatAssessmentParams(saved, 1, scheme, "default")
    IN /\ got = IF \E r \in rows : r.area = 1 /\ r.scheme = scheme THEN {"new"} ELSE {"default"}
       /\ {r \in saved : r.area = 2} = {r \in rows : r.area = 2}

\* A target keeps one row, and the source of its first; only a save changes its type to
\* one that is not like it.
Results == {[unique |-> u, type |-> t, time |-> 1, status |-> s] :
              u \in 1..2, t \in {"ship", "buoy", "uav", "bird"}, s \in {"ais", "unknown"}}
ASSUME OneRowPerTarget ==
  \A first, then \in Results :
    LET rows == SaveCognitiveResult({}, first)
        saved == SaveCognitiveResult(rows, then)
        updated == UpdateCognitiveResult(rows, then)
    IN /\ Cardinality(saved) = Cardinality({first.unique, then.unique})
       /\ \A r \in saved : r.unique = first.unique => r.status = SourceText(first.status)
       /\ \A r \in updated : r.type \in TypesLike(first.type)

\* Names of sources survive the way to the database and back, but unknown becomes llm.
ASSUME SourcesReadBack ==
  \A s \in Sources \cup {"unknown"} : SourceOfText(SourceText(s)) = s <=> s # "unknown"

\* A second load of the dictionaries removes nothing and doubles the lists, and one that
\* fails leaves all names but those of the sensors.
Dict == UNION {[1..n -> {<<1, "a">>, <<1, "b">>, <<2, "c">>}] : n \in 0..2}
ASSUME ReloadsAdd ==
  \A r, s \in Dict :
    LET once == LoadDictionary(<<>>, r) twice == LoadDictionary(once, s) IN
    /\ DOMAIN twice = DOMAIN once \cup {e[1] : e \in Seqs!ToSet(s)}
    /\ Len(LoadDictionaryVec(LoadDictionaryVec(<<>>, r), r)) = 2 * Len(r)
    /\ LoadDictionary(once, <<>>) = once /\ LoadSensorInfo(<<>>) = <<>>

\* A sensor that is renamed has its old name in memory until the sensors are loaded again
\* (updateSensorInfo); one that is not in the table is not added.
ASSUME RenamedSensorIsStale ==
  \A rows \in {<<>>, <<<<1, "a">>>>, <<<<1, "a">>, <<2, "b">>>>}, id \in 1..2 :
    LET kept == LoadSensorInfo(rows)
        after == UpdateSensorInfo(rows, id, "new")
        known == id \in DOMAIN kept
    IN /\ DOMAIN GetAllSensorInfo(after) = DOMAIN kept
       /\ GetSensorInfo(after, id, <<0, "">>) = IF known THEN <<id, "new">> ELSE <<0, "">>
       /\ SensorNames(kept, id)[id] # "new"
       /\ known => SensorNames(LoadSensorInfo(after), id)[id] = "new"
       /\ GetCameraRootPos(GetAllCameraRootPos(UpdateCameraRoot(rows, id, 7)), id) = IF known THEN 7 ELSE 0

\* A text that is changed keeps the sum of the old one (updateUavTextMsg).
Speeches == {[id |-> i, time |-> 3 - i, name |-> "n", content |-> c, sum |-> c] : i \in 1..2, c \in {"x"}}
ASSUME ChangedTextKeepsSum ==
  \A r \in Speeches :
    LET after == UpdateUavTextMsg(Speeches, [r EXCEPT !.content = "y", !.sum = "y"]) IN
    /\ {s \in after : s.content # s.sum} = {[r EXCEPT !.content = "y"]}
    /\ [i \in 1..2 |-> ReadAllUavTextMsg(after)[i].id] = <<2, 1>>
    /\ DeleteUavTextMsg(after, r.id) = Speeches \ {r}

\* The latest picture is one with a time, if there is one; the latest types are those of
\* a row without a time, if there is one.
Shots == {[unique |-> 1, bucket |-> b, key |-> "k", time |-> t] : b \in {"", "b"}, t \in {NoTime, 1, 2}}
ASSUME LatestOfMissingTimes ==
  \A rows \in SUBSET Shots :
    LET stored == {r \in rows : r.bucket # ""} none == [time |-> 0]
        times == {r.time : r \in stored} IN
    /\ GetLatestMinioMetadata(rows, 1, none).time =
         CASE stored = {} -> 0 [] 2 \in times -> 2 [] 1 \in times /\ 2 \notin times -> 1
           [] times = {NoTime} -> NoTime
    /\ GetLatestMinioMetadata(rows, 0, none) = none
    /\ GetDetectionTypesByReId(rows, 1, none).time = NoTime <=> \E r \in rows : r.time = NoTime
=============================================================================
