------------------------------- MODULE ConfigFile -------------------------------
(***************************************************************************)
(* What LoadConfig makes of Config.ini.  A file is a function from keys to *)
(* values; a value that holds a list is its parts and whether it was       *)
(* written in quotes: QSettings splits a bare list at its commas and hands *)
(* out a list, from which toString() makes an empty text, and a quoted one *)
(* stays one text.  Settings of the same treatment differ only in name, so *)
(* those that are only stored are whatever `old` has in `plain` and `kept`. *)
(***************************************************************************)
EXTENDS Integers, Sequences, TLC
LOCAL INSTANCE SequencesExt

Value(ini, key, default) == IF key \in DOMAIN ini THEN ini[key] ELSE default

List(parts) == [parts |-> parts, quoted |-> FALSE]
Quoted(parts) == [parts |-> parts, quoted |-> TRUE]

\* toString() and split(','): nothing is left of a bare list of several parts.
AsText(v) == IF v.quoted \/ Len(v.parts) = 1 THEN v.parts ELSE <<>>

-----------------------------------------------------------------------------
(* Sets of numbers.  A part is the set of the number it reads as, or empty. *)

\* toStringList() makes one part of a quoted list, and that is no number.
IntSetOf(v) ==
  IF v.quoted /\ Len(v.parts) > 1 THEN {} ELSE UNION {v.parts[i] : i \in DOMAIN v.parts}

IntSet(ini, key, old) == IF key \in DOMAIN ini THEN IntSetOf(ini[key]) ELSE old

NotEmptyOr(set, default) == IF set = {} THEN default ELSE set

BirdSkipTrackIds == {4001, 4002, 4003, 4004, 4008, 4011}
AreaGroups == {1, 2}

\* The list counts even if it is empty; the key of older versions holds one group.
NoAlarmGroups(ini) ==
  CASE "NoAlarmGroupIdList" \in DOMAIN ini -> IntSetOf(ini["NoAlarmGroupIdList"])
    [] "NoAlarmGroupIdList" \notin DOMAIN ini /\ "NoAlarmGroupId" \in DOMAIN ini ->
         {g \in {ini["NoAlarmGroupId"]} : g >= 0}
    [] OTHER -> AreaGroups

-----------------------------------------------------------------------------
(* Sources of tracks: entries "source:bucket", "source:code", "slot:source" *)

Buckets == {"radar", "ais", "bird"}
BucketNames ==
  [radar |-> "radar", Radar |-> "radar", ais |-> "ais", AIS |-> "ais", bird |-> "bird",
   auto_bird |-> "bird", ku_bird |-> "bird"]

\* No bucket for a name that is none of them.
BucketOf(name) == IF name \in DOMAIN BucketNames THEN BucketNames[name] ELSE "none"

DefaultRoutes ==
  << <<"yuan_yao", "radar">>, <<"jing_zi_tou", "radar">>, <<"udp_xpf_track", "radar">>,
     <<"ais", "ais">>, <<"tan_niao", "bird">>, <<"auto_bird", "bird">>,
     <<"ku_lei_da", "bird">>, <<"udp_fanwucar_track", "bird">> >>

\* A code that is no number is written 0.
DefaultCodes == << <<"yuan_yao", 1>>, <<"jing_zi_tou", 2>>, <<"udp_xpf_track", 3>> >>
DefaultSlots == << <<0, "yuan_yao">>, <<2, "jing_zi_tou">> >>

IsRoute(part) == Len(part) >= 2 /\ part[1] # "" /\ BucketOf(part[2]) \in Buckets
IsCode(part) == Len(part) >= 2 /\ part[1] # "" /\ part[2] > 0
IsSlot(part) == Len(part) >= 2 /\ part[1] \in 0..7 /\ part[2] # ""

\* Parts that are none are passed over; if none is left the default counts.
Entries(ini, key, Is(_), default) ==
  LET given == SelectSeq(AsText(Value(ini, key, Quoted(default))), Is)
  IN IF given = <<>> THEN default ELSE given

\* Of two entries with one source the later counts.
LastWins(entries, Meaning(_)) ==
  FoldLeft(LAMBDA f, e : (e[1] :> Meaning(e[2])) @@ f, <<>>, entries)

SourceRoute(ini) ==
  LastWins(Entries(ini, "FusionTrackGrpcSourceRoutes", IsRoute, DefaultRoutes), BucketOf)
SourceCode(ini) ==
  LastWins(Entries(ini, "RadarTrackGrpcSources", IsCode, DefaultCodes), LAMBDA n : n)
FusionSlots(ini) == Entries(ini, "RadarFusionTrackIdSlots", IsSlot, DefaultSlots)

\* In any case of letters; everything else is dds.
Transport(ini, key) == IF Value(ini, key, "dds") \in {"grpc", "GRPC"} THEN "grpc" ELSE "dds"

-----------------------------------------------------------------------------
(* LoadConfig *)

LogicDefaults ==
  [Mode |-> 0, SaveAlarmToDb |-> 0, RefreshTargetInfoFilterEachLoop |-> 1,
   AlarmMapPruneNonFirstStaleMs |-> 5000, DedupSameAlarmWindowMs |-> 600000,
   DedupMatchConditionAndTrack |-> 0, OriginTimeFromTrackMsg |-> 1, OriginTrackTimeIsMs |-> 0,
   BirdRadarSourceId |-> 9, BirdFilterMode |-> 0, FuseMapRequireContain |-> 1,
   TrackAlreadyHasAlarmWindowMs |-> 60000, AlarmFilterTtlMs |-> 3600000,
   SpeedDoubleCheckFuseTrackOnly |-> 1, DefaultThreatScore |-> 90]

\* Those of SuspiciousTarget; speeds in metres per second.
SuspiciousDefaults ==
  [SuspiciousEnabled |-> 0, JudgeIntervalMs |-> 5000, SpeedLowThresholdMps |-> 3,
   SpeedHighThresholdMps |-> 8, ProtectAngleMaxDeg |-> 30, SpeedCheckClearIntervalMin |-> 30,
   EmbedInTarget |-> 1, PublishDds |-> 0]

WithDefaults(ini, defaults) == [k \in DOMAIN defaults |-> Value(ini, k, defaults[k])]

Suspicion(ini) ==
  LET s == WithDefaults(ini, SuspiciousDefaults)
  IN [s EXCEPT !.JudgeIntervalMs = IF @ < 1000 THEN 1000 ELSE @]

\* Settings whose key need not be there: the value in memory stays (an offset in hundredths).
Fresh ==
  [DebugMode |-> 0, UseRemoteCameraControl |-> 0, UseSingleTrackMetaTask |-> 0, CheckOffsetHS |-> 67,
   RecvSinglePortDDS |-> 0, RemoteControlDDSPort |-> 132, MultiTrackDDSPort |-> 122,
   SingleTrackDDSPort |-> 123, AlarmEventDDSPort |-> 199, AlarmEventDDSPortSingle |-> 146,
   TrackDDSPort |-> 141]

\* The peers: the destroy service runs on the host of the snapshots unless told otherwise.
Clients(ini) ==
  LET host == Value(ini, "GrpcAlarm/Host", "192.168.18.141")
      On(key) == Value(ini, key, 1) # 0
  IN [snapshot |-> [on |-> On("GrpcAlarm/Enabled"), host |-> host,
                    port |-> Value(ini, "GrpcAlarm/Port", 25051)],
      destroy |-> [on |-> On("GrpcDestroy/Enabled"), host |-> Value(ini, "GrpcDestroy/Host", host),
                   port |-> Value(ini, "GrpcDestroy/Port", 50061)],
      targetType |-> [on |-> On("GrpcTargetType/Enabled"),
                      host |-> Value(ini, "GrpcTargetType/Host", "192.168.18.141"),
                      port |-> Value(ini, "GrpcTargetType/Port", 60054)],
      systemAlarm |-> [on |-> On("GrpcSystemAlarm/Enabled"),
                       host |-> Value(ini, "GrpcSystemAlarm/Listen", "192.168.18.141"),
                       port |-> Value(ini, "GrpcSystemAlarm/Port", 25071)]]

\* Settings without default: a missing one is 0 (or the empty text).
Plain(ini, old) == [k \in DOMAIN old |-> Value(ini, k, 0)]
Kept(ini, old) == [k \in DOMAIN old |-> Value(ini, k, old[k])]

\* What is in memory after a call, `old` before it.  The headings of the tables are
\* appended once more.
LoadConfig(ini, old) ==
  [plain |-> Plain(ini, old.plain), kept |-> Kept(ini, old.kept), headings |-> old.headings + 1,
   fusion |-> Transport(ini, "FusionTrackTransport"),
   radar |-> Transport(ini, "RadarTrackTransport"),
   route |-> SourceRoute(ini), code |-> SourceCode(ini), slots |-> FusionSlots(ini),
   logic |-> WithDefaults(ini, LogicDefaults),
   selfReport |-> AsText(Value(ini, "BirdSelfReportSubstrings", Quoted(<<"self-reported">>))),
   skip |-> NotEmptyOr(IntSet(ini, "BirdSkipTrackIds", old.skip), BirdSkipTrackIds),
   areaGroups |-> NotEmptyOr(IntSet(ini, "AreaGroupIdAllowList", old.areaGroups), AreaGroups),
   noAlarm |-> NoAlarmGroups(ini),
   suspicion |-> Suspicion(ini),
   publishDds |-> Value(ini, "DDS/PublishAlarmEventDds", 0) # 0,
   clients |-> Clients(ini)]

\* Before the first call.
Unread(plain) ==
  [plain |-> [k \in plain |-> 0], kept |-> Fresh, headings |-> 0, skip |-> {}, areaGroups |-> {}]
=============================================================================
