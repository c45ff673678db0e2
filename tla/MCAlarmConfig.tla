---------------------------- MODULE MCAlarmConfig ----------------------------
(* The scheme s1 gives way to s2, or is switched off; rule r2 has two criteria. *)
EXTENDS AlarmConfig, ConfigFile

CONSTANTS a1, old, new, off

MCAreas == {"harbour", "strait"}
MCRules == {"r1", "r2"}
MCEnabled == old :> {"s1"} @@ new :> {"s2"} @@ off :> {}
MCBound ==
  old :> ("s1" :> {<<"harbour", "r1">>, <<"strait", "r2">>} @@ "s2" :> {<<"harbour", "r2">>}
          @@ "default" :> {}) @@
  new :> ("s1" :> {} @@ "s2" :> {<<"harbour", "r1">>, <<"harbour", "r2">>} @@ "default" :> {}) @@
  off :> ("s1" :> {<<"harbour", "r1">>} @@ "s2" :> {} @@ "default" :> {<<"strait", "r1">>})
One(c, on, text, needs) == [criteria |-> c, enabled |-> on, text |-> text, needs |-> needs]
MCRows ==
  [e \in {old, new, off} |->
     "r1" :> {One("c1", TRUE, "rules", {"optic", "duration"}), One("c1", FALSE, "rules", {}),
              One("c2", TRUE, "malformed", {})} @@
     "r2" :> IF e # new
             THEN {One("c1", TRUE, "rules", {"optic"}), One("c1", TRUE, "rules", {"duration"}),
                   One("c2", TRUE, "rules", {"duration"}), One("c2", TRUE, "blank", {})}
             ELSE {One("c1", TRUE, "blank", {}), One("c1", TRUE, "rules", {"optic"})}]
MCAreaOf == [a \in {a1} |-> "harbour"]
MCRuleOf == [a \in {a1} |-> "r1"]
-----------------------------------------------------------------------------
(* Facts about LoadConfig, over bounded files *)

RouteParts ==
  { <<"crow", "bird">>, <<"crow", "Radar">>, <<"ship", "ku_bird">>, <<"", "ais">>, <<"ship", "boat">>,
    <<"ship">> }
Values(parts) ==
  {[parts |-> s, quoted |-> q] : s \in UNION {[1..n -> parts] : n \in 0..3}, q \in BOOLEAN}
NumberParts == {{}, {1}, {4001}}

Inis ==
  {[FusionTrackGrpcSourceRoutes |-> v, FusionTrackTransport |-> "GRPC"] : v \in Values(RouteParts)}
    \cup {[BirdSkipTrackIds |-> v, NoAlarmGroupIdList |-> v, JudgeIntervalMs |-> 10] : v \in Values(NumberParts)}
    \cup {[NoAlarmGroupId |-> g, AlarmEventDDSPort |-> 7, StyleMode |-> 1] : g \in -1..1}
    \cup {"GrpcAlarm/Host" :> "here" @@ "GrpcAlarm/Enabled" :> 0,
          "GrpcDestroy/Host" :> "there" @@ "DDS/PublishAlarmEventDds" :> 2}
At(ini) == LoadConfig(ini, Unread({"StyleMode", "RadarCnt"}))

\* The constructor and main() read the file one after the other: the second time
\* changes nothing but the headings of the tables.
ASSUME ReadTwiceIsReadOnce ==
  \A ini \in Inis : LoadConfig(ini, At(ini)) = [At(ini) EXCEPT !.headings = 2]

\* A route list is in force as its entries say if it is in quotes, the last entry of a
\* source counting and entries that say nothing left out; a bare list of several is lost.
Given(v, s) == {i \in DOMAIN v.parts : Len(v.parts[i]) >= 2 /\ v.parts[i][1] = s /\ s # ""
                                       /\ BucketOf(v.parts[i][2]) \in Buckets}
ASSUME RoutesNeedQuotes ==
  \A v \in Values(RouteParts) :
    LET route == At([FusionTrackGrpcSourceRoutes |-> v]).route
        known == {s \in {"crow", "ship"} : Given(v, s) # {}}
    IN IF known = {} \/ (~v.quoted /\ Len(v.parts) > 1) THEN route = SourceRoute(<<>>)
       ELSE /\ DOMAIN route = known
            /\ \A s \in known : \E i \in Given(v, s) :
                 /\ route[s] = BucketOf(v.parts[i][2])
                 /\ \A j \in Given(v, s) : j <= i

\* Lists of numbers want the opposite: in quotes, several numbers are none.  Then, and if
\* no part is a number, the default list of birds counts, while no zone is without alarms.
ASSUME NumbersMustBeBare ==
  \A v \in Values(NumberParts) :
    LET c == At([BirdSkipTrackIds |-> v, NoAlarmGroupIdList |-> v])
        numbers == {n \in {1, 4001} : \E i \in DOMAIN v.parts : n \in v.parts[i]}
        read == IF v.quoted /\ Len(v.parts) > 1 THEN {} ELSE numbers
    IN /\ c.noAlarm = read
       /\ c.skip = IF read = {} THEN BirdSkipTrackIds ELSE read

\* A source of a track has one of the maps the ingest knows, whatever the file says,
\* and the groups of areas are never without restriction.
ASSUME ConfigIsUsable ==
  \A ini \in Inis :
    LET c == At(ini) IN
    /\ \A s \in DOMAIN c.route : c.route[s] \in Buckets
    /\ c.route # <<>> /\ c.code # <<>> /\ c.slots # <<>> /\ c.skip # {} /\ c.areaGroups # {}
    /\ c.suspicion.JudgeIntervalMs >= 1000 /\ c.fusion \in {"grpc", "dds"}
    /\ "GrpcDestroy/Host" \notin DOMAIN ini => c.clients.destroy.host = c.clients.snapshot.host
=============================================================================
