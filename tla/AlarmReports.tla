---------------------------- MODULE AlarmReports ----------------------------
(***************************************************************************)
(* What the reports say of one alarm: the item in the snapshot of          *)
(* TrackManager, the entry in the AlarmEvent, and, beside the alarms, the  *)
(* message that lists suspicious targets and the replies over HTTP.        *)
(* Which alarms are reported when is AlarmPool's and AlarmOutput's.        *)
(*                                                                         *)
(* A rule alarm is [id, rule, target, status, task, score, time, raised,   *)
(* area]; a manual one has the rule "manual_confirm".  Times are numbers,  *)
(* NoTime is the empty string.  Of the memory, m, the reports read the     *)
(* rules, who was confirmed when, when alarms were resolved, which alarms  *)
(* the identification rules accept, and the clock.                         *)
(***************************************************************************)
EXTENDS Integers, Sequences

NoTime == -1
ManualConfirm == "manual_confirm"

Has(f, k) == k \in DOMAIN f
Get(f, k, default) == IF Has(f, k) THEN f[k] ELSE default

-----------------------------------------------------------------------------
(* What both reports share *)

\* resolveRuleAlarmDisposition: confirmation and identification overrule the task.
ResolvedTime(a, m) == Get(m.resolved, a.id, Get(m.confirmed, a.target, m.now))
Verified(a, m) == Has(m.confirmed, a.target) \/ a.id \in m.identified
EffectiveTask(a, m) == IF ~Verified(a, m) /\ a.task \in 0..2 THEN a.task ELSE 3
EffectiveResolved(a, m) == IF Verified(a, m) THEN ResolvedTime(a, m) ELSE NoTime

\* A rule that is gone counts as one for ships.
IsAir(a, m) == Get(m.rules, a.rule, [air |-> FALSE, area |-> 0]).air

\* The name is that of the area of any rule there.
AreaNamed(a, m) == \E r \in DOMAIN m.rules : m.rules[r].area = a.area

\* The score of a confirmed target is raised to this one at least.
ConfirmThreatFloor(defaultScore) == IF defaultScore > 0 THEN defaultScore ELSE 90

\* buildManualAlarmDataFromTrack; existing is <<>> if there is none.
ManualAlarm(t, now, defaultScore, existing) ==
  LET old == existing # <<>>
      Greater(x, y) == IF x > y THEN x ELSE y
  IN  [id |-> t, rule |-> ManualConfirm, target |-> t, status |-> 0, task |-> 0,
       score |-> Greater(IF old THEN existing.score ELSE 0, ConfirmThreatFloor(defaultScore)),
       time |-> now, raised |-> IF old /\ existing.raised # NoTime THEN existing.raised ELSE now,
       area |-> 0]

-----------------------------------------------------------------------------
(* The item in the snapshot *)

Low == 0
Medium == 1
High == 2
ThreatLevelFromScore(s) == IF s >= 70 THEN High ELSE IF s >= 30 THEN Medium ELSE Low

LifecycleFromStatus(s) ==
  CASE s = 1 -> "FOCUS" [] s = 2 -> "DELETED" [] OTHER -> "ACTIVE"

DispositionFromTaskStatus(t) ==
  CASE t = 1 -> "ASSIGNED" [] t = 2 -> "VERIFY_FAILED" [] t = 3 -> "VERIFY_SUCCESS"
    [] OTHER -> "UNASSIGNED"

\* A time that cannot be read is the present.
ParseAlarmTimeSec(t, now) == IF t = NoTime THEN now ELSE t

BuildAlarmItem(a, now) ==
  [id |-> a.id, status |-> LifecycleFromStatus(a.status),
   disposition |-> DispositionFromTaskStatus(a.task),
   level |-> IF a.rule = ManualConfirm THEN High ELSE ThreatLevelFromScore(a.score),
   raised |-> ParseAlarmTimeSec(IF a.raised = NoTime THEN a.time ELSE a.raised, now),
   updated |-> ParseAlarmTimeSec(a.time, now), resolved |-> 0]

RuleItem(a, m) ==
  LET known == EffectiveResolved(a, m)
  IN  [BuildAlarmItem(a, m.now) EXCEPT
         !.disposition = DispositionFromTaskStatus(EffectiveTask(a, m)),
         !.resolved = IF known = NoTime THEN @ ELSE ParseAlarmTimeSec(known, m.now)]

ManualItem(a, m) == [BuildAlarmItem(a, m.now) EXCEPT !.disposition = "VERIFY_SUCCESS"]

-----------------------------------------------------------------------------
(* The entry in the AlarmEvent *)

TaskOf(t) ==
  CASE t = 0 -> "UNASSIGNED" [] t = 1 -> "ASSIGNED" [] t = 2 -> "VERIFY_FAILED"
    [] OTHER -> "VERIFY_SUCCESS"

StatusOf(s) == CASE s = 1 -> "FOCUS" [] s = 2 -> "DELETED" [] OTHER -> "ACTIVE"

RuleEntry(a, m, rank) ==
  [id |-> a.id, status |-> StatusOf(a.status), task |-> TaskOf(EffectiveTask(a, m)),
   content |-> rank, level |-> a.score, named |-> AreaNamed(a, m), air |-> IsAir(a, m),
   updated |-> a.time, resolved |-> EffectiveResolved(a, m)]

ManualEntry(a, m, rank, air) ==
  [id |-> a.id, status |-> "ACTIVE", task |-> "VERIFY_SUCCESS", content |-> rank,
   level |-> a.score, named |-> FALSE, air |-> air,
   updated |-> a.time, resolved |-> Get(m.confirmed, a.target, a.time)]

\* Targets whose type was told and which have no alarm of either kind, old ones and those
\* that are not shown included.
TypeOnly(told, alarms, filtered, fuse, bird) ==
  {t \in told : /\ t > 0 /\ t \notin filtered /\ t \in fuse \cup bird
                /\ \A a \in alarms : a.target # t}

TypeEntry(t, m, fuse) ==
  [id |-> -1, status |-> "ACTIVE",
   task |-> IF Has(m.confirmed, t) THEN "VERIFY_SUCCESS" ELSE "UNASSIGNED",
   content |-> t, level |-> 1, named |-> FALSE, air |-> t \notin fuse, updated |-> m.now,
   resolved |-> Get(m.confirmed, t, NoTime)]

-----------------------------------------------------------------------------
(* SendSuspiciousTargetMsg *)

\* The first object of each id; an id without one is sent by itself.
FirstObjects(ids, batch) ==
  {i \in DOMAIN batch : batch[i] \in ids /\ \A j \in 1..(i - 1) : batch[j] # batch[i]}
Stubs(ids, batch) == {id \in ids : \A i \in DOMAIN batch : batch[i] # id}

\* on: switched on, with a source and a publisher; sent: what the publishers answered.
SendSuspiciousTargetMsg(ids, batch, on, gotBatch, sent) ==
  IF on /\ ids # {} /\ gotBatch /\ TRUE \in sent
    THEN [objects |-> {batch[i] : i \in FirstObjects(ids, batch)}, stubs |-> Stubs(ids, batch)]
    ELSE [objects |-> {}, stubs |-> {}]

-----------------------------------------------------------------------------
(* The replies over HTTP.  A request is what a readyRead found, with its number *)
(* of words, method, path, the parameter full and the body; a reply is its code *)
(* (0 for none) and what was done.                                              *)

Refuse(code) == [code |-> code, does |-> "nothing"]
Done(what) == [code |-> 200, does |-> what]

\* A body is "json" if it parses as an object, with the fields that are looked at.
FilterReply(r) ==
  CASE r.method # "POST" -> Refuse(405)
    [] r.method = "POST" /\ (~r.body.json \/ ~r.body.atType) -> Refuse(400)
    [] OTHER -> IF r.body.type \in 0..1 /\ r.body.id > 0 THEN Done("filter") ELSE Refuse(400)

PushReply(r) ==
  CASE r.method = "GET" -> Done("nothing")
    [] r.method = "PUT" -> IF r.full \in {"0", "1"} THEN Done("push") ELSE Refuse(400)
    [] OTHER -> Refuse(405)

\* The id goes by any of three names; found: what confirmAlarmByUniqueId answers.
ConfirmReply(r, found) ==
  CASE r.method # "POST" -> Refuse(405)
    [] r.method = "POST" /\ (~r.body.json \/ r.body.id <= 0) -> Refuse(400)
    [] OTHER -> [code |-> IF found THEN 200 ELSE 404, does |-> "confirm"]

\* A position needs both coordinates; only then the rest is read.
TrackHint(b) ==
  LET valid == b.lat /\ b.lon
  IN  [valid |-> valid,
       air |-> valid /\ IF b.isAir \in BOOLEAN THEN b.isAir ELSE b.fuseType = 1]

HandleRequest(r, found) ==
  CASE r.parts < 3 -> Refuse(0)
    [] r.parts >= 3 /\ r.method = "OPTIONS" -> Done("nothing")
    [] r.parts >= 3 /\ r.method # "OPTIONS" ->
         CASE r.path = "filter" -> FilterReply(r)
           [] r.path = "update" -> Done("reload")
           [] r.path = "push" -> PushReply(r)
           [] r.path = "confirm" -> ConfirmReply(r, found)
           [] OTHER -> Refuse(404)

\* The head alone is treated as the request; the connection is closed with the reply.
NoBody == [json |-> FALSE, atType |-> FALSE, type |-> -1, id |-> 0]
HeadFirst(r, found) == HandleRequest([r EXCEPT !.body = NoBody], found)
=============================================================================
