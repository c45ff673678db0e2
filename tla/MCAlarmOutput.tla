---------------------------- MODULE MCAlarmOutput ----------------------------
(* A rule alarm and a manual one of the same target, and one level to give; and *)
(* facts about the reports, over bounded inputs.                                *)
EXTENDS AlarmOutput, AlarmReports, TLC

CONSTANT t1

MCTargetOf == 1 :> t1 @@ 2 :> t1

-----------------------------------------------------------------------------
(* What the two reports say of one alarm. *)

\* One rule for air targets, and one that a reload took away; confirmed or not, with a
\* resolved time or not, identified or not.
RuleAlarms ==
  [id : {1}, rule : {"air", "gone"}, target : {5}, status : 0..3, task : 0..4,
   score : {0, 29, 30, 69, 70, 90}, time : {3}, raised : {NoTime, 2}, area : 0..1]
Memories ==
  [rules : {"air" :> [air |-> TRUE, area |-> 1]}, confirmed : {<<>>, 5 :> 2},
   resolved : {<<>>, 1 :> 1}, identified : {{}, {1}}, now : {9}]

\* TrackManager and the subscribers are told the same state and the same handling of a rule
\* alarm, whatever its columns hold, although the two translate them separately, and both
\* are told a resolved time or neither is.
ASSUME ReportsAgree ==
  \A a \in RuleAlarms, m \in Memories :
    LET item == RuleItem(a, m)
        entry == RuleEntry(a, m, 0)
    IN  /\ item.disposition = entry.task /\ item.status = entry.status
        /\ IF entry.resolved = NoTime THEN item.resolved = 0 ELSE item.resolved = entry.resolved

\* A manual alarm is verified in both, but only the AlarmEvent says since when.
ASSUME ManualTimeIsNotInSnapshot ==
  \A m \in Memories, old \in {<<>>, [score |-> 95, raised |-> 1]} :
    LET a == ManualAlarm(5, 3, 0, old)
    IN  /\ ManualItem(a, m).disposition = ManualEntry(a, m, 0, TRUE).task
        /\ ManualItem(a, m).resolved = 0
        /\ ManualEntry(a, m, 0, TRUE).resolved # NoTime

\* "Severe, like in the alarm centre": so is the manual alarm of a confirmed target for any
\* default score, a rule alarm raised by the confirmation only if the default is 70 or more.
ASSUME ConfirmedNeedsHighDefault ==
  \A default \in {0, 1, 29, 30, 69, 70, 90}, a \in RuleAlarms :
    LET raised == [a EXCEPT !.score = IF @ < ConfirmThreatFloor(default)
                                        THEN ConfirmThreatFloor(default) ELSE @]
        told == BuildAlarmItem(raised, 9).level
    IN  /\ BuildAlarmItem(ManualAlarm(5, 3, default, <<>>), 9).level = High
        /\ a.score < 70 => (told = High <=> default = 0 \/ default >= 70)

\* While the alarms of a rule that a reload took away grow stale, both reports move its air
\* targets to the surface: for TrackManager that is another target.
ASSUME GoneRuleIsSurface ==
  \A a \in RuleAlarms, m \in Memories :
    /\ IsAir(a, m) <=> a.rule = "air"
    /\ RuleEntry(a, m, 0).air <=> a.rule = "air"

\* Confirmed again, a target keeps the time at which its alarm was raised, and its score
\* does not sink.
ASSUME ConfirmedAgainGoesOn ==
  \A first, second \in {0, 40, 95} :
    LET old == ManualAlarm(5, 3, first, <<>>)
        new == ManualAlarm(5, 8, second, old)
    IN  new.raised = 3 /\ new.time = 8 /\ new.score >= old.score

\* A type that was told of a target is an entry of its own for no target that has an alarm,
\* and is verified only if the target was confirmed; such an entry has a time then.
ASSUME TypeEntriesAreLast ==
  \A fuse, bird, filtered \in SUBSET {5, 6}, m \in Memories :
    \A t \in TypeOnly({0, 5, 6}, {[target |-> 6]}, filtered, fuse, bird) :
      LET entry == TypeEntry(t, m, fuse)
      IN  /\ t = 5 /\ 5 \notin filtered
          /\ entry.task = "VERIFY_SUCCESS" <=> entry.resolved # NoTime

-----------------------------------------------------------------------------
(* Suspicious targets, and the replies. *)

\* A message names each suspicious target once, however often the batch has it, by its
\* object if there is one.
ASSUME EachSuspiciousOnce ==
  \A ids \in SUBSET {1, 2}, batch \in UNION {[1..n -> 1..3] : n \in 1..3} :
    LET sent == SendSuspiciousTargetMsg(ids, batch, TRUE, TRUE, {TRUE, FALSE})
    IN  /\ sent.objects \cup sent.stubs = ids /\ sent.objects \cap sent.stubs = {}
        /\ Cardinality(FirstObjects(ids, batch)) + Cardinality(sent.stubs) = Cardinality(ids)

Requests ==
  [parts : {1, 3}, method : {"GET", "PUT", "POST", "OPTIONS"},
   path : {"filter", "update", "push", "confirm", "other"}, full : {"0", "1", "2"},
   body : [json : BOOLEAN, atType : BOOLEAN, type : -1..2, id : -1..1]]

\* What is refused has changed nothing, except that a confirmation of a target that is not
\* found, answered by 404, has lifted its filter and marked it as confirmed.
ASSUME RefusedChangesNothing ==
  \A r \in Requests, found \in BOOLEAN :
    LET reply == HandleRequest(r, found)
    IN  reply.code # 200 /\ reply.does # "nothing" =>
          reply = [code |-> 404, does |-> "confirm"] /\ r.body.id > 0 /\ ~found

\* A body that comes after the head is not waited for: filters and confirmations are
\* refused, a reload of one scope becomes one of everything.
ASSUME LateBodyIsRefused ==
  \A r \in Requests, found \in BOOLEAN :
    /\ HeadFirst(r, found).does \notin {"filter", "confirm"}
    /\ HandleRequest(r, found).does = "reload" => HeadFirst(r, found) = Done("reload")

\* One coordinate alone is no hint, and nothing else is read with it.
ASSUME HintNeedsPosition ==
  \A lat, lon \in BOOLEAN, fuseType \in 0..1 :
    LET hint == TrackHint([lat |-> lat, lon |-> lon, isAir |-> TRUE, fuseType |-> fuseType])
    IN  hint.valid = (lat /\ lon) /\ (hint.air => hint.valid)
=============================================================================
