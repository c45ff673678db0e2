----------------------------- MODULE AlarmConfig -----------------------------
(***************************************************************************)
(* The configuration in the database, the copy of it in memory, and the    *)
(* verification of alarms by it.  The main thread loads the copy at boot   *)
(* and again on POST /api/alarms/update, one statement after another: what *)
(* belongs to the active scheme takes two, as the name of the scheme comes *)
(* first.  A publisher thread judges the alarms meanwhile.                 *)
(***************************************************************************)
EXTENDS Naturals, Sequences, SequencesExt

CONSTANTS
  Schemes, Default, \* Default: "default", taken when no scheme is enabled
  Editions,   \* what the tables may hold
  Enabled,    \* the enabled schemes of an edition
  Areas, Rules,
  Bound,      \* by edition and scheme: the pairs of an area and an identification rule
  Rows,       \* by edition: the rows of a rule in alarm_identification_rules_sub
  Alarms, AreaOf, RuleOf, \* their areas and condition_ids
  Empty,      \* a map without entries
  Scopes,     \* the scopes that clients ask to be reloaded
  MaxChanges  \* bound: edits and outages of the database

Names == Schemes \cup {Default}
Needs == {"optic", "duration"}
\* A text may be blank or no JSON object.
Row == [criteria : STRING, enabled : BOOLEAN,
        text : {"blank", "malformed", "rules"}, needs : SUBSET Needs]

ASSUME ConfigAssumption ==
  /\ Enabled \in [Editions -> SUBSET Schemes]
  /\ Bound \in [Editions -> [Names -> SUBSET (Areas \X Rules)]]
  /\ DOMAIN Rows = Editions
  /\ \A e \in Editions : DOMAIN Rows[e] = Rules /\ \A r \in Rules : Rows[e][r] \subseteq Row
  /\ AreaOf \in [Alarms -> Areas] /\ RuleOf \in [Alarms -> Rules]
  /\ Empty \notin Editions \X Names /\ Empty \notin Alarms
  /\ MaxChanges \in Nat

VARIABLES
  up, edition, \* the database
  changes,     \* bounded by MaxChanges
  inited,      \* m_dbInitSuccess
  ready,       \* m_libpqReady
  started,     \* whether main() has started the other threads
  todo,        \* the maps that are still to be loaded
  scheme,      \* the scheme the next of them is loaded for, once it is known
  copy,        \* what each map was loaded from: an edition and a scheme
  evidence,    \* what there is for each alarm: photos, a long track
  judged,      \* the alarm that is being judged
  ids,         \* the rules it has still to be judged by
  verified,    \* m_mapAlarmIdentificationResolvedTime
  asked,       \* history: maps to be up to date, as nothing changed since they were asked for
  sure         \* history: ids and subs have been so since the judgement began

dbVars == <<up, edition, changes>>
initVars == <<inited, ready, started>>
loadVars == <<initVars, todo, scheme, copy>>
judgeVars == <<judged, ids, verified>>
vars == <<dbVars, loadVars, evidence, judgeVars, asked, sure>>

Unknown == "unknown"
OfScheme == {"subs", "ids", "verification", "handle", "params", "protect"}
Maps == OfScheme \cup {"targets", "rules", "areas", "filter"}
NobodyJudged == Empty

Init ==
  /\ up \in BOOLEAN /\ edition \in Editions /\ changes = 0
  /\ inited = FALSE /\ ready = FALSE /\ started = FALSE /\ scheme = Unknown
  /\ todo = <<"connect">> /\ copy = [m \in Maps |-> Empty]
  /\ evidence = [a \in Alarms |-> {}]
  /\ judged = NobodyJudged /\ ids = {} /\ verified = {}
  /\ asked = {} /\ sure = FALSE

-----------------------------------------------------------------------------
(* Loading, on the main thread. *)

BootOrder == <<"targets", "rules", "subs", "ids", "verification", "handle", "areas",
               "filter", "params", "protect">>

\* The constructor of CustomConfig loads everything, whether it has a database or not.
Boot ==
  /\ todo = <<"connect">> /\ todo' = BootOrder
  /\ inited' = up /\ ready' = up
  /\ asked' = IF up THEN Maps ELSE {}
  /\ UNCHANGED <<dbVars, started, scheme, copy, evidence, judgeVars, sure>>

\* main() initialises the database once more, and starts the threads.
StartThreads ==
  /\ todo = <<>> /\ ~started /\ started' = TRUE
  /\ inited' = up /\ ready' = up
  /\ UNCHANGED <<dbVars, todo, scheme, copy, evidence, judgeVars, asked, sure>>

MapsOf(scope) ==
  LET Of(s) == CASE s = "alarm_rules" -> <<"rules", "areas", "protect">>
                 [] s = "threat_params" -> <<"params">>
                 [] s = "identification" -> <<"subs", "ids">>
                 [] s = "verification" -> <<"verification">>
                 [] s = "handle_rules" -> <<"handle">>
                 [] OTHER -> <<>>
  IN IF scope = "all"
     THEN Of("alarm_rules") \o Of("threat_params") \o Of("identification")
            \o Of("verification") \o Of("handle_rules")
     ELSE Of(scope)

\* A GET, and a body that comes in a later segment than the head, reload everything.
ParseReloadScope(scope, hasBody) == IF hasBody THEN scope ELSE "all"

\* /api/alarms/update.  The answer is "ok" even if the database is not ready.
UpdateAlarms(scope, hasBody) ==
  /\ todo = <<>> /\ started
  /\ ready' = IF inited THEN ready ELSE up
  /\ todo' = IF ready' THEN MapsOf(ParseReloadScope(scope, hasBody)) ELSE <<>>
  /\ asked' = IF up THEN asked \cup ToSet(MapsOf(scope)) ELSE asked
  /\ UNCHANGED <<dbVars, inited, started, scheme, copy, evidence, judgeVars, sure>>

\* Mutant of getActiveSchemeId: it is asked for once.
ActiveSchemeOnce ==
  /\ todo # <<>> /\ Head(todo) \in OfScheme /\ scheme = Unknown
  /\ LET known == {copy[m][2] : m \in {n \in OfScheme : copy[n] # Empty}}
     IN scheme' \in IF known # {} THEN known
                    ELSE IF up /\ ready /\ Enabled[edition] # {} THEN Enabled[edition] ELSE {Default}
  /\ UNCHANGED <<dbVars, initVars, todo, copy, evidence, judgeVars, asked, sure>>

\* One of the enabled schemes; the statement has no ORDER BY.
getActiveSchemeId ==
  /\ todo # <<>> /\ Head(todo) \in OfScheme /\ scheme = Unknown
  /\ scheme' \in IF up /\ ready /\ Enabled[edition] # {} THEN Enabled[edition] ELSE {Default}
  /\ UNCHANGED <<dbVars, initVars, todo, copy, evidence, judgeVars, asked, sure>>

\* Mutant of Load: the name of the scheme is kept for the next map.
LoadKeepsScheme(m, name) ==
  /\ todo # <<>> /\ Head(todo) = m
  /\ copy' = [copy EXCEPT ![m] = IF up /\ ready THEN <<edition, name>> ELSE Empty]
  /\ todo' = Tail(todo)
  /\ UNCHANGED <<dbVars, initVars, scheme, evidence, judgeVars, asked, sure>>

\* A query that fails gives an empty map, which replaces the one there was.
Load(m, name) ==
  /\ todo # <<>> /\ Head(todo) = m
  /\ copy' = [copy EXCEPT ![m] = IF up /\ ready THEN <<edition, name>> ELSE Empty]
  /\ todo' = Tail(todo) /\ scheme' = Unknown
  /\ UNCHANGED <<dbVars, initVars, evidence, judgeVars, asked, sure>>

LoadOfScheme(m) == scheme # Unknown /\ Load(m, scheme)

getAllTargetInfo == Load("targets", Default)
getAlarmRule == Load("rules", Default)
getAreaInfo == Load("areas", Default)
getTargetInfoFilter == Load("filter", Default)
getAlarmIdentificationRulesSub == LoadOfScheme("subs")
getIdentificationRuleIdsByArea == LoadOfScheme("ids")
getVerificationRuleIdsByArea == LoadOfScheme("verification")
getAreaHandleRulesByArea == LoadOfScheme("handle")
getThreatAssessmentParams == LoadOfScheme("params")
getActiveSchemeProtectAreas == LoadOfScheme("protect")

LoadNext ==
  \/ getActiveSchemeId
  \/ getAllTargetInfo \/ getAlarmRule \/ getAreaInfo \/ getTargetInfoFilter
  \/ getAlarmIdentificationRulesSub \/ getIdentificationRuleIdsByArea
  \/ getVerificationRuleIdsByArea \/ getAreaHandleRulesByArea
  \/ getThreatAssessmentParams \/ getActiveSchemeProtectAreas

\* TrackAlarmThread fetches the filter once per loop (RefreshTargetInfoFilterEachLoop).
RefreshTargetInfoFilter ==
  /\ started
  /\ copy' = [copy EXCEPT !["filter"] = IF up /\ ready THEN <<edition, Default>> ELSE Empty]
  /\ UNCHANGED <<dbVars, initVars, todo, scheme, evidence, judgeVars, asked, sure>>

-----------------------------------------------------------------------------
(* Judging, on the thread that publishes; no lock keeps the maps as they are.  *)

\* Mutant of RulesFor: the rule that raised the alarm only.
OwnRule(a, m) == {RuleOf[a]}

\* The rules bound to the area of the alarm, and the one that raised it.
RulesFor(a, m) ==
  {RuleOf[a]} \cup IF m = Empty THEN {} ELSE {r \in Rules : <<AreaOf[a], r>> \in Bound[m[1]][m[2]]}

\* The rows of r in the copy: only rules that the scheme binds to some area have any.
SubRows(r, m) ==
  IF m # Empty /\ \E x \in Areas : <<x, r>> \in Bound[m[1]][m[2]] THEN Rows[m[1]][r] ELSE {}

\* ruleHasDetectionConstraints
Constrained(rows) == \E w \in rows : w.enabled /\ w.text # "blank"

\* evalOneRowDetectionRules; the photos are looked for in the database.
RowMet(w, found) == w.text = "blank" \/ (w.text = "rules" /\ w.needs \subseteq found)

\* Mutant of RuleMet: any row will do.
AnyRowMet(rows, found) == \E w \in rows : w.enabled /\ RowMet(w, found)

\* evalSingleRuleCriteriaIntersection: all rows of some criterion.
RuleMet(rows, found) ==
  LET on == {w \in rows : w.enabled}
  IN \E c \in {w.criteria : w \in on} : \A w \in on : w.criteria = c => RowMet(w, found)

Found(a) == IF up /\ ready THEN evidence[a] ELSE evidence[a] \ {"optic"}

BeginJudge(a) ==
  /\ started /\ judged = NobodyJudged
  /\ judged' = a /\ ids' = RulesFor(a, copy["ids"])
  /\ sure' = ({"subs", "ids"} \subseteq asked \ ToSet(todo))
  /\ UNCHANGED <<dbVars, loadVars, evidence, verified, asked>>

JudgeByRule(r) ==
  /\ judged # NobodyJudged /\ r \in ids
  /\ LET rows == SubRows(r, copy["subs"])
     IN IF Constrained(rows) /\ RuleMet(rows, Found(judged))
        THEN verified' = verified \cup {judged} /\ ids' = {} /\ judged' = NobodyJudged
        ELSE /\ ids' = ids \ {r} /\ UNCHANGED verified
             /\ judged' = IF ids' = {} THEN NobodyJudged ELSE judged
  /\ UNCHANGED <<dbVars, loadVars, evidence, asked, sure>>

-----------------------------------------------------------------------------
(* The environment *)

EvidenceComes(a, n) ==
  /\ evidence' = [evidence EXCEPT ![a] = @ \cup {n}]
  /\ UNCHANGED <<dbVars, loadVars, judgeVars, asked, sure>>

\* Somebody edits the tables, or the database goes or comes back.
DatabaseChanges ==
  /\ changes < MaxChanges /\ changes' = changes + 1
  /\ \/ edition' \in Editions \ {edition} /\ UNCHANGED up
     \/ up' = ~up /\ UNCHANGED edition
  /\ asked' = {} /\ sure' = FALSE
  /\ UNCHANGED <<loadVars, evidence, judgeVars>>

Next ==
  \/ Boot \/ StartThreads \/ LoadNext \/ RefreshTargetInfoFilter
  \/ \E s \in Scopes, hasBody \in BOOLEAN : UpdateAlarms(s, hasBody)
  \/ \E a \in Alarms : BeginJudge(a) \/ \E n \in Needs : EvidenceComes(a, n)
  \/ \E r \in Rules : JudgeByRule(r)
  \/ DatabaseChanges

\* Threads are loops; main() goes through its boot and finishes every request.
Fairness ==
  /\ WF_vars(Boot) /\ WF_vars(StartThreads) /\ WF_vars(LoadNext)
  /\ \A a \in Alarms : SF_vars(BeginJudge(a))
  /\ \A r \in Rules : WF_vars(JudgeByRule(r))

Spec == Init /\ [][Next]_vars /\ Fairness
-----------------------------------------------------------------------------
TypeOK ==
  /\ up \in BOOLEAN /\ edition \in Editions /\ changes \in 0..MaxChanges
  /\ inited \in BOOLEAN /\ ready \in BOOLEAN /\ (inited => ready) /\ started \in BOOLEAN
  /\ todo = <<"connect">> \/ ToSet(todo) \subseteq Maps
  /\ scheme \in Names \cup {Unknown}
  /\ (scheme # Unknown => todo # <<>> /\ Head(todo) \in OfScheme)
  /\ copy \in [Maps -> (Editions \X Names) \cup {Empty}]
  /\ evidence \in [Alarms -> SUBSET Needs]
  /\ judged \in Alarms \cup {NobodyJudged} /\ ids \subseteq Rules /\ verified \subseteq Alarms
  /\ (ids = {} <=> judged = NobodyJudged)
  /\ asked \subseteq Maps /\ sure \in BOOLEAN

\* The schemes that count at the moment.
Active == IF Enabled[edition] = {} THEN {Default} ELSE Enabled[edition]

\* Once a request has been answered (or the boot is over), each map of the scope it
\* named is what the database holds for an active scheme, unless something changed
\* there since the request came.
ReloadTakesEffect ==
  todo = <<>> => \A m \in asked :
    /\ copy[m] # Empty /\ copy[m][1] = edition
    /\ m \in OfScheme => copy[m][2] \in Active

\* In a configuration that does not change, an alarm is verified only by a rule that
\* the database binds to its area in an active scheme, or by its own rule, with all
\* the evidence that some criterion of the rule wants.
Criteria(r) == {w.criteria : w \in Rows[edition][r]}
Satisfied(r, a) ==
  \E c \in Criteria(r) :
    LET rows == {w \in Rows[edition][r] : w.criteria = c /\ w.enabled}
    IN /\ rows # {}
       /\ \A w \in rows : w.text # "malformed"
       /\ \A w \in rows : w.text = "rules" => w.needs \subseteq evidence[a]
VerifiedAsConfigured ==
  [][\A a \in verified' \ verified :
       sure => \E r \in Rules :
         /\ Satisfied(r, a)
         /\ r = RuleOf[a] \/ \E s \in Active : <<AreaOf[a], r>> \in Bound[edition][s]]_vars

\* Once the configuration in memory is the one of the database for good, an alarm
\* with the evidence is verified, whatever it was judged by before.
VerifiedInTheEnd ==
  \A a \in Alarms, r \in Rules :
    <>[](/\ up /\ {"subs", "ids"} \subseteq asked
         /\ Constrained(Rows[edition][r]) /\ Satisfied(r, a)
         /\ \A s \in Active : <<AreaOf[a], r>> \in Bound[edition][s])
      => <>(a \in verified)
=============================================================================
