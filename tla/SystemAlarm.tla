----------------------------- MODULE SystemAlarm -----------------------------
(***************************************************************************)
(* The system alarm service: gRPC threads serve ReportAlarm, CancelAlarm   *)
(* and GetActiveAlarms on the one SystemAlarmStore.  Parameters are        *)
(* checked before the store's mutex is taken; a query holds the mutex      *)
(* while it copies the alarms one by one.  A caller is a call being        *)
(* served: a client that gave up and calls again is another caller.        *)
(* Descriptions, entities and times are left out (a time or description    *)
(* that must be there is part of "fields"); canceled_time_ms of a stored   *)
(* alarm is always 0.                                                      *)
(***************************************************************************)
EXTENDS FiniteSets

CONSTANTS
  Callers,     \* calls that are served at the same time
  AlarmIds, Systems, Kinds, Levels,
  Empty,       \* the empty string
  Unspecified, \* ALARM_KIND_UNSPECIFIED
  AnyLevel,    \* level_filter_set = false
  Requests,    \* the requests a client may send (bound)
  NoRequest, NoAnswer, Nobody

VARIABLES
  active,  \* m_active
  request, \* the request each caller is served with
  answer,  \* its response, once it is filled in
  holder,  \* who holds m_mutex across steps
  left,    \* alarms the loop of listActive has not come to
  out      \* alarms it has copied

vars == <<active, request, answer, holder, left, out>>

Item == [alarm_id : AlarmIds, system_id : Systems, alarm_kind : Kinds, level : Levels]
Request ==
  [op : {"report", "cancel", "list"},
   alarm_id : AlarmIds \cup {Empty}, system_id : Systems \cup {Empty},
   alarm_kind : Kinds \cup {Unspecified}, level : Levels \cup {AnyLevel},
   fields : {"complete", "missing"}]
AnswerType == [message : {"ok", "not_found", "invalid_param"}, alarms : SUBSET Item]

ASSUME RequestAssumption ==
  /\ Requests \subseteq Request
  /\ \A r \in Requests : r.op = "report" => r.level \in Levels
  /\ Empty \notin AlarmIds \cup Systems /\ Unspecified \notin Kinds /\ AnyLevel \notin Levels
  /\ NoRequest \notin Requests /\ NoAnswer \notin AnswerType /\ Nobody \notin Callers

Init ==
  /\ active = {}
  /\ request = [c \in Callers |-> NoRequest]
  /\ answer = [c \in Callers |-> NoAnswer]
  /\ holder = Nobody /\ left = {} /\ out = {}

-----------------------------------------------------------------------------
Serving(c, op) == request[c] # NoRequest /\ answer[c] = NoAnswer /\ request[c].op = op

Reply(c, message, alarms) ==
  answer' = [answer EXCEPT ![c] = [message |-> message, alarms |-> alarms]]

\* A call arrives and gets a thread of the server.
Call(c, r) ==
  /\ request[c] = NoRequest
  /\ request' = [request EXCEPT ![c] = r]
  /\ UNCHANGED <<active, answer, holder, left, out>>

\* The checks of report and cancel.
MissingField(r) == r.alarm_id = Empty \/ r.system_id = Empty \/ r.fields = "missing"
InvalidReport(r) == MissingField(r) \/ r.alarm_kind = Unspecified

RefuseReport(c) ==
  /\ Serving(c, "report") /\ InvalidReport(request[c])
  /\ Reply(c, "invalid_param", {})
  /\ UNCHANGED <<active, request, holder, left, out>>

RefuseCancel(c) ==
  /\ Serving(c, "cancel") /\ MissingField(request[c])
  /\ Reply(c, "invalid_param", {})
  /\ UNCHANGED <<active, request, holder, left, out>>

Stored(r) ==
  [alarm_id |-> r.alarm_id, system_id |-> r.system_id,
   alarm_kind |-> r.alarm_kind, level |-> r.level]

\* Mutant: a report is added to the pool, whether or not the id is there.
ReportAppended(c) ==
  /\ Serving(c, "report") /\ ~InvalidReport(request[c])
  /\ holder = Nobody
  /\ active' = active \cup {Stored(request[c])}
  /\ Reply(c, "ok", {})
  /\ UNCHANGED <<request, holder, left, out>>

Report(c) ==
  /\ Serving(c, "report") /\ ~InvalidReport(request[c])
  /\ holder = Nobody
  /\ active' = {a \in active : a.alarm_id # request[c].alarm_id} \cup {Stored(request[c])}
  /\ Reply(c, "ok", {})
  /\ UNCHANGED <<request, holder, left, out>>

\* Mutant: only the system that reported an alarm can cancel it.
CancelOwn(c) ==
  /\ Serving(c, "cancel") /\ ~MissingField(request[c])
  /\ holder = Nobody
  /\ LET found == {a \in active : /\ a.alarm_id = request[c].alarm_id
                                 /\ a.system_id = request[c].system_id}
     IN /\ active' = active \ found
        /\ Reply(c, IF found = {} THEN "not_found" ELSE "ok", {})
  /\ UNCHANGED <<request, holder, left, out>>

\* The system of the caller need not be that of the report.
Cancel(c) ==
  /\ Serving(c, "cancel") /\ ~MissingField(request[c])
  /\ holder = Nobody
  /\ LET found == {a \in active : a.alarm_id = request[c].alarm_id}
     IN /\ active' = active \ found
        /\ Reply(c, IF found = {} THEN "not_found" ELSE "ok", {})
  /\ UNCHANGED <<request, holder, left, out>>

BeginList(c) ==
  /\ Serving(c, "list") /\ holder = Nobody
  /\ holder' = c /\ left' = active /\ out' = {}
  /\ UNCHANGED <<active, request, answer>>

\* Whether a filter of the query passes over the alarm.
Filtered(r, a) ==
  \/ r.system_id # Empty /\ a.system_id # r.system_id
  \/ r.alarm_kind # Unspecified /\ a.alarm_kind # r.alarm_kind
  \/ r.level # AnyLevel /\ a.level # r.level

Visit(c, a) ==
  /\ holder = c /\ a \in left
  /\ left' = left \ {a}
  /\ out' = IF Filtered(request[c], a) THEN out ELSE out \cup {a}
  /\ UNCHANGED <<active, request, answer, holder>>

EndList(c) ==
  /\ holder = c /\ left = {}
  /\ Reply(c, "ok", out)
  /\ holder' = Nobody /\ out' = {}
  /\ UNCHANGED <<active, request, left>>

\* The response goes out; or nobody waits for it any more.
Respond(c) ==
  /\ answer[c] # NoAnswer
  /\ request' = [request EXCEPT ![c] = NoRequest]
  /\ answer' = [answer EXCEPT ![c] = NoAnswer]
  /\ UNCHANGED <<active, holder, left, out>>

Handle(c) ==
  \/ RefuseReport(c) \/ Report(c)
  \/ RefuseCancel(c) \/ Cancel(c)
  \/ BeginList(c) \/ (\E a \in left : Visit(c, a)) \/ EndList(c)
  \/ Respond(c)

Next == \E c \in Callers : Handle(c) \/ \E r \in Requests : Call(c, r)

Spec == Init /\ [][Next]_vars

-----------------------------------------------------------------------------
(* Properties *)

\* The pool holds well-formed alarms, one per id, although reports of one id are
\* served at the same time.
TypeOK ==
  /\ active \subseteq Item
  /\ \A a, b \in active : a.alarm_id = b.alarm_id => a = b
  /\ request \in [Callers -> Requests \cup {NoRequest}]
  /\ answer \in [Callers -> AnswerType \cup {NoAnswer}]
  /\ holder \in Callers \cup {Nobody}
  /\ left \subseteq Item /\ out \subseteq Item

\* The answer of a query is complete for the pool it was read from: what is copied
\* and what is still to come are the pool, which stands still meanwhile.
ListInv ==
  IF holder = Nobody
  THEN left = {} /\ out = {}
  ELSE /\ Serving(holder, "list")
       /\ left \subseteq active
       /\ out = {a \in active \ left : ~Filtered(request[holder], a)}

Promise == INSTANCE SystemAlarmSpec
  WITH active <- active, request <- request, answer <- answer

\* Every call takes effect at one instant: the service implements the pool of
\* SystemAlarmSpec, whose queries see all of the pool at once.
Linearizable == Promise!Spec
=============================================================================
