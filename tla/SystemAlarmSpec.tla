--------------------------- MODULE SystemAlarmSpec ---------------------------
(***************************************************************************)
(* What the system alarm service promises its callers: a pool of active    *)
(* alarms on which every call takes effect at one instant between its      *)
(* arrival and its answer.  A report replaces the alarm of that id, a      *)
(* cancel takes it out, a query returns all active alarms it selects, as   *)
(* they are together at that instant.  SystemAlarm implements it.          *)
(***************************************************************************)
CONSTANTS Callers, Requests, NoRequest, NoAnswer, Empty, Unspecified, AnyLevel

VARIABLES active, request, answer

vars == <<active, request, answer>>

Init ==
  /\ active = {}
  /\ request = [c \in Callers |-> NoRequest]
  /\ answer = [c \in Callers |-> NoAnswer]

Legal(r) ==
  /\ r.op # "list" => r.alarm_id # Empty /\ r.system_id # Empty /\ r.fields = "complete"
  /\ r.op = "report" => r.alarm_kind # Unspecified

Alarm(r) ==
  [alarm_id |-> r.alarm_id, system_id |-> r.system_id,
   alarm_kind |-> r.alarm_kind, level |-> r.level]

Without(id) == {a \in active : a.alarm_id # id}

Selected(r) ==
  {a \in active : /\ r.system_id \in {Empty, a.system_id}
                  /\ r.alarm_kind \in {Unspecified, a.alarm_kind}
                  /\ r.level \in {AnyLevel, a.level}}

Call(c, r) ==
  /\ request[c] = NoRequest
  /\ request' = [request EXCEPT ![c] = r]
  /\ UNCHANGED <<active, answer>>

Answer(c, message, alarms) ==
  /\ answer[c] = NoAnswer
  /\ answer' = [answer EXCEPT ![c] = [message |-> message, alarms |-> alarms]]
  /\ UNCHANGED request

Perform(c) ==
  /\ request[c] # NoRequest
  /\ \/ /\ ~Legal(request[c])
        /\ Answer(c, "invalid_param", {}) /\ UNCHANGED active
     \/ /\ Legal(request[c]) /\ request[c].op = "report"
        /\ Answer(c, "ok", {})
        /\ active' = Without(request[c].alarm_id) \cup {Alarm(request[c])}
     \/ /\ Legal(request[c]) /\ request[c].op = "cancel"
        /\ Answer(c, IF Without(request[c].alarm_id) = active THEN "not_found" ELSE "ok", {})
        /\ active' = Without(request[c].alarm_id)
     \/ /\ request[c].op = "list"
        /\ Answer(c, "ok", Selected(request[c])) /\ UNCHANGED active

Respond(c) ==
  /\ answer[c] # NoAnswer
  /\ request' = [request EXCEPT ![c] = NoRequest]
  /\ answer' = [answer EXCEPT ![c] = NoAnswer]
  /\ UNCHANGED active

Next ==
  \E c \in Callers :
    \/ \E r \in Requests : Call(c, r)
    \/ Perform(c)
    \/ Respond(c)

Spec == Init /\ [][Next]_vars
=============================================================================
