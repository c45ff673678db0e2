---------------------------- MODULE MCSystemAlarm ----------------------------
(* A small instance of SystemAlarm for TLC: two alarm ids of two systems. *)
EXTENDS SystemAlarm

Report1(id, sys, level) ==
  [op |-> "report", alarm_id |-> id, system_id |-> sys, alarm_kind |-> "TASK",
   level |-> level, fields |-> "complete"]
Cancel1(id) ==
  [op |-> "cancel", alarm_id |-> id, system_id |-> "sys-001", alarm_kind |-> Unspecified,
   level |-> AnyLevel, fields |-> "complete"]
List1(sys, level) ==
  [op |-> "list", alarm_id |-> Empty, system_id |-> sys, alarm_kind |-> Unspecified,
   level |-> level, fields |-> "complete"]

SomeRequests ==
  {Report1("a", "sys-001", 0), Report1("a", "sys-001", 2), Report1("b", "sys-002", 0),
   Cancel1("a"), Cancel1("b"), List1(Empty, AnyLevel), List1("sys-001", AnyLevel), List1(Empty, 0),
   [Cancel1("a") EXCEPT !.fields = "missing"],
   [Report1("a", "sys-001", 0) EXCEPT !.alarm_kind = Unspecified]}
=============================================================================
