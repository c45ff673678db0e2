----------------------------- MODULE AlarmProcess -----------------------------
(***************************************************************************)
(* The life of the process: main() starts the threads one after another,   *)
(* serves requests in its event loop, dies at any time and is started      *)
(* again by systemd (alarmsys.service, Restart=always).  The snapshot      *)
(* thread runs from the middle of the constructor of CustomConfig on.      *)
(* Alarms, filters and rules are in memory; the configuration is in the    *)
(* database, and what TrackManager shows stays when the process dies.      *)
(***************************************************************************)
EXTENDS Naturals

CONSTANTS
  Targets,
  Versions,  \* of the alarm configuration in the database
  MatchedBy, \* the targets the rules of a version may raise
  NoRules    \* an empty map of rules

ASSUME ProcessAssumption ==
  /\ MatchedBy \in [Versions -> SUBSET Targets]
  /\ NoRules \notin Versions

VARIABLES
  main,     \* where the main thread is
  dbInit,   \* m_dbInitSuccess
  ready,    \* m_libpqReady
  rules,    \* the version of m_mapAlarmRule
  areas,    \* and of m_alarmArea
  stub,     \* whether m_stub is set
  snap,     \* where the GrpcSnapshot thread is
  request,  \* the targets of the snapshot it pushes
  stream,   \* the subscription to destroy events
  events,   \* the events under way on it
  filter,   \* targets whose alarms are silenced
  pool,     \* targets with an alarm in m_mapAlarmData
  view,     \* what TrackManager shows
  up,       \* the services that can be reached
  version,  \* the configuration in the database
  raised,   \* history: targets this process has raised
  steady    \* history: no change of the database since the last load began

mainVars == <<main, dbInit, ready, rules, areas>>
snapVars == <<stub, snap, request>>
destroyVars == <<stream, events>>
poolVars == <<filter, pool, raised>>
envVars == <<up, version>>
vars == <<mainVars, snapVars, destroyVars, poolVars, view, envVars, steady>>

Services == {"database", "trackmanager", "tasks"}
DbUp == "database" \in up
Events == Targets \cup {NoRules} \* NoRules: an event of another kind, or malformed

Init ==
  /\ main = "down" /\ dbInit = FALSE /\ ready = FALSE
  /\ rules = NoRules /\ areas = NoRules
  /\ stub = FALSE /\ snap = "off" /\ request = {}
  /\ stream = "off" /\ events = {} /\ filter = {} /\ pool = {} /\ view = {}
  /\ up \in SUBSET Services /\ version \in Versions
  /\ raised = {} /\ steady = FALSE

-----------------------------------------------------------------------------
(* The main thread. *)

\* The first LoadConfig, in the constructor: the snapshot thread starts.
Construct ==
  /\ main = "down" /\ main' = "connect"
  /\ stub' = FALSE /\ snap' = "idle" /\ request' = {}
  /\ UNCHANGED <<dbInit, ready, rules, areas, destroyVars, poolVars, view, envVars, steady>>

\* initDatabase, in the constructor and once more in main().
InitDatabase(here, next) ==
  /\ main = here /\ main' = next
  /\ dbInit' = DbUp /\ ready' = DbUp
  /\ steady' = IF here = "connect" THEN DbUp ELSE steady
  /\ UNCHANGED <<rules, areas, snapVars, destroyVars, poolVars, view, envVars>>

\* A query that fails returns no rows.
Query == IF ready /\ DbUp THEN version ELSE NoRules

LoadRules(here, next) ==
  /\ main = here /\ main' = next
  /\ rules' = Query
  /\ UNCHANGED <<dbInit, ready, areas, snapVars, destroyVars, poolVars, view, envVars, steady>>

LoadAreas(here, next) ==
  /\ main = here /\ main' = next
  /\ areas' = Query
  /\ UNCHANGED <<dbInit, ready, rules, snapVars, destroyVars, poolVars, view, envVars, steady>>

\* The second LoadConfig resets the channel that the snapshot thread may be using.
Configure ==
  /\ main = "configure" /\ main' = "reconnect"
  /\ stub' = FALSE
  /\ UNCHANGED <<dbInit, ready, rules, areas, snap, request,
                 destroyVars, poolVars, view, envVars, steady>>

\* The remaining threads start, the destroy subscriber among them.
StartThreads ==
  /\ main = "start" /\ main' = "serving"
  /\ stream' = "waiting"
  /\ UNCHANGED <<dbInit, ready, rules, areas, snapVars, events, poolVars, view, envVars, steady>>

\* Mutant of BeginReload: the database is not initialised again.
ReloadWithoutInit ==
  /\ main = "serving"
  /\ main' = IF dbInit THEN "rules" ELSE "serving"
  /\ steady' = DbUp
  /\ UNCHANGED <<dbInit, ready, rules, areas, snapVars, destroyVars, poolVars, view, envVars>>

\* /api/alarms/update: a database that was not there is initialised, but
\* m_dbInitSuccess is not set.
BeginReload ==
  /\ main = "serving"
  /\ main' = IF dbInit \/ DbUp THEN "rules" ELSE "serving"
  /\ ready' = IF dbInit THEN ready ELSE DbUp
  /\ steady' = DbUp
  /\ UNCHANGED <<dbInit, rules, areas, snapVars, destroyVars, poolVars, view, envVars>>

MainStep ==
  \/ Construct
  \/ InitDatabase("connect", "load")
  \/ LoadRules("load", "loadAreas")
  \/ LoadAreas("loadAreas", "configure")
  \/ Configure
  \/ InitDatabase("reconnect", "start")
  \/ StartThreads
  \/ LoadRules("rules", "areas")
  \/ LoadAreas("areas", "serving")

-----------------------------------------------------------------------------
(* The GrpcSnapshot thread. *)

\* ensureChannel, then the message is built.
BuildSnapshot ==
  /\ snap = "idle" /\ snap' = "building"
  /\ stub' = TRUE
  /\ request' = pool \ filter
  /\ UNCHANGED <<mainVars, destroyVars, poolVars, view, envVars, steady>>

CallRpc ==
  /\ snap = "building" /\ stub /\ snap' = "calling"
  /\ UNCHANGED <<mainVars, stub, request, destroyVars, poolVars, view, envVars, steady>>

\* Mutant of RpcReturns: an empty snapshot is not sent.
RpcReturnsNonEmpty ==
  /\ snap = "calling" /\ "trackmanager" \in up /\ snap' = "idle"
  /\ view' = IF request = {} THEN view ELSE request
  /\ UNCHANGED <<mainVars, stub, request, destroyVars, poolVars, envVars, steady>>

RpcReturns ==
  /\ snap = "calling" /\ "trackmanager" \in up /\ snap' = "idle"
  /\ view' = request
  /\ UNCHANGED <<mainVars, stub, request, destroyVars, poolVars, envVars, steady>>

\* After an error TrackManager may have taken the snapshot, and the channel is rebuilt;
\* or it answers that it refuses the snapshot.
RpcFails ==
  /\ snap = "calling" /\ snap' = "idle"
  /\ \/ stub' = FALSE /\ view' \in {view, request}
     \/ "trackmanager" \in up /\ UNCHANGED <<stub, view>>
  /\ UNCHANGED <<mainVars, request, destroyVars, poolVars, envVars, steady>>

-----------------------------------------------------------------------------
(* The destroy subscriber. *)

Subscribe ==
  /\ stream = "waiting" /\ "tasks" \in up /\ stream' = "up"
  /\ events' = {}
  /\ UNCHANGED <<mainVars, snapVars, poolVars, view, envVars, steady>>

EventSent(e) ==
  /\ stream = "up"
  /\ events' = events \cup {e}
  /\ UNCHANGED <<mainVars, snapVars, stream, poolVars, view, envVars, steady>>

AddAlarmFilter(t) ==
  /\ filter' = filter \cup {t}
  /\ pool' = pool \ {t}

\* Mutant of HandleDestroyEvent: one event is taken, the others are dropped.
HandleLatest(e) ==
  /\ stream = "up" /\ e \in events
  /\ events' = {}
  /\ IF e \in Targets THEN AddAlarmFilter(e) ELSE UNCHANGED <<filter, pool>>
  /\ UNCHANGED <<mainVars, snapVars, stream, raised, view, envVars, steady>>

\* An event of another kind, or with an invalid id, is left aside.
HandleDestroyEvent(e) ==
  /\ stream = "up" /\ e \in events
  /\ events' = events \ {e}
  /\ IF e \in Targets THEN AddAlarmFilter(e) ELSE UNCHANGED <<filter, pool>>
  /\ UNCHANGED <<mainVars, snapVars, stream, raised, view, envVars, steady>>

\* Mutant of StreamEnds: what was under way is read later.
StreamEndsUncleared ==
  /\ stream = "up" /\ stream' = "waiting"
  /\ UNCHANGED <<mainVars, snapVars, events, poolVars, view, envVars, steady>>

\* With an error or in good order: the thread subscribes again after 3 s, and
\* what was under way is lost.
StreamEnds ==
  /\ stream = "up" /\ stream' = "waiting"
  /\ events' = {}
  /\ UNCHANGED <<mainVars, snapVars, poolVars, view, envVars, steady>>

-----------------------------------------------------------------------------
(* TrackAlarmThread (AlarmPool has it in detail) and requests. *)

Serving == main \in {"serving", "rules", "areas"}

Raise(t) ==
  /\ Serving /\ rules \in Versions /\ t \in MatchedBy[rules] \ filter
  /\ pool' = pool \cup {t} /\ raised' = raised \cup {t}
  /\ UNCHANGED <<mainVars, snapVars, destroyVars, filter, view, envVars, steady>>

Prune(t) ==
  /\ Serving /\ t \in pool
  /\ pool' = pool \ {t}
  /\ UNCHANGED <<mainVars, snapVars, destroyVars, filter, raised, view, envVars, steady>>

FilterLapses(t) ==
  /\ t \in filter
  /\ filter' = filter \ {t}
  /\ UNCHANGED <<mainVars, snapVars, destroyVars, pool, raised, view, envVars, steady>>

\* POST /api/alarm_filter.
FilterRequest(t) ==
  /\ main = "serving"
  /\ AddAlarmFilter(t)
  /\ UNCHANGED <<mainVars, snapVars, destroyVars, raised, view, envVars, steady>>

-----------------------------------------------------------------------------
(* The process dies; services come and go, the configuration changes. *)

Die ==
  /\ main' = "down"
  /\ dbInit' = FALSE /\ ready' = FALSE /\ rules' = NoRules /\ areas' = NoRules
  /\ stub' = FALSE /\ snap' = "off" /\ request' = {}
  /\ stream' = "off" /\ events' = {}
  /\ filter' = {} /\ pool' = {} /\ raised' = {} /\ steady' = FALSE
  /\ UNCHANGED <<view, envVars>>

Crash == main # "down" /\ Die

\* m_stub was reset between ensureChannel and the end of the call: the thread uses
\* a null or deleted stub.  (A call that has begun may also go on.)
UseResetStub == snap \in {"building", "calling"} /\ ~stub /\ Die

Reconfigured ==
  /\ version' \in Versions \ {version}
  /\ steady' = FALSE
  /\ UNCHANGED <<mainVars, snapVars, destroyVars, poolVars, view, up>>

ServiceChanges(s) ==
  /\ up' = IF s \in up THEN up \ {s} ELSE up \cup {s}
  /\ steady' = (steady /\ s # "database")
  /\ UNCHANGED <<mainVars, snapVars, destroyVars, poolVars, view, version>>

Next ==
  \/ MainStep \/ BeginReload
  \/ BuildSnapshot \/ CallRpc \/ RpcReturns \/ RpcFails
  \/ Subscribe \/ StreamEnds
  \/ \E e \in Events : EventSent(e) \/ HandleDestroyEvent(e)
  \/ \E t \in Targets : Raise(t) \/ Prune(t) \/ FilterLapses(t) \/ FilterRequest(t)
  \/ Crash \/ UseResetStub \/ Reconfigured
  \/ \E s \in Services : ServiceChanges(s)

\* systemd starts the process again; the threads are loops; a peer that answers
\* again and again answers one call in the end.
Fairness ==
  /\ WF_vars(MainStep)
  /\ WF_vars(BuildSnapshot) /\ WF_vars(CallRpc) /\ WF_vars(RpcFails) /\ SF_vars(RpcReturns)
  /\ WF_vars(UseResetStub)
  /\ WF_vars(Subscribe)
  /\ \A e \in Events : WF_vars(HandleDestroyEvent(e))

Spec == Init /\ [][Next]_vars /\ Fairness
-----------------------------------------------------------------------------
TypeOK ==
  /\ main \in {"down", "connect", "load", "loadAreas", "configure", "reconnect",
               "start", "serving", "rules", "areas"}
  /\ dbInit \in BOOLEAN /\ ready \in BOOLEAN
  /\ rules \in Versions \cup {NoRules} /\ areas \in Versions \cup {NoRules}
  /\ stub \in BOOLEAN /\ snap \in {"off", "idle", "building", "calling"}
  /\ (snap = "off" <=> main = "down")
  /\ request \subseteq Targets
  /\ stream \in {"off", "waiting", "up"} /\ (stream # "off" <=> Serving)
  /\ events \subseteq Events /\ (stream # "up" => events = {})
  /\ filter \subseteq Targets /\ pool \subseteq raised /\ raised \subseteq Targets
  /\ view \subseteq Targets
  /\ up \subseteq Services /\ version \in Versions /\ steady \in BOOLEAN

\* Once a load or reload has begun while the database could be reached, and as long
\* as nothing changes there, the engine works with its rules and areas: whether the
\* process was started with the database or before it.
ReloadedIsCurrent == main = "serving" /\ steady => rules = version /\ areas = version

\* What the process showed before it died leaves TrackManager: in the end it shows
\* only targets that the present process has raised.
OldAlarmsLeave ==
  <>[](main # "down" /\ "trackmanager" \in up) => <>[](view \subseteq raised)

\* A destroy event that arrives on the stream silences its target unless the stream
\* breaks first, however many arrive at once.
DestroyedIsSilenced ==
  \A t \in Targets : t \in events ~> (t \in filter \/ stream # "up")
=============================================================================
