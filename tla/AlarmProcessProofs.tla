-------------------------- MODULE AlarmProcessProofs --------------------------
(* Proofs about AlarmProcess, for any targets and any versions of the rules. *)
EXTENDS AlarmProcess, TLAPS

-----------------------------------------------------------------------------
(* Types. *)

LEMMA QueryType == ASSUME TypeOK PROVE Query \in Versions \cup {NoRules}
BY DEF TypeOK, Query

LEMMA MainTypes == TypeOK /\ MainStep => TypeOK'
<1> SUFFICES ASSUME TypeOK, MainStep PROVE TypeOK'
  OBVIOUS
<1> USE DEF TypeOK, mainVars, snapVars, destroyVars, poolVars, envVars, Serving
<1>1. CASE Construct
  BY <1>1 DEF Construct
<1>2. CASE InitDatabase("connect", "load")
  BY <1>2 DEF InitDatabase, DbUp
<1>3. CASE LoadRules("load", "loadAreas")
  BY <1>3, QueryType DEF LoadRules
<1>4. CASE LoadAreas("loadAreas", "configure")
  BY <1>4, QueryType DEF LoadAreas
<1>5. CASE Configure
  BY <1>5 DEF Configure
<1>6. CASE InitDatabase("reconnect", "start")
  BY <1>6 DEF InitDatabase, DbUp
<1>7. CASE StartThreads
  BY <1>7 DEF StartThreads
<1>8. CASE LoadRules("rules", "areas")
  BY <1>8, QueryType DEF LoadRules
<1>9. CASE LoadAreas("areas", "serving")
  BY <1>9, QueryType DEF LoadAreas
<1>10. QED
  BY <1>1, <1>2, <1>3, <1>4, <1>5, <1>6, <1>7, <1>8, <1>9 DEF MainStep

LEMMA SnapshotTypes ==
  TypeOK /\ (BuildSnapshot \/ CallRpc \/ RpcReturns \/ RpcFails) => TypeOK'
BY DEF TypeOK, BuildSnapshot, CallRpc, RpcReturns, RpcFails,
       mainVars, snapVars, destroyVars, poolVars, envVars, Serving

LEMMA StreamTypes ==
  ASSUME TypeOK,
         \/ Subscribe \/ StreamEnds
         \/ \E e \in Events : EventSent(e) \/ HandleDestroyEvent(e)
  PROVE  TypeOK'
<1> USE DEF TypeOK, mainVars, snapVars, destroyVars, poolVars, envVars, Serving
<1>1. CASE Subscribe \/ StreamEnds
  BY <1>1 DEF Subscribe, StreamEnds
<1>2. CASE \E e \in Events : EventSent(e)
  BY <1>2 DEF EventSent
<1>3. CASE \E e \in Events : HandleDestroyEvent(e)
  BY <1>3 DEF HandleDestroyEvent, AddAlarmFilter
<1>4. QED
  BY <1>1, <1>2, <1>3

LEMMA TargetTypes ==
  ASSUME TypeOK,
         \E t \in Targets : Raise(t) \/ Prune(t) \/ FilterLapses(t) \/ FilterRequest(t)
  PROVE  TypeOK'
<1> USE DEF TypeOK, mainVars, snapVars, destroyVars, poolVars, envVars, Serving
<1> PICK t \in Targets : Raise(t) \/ Prune(t) \/ FilterLapses(t) \/ FilterRequest(t)
  OBVIOUS
<1>1. CASE Raise(t)
  BY <1>1, ProcessAssumption DEF Raise
<1>2. CASE Prune(t) \/ FilterLapses(t)
  BY <1>2 DEF Prune, FilterLapses
<1>3. CASE FilterRequest(t)
  BY <1>3 DEF FilterRequest, AddAlarmFilter
<1>4. QED
  BY <1>1, <1>2, <1>3

LEMMA WorldTypes ==
  ASSUME TypeOK,
         \/ BeginReload \/ Crash \/ UseResetStub \/ Reconfigured
         \/ \E s \in Services : ServiceChanges(s)
  PROVE  TypeOK'
<1> USE DEF TypeOK, mainVars, snapVars, destroyVars, poolVars, envVars, Serving
<1>1. CASE BeginReload
  <2>1. ready' \in BOOLEAN /\ steady' \in BOOLEAN
    <3>1. steady' = DbUp /\ (ready' = ready \/ ready' = DbUp)
      BY <1>1, Zenon DEF BeginReload
    <3>2. DbUp \in BOOLEAN
      BY DEF DbUp
    <3>3. QED
      BY <3>1, <3>2, Zenon
  <2>2. main = "serving" /\ main' \in {"serving", "rules"}
    BY <1>1, Zenon DEF BeginReload
  <2>3. UNCHANGED <<dbInit, rules, areas, snapVars, destroyVars, poolVars, view, envVars>>
    BY <1>1, Zenon DEF BeginReload
  <2>4. QED
    BY <2>1, <2>2, <2>3
<1>2. CASE Crash \/ UseResetStub
  BY <1>2 DEF Crash, UseResetStub, Die
<1>3. CASE Reconfigured
  BY <1>3 DEF Reconfigured
<1>4. CASE \E s \in Services : ServiceChanges(s)
  BY <1>4 DEF ServiceChanges
<1>5. QED
  BY <1>1, <1>2, <1>3, <1>4

\* The type invariant: the streams and threads exist exactly while the process does,
\* and every alarm in memory is of a target that this process has raised.
THEOREM ProcessTypeCorrect == Spec => []TypeOK
<1>1. Init => TypeOK
  BY ProcessAssumption DEF Init, TypeOK, Serving
<1>2. TypeOK /\ [Next]_vars => TypeOK'
  <2> SUFFICES ASSUME TypeOK, [Next]_vars PROVE TypeOK'
    OBVIOUS
  <2>1. CASE Next
    BY <2>1, MainTypes, SnapshotTypes, StreamTypes, TargetTypes, WorldTypes DEF Next
  <2>2. CASE UNCHANGED vars
    BY <2>2 DEF TypeOK, vars, mainVars, snapVars, destroyVars, poolVars, envVars, Serving
  <2>3. QED
    BY <2>1, <2>2
<1>3. QED
  BY <1>1, <1>2, PTL DEF Spec

-----------------------------------------------------------------------------
(* Loads.  While nothing has changed since a load began, what it has read so *)
(* far is what the database holds, and its queries have been and will be     *)
(* answered: m_dbInitSuccess implies that libpq is ready.                    *)

Past == {"load", "loadAreas", "configure", "reconnect", "start", "serving", "rules", "areas"}

LoadInv ==
  /\ dbInit => ready
  /\ steady =>
       /\ DbUp /\ ready /\ main \in Past
       /\ main \notin {"load", "rules"} => rules = version
       /\ main \notin {"load", "loadAreas", "rules", "areas"} => areas = version

LEMMA MainLoads == TypeOK /\ LoadInv /\ MainStep => LoadInv'
<1> SUFFICES ASSUME TypeOK, LoadInv, MainStep PROVE LoadInv'
  OBVIOUS
<1> USE DEF LoadInv, Past, DbUp, mainVars, envVars
<1>1. CASE Construct
  BY <1>1 DEF Construct
<1>2. CASE InitDatabase("connect", "load") \/ InitDatabase("reconnect", "start")
  BY <1>2 DEF InitDatabase
<1>3. CASE LoadRules("load", "loadAreas") \/ LoadRules("rules", "areas")
  BY <1>3 DEF LoadRules, Query
<1>4. CASE LoadAreas("loadAreas", "configure") \/ LoadAreas("areas", "serving")
  BY <1>4 DEF LoadAreas, Query
<1>5. CASE Configure \/ StartThreads
  BY <1>5 DEF Configure, StartThreads
<1>6. QED
  BY <1>1, <1>2, <1>3, <1>4, <1>5 DEF MainStep

LEMMA NextLoads == TypeOK /\ LoadInv /\ [Next]_vars => LoadInv'
<1> SUFFICES ASSUME TypeOK, LoadInv, [Next]_vars PROVE LoadInv'
  OBVIOUS
<1>1. CASE MainStep
  BY <1>1, MainLoads
<1>2. CASE BeginReload
  BY <1>2 DEF BeginReload, LoadInv, Past, DbUp, envVars, TypeOK
<1>3. CASE Crash \/ UseResetStub
  BY <1>3 DEF Crash, UseResetStub, Die, LoadInv
<1>4. CASE Reconfigured
  BY <1>4 DEF Reconfigured, LoadInv, mainVars
<1>5. CASE \E s \in Services : ServiceChanges(s)
  <2> PICK s \in Services : ServiceChanges(s)
    BY <1>5
  <2>1. UNCHANGED <<mainVars, version>> /\ (steady' => steady /\ s # "database")
    BY Zenon DEF ServiceChanges
  <2>2. s # "database" => (DbUp <=> DbUp')
    BY DEF ServiceChanges, DbUp
  <2>3. QED
    BY <2>1, <2>2 DEF LoadInv, mainVars
<1>6. CASE UNCHANGED <<mainVars, envVars, steady>>
  BY <1>6 DEF LoadInv, DbUp, mainVars, envVars
<1>7. ASSUME \/ BuildSnapshot \/ CallRpc \/ RpcReturns \/ RpcFails
             \/ Subscribe \/ StreamEnds
             \/ \E e \in Events : EventSent(e) \/ HandleDestroyEvent(e)
             \/ \E t \in Targets : Raise(t) \/ Prune(t) \/ FilterLapses(t) \/ FilterRequest(t)
      PROVE  UNCHANGED <<mainVars, envVars, steady>>
  BY <1>7 DEF BuildSnapshot, CallRpc, RpcReturns, RpcFails, Subscribe, StreamEnds, EventSent,
       HandleDestroyEvent, Raise, Prune, FilterLapses, FilterRequest, mainVars, envVars
<1>8. CASE UNCHANGED vars
  BY <1>6, <1>8 DEF vars
<1>9. QED
  BY <1>1, <1>2, <1>3, <1>4, <1>5, <1>6, <1>7, <1>8 DEF Next

\* However the process found the database when it started, and however often it has
\* died since: after a load or reload that met no change, the rules are the database's.
THEOREM ReloadCorrect == Spec => []ReloadedIsCurrent
<1>1. Init => LoadInv
  BY DEF Init, LoadInv
<1>2. LoadInv => ReloadedIsCurrent
  BY DEF LoadInv, ReloadedIsCurrent
<1>3. QED
  BY <1>1, <1>2, NextLoads, ProcessTypeCorrect, PTL DEF Spec
=============================================================================
