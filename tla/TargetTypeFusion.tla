-------------------------- MODULE TargetTypeFusion --------------------------
(***************************************************************************)
(* TargetTypeFusionThread: every 5 s it judges the type of each active     *)
(* target from its row of cognitive_results_comprehensive, stores the      *)
(* judgement in that row, and tells TrackManager (UpdateTargetType) when   *)
(* the type of the track is not equivalent to it.  The rows are fetched    *)
(* once per cycle; the cognitive service and TrackManager go on writing    *)
(* them.  Types are normalised tokens; only "llm" judges, because a row    *)
(* without an llm type is skipped before fuseTargetTypes sees it.          *)
(***************************************************************************)
EXTENDS Naturals, FiniteSets

CONSTANTS
  Ids,          \* unique ids of targets
  Recognised,   \* those whose row the other services write
  TargetTypes,  \* type tokens
  None,         \* the empty string
  Family,       \* coarseFamily of a token
  ShipSubtypes, \* tokens of the ship family other than "ship"
  Allowed,      \* kAllowedTargetTypes
  MayFail       \* whether statements and RPCs may fail

ASSUME TypesAssumption ==
  /\ Recognised \subseteq Ids
  /\ None \notin TargetTypes
  /\ Allowed \subseteq TargetTypes /\ ShipSubtypes \subseteq TargetTypes
  /\ DOMAIN Family = TargetTypes
  /\ MayFail \in BOOLEAN

VARIABLES
  dbInit,  \* m_dbInitSuccess; main sets it once, before the thread starts
  tracked, \* unique ids in m_mapFuseTrack and m_mapBirdFuseTrack
  row,     \* the database row of a target
  pushed,  \* m_lastGrpcPushedType
  told,    \* the type TrackManager last took for a target
  phase,   \* where processOnce is
  batch,   \* activeUniqueIds, as collected at the start of the cycle
  todo,    \* fetched rows not yet judged
  cur      \* the fetched row in the gRPC step

fusionVars == <<dbInit, tracked, row, pushed, told, phase, batch, todo, cur>>

Maybe == TargetTypes \cup {None}
Row == [track : Maybe, llm : Maybe, final : Maybe, source : {"llm", None}]
Fetched == [id : Ids, track : Maybe, llm : Maybe, final : Maybe, source : {"llm", None}]

FusionInit ==
  /\ dbInit \in BOOLEAN
  /\ tracked = {} /\ batch = {} /\ todo = {} /\ cur = {}
  /\ row = [i \in Ids |-> [track |-> None, llm |-> None, final |-> None, source |-> None]]
  /\ pushed = [i \in Ids |-> None] /\ told = [i \in Ids |-> None]
  /\ phase = "idle"

-----------------------------------------------------------------------------
(* TargetTypeFusionLogic *)

CoarseEquals(a, b) == Family[a] = Family[b]

\* shouldPushTargetTypeGrpc.
ShouldPush(track, judged) ==
  /\ track # judged
  /\ track # None /\ CoarseEquals(track, judged) => {track, judged} \cap ShipSubtypes # {}

\* Mutant: only a missing source is a reason to store.
NeedsFirstUpdate(f) == f.source # "llm"

NeedsDbUpdate(f) == f.source # "llm" \/ f.final # f.llm
NeedsGrpcPush(f) == ShouldPush(f.track, f.llm)
HasWork(f) == f.llm # None /\ (NeedsDbUpdate(f) \/ NeedsGrpcPush(f))

-----------------------------------------------------------------------------
(* processOnce *)

\* Without a database since the start, or without active targets, the cycle ends
\* here, and keeps what was pushed.
Collect ==
  /\ phase = "idle" /\ dbInit /\ tracked # {}
  /\ batch' = tracked /\ phase' = "fetch"
  /\ UNCHANGED <<dbInit, tracked, row, pushed, told, todo, cur>>

FetchedRow(i) ==
  [id |-> i, track |-> row[i].track, llm |-> row[i].llm,
   final |-> row[i].final, source |-> row[i].source]

\* A query that fails looks like one without rows.
Fetch(ok) ==
  /\ phase = "fetch" /\ (ok \/ MayFail)
  /\ todo' = IF ok THEN {FetchedRow(i) : i \in batch} ELSE {}
  /\ phase' = "judge"
  /\ UNCHANGED <<dbInit, tracked, row, pushed, told, batch, cur>>

\* No llm type, or nothing to do.
Skip(f) ==
  /\ phase = "judge" /\ f \in todo
  /\ ~HasWork(f)
  /\ todo' = todo \ {f}
  /\ UNCHANGED <<dbInit, tracked, row, pushed, told, phase, batch, cur>>

ToGrpc(f) ==
  /\ todo' = todo \ {f}
  /\ IF NeedsGrpcPush(f) THEN phase' = "push" /\ cur' = {f} ELSE UNCHANGED <<phase, cur>>

\* Mutant: the judgement is stored with the track as its source.
JudgedByTrack(r, t) == [r EXCEPT !.final = t, !.source = "track"]

\* updateFinalTargetTypeJudgement.
Judged(r, t) == [r EXCEPT !.final = t, !.source = "llm"]

StoreJudgement(f) ==
  /\ phase = "judge" /\ f \in todo /\ f.llm # None
  /\ NeedsDbUpdate(f)
  /\ row' = [row EXCEPT ![f.id] = Judged(@, f.llm)]
  /\ ToGrpc(f)
  /\ UNCHANGED <<dbInit, tracked, pushed, told, batch>>

\* Mutant: a failed update does not end the work on the row.
StoreFailsThenPush(f) ==
  /\ phase = "judge" /\ f \in todo /\ f.llm # None /\ MayFail
  /\ NeedsDbUpdate(f)
  /\ ToGrpc(f)
  /\ UNCHANGED <<dbInit, tracked, row, pushed, told, batch>>

\* A failed update skips the push too.
StoreFails(f) ==
  /\ phase = "judge" /\ f \in todo /\ f.llm # None /\ MayFail
  /\ NeedsDbUpdate(f)
  /\ todo' = todo \ {f}
  /\ UNCHANGED <<dbInit, tracked, row, pushed, told, phase, batch, cur>>

PushOnly(f) ==
  /\ phase = "judge" /\ f \in todo /\ f.llm # None
  /\ ~NeedsDbUpdate(f) /\ NeedsGrpcPush(f)
  /\ ToGrpc(f)
  /\ UNCHANGED <<dbInit, tracked, row, pushed, told, batch>>

\* The type was the last one pushed, or the client refuses it.
SkipPush(f) ==
  /\ phase = "push" /\ f \in cur
  /\ pushed[f.id] = f.llm \/ f.llm \notin Allowed
  /\ phase' = "judge" /\ cur' = {}
  /\ UNCHANGED <<dbInit, tracked, row, pushed, told, batch, todo>>

CallRpc(f) ==
  /\ phase = "push" /\ f \in cur
  /\ pushed[f.id] # f.llm /\ f.llm \in Allowed
  /\ phase' = "rpc"
  /\ UNCHANGED <<dbInit, tracked, row, pushed, told, batch, todo, cur>>

\* Mutant: the type counts as pushed whatever the RPC returned.
RpcReturnsPushed(f, taken, acked) ==
  /\ phase = "rpc" /\ f \in cur
  /\ acked => taken
  /\ ~acked => MayFail
  /\ told' = IF taken THEN [told EXCEPT ![f.id] = f.llm] ELSE told
  /\ pushed' = [pushed EXCEPT ![f.id] = f.llm]
  /\ phase' = "judge" /\ cur' = {}
  /\ UNCHANGED <<dbInit, tracked, row, batch, todo>>

\* UpdateTargetType: when it fails (3 s deadline), TrackManager may have taken the
\* type all the same.
RpcReturns(f, taken, acked) ==
  /\ phase = "rpc" /\ f \in cur
  /\ acked => taken
  /\ ~acked => MayFail
  /\ told' = IF taken THEN [told EXCEPT ![f.id] = f.llm] ELSE told
  /\ pushed' = IF acked THEN [pushed EXCEPT ![f.id] = f.llm] ELSE pushed
  /\ phase' = "judge" /\ cur' = {}
  /\ UNCHANGED <<dbInit, tracked, row, batch, todo>>

\* Keys of targets that were not active at the start of the cycle are dropped.
EndCycle ==
  /\ phase = "judge" /\ todo = {}
  /\ pushed' = [i \in Ids |-> IF i \in batch THEN pushed[i] ELSE None]
  /\ phase' = "idle" /\ batch' = {}
  /\ UNCHANGED <<dbInit, tracked, row, told, todo, cur>>

Cycle ==
  \/ Collect
  \/ \E ok \in BOOLEAN : Fetch(ok)
  \/ \E f \in todo : Skip(f) \/ StoreJudgement(f) \/ StoreFails(f) \/ PushOnly(f)
  \/ \E f \in cur : SkipPush(f) \/ CallRpc(f)
  \/ \E f \in cur : \E taken, acked \in BOOLEAN : RpcReturns(f, taken, acked)
  \/ EndCycle

-----------------------------------------------------------------------------
(* The tracks, the cognitive service and TrackManager *)

TrackAppears(i) ==
  /\ i \notin tracked /\ tracked' = tracked \cup {i}
  /\ UNCHANGED <<dbInit, row, pushed, told, phase, batch, todo, cur>>

TrackVanishes(i) ==
  /\ i \in tracked /\ tracked' = tracked \ {i}
  /\ UNCHANGED <<dbInit, row, pushed, told, phase, batch, todo, cur>>

WriteLlm(i, t) ==
  /\ row' = [row EXCEPT ![i].llm = t]
  /\ UNCHANGED <<dbInit, tracked, pushed, told, phase, batch, todo, cur>>

WriteTrackType(i, t) ==
  /\ row' = [row EXCEPT ![i].track = t]
  /\ UNCHANGED <<dbInit, tracked, pushed, told, phase, batch, todo, cur>>

Environment ==
  \/ \E i \in Ids : TrackAppears(i) \/ TrackVanishes(i)
  \/ \E i \in Recognised, t \in TargetTypes : WriteLlm(i, t) \/ WriteTrackType(i, t)

FusionNext == Cycle \/ Environment

FusionSpec == FusionInit /\ [][FusionNext]_fusionVars

\* The thread keeps cycling; a statement or an RPC tried again and again succeeds.
Fairness ==
  /\ WF_fusionVars(Cycle)
  /\ SF_fusionVars(Fetch(TRUE))
  /\ \A i \in Ids :
       /\ SF_fusionVars(\E f \in todo : f.id = i /\ StoreJudgement(f))
       /\ SF_fusionVars(\E f \in cur : f.id = i /\ RpcReturns(f, TRUE, TRUE))

FairFusionSpec == FusionSpec /\ Fairness

-----------------------------------------------------------------------------
(* Properties *)

FusionTypeOK ==
  /\ dbInit \in BOOLEAN
  /\ tracked \subseteq Ids /\ batch \subseteq Ids
  /\ row \in [Ids -> Row]
  /\ pushed \in [Ids -> Maybe] /\ told \in [Ids -> Maybe]
  /\ phase \in {"idle", "fetch", "judge", "push", "rpc"}
  /\ todo \subseteq Fetched /\ cur \subseteq Fetched

\* TrackManager is never told a type that the database does not hold: a failed
\* update ends the work on the row, and nothing else writes the judgement.
ToldOnlyWhatIsStored ==
  phase = "rpc" => \A f \in cur : row[f.id].final = f.llm /\ row[f.id].source = "llm"

\* When the llm type of a target that stays active settles, so does its judgement,
\* although a cycle may store one that it fetched before the llm type changed.
\* (In a process that started before its database nothing is ever judged.)
JudgementSettles ==
  \A i \in Ids, t \in TargetTypes :
    dbInit /\ <>[](i \in tracked /\ row[i].llm = t)
      => <>[](row[i].final = t /\ row[i].source = "llm")

\* The judgement t of an active target is not equivalent to the type of its track.
Mismatch(i, t) ==
  dbInit /\ i \in tracked /\ row[i].llm = t /\ ShouldPush(row[i].track, t)

\* A mismatch that stays ends with TrackManager having the judgement, and keeping
\* it, whatever failed or was answered late before, if at some moment of it the
\* type last acknowledged is another one.  If it never is, line 197 of
\* TargetTypeFusionThread.cpp skips the push, also when TrackManager has taken another
\* type since in a call whose answer was lost: that the code does not make up for.
MismatchIsPushed ==
  \A i \in Ids, t \in Allowed :
    <>([]Mismatch(i, t) /\ pushed[i] # t) => <>[](told[i] = t)
=============================================================================
