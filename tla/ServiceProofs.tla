----------------------------- MODULE ServiceProofs -----------------------------
(***************************************************************************)
(* Proofs about two services of the process that share no state.           *)
(* SystemAlarm: its type invariant, and that it implements SystemAlarmSpec *)
(* (a query takes effect when it releases the mutex, every other call in   *)
(* its single step; all other steps are stutters).  TargetTypeFusion: its  *)
(* types, and what it tells TrackManager, for every set of targets and     *)
(* types.                                                                  *)
(***************************************************************************)
EXTENDS SystemAlarm, TargetTypeFusion, TLAPS

-----------------------------------------------------------------------------
(* SystemAlarm *)

\* What is stored from a report that passed the checks is an item.
LEMMA StoredType ==
  ASSUME NEW r \in Requests, r.op = "report", ~InvalidReport(r)
  PROVE  Stored(r) \in Item
<1>1. r \in Request /\ r.level \in Levels
  BY RequestAssumption DEF RequestAssumption
<1> QED
  BY <1>1 DEF InvalidReport, MissingField, Stored, Item, Request

LEMMA ReplyType ==
  ASSUME NEW c \in Callers, NEW m \in {"ok", "not_found", "invalid_param"}, NEW A \in SUBSET Item,
         answer \in [Callers -> AnswerType \cup {NoAnswer}], Reply(c, m, A)
  PROVE  answer' \in [Callers -> AnswerType \cup {NoAnswer}]
<1>1. [message |-> m, alarms |-> A] \in AnswerType
  BY DEF AnswerType
<1> QED
  BY <1>1 DEF Reply

LEMMA TypeHandle ==
  ASSUME TypeOK, NEW c \in Callers, Handle(c)
  PROVE  TypeOK'
<1> USE DEF TypeOK
<1>0. request[c] # NoRequest => request[c] \in Requests
  OBVIOUS
<1>1. CASE RefuseReport(c) \/ RefuseCancel(c)
  BY <1>1, ReplyType DEF RefuseReport, RefuseCancel
<1>2. CASE Report(c)
  <2>1. Stored(request[c]) \in Item
    BY <1>0, <1>2, StoredType DEF Report, Serving
  <2>2. Stored(request[c]).alarm_id = request[c].alarm_id
    BY DEF Stored
  <2>3. active' \subseteq Item /\ \A a, b \in active' : a.alarm_id = b.alarm_id => a = b
    BY <1>2, <2>1, <2>2 DEF Report
  <2>4. answer' \in [Callers -> AnswerType \cup {NoAnswer}]
    BY <1>2, ReplyType DEF Report
  <2> QED
    BY <1>2, <2>3, <2>4 DEF Report
<1>3. CASE Cancel(c)
  <2>1. answer' \in [Callers -> AnswerType \cup {NoAnswer}]
    BY <1>3, ReplyType DEF Cancel
  <2> QED
    BY <1>3, <2>1 DEF Cancel
<1>4. CASE BeginList(c)
  BY <1>4 DEF BeginList
<1>5. ASSUME NEW a \in left, Visit(c, a)  PROVE  TypeOK'
  BY <1>5 DEF Visit
<1>6. CASE EndList(c)
  <2>1. answer' \in [Callers -> AnswerType \cup {NoAnswer}]
    BY <1>6, ReplyType DEF EndList
  <2> QED
    BY <1>6, <2>1 DEF EndList
<1>7. CASE Respond(c)
  BY <1>7 DEF Respond
<1> QED
  BY <1>1, <1>2, <1>3, <1>4, <1>5, <1>6, <1>7 DEF Handle

\* The pool holds well-formed alarms, one per id, for any number of callers.
THEOREM TypeCorrect == Spec => []TypeOK
<1>1. Init => TypeOK
  BY DEF Init, TypeOK
<1>2. TypeOK /\ [Next]_vars => TypeOK'
  <2> SUFFICES ASSUME TypeOK, [Next]_vars PROVE TypeOK'
    OBVIOUS
  <2>1. ASSUME NEW c \in Callers, NEW r \in Requests, Call(c, r)  PROVE  TypeOK'
    BY <2>1 DEF Call, TypeOK
  <2>2. CASE UNCHANGED vars
    BY <2>2 DEF vars, TypeOK
  <2> QED
    BY <2>1, <2>2, TypeHandle DEF Next
<1> QED
  BY <1>1, <1>2, PTL DEF Spec

-----------------------------------------------------------------------------
(* The loop of listActive *)

LEMMA ListHandle ==
  ASSUME TypeOK, ListInv, NEW c \in Callers, Handle(c)
  PROVE  ListInv'
<1> USE RequestAssumption DEF TypeOK, RequestAssumption, Serving
<1>1. CASE RefuseReport(c) \/ RefuseCancel(c)
  <2>1. holder # Nobody => holder # c
    BY <1>1 DEF RefuseReport, RefuseCancel, ListInv
  <2> QED
    BY <1>1, <2>1 DEF RefuseReport, RefuseCancel, ListInv, Reply
<1>2. CASE Report(c)
  BY <1>2 DEF Report, ListInv
<1>3. CASE Cancel(c)
  BY <1>3 DEF Cancel, ListInv
<1>4. CASE BeginList(c)
  BY <1>4 DEF BeginList, ListInv
<1>5. ASSUME NEW a \in left, Visit(c, a)  PROVE  ListInv'
  <2>1. /\ holder = c /\ holder' = c /\ c # Nobody
        /\ active' = active /\ request' = request /\ answer' = answer
        /\ left' = left \ {a} /\ a \in active
    BY <1>5 DEF Visit, ListInv
  <2>2. out' = {b \in active \ left' : ~Filtered(request[c], b)}
    <3>1. out = {b \in active \ left : ~Filtered(request[c], b)}
      BY <2>1 DEF ListInv
    <3>2. active \ left' = (active \ left) \cup {a}
      BY <2>1
    <3>3. CASE Filtered(request[c], a)
      BY <1>5, <3>1, <3>2, <3>3 DEF Visit
    <3>4. CASE ~Filtered(request[c], a)
      BY <1>5, <3>1, <3>2, <3>4 DEF Visit
    <3> QED
      BY <3>3, <3>4
  <2> QED
    BY <2>1, <2>2 DEF ListInv, Filtered
<1>6. CASE EndList(c)
  BY <1>6 DEF EndList, ListInv
<1>7. CASE Respond(c)
  <2>1. holder # Nobody => holder # c
    BY <1>7 DEF Respond, ListInv
  <2> QED
    BY <1>7, <2>1 DEF Respond, ListInv, Filtered
<1> QED
  BY <1>1, <1>2, <1>3, <1>4, <1>5, <1>6, <1>7 DEF Handle

\* What a query has copied and what it has still to visit are the pool, which
\* stands still while it holds the mutex.
THEOREM ListCorrect == Spec => []ListInv
<1>1. Init => ListInv
  BY DEF Init, ListInv
<1>2. TypeOK /\ ListInv /\ [Next]_vars => ListInv'
  <2> SUFFICES ASSUME TypeOK, ListInv, [Next]_vars PROVE ListInv'
    OBVIOUS
  <2>1. ASSUME NEW c \in Callers, NEW r \in Requests, Call(c, r)  PROVE  ListInv'
    <3>1. holder # Nobody => holder # c
      BY <2>1 DEF Call, ListInv, Serving
    <3> QED
      BY <2>1, <3>1 DEF Call, ListInv, Serving, Filtered, TypeOK
  <2>2. CASE UNCHANGED vars
    BY <2>2 DEF vars, ListInv, Serving, Filtered
  <2> QED
    BY <2>1, <2>2, ListHandle DEF Next
<1> QED
  BY <1>1, <1>2, TypeCorrect, PTL DEF Spec

-----------------------------------------------------------------------------
(* The refinement *)

LEMMA HandleImplements ==
  ASSUME TypeOK, ListInv, NEW c \in Callers, Handle(c)
  PROVE  Promise!Next \/ UNCHANGED Promise!vars
<1> USE RequestAssumption DEF RequestAssumption, Serving, MissingField, InvalidReport,
        Promise!Legal, Promise!Answer, Reply
<1>0. request[c] # NoRequest => request[c].fields \in {"complete", "missing"}
  BY DEF TypeOK, Request
<1>1. CASE RefuseReport(c) \/ RefuseCancel(c)
  <2>1. Promise!Perform(c)
    BY <1>1 DEF RefuseReport, RefuseCancel, Promise!Perform
  <2> QED
    BY <2>1 DEF Promise!Next
<1>2. CASE Report(c)
  <2>1. Promise!Perform(c)
    BY <1>0, <1>2 DEF Report, Promise!Perform, Promise!Without, Promise!Alarm, Stored
  <2> QED
    BY <2>1 DEF Promise!Next
<1>3. CASE Cancel(c)
  <2> DEFINE found == {a \in active : a.alarm_id = request[c].alarm_id}
  <2>1. active \ found = Promise!Without(request[c].alarm_id)
    BY DEF Promise!Without
  <2>2. found = {} <=> Promise!Without(request[c].alarm_id) = active
    BY DEF Promise!Without
  <2>3. Promise!Perform(c)
    BY <1>0, <1>3, <2>1, <2>2 DEF Cancel, Promise!Perform
  <2> QED
    BY <2>3 DEF Promise!Next
<1>4. CASE BeginList(c) \/ \E a \in left : Visit(c, a)
  BY <1>4 DEF BeginList, Visit, Promise!vars
<1>5. CASE EndList(c)
  <2>1. holder = c /\ holder # Nobody /\ left = {}
    BY <1>5 DEF EndList
  <2>2. Serving(c, "list") /\ out = {a \in active : ~Filtered(request[c], a)}
    BY <2>1 DEF ListInv
  <2>3. out = Promise!Selected(request[c])
    BY <2>2 DEF Filtered, Promise!Selected
  <2>4. Promise!Perform(c)
    BY <1>5, <2>2, <2>3 DEF EndList, Promise!Perform
  <2> QED
    BY <2>4 DEF Promise!Next
<1>6. CASE Respond(c)
  BY <1>6 DEF Respond, Promise!Respond, Promise!Next
<1> QED
  BY <1>1, <1>2, <1>3, <1>4, <1>5, <1>6 DEF Handle

\* Every call takes effect at one instant, for any number of concurrent callers,
\* alarms and requests: the service implements SystemAlarmSpec.
THEOREM Implements == Spec => Linearizable
<1>1. Init => Promise!Init
  BY DEF Init, Promise!Init
<1>2. TypeOK /\ ListInv /\ [Next]_vars => [Promise!Next]_(Promise!vars)
  <2> SUFFICES ASSUME TypeOK, ListInv, [Next]_vars
               PROVE  Promise!Next \/ UNCHANGED Promise!vars
    OBVIOUS
  <2>1. ASSUME NEW c \in Callers, NEW r \in Requests, Call(c, r)
        PROVE  Promise!Next
    BY <2>1 DEF Call, Promise!Call, Promise!Next
  <2>2. CASE UNCHANGED vars
    BY <2>2 DEF vars, Promise!vars
  <2> QED
    BY <2>1, <2>2, HandleImplements DEF Next
<1> QED
  BY <1>1, <1>2, TypeCorrect, ListCorrect, PTL DEF Spec, Linearizable, Promise!Spec

-----------------------------------------------------------------------------
(* Types of TargetTypeFusion *)

\* A judged row differs from what it was in the judgement and its source only.
LEMMA JudgedType ==
  ASSUME NEW r \in Row, NEW t \in Maybe
  PROVE  /\ Judged(r, t) \in Row
         /\ Judged(r, t).final = t /\ Judged(r, t).source = "llm"
<1> DEFINE b == [r EXCEPT !.final = t]
<1>1. b \in Row /\ b.final = t
  BY DEF Row
<1>2. Judged(r, t) = [b EXCEPT !.source = "llm"]
  BY DEF Judged
<1> HIDE DEF b
<1> QED
  BY <1>1, <1>2 DEF Row

LEMMA FusionTypeInit == FusionInit => FusionTypeOK
  BY DEF FusionInit, FusionTypeOK, Row, Maybe

LEMMA FusionTypeNext == FusionTypeOK /\ [FusionNext]_fusionVars => FusionTypeOK'
<1> SUFFICES ASSUME FusionTypeOK, [FusionNext]_fusionVars  PROVE  FusionTypeOK'
  OBVIOUS
<1> USE TypesAssumption DEF TypesAssumption, FusionTypeOK
<1>1. CASE Collect
  BY <1>1 DEF Collect
<1>2. ASSUME NEW ok \in BOOLEAN, Fetch(ok)  PROVE  FusionTypeOK'
  <2>1. \A i \in Ids : FetchedRow(i) \in Fetched
    BY DEF FetchedRow, Fetched, Row
  <2>2. {FetchedRow(i) : i \in batch} \subseteq Fetched
    BY <2>1
  <2>3. todo' \subseteq Fetched
    <3>1. todo' = {FetchedRow(i) : i \in batch} \/ todo' = {}
      BY <1>2, Zenon DEF Fetch
    <3> QED
      BY <2>2, <3>1
  <2> QED
    BY <1>2, <2>3 DEF Fetch
<1>3. ASSUME NEW f \in todo, Skip(f) \/ StoreFails(f) \/ PushOnly(f)  PROVE  FusionTypeOK'
  BY <1>3 DEF Skip, StoreFails, PushOnly, ToGrpc
<1>4. ASSUME NEW f \in todo, StoreJudgement(f)  PROVE  FusionTypeOK'
  <2>1. f.id \in Ids /\ f.llm \in Maybe
    BY DEF Fetched
  <2>3. row' \in [Ids -> Row]
    BY <1>4, <2>1, JudgedType DEF StoreJudgement
  <2> QED
    BY <1>4, <2>3 DEF StoreJudgement, ToGrpc
<1>5. ASSUME NEW f \in cur, SkipPush(f) \/ CallRpc(f)  PROVE  FusionTypeOK'
  BY <1>5 DEF SkipPush, CallRpc
<1>6. ASSUME NEW f \in cur, NEW taken \in BOOLEAN, NEW acked \in BOOLEAN,
             RpcReturns(f, taken, acked)
      PROVE  FusionTypeOK'
  BY <1>6 DEF RpcReturns, Fetched
<1>7. CASE EndCycle
  BY <1>7 DEF EndCycle, Maybe
<1>8. CASE Environment
  BY <1>8 DEF Environment, TrackAppears, TrackVanishes, WriteLlm, WriteTrackType, Row, Maybe
<1>9. CASE UNCHANGED fusionVars
  BY <1>9 DEF fusionVars
<1>10. CASE \E f \in cur : \E taken, acked \in BOOLEAN : RpcReturns(f, taken, acked)
  BY <1>6, <1>10, ZenonT(30)
<1> QED
  BY <1>1, <1>2, <1>3, <1>4, <1>5, <1>7, <1>8, <1>9, <1>10 DEF FusionNext, Cycle

\* Every variable of the fusion thread keeps its type.
THEOREM FusionTypeCorrect == FusionSpec => []FusionTypeOK
  BY FusionTypeInit, FusionTypeNext, PTL DEF FusionSpec

-----------------------------------------------------------------------------
(* What TrackManager is told is stored *)

\* The judgement in a fetched row that waits is the one in the database: only this
\* thread writes it, and a cycle holds one row per target.
StoredInv ==
  /\ \A f, g \in todo : f.id = g.id => f = g
  /\ \A f \in todo : f.final = row[f.id].final /\ f.source = row[f.id].source
  /\ phase \in {"push", "rpc"} =>
       \A f \in cur : row[f.id].final = f.llm /\ row[f.id].source = "llm"

\* A step that leaves the stored judgements alone, adds no fetched row, and starts
\* no push keeps the invariant.
LEMMA StoredFrame ==
  ASSUME FusionTypeOK, StoredInv, todo' \subseteq todo,
         \A i \in Ids : row'[i].final = row[i].final /\ row'[i].source = row[i].source,
         phase' \in {"push", "rpc"} => phase \in {"push", "rpc"} /\ cur' = cur
  PROVE  StoredInv'
<1>1. \A f \in todo \cup cur : f.id \in Ids
  BY DEF FusionTypeOK, Fetched
<1> QED
  BY <1>1 DEF StoredInv

LEMMA StoredNext == FusionTypeOK /\ StoredInv /\ [FusionNext]_fusionVars => StoredInv'
<1> SUFFICES ASSUME FusionTypeOK, StoredInv, [FusionNext]_fusionVars  PROVE  StoredInv'
  OBVIOUS
<1>1. ASSUME NEW ok, Fetch(ok)  PROVE  StoredInv'
  BY <1>1 DEF Fetch, FetchedRow, StoredInv
<1>2. ASSUME NEW f \in todo, StoreJudgement(f)  PROVE  StoredInv'
  <2>1. /\ f.id \in Ids
        /\ row'[f.id].final = f.llm /\ row'[f.id].source = "llm"
        /\ \A i \in Ids \ {f.id} : row'[i] = row[i]
    <3>1. f.id \in Ids /\ f.llm \in Maybe
      BY DEF FusionTypeOK, Fetched
    <3> QED
      BY <1>2, <3>1, JudgedType DEF StoreJudgement, FusionTypeOK
  <2>2. todo' = todo \ {f}
    BY <1>2 DEF StoreJudgement, ToGrpc
  <2>3. \A g \in todo' : g \in todo /\ g.id \in Ids \ {f.id}
    BY <2>2 DEF StoredInv, FusionTypeOK, Fetched
  <2>4. phase' \in {"push", "rpc"} => cur' = {f}
    BY <1>2 DEF StoreJudgement, ToGrpc
  <2> QED
    BY <2>1, <2>3, <2>4 DEF StoredInv
<1>3. ASSUME NEW f \in todo, PushOnly(f)  PROVE  StoredInv'
  <2>1. /\ row' = row /\ todo' = todo \ {f} /\ cur' = {f}
        /\ f.source = "llm" /\ f.final = f.llm
    BY <1>3 DEF PushOnly, ToGrpc, NeedsDbUpdate
  <2> QED
    BY <2>1 DEF StoredInv
<1>4. ASSUME NEW f, Skip(f) \/ StoreFails(f) \/ SkipPush(f) \/ CallRpc(f)  PROVE  StoredInv'
  BY <1>4, StoredFrame DEF Skip, StoreFails, SkipPush, CallRpc
<1>5. ASSUME NEW f, NEW taken, NEW acked, RpcReturns(f, taken, acked)  PROVE  StoredInv'
  BY <1>5, StoredFrame DEF RpcReturns
<1>6. CASE Collect \/ EndCycle
  BY <1>6, StoredFrame DEF Collect, EndCycle
<1>7. CASE Environment
  <2>1. \A i \in Ids : row'[i].final = row[i].final /\ row'[i].source = row[i].source
    BY <1>7 DEF Environment, TrackAppears, TrackVanishes, WriteLlm, WriteTrackType, FusionTypeOK, Row
  <2> QED
    BY <1>7, <2>1, StoredFrame
    DEF Environment, TrackAppears, TrackVanishes, WriteLlm, WriteTrackType
<1>8. CASE UNCHANGED fusionVars
  BY <1>8, StoredFrame DEF fusionVars
<1>9. CASE \E f \in cur : \E taken, acked \in BOOLEAN : RpcReturns(f, taken, acked)
  BY <1>5, <1>9, ZenonT(30)
<1> QED
  BY <1>1, <1>2, <1>3, <1>4, <1>6, <1>7, <1>8, <1>9 DEF FusionNext, Cycle

\* TrackManager is told no type that the row of the target does not hold, although
\* the row is read before other services write it and a failed update is skipped.
THEOREM ToldIsStored == FusionSpec => []ToldOnlyWhatIsStored
<1>1. FusionInit => StoredInv
  BY DEF FusionInit, StoredInv
<1>2. StoredInv => ToldOnlyWhatIsStored
  BY DEF StoredInv, ToldOnlyWhatIsStored
<1> QED
  BY <1>1, <1>2, StoredNext, FusionTypeCorrect, PTL DEF FusionSpec
=============================================================================
