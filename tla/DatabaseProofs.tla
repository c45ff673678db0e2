---------------------------- MODULE DatabaseProofs ----------------------------
(***************************************************************************)
(* Proofs about the database and what is loaded from it: DbPool, for any   *)
(* number of clients, connections and statements, and AlarmConfig, for any *)
(* tables and any number of edits.  The modules share no state.            *)
(***************************************************************************)
EXTENDS DbPool, AlarmConfig, SequenceTheorems, WellFoundedInduction, TLAPS

-----------------------------------------------------------------------------
(* DbPool *)

Early == {"get", "wait", "begin", "exec"}

\* What a client has at which point of its operation.  The last three parts are about
\* libpq: a thread has one connection, keeps it only for a transaction, and runs the
\* statements of a merge inside of it.
ClientInv(c) ==
  /\ pc[c] \in Early => (job[c] = "query" \/ done[c] < Statements) /\ applied[c] <= done[c]
  /\ txn[c] # "none" => job[c] # "query"
  /\ mode = "libpq" =>
       /\ using[c] # None => pc[c] = "exec" /\ held[c] = None
       /\ held[c] # None => txn[c] # "none" /\ pc[c] \in {"begin", "exec", "commit", "rollback"}
       /\ job[c] = "merge" =>
            /\ pc[c] \in {"get", "wait"} => txn[c] = "wanted"
            /\ pc[c] = "exec" => txn[c] = "open"
            /\ pc[c] = "commit" => done[c] = Statements

Inv == DbTypeOK /\ \A c \in Clients : ClientInv(c)

\* A connection is marked as used exactly when one client has it.
Has(c, x) == held[c] = x \/ using[c] = x
OneOwner ==
  (mode = "libpq" /\ ~closed) =>
    /\ \A x \in Conns : pool[x] = "used" <=> \E c \in Clients : Has(c, x)
    /\ \A x \in Conns : \A c, d \in Clients : Has(c, x) /\ Has(d, x) => c = d

LEMMA InitInv == DbInit => Inv
  <1> SUFFICES ASSUME DbInit PROVE Inv
    OBVIOUS
  <1>1. DbTypeOK
    <2>1. pool \in [Conns -> {"absent", "idle", "used"}]
      BY DEF DbInit
    <2>2. server \in BOOLEAN /\ closed \in BOOLEAN /\ told \in [Clients -> BOOLEAN]
      BY DEF DbInit
    <2>3. job \in [Clients -> Jobs] /\ held \in [Clients -> OrNone] /\ using \in [Clients -> OrNone]
      BY DEF DbInit, Jobs, OrNone
    <2>4. done \in [Clients -> 0..Statements] /\ applied \in [Clients -> 0..Statements]
      BY PoolAssumption DEF PoolAssumption, DbInit
    <2> QED
      BY <2>1, <2>2, <2>3, <2>4 DEF DbInit, DbTypeOK
  <1>2. \A c \in Clients : ClientInv(c)
    BY PoolAssumption DEF PoolAssumption, DbInit, ClientInv, Early
  <1> QED BY <1>1, <1>2 DEF Inv

\* Steps of the pool and the server leave the clients alone.
LEMMA PoolStepInv ==
  ASSUME Inv, UNCHANGED clientVars, UNCHANGED mode,
         server' \in BOOLEAN, closed' \in BOOLEAN,
         pool' \in [Conns -> {"absent", "idle", "used"}], broken' \subseteq Conns
  PROVE Inv'
  BY DEF Inv, DbTypeOK, ClientInv, clientVars, On, OrNone

\* Where a client goes on that got no connection.
LEMMA RefusedOutcome ==
  ASSUME DbTypeOK, NEW c \in Clients, Refused(c)
  PROVE  \E p \in {"get", "idle", "rollback"}, t \in {"none", "open"} :
           /\ pc' = [pc EXCEPT ![c] = p] /\ txn' = [txn EXCEPT ![c] = t]
           /\ p = "get" => job[c] = "delete"
           /\ p = "rollback" => job[c] # "query"
           /\ t = "open" => txn[c] = "open"
           /\ txn[c] = "open" => p # "get" /\ t = "open"
           /\ txn[c] = "none" => p # "get"
<1>1. CASE txn[c] = "wanted"
  BY <1>1 DEF Refused, DbTypeOK, Jobs
<1>2. CASE txn[c] # "wanted"
  <2>1. /\ pc' = [pc EXCEPT ![c] = IF job[c] = "query" THEN "idle" ELSE "rollback"]
        /\ txn' = txn
    BY <1>2 DEF Refused
  <2>2. txn' = [txn EXCEPT ![c] = txn[c]] /\ txn[c] \in {"none", "open"}
    BY <1>2, <2>1 DEF DbTypeOK
  <2> QED
    BY <2>1, <2>2
<1> QED
  BY <1>1, <1>2

LEMMA RefusedInv ==
  ASSUME Inv, NEW c \in Clients, pc[c] \in {"get", "wait"}, Refused(c),
         UNCHANGED <<mode, closed, job, held, using, done, applied, told>>,
         server' \in BOOLEAN, pool' \in [Conns -> {"absent", "idle", "used"}], broken' \subseteq Conns
  PROVE  Inv'
<1>1. DbTypeOK'
  BY RefusedOutcome DEF Inv, DbTypeOK, On
<1>2. \A d \in Clients : ClientInv(d)'
  BY RefusedOutcome DEF Inv, DbTypeOK, ClientInv, Early
<1> QED
  BY <1>1, <1>2 DEF Inv

LEMMA ReleaseType ==
  ASSUME NEW x, ReleaseConnection(x), pool \in [Conns -> {"absent", "idle", "used"}]
  PROVE  pool' \in [Conns -> {"absent", "idle", "used"}]
  BY DEF ReleaseConnection

\* The end of a statement changes the client's single connection at most.
LEMMA EndStatementType ==
  ASSUME DbTypeOK, NEW c \in Clients, EndStatement(c)
  PROVE  /\ pool' \in [Conns -> {"absent", "idle", "used"}]
         /\ using' = [using EXCEPT ![c] = None]
<1>1. CASE using[c] = None
  BY <1>1 DEF EndStatement, DbTypeOK
<1>2. CASE using[c] # None
  BY <1>2, ReleaseType DEF EndStatement, DbTypeOK
<1> QED
  BY <1>1, <1>2

LEMMA BeginFailsInv ==
  ASSUME Inv, NEW c \in Clients, BeginFails(c)
  PROVE  Inv'
<1>0. pool' \in [Conns -> {"absent", "idle", "used"}]
  BY ReleaseType DEF BeginFails, Inv, DbTypeOK
<1>1. DbTypeOK'
  BY <1>0, RefusedOutcome DEF BeginFails, Inv, DbTypeOK, On, OrNone
<1>2. \A d \in Clients : ClientInv(d)'
  BY RefusedOutcome DEF BeginFails, Inv, DbTypeOK, ClientInv, Early
<1> QED
  BY <1>1, <1>2 DEF Inv

LEMMA ExecInv ==
  ASSUME Inv, NEW c \in Clients, Exec(c)
  PROVE  Inv'
<1> USE PoolAssumption DEF PoolAssumption
<1>0. /\ pool' \in [Conns -> {"absent", "idle", "used"}]
      /\ using' = [using EXCEPT ![c] = None]
  BY EndStatementType DEF Exec, Inv
<1>1. PICK p \in {"idle", "get", "exec", "commit"} :
        /\ pc' = [pc EXCEPT ![c] = p]
        /\ p = "idle" <=> job[c] = "query"
        /\ p = "commit" => done[c] + 1 = Statements
        /\ p \in {"get", "exec"} => done[c] + 1 # Statements
        /\ p = "exec" => mode = "libpq" /\ txn[c] = "open"
        /\ p = "get" => ~(mode = "libpq" /\ txn[c] = "open")
  <2>1. CASE job[c] = "query"
    BY <2>1 DEF Exec, LastStatement
  <2>2. CASE job[c] # "query" /\ LastStatement(c)
    BY <2>2 DEF Exec, LastStatement
  <2>3. CASE ~LastStatement(c)
    BY <2>3 DEF Exec, LastStatement, ToStatement
  <2> QED
    BY <2>1, <2>2, <2>3
<1>2. /\ done[c] \in Nat /\ applied[c] \in Nat /\ applied[c] <= done[c]
      /\ job[c] = "query" \/ done[c] < Statements
      /\ txn[c] # "wanted" /\ done[c] <= Statements
  BY DEF Exec, Inv, DbTypeOK, ClientInv, Early
<1>3. \/ job[c] = "query" /\ done' = done /\ applied' = applied
      \/ /\ job[c] # "query" /\ done' = [done EXCEPT ![c] = @ + 1]
         /\ \/ applied' = applied
            \/ applied' = [applied EXCEPT ![c] = @ + 1] /\ TakesEffect(c) /\ job[c] = "merge"
  BY DEF Exec
<1>4. DbTypeOK'
  <2>1. /\ done' \in [Clients -> 0..Statements]
        /\ applied' \in [Clients -> 0..Statements]
    BY <1>2, <1>3 DEF Inv, DbTypeOK
  <2>2. \A d \in Clients :
           /\ pc'[d] = "exec" => On(d)' # None
           /\ pc'[d] = "begin" => txn'[d] = "wanted" /\ held'[d] # None
           /\ txn'[d] = "wanted" => pc'[d] \in {"get", "wait", "begin"} /\ job'[d] # "query"
           /\ txn'[d] = "open" => held'[d] # None
    BY <1>0, <1>1, <1>2 DEF Exec, Inv, DbTypeOK, On
  <2> QED
    BY <2>1, <2>2, <1>0, <1>1 DEF Exec, Inv, DbTypeOK, OrNone
<1>5. ClientInv(c)'
  BY <1>0, <1>1, <1>2, <1>3 DEF Exec, Inv, DbTypeOK, ClientInv, Early, TakesEffect
<1>6. ASSUME NEW d \in Clients, d # c  PROVE ClientInv(d)'
  BY <1>6, <1>0, <1>1, <1>3 DEF Exec, Inv, DbTypeOK, ClientInv, Early
<1> QED
  BY <1>4, <1>5, <1>6 DEF Inv

LEMMA ExecFailsInv ==
  ASSUME Inv, NEW c \in Clients, ExecFails(c)
  PROVE  Inv'
<1>0. /\ pool' \in [Conns -> {"absent", "idle", "used"}]
      /\ using' = [using EXCEPT ![c] = None]
  BY EndStatementType DEF ExecFails, Inv
<1>1. DbTypeOK'
  BY <1>0 DEF ExecFails, Inv, DbTypeOK, On, OrNone
<1>2. \A d \in Clients : ClientInv(d)'
  BY <1>0 DEF ExecFails, Inv, DbTypeOK, ClientInv, Early
<1> QED
  BY <1>1, <1>2 DEF Inv

LEMMA EndCommitInv ==
  ASSUME Inv, NEW c \in Clients, pc[c] = "commit", NEW ok \in BOOLEAN, EndCommit(c, ok),
         broken' \subseteq Conns,
         applied' \in {applied, [applied EXCEPT ![c] = done[c]]}
  PROVE  Inv'
<1> USE PoolAssumption DEF PoolAssumption
<1>0. pool' \in [Conns -> {"absent", "idle", "used"}]
  BY ReleaseType DEF EndCommit, Inv, DbTypeOK
<1>1. DbTypeOK'
  BY <1>0 DEF EndCommit, Inv, DbTypeOK, On, OrNone
<1>2. ClientInv(c)'
  BY DEF EndCommit, Inv, DbTypeOK, ClientInv, Early
<1>3. ASSUME NEW d \in Clients, d # c  PROVE ClientInv(d)'
  BY <1>3 DEF EndCommit, Inv, DbTypeOK, ClientInv, Early
<1> QED
  BY <1>1, <1>2, <1>3 DEF Inv

LEMMA CallInv ==
  ASSUME Inv, NEW c \in Clients, NEW j \in Jobs, Call(c, j)
  PROVE  Inv'
<1> USE PoolAssumption DEF PoolAssumption
<1>1. DbTypeOK'
  BY DEF Call, Inv, DbTypeOK, On, poolVars
<1>2. \A d \in Clients : ClientInv(d)'
  BY DEF Call, Inv, DbTypeOK, ClientInv, Early, poolVars
<1> QED
  BY <1>1, <1>2 DEF Inv

LEMMA StepInv ==
  ASSUME Inv, NEW c \in Clients, Step(c)
  PROVE  Inv'
<1> USE PoolAssumption DEF PoolAssumption, Inv, DbTypeOK, ClientInv, On, Early, OrNone, poolVars, Jobs
<1>1. ASSUME NEW x \in Conns, Wants(c) \/ pc[c] = "wait", Gets(c, x), broken' \subseteq Conns  PROVE Inv'
  BY <1>1 DEF Gets, Wants
<1>2. ASSUME NEW x \in Conns, TakeIdle(c, x) \/ Create(c, x) \/ TakeAfterWait(c, x)  PROVE Inv'
  BY <1>1, <1>2 DEF TakeIdle, Create, TakeAfterWait, Mended
<1>3. CASE Refuse(c) \/ GiveUp(c)
  BY <1>3, RefusedInv DEF Refuse, GiveUp, Wants
<1>4. CASE Wait(c)
  BY <1>4 DEF Wait, Wants
<1>5. CASE Begin(c)
  BY <1>5 DEF Begin, ToStatement
<1>6. CASE BeginFails(c)
  BY <1>6, BeginFailsInv
<1>7. CASE Exec(c)
  BY <1>7, ExecInv
<1>8. CASE ExecFails(c)
  BY <1>8, ExecFailsInv
<1>9. CASE Commit(c) \/ CommitFails(c) \/ CommitLosesAnswer(c)
  <2>0. txn[c] = "open" => held[c] \in Conns
    OBVIOUS
  <2>1. broken' \subseteq Conns
    <3>1. CASE broken' = broken
      BY <3>1
    <3>2. CASE broken' = broken \cup {held[c]} /\ txn[c] = "open"
      BY <2>0, <3>2
    <3> QED
      BY <1>9, <3>1, <3>2 DEF Commit, CommitFails, CommitLosesAnswer
  <2>2. applied' \in {applied, [applied EXCEPT ![c] = done[c]]}
    BY <1>9 DEF Commit, CommitFails, CommitLosesAnswer
  <2>3. pc[c] = "commit" /\ \E ok \in BOOLEAN : EndCommit(c, ok)
    BY <1>9 DEF Commit, CommitFails, CommitLosesAnswer
  <2> HIDE DEF Inv
  <2> QED
    BY <2>1, <2>2, <2>3, EndCommitInv
<1>10. CASE Rollback(c)
  BY <1>10 DEF Rollback, ReleaseConnection
<1> QED
  BY <1>2, <1>3, <1>4, <1>5, <1>6, <1>7, <1>8, <1>9, <1>10 DEF Step

LEMMA NextInv == Inv /\ [DbNext]_accessVars => Inv'
<1> SUFFICES ASSUME Inv, [DbNext]_accessVars PROVE Inv'
  OBVIOUS
<1> USE DEF Inv, DbTypeOK, poolVars, clientVars
<1>1. ASSUME NEW c \in Clients, Step(c)  PROVE Inv'
  BY <1>1, StepInv
<1>2. ASSUME NEW c \in Clients, NEW j \in Jobs, Call(c, j)  PROVE Inv'
  BY <1>2, CallInv
<1>3. CASE ReopenIdle \/ CloseAllConnections \/ ServerReturns
  BY <1>3, PoolStepInv DEF ReopenIdle, CloseAllConnections, ServerReturns
<1>4. CASE ServerFails
  <2>1. \A d \in Clients : Hands[d] \subseteq Conns
    BY DEF Hands, OrNone
  <2>2. broken' \subseteq Conns
    BY <1>4, <2>1 DEF ServerFails, Pooled
  <2> QED
    BY <1>4, <2>2, PoolStepInv DEF ServerFails
<1>5. ASSUME NEW x \in Conns, EnsureMin(x) \/ RemoveStale(x) \/ KillUsed(x)  PROVE Inv'
  BY <1>5, PoolStepInv DEF EnsureMin, RemoveStale, KillUsed
<1>6. CASE UNCHANGED accessVars
  BY <1>6, PoolStepInv DEF accessVars
<1> QED
  BY <1>1, <1>2, <1>3, <1>4, <1>5, <1>6 DEF DbNext

\* Connections are typed, and clients have what their place in an operation says, through
\* failing statements, broken commits and a pool that is closed under way.
THEOREM DbTypeCorrect == DbSpec => []DbTypeOK
<1>1. Inv => DbTypeOK
  BY DEF Inv
<1> QED
  BY <1>1, InitInv, NextInv, PTL DEF DbSpec

-----------------------------------------------------------------------------
(* Who has which connection *)

\* As long as libpq's pool is open, marks and hands agree.
LEMMA OwnerInit == DbInit => OneOwner
  BY PoolAssumption DEF PoolAssumption, DbInit, OneOwner, Has

\* A step that leaves clients and marks of used connections alone.
LEMMA OwnerFrame ==
  ASSUME OneOwner, UNCHANGED <<mode, held, using>>, closed => closed',
         \A x \in Conns : pool'[x] = "used" <=> pool[x] = "used"
  PROVE  OneOwner'
  BY DEF OneOwner, Has

\* A connection that nobody has is taken.
LEMMA OwnerTake ==
  ASSUME Inv, OneOwner, NEW c \in Clients, NEW x \in Conns, pool[x] # "used",
         pc[c] \in {"get", "wait"}, Gets(c, x)
  PROVE  OneOwner'
<1> SUFFICES ASSUME mode = "libpq", ~closed
             PROVE  /\ \A y \in Conns : pool'[y] = "used" <=> \E d \in Clients : Has(d, y)'
                    /\ \A y \in Conns : \A d, e \in Clients : Has(d, y)' /\ Has(e, y)' => d = e
  BY DEF Gets, OneOwner
<1>1. held[c] = None /\ using[c] = None /\ None \notin Conns
  BY PoolAssumption DEF PoolAssumption, Inv, ClientInv
<1>2. \A y \in Conns, d \in Clients : Has(d, y)' <=> (d = c /\ y = x) \/ Has(d, y)
  BY <1>1 DEF Gets, Has, Inv, DbTypeOK
<1>3. \A y \in Conns : pool'[y] = "used" <=> y = x \/ pool[y] = "used"
  BY DEF Gets, Inv, DbTypeOK
<1> QED
  BY <1>2, <1>3 DEF OneOwner

\* The connection of a client is given back.
LEMMA OwnerGive ==
  ASSUME Inv, OneOwner, NEW c \in Clients, NEW x \in Conns, Has(c, x),
         mode = "libpq" => ReleaseConnection(x), UNCHANGED <<mode, closed>>,
         mode = "libpq" => \A d \in Clients, y \in Conns : Has(d, y)' <=> Has(d, y) /\ d # c
  PROVE  OneOwner'
<1> SUFFICES ASSUME mode = "libpq", ~closed
             PROVE  /\ \A y \in Conns : pool'[y] = "used" <=> \E d \in Clients : Has(d, y)'
                    /\ \A y \in Conns : \A d, e \in Clients : Has(d, y)' /\ Has(e, y)' => d = e
  BY DEF OneOwner
<1>1. \A y \in Conns : Has(c, y) => y = x
  BY PoolAssumption DEF PoolAssumption, Has, Inv, ClientInv
<1>2. \A y \in Conns : pool'[y] = "used" <=> pool[y] = "used" /\ y # x
  BY DEF ReleaseConnection, Inv, DbTypeOK
<1> QED
  BY <1>1, <1>2 DEF OneOwner

LEMMA OwnerStep ==
  ASSUME Inv, OneOwner, NEW c \in Clients, Step(c)
  PROVE  OneOwner'
<1> USE DEF poolVars
<1>1. ASSUME NEW x \in Conns, TakeIdle(c, x) \/ Create(c, x) \/ TakeAfterWait(c, x)  PROVE OneOwner'
  <2>1. pool[x] # "used" /\ pc[c] \in {"get", "wait"} /\ Gets(c, x)
    BY <1>1 DEF TakeIdle, Create, TakeAfterWait, Usable, Fresh, Wants
  <2> QED
    BY <2>1, OwnerTake
<1>2. CASE Refuse(c) \/ Wait(c) \/ GiveUp(c) \/ Begin(c)
  BY <1>2, OwnerFrame DEF Refuse, Wait, GiveUp, Begin
<1>3. CASE BeginFails(c)
  <2>1. held[c] \in Conns /\ Has(c, held[c])
    BY <1>3 DEF BeginFails, Inv, DbTypeOK, OrNone, Has
  <2>2. mode = "libpq" => \A d \in Clients, y \in Conns : Has(d, y)' <=> Has(d, y) /\ d # c
    BY <1>3, PoolAssumption DEF PoolAssumption, BeginFails, Inv, DbTypeOK, ClientInv, Has
  <2> QED
    BY <1>3, <2>1, <2>2, OwnerGive DEF BeginFails
<1>4. CASE (Exec(c) \/ ExecFails(c)) /\ using[c] # None
  <2>1. using[c] \in Conns /\ Has(c, using[c])
    BY <1>4 DEF Inv, DbTypeOK, OrNone, Has
  <2>2. mode = "libpq" => \A d \in Clients, y \in Conns : Has(d, y)' <=> Has(d, y) /\ d # c
    BY <1>4, PoolAssumption DEF PoolAssumption, Exec, ExecFails, EndStatement, Inv, DbTypeOK, ClientInv, Has
  <2> QED
    BY <1>4, <2>1, <2>2, OwnerGive DEF Exec, ExecFails, EndStatement
<1>5. CASE (Exec(c) \/ ExecFails(c)) /\ using[c] = None
  BY <1>5, OwnerFrame DEF Exec, ExecFails, EndStatement
<1>6. ASSUME NEW ok \in BOOLEAN, pc[c] = "commit", EndCommit(c, ok)  PROVE OneOwner'
  <2>1. CASE held[c] \in Conns
    <3>1. mode = "libpq" => \A d \in Clients, y \in Conns : Has(d, y)' <=> Has(d, y) /\ d # c
      BY <1>6, PoolAssumption DEF PoolAssumption, EndCommit, Inv, DbTypeOK, ClientInv, Has
    <3> QED
      BY <1>6, <2>1, <3>1, OwnerGive DEF EndCommit, Has
  <2>2. CASE held[c] = None
    <3>1. pool' = pool /\ held' = held
      BY <1>6, <2>2, PoolAssumption DEF PoolAssumption, EndCommit, ReleaseConnection, Inv, DbTypeOK
    <3> QED
      BY <1>6, <3>1, OwnerFrame DEF EndCommit
  <2> QED
    BY <2>1, <2>2 DEF Inv, DbTypeOK, OrNone
<1>7. CASE Commit(c) \/ CommitFails(c) \/ CommitLosesAnswer(c)
  BY <1>6, <1>7 DEF Commit, CommitFails, CommitLosesAnswer
<1>8. CASE Rollback(c)
  <2>1. CASE mode = "libpq" /\ held[c] # None
    <3>1. held[c] \in Conns /\ Has(c, held[c]) /\ txn[c] = "open"
      BY <1>8, <2>1 DEF Rollback, Inv, DbTypeOK, ClientInv, OrNone, Has
    <3>2. \A d \in Clients, y \in Conns : Has(d, y)' <=> Has(d, y) /\ d # c
      BY <1>8, <2>1, PoolAssumption DEF PoolAssumption, Rollback, Inv, DbTypeOK, ClientInv, Has
    <3> QED
      BY <1>8, <2>1, <3>1, <3>2, OwnerGive DEF Rollback
  <2>2. CASE mode = "libpq" /\ held[c] = None
    <3>1. pool' = pool /\ held' = held
      BY <1>8, <2>2 DEF Rollback, Inv, DbTypeOK
    <3> QED
      BY <1>8, <3>1, OwnerFrame DEF Rollback
  <2>3. CASE mode # "libpq"
    BY <1>8, <2>3 DEF Rollback, OneOwner
  <2> QED
    BY <2>1, <2>2, <2>3
<1> QED
  BY <1>1, <1>2, <1>3, <1>4, <1>5, <1>7, <1>8 DEF Step

LEMMA OwnerNext == Inv /\ OneOwner /\ [DbNext]_accessVars => OneOwner'
<1> SUFFICES ASSUME Inv, OneOwner, [DbNext]_accessVars PROVE OneOwner'
  OBVIOUS
<1> USE DEF poolVars, clientVars
<1>1. ASSUME NEW c \in Clients, Step(c)  PROVE OneOwner'
  BY <1>1, OwnerStep
<1>2. ASSUME NEW c \in Clients, NEW j \in Jobs, Call(c, j)  PROVE OneOwner'
  BY <1>2, OwnerFrame DEF Call
<1>3. CASE ReopenIdle \/ ServerReturns \/ ServerFails
  BY <1>3, OwnerFrame DEF ReopenIdle, ServerReturns, ServerFails
<1>4. CASE CloseAllConnections
  BY <1>4 DEF CloseAllConnections, OneOwner
<1>5. ASSUME NEW x \in Conns, EnsureMin(x) \/ RemoveStale(x)  PROVE OneOwner'
  BY <1>5, OwnerFrame DEF EnsureMin, RemoveStale, Inv, DbTypeOK
<1>6. ASSUME NEW x \in Conns, KillUsed(x)  PROVE OneOwner'
  BY <1>6 DEF KillUsed, OneOwner
<1>7. CASE UNCHANGED accessVars
  BY <1>7, OwnerFrame DEF accessVars
<1> QED
  BY <1>1, <1>2, <1>3, <1>4, <1>5, <1>6, <1>7 DEF DbNext

\* With libpq, as long as the pool is open, the connections that are marked as used are
\* those in somebody's hands: a broken BEGIN, a failing statement or a lost commit leaks
\* none, and none in use is removed or marked as free.
THEOREM DbFlagsMatchHands == DbSpec => []FlagsMatchHands
<1>1. Inv /\ OneOwner => FlagsMatchHands
  <2> SUFFICES ASSUME Inv, OneOwner, mode = "libpq", ~closed
               PROVE  In("used") = UNION {Hands[c] : c \in Clients}
    BY DEF FlagsMatchHands
  <2>1. \A c \in Clients : Hands[c] = {held[c], using[c]} \ {None} /\ Hands[c] \subseteq Conns
    BY DEF Hands, Inv, DbTypeOK, OrNone
  <2>2. \A x : x \in UNION {Hands[c] : c \in Clients} <=> x \in Conns /\ \E c \in Clients : Has(c, x)
    BY <2>1, PoolAssumption DEF PoolAssumption, Has
  <2> QED
    BY <2>2 DEF In, OneOwner
<1>2. Inv /\ [DbNext]_accessVars => Inv'
  BY NextInv
<1> QED
  BY <1>1, <1>2, InitInv, OwnerInit, OwnerNext, PTL DEF DbSpec

\* A client that takes or gives back at most one connection makes a step of
\* ConnectionPoolSpec.
Moves(c) ==
  /\ \A d \in Clients \ {c} : held'[d] = held[d] /\ using'[d] = using[d]
  /\ \/ held'[c] = held[c] /\ using'[c] = using[c]
     \/ held[c] = None /\ using[c] = None
     \/ held'[c] = None /\ using'[c] = None

LEMMA MovesRefine ==
  ASSUME Inv, OneOwner, Inv', OneOwner', mode = "libpq", mode' = mode, ~closed', ~closed,
         NEW c \in Clients, Moves(c)
  PROVE  [Contract!Next]_<<Hands, closed \/ mode # "libpq">>
<1>0. /\ Hands = [d \in Clients |-> {held[d], using[d]} \ {None}]
      /\ Hands' = [d \in Clients |-> {held'[d], using'[d]} \ {None}]
  BY DEF Hands
<1>1. \A d \in Clients \ {c} : Hands'[d] = Hands[d]
  BY <1>0 DEF Moves
<1>2. /\ Hands[c] = {} \/ \E x \in Conns : Hands[c] = {x} /\ Has(c, x)
      /\ Hands'[c] = {} \/ \E x \in Conns : Hands'[c] = {x} /\ Has(c, x)'
  BY <1>0, PoolAssumption DEF PoolAssumption, Inv, DbTypeOK, ClientInv, OrNone, Has
<1>3. CASE Hands'[c] = Hands[c]
  BY <1>0, <1>1, <1>3
<1>4. CASE Hands[c] = {} /\ \E x \in Conns : Hands'[c] = {x} /\ Has(c, x)'
  <2>1. PICK x \in Conns : Hands'[c] = {x} /\ Has(c, x)'
    BY <1>4
  <2>2. \A d \in Clients : x \notin Hands[d]
    <3>1. ASSUME NEW d \in Clients, x \in Hands[d]  PROVE FALSE
      <4>1. d # c
        BY <1>4, <3>1
      <4>2. Has(d, x)'
        BY <1>0, <3>1, <4>1 DEF Moves, Has
      <4> QED
        BY <2>1, <4>1, <4>2 DEF OneOwner
    <3> QED
      BY <3>1
  <2>3. Hands' = [Hands EXCEPT ![c] = @ \cup {x}]
    BY <1>0, <1>1, <1>4, <2>1
  <2>4. Contract!Take(c, x)
    BY <2>2, <2>3 DEF Contract!Take
  <2> QED
    BY <2>4 DEF Contract!Next
<1>5. CASE Hands'[c] = {} /\ \E x \in Conns : Hands[c] = {x}
  <2>1. PICK x \in Conns : Hands[c] = {x}
    BY <1>5
  <2>2. Hands' = [Hands EXCEPT ![c] = @ \ {x}]
    BY <1>0, <1>1, <1>5, <2>1
  <2>3. Contract!Give(c, x)
    BY <2>1, <2>2 DEF Contract!Give
  <2> QED
    BY <2>3 DEF Contract!Next
<1> QED
  BY <1>0, <1>2, <1>3, <1>4, <1>5 DEF Moves

LEMMA StepMoves ==
  ASSUME Inv, NEW c \in Clients, Step(c), mode = "libpq"
  PROVE  Moves(c) /\ mode' = mode /\ closed' = closed
<1> USE DEF Moves, Inv, DbTypeOK, ClientInv, poolVars
<1>1. ASSUME NEW x \in Conns, TakeIdle(c, x) \/ Create(c, x) \/ TakeAfterWait(c, x)
      PROVE  Moves(c) /\ mode' = mode /\ closed' = closed
  BY <1>1 DEF TakeIdle, Create, TakeAfterWait, Wants, Gets
<1>2. CASE Refuse(c) \/ Wait(c) \/ GiveUp(c) \/ Begin(c)
  BY <1>2 DEF Refuse, Wait, GiveUp, Begin
<1>3. CASE BeginFails(c)
  BY <1>3 DEF BeginFails
<1>4. CASE Exec(c) \/ ExecFails(c)
  BY <1>4 DEF Exec, ExecFails, EndStatement
<1>5. CASE Commit(c) \/ CommitFails(c) \/ CommitLosesAnswer(c)
  BY <1>5 DEF Commit, CommitFails, CommitLosesAnswer, EndCommit
<1>6. CASE Rollback(c)
  BY <1>6 DEF Rollback
<1> QED
  BY <1>1, <1>2, <1>3, <1>4, <1>5, <1>6 DEF Step

\* With libpq no two threads work on one connection: the pool implements
\* ConnectionPoolSpec.
THEOREM DbPoolExclusive == DbSpec => Exclusive
<1>1. DbInit => Contract!Init
  BY PoolAssumption DEF PoolAssumption, DbInit, Contract!Init, Hands
<1>2. Inv /\ OneOwner /\ Inv' /\ OneOwner' /\ [DbNext]_accessVars
        => [Contract!Next]_<<Hands, closed \/ mode # "libpq">>
  <2> SUFFICES ASSUME Inv, OneOwner, Inv', OneOwner', [DbNext]_accessVars
               PROVE  [Contract!Next]_<<Hands, closed \/ mode # "libpq">>
    OBVIOUS
  <2>1. CASE closed' \/ mode' # "libpq"
    BY <2>1 DEF Contract!Next
  <2> SUFFICES ASSUME ~closed', mode' = "libpq"
               PROVE  [Contract!Next]_<<Hands, closed \/ mode # "libpq">>
    BY <2>1
  <2>2. mode = "libpq" /\ ~closed
    <3>1. ASSUME NEW c \in Clients, Step(c)  PROVE mode' = mode /\ closed' = closed
      BY <3>1 DEF Step, TakeIdle, Create, TakeAfterWait, Gets, Refuse, Wait, GiveUp, Begin,
        BeginFails, Exec, ExecFails, Commit, CommitFails, CommitLosesAnswer, EndCommit, Rollback,
        poolVars
    <3> QED
      BY <3>1 DEF DbNext, Call, RemoveStale, ReopenIdle, CloseAllConnections, ServerFails,
        ServerReturns, EnsureMin, KillUsed, accessVars, poolVars
  <2>3. ASSUME NEW c \in Clients, Step(c)
        PROVE  [Contract!Next]_<<Hands, closed \/ mode # "libpq">>
    BY <2>2, <2>3, StepMoves, MovesRefine
  <2>4. CASE UNCHANGED <<held, using>>
    BY <2>2, <2>4 DEF Hands
  <2> QED
    BY <2>3, <2>4 DEF DbNext, Call, RemoveStale, ReopenIdle, CloseAllConnections, ServerFails,
      ServerReturns, EnsureMin, KillUsed, accessVars, clientVars
<1> QED
  BY <1>1, <1>2, InitInv, NextInv, OwnerInit, OwnerNext, PTL DEF DbSpec, Exclusive, Contract!Spec

-----------------------------------------------------------------------------
(* Merges *)

LEMMA MergeStep ==
  ASSUME Inv, MergeAllOrNothing, NEW c \in Clients, Step(c)
  PROVE  MergeAllOrNothing'
<1> USE DEF MergeAllOrNothing, AllOrNothing, poolVars
<1>1. CASE UNCHANGED <<mode, job, applied, told>>
  BY <1>1
<1>2. CASE Exec(c)
  <2>1. mode = "libpq" /\ job[c] = "merge" => applied' = applied
    BY <1>2 DEF Exec, TakesEffect, Inv, DbTypeOK, ClientInv
  <2>2. \A d \in Clients \ {c} : applied'[d] = applied[d]
    BY <1>2 DEF Exec, Inv, DbTypeOK
  <2> QED
    BY <1>2, <2>1, <2>2 DEF Exec
<1>3. ASSUME NEW ok \in BOOLEAN, pc[c] = "commit", EndCommit(c, ok),
             applied' = IF Commits(c) /\ txn[c] = "open" THEN [applied EXCEPT ![c] = done[c]] ELSE applied,
             ok => txn[c] = "open"
      PROVE  MergeAllOrNothing'
  <2>1. mode' = mode /\ job' = job
    BY <1>3 DEF EndCommit
  <2>2. \A d \in Clients \ {c} : applied'[d] = applied[d] /\ told'[d] = told[d]
    BY <1>3 DEF EndCommit, Inv, DbTypeOK
  <2>3. mode = "libpq" => AllOrNothing(c)'
    <3>1. told'[c] = (job[c] = "merge" /\ ok)
      BY <1>3 DEF EndCommit, Inv, DbTypeOK
    <3>2. mode = "libpq" /\ job[c] = "merge" => done[c] = Statements
      BY <1>3 DEF Inv, ClientInv
    <3>3. mode = "libpq" /\ job[c] = "merge" =>
            applied'[c] = IF txn[c] = "open" THEN Statements ELSE applied[c]
      BY <1>3, <3>2 DEF Commits, Inv, DbTypeOK
    <3> QED
      BY <1>3, <2>1, <3>1, <3>3
  <2> QED
    BY <2>1, <2>2, <2>3
<1>4. CASE Commit(c) \/ CommitFails(c) \/ CommitLosesAnswer(c)
  <2>1. CASE txn[c] = "open" /\ (Commit(c) \/ CommitLosesAnswer(c))
    BY <1>3, <2>1 DEF Commit, CommitLosesAnswer
  <2>2. CASE CommitFails(c)
    <3>1. UNCHANGED <<mode, job, applied>> /\ told' = [told EXCEPT ![c] = FALSE]
      BY <2>2 DEF CommitFails, EndCommit
    <3> QED
      BY <3>1 DEF Inv, DbTypeOK
  <2> QED
    BY <1>4, <2>1, <2>2 DEF Commit, CommitLosesAnswer
<1> QED
  BY <1>1, <1>2, <1>4 DEF Step, TakeIdle, Create, TakeAfterWait, Gets, Refuse, Wait, GiveUp,
    Begin, BeginFails, ExecFails, Rollback

\* With libpq a merge changes all of its tables or none, and reports success only when it
\* changed them, whichever statement fails and wherever the connection breaks.
THEOREM DbMergeAllOrNothing == DbSpec => []MergeAllOrNothing
<1>1. DbInit => MergeAllOrNothing
  BY DEF DbInit, MergeAllOrNothing, AllOrNothing
<1>2. Inv /\ MergeAllOrNothing /\ [DbNext]_accessVars => MergeAllOrNothing'
  <2> SUFFICES ASSUME Inv, MergeAllOrNothing, [DbNext]_accessVars PROVE MergeAllOrNothing'
    OBVIOUS
  <2>1. ASSUME NEW c \in Clients, Step(c)  PROVE MergeAllOrNothing'
    BY <2>1, MergeStep
  <2>2. ASSUME NEW c \in Clients, NEW j \in Jobs, Call(c, j)  PROVE MergeAllOrNothing'
    BY <2>2 DEF Call, MergeAllOrNothing, AllOrNothing, Inv, DbTypeOK, poolVars
  <2>3. CASE UNCHANGED <<mode, job, applied, told>>
    BY <2>3 DEF MergeAllOrNothing, AllOrNothing
  <2> QED
    BY <2>1, <2>2, <2>3 DEF DbNext, RemoveStale, ReopenIdle, CloseAllConnections, ServerFails,
      ServerReturns, EnsureMin, KillUsed, accessVars, clientVars, poolVars
<1> QED
  BY <1>1, <1>2, InitInv, NextInv, PTL DEF DbSpec

-----------------------------------------------------------------------------
(* Types of AlarmConfig.  The maps to be loaded are a sequence; so are those of a scope. *)

TodoInv == todo = <<"connect">> \/ todo \in Seq(Maps)

LEMMA TailTodo ==
  ASSUME NEW s \in Seq(Maps), s # <<>>
  PROVE  /\ Head(s) \in ToSet(s) /\ Tail(s) \in Seq(Maps)
         /\ ToSet(s) = {Head(s)} \cup ToSet(Tail(s))
<1>1. /\ Len(s) \in Nat /\ DOMAIN s = 1..Len(s) /\ Len(s) # 0
  BY LenProperties, EmptySeq
<1>2. /\ Head(s) = s[1] /\ Tail(s) \in Seq(Maps) /\ Len(Tail(s)) = Len(s) - 1
      /\ \A i \in 1..Len(Tail(s)) : Tail(s)[i] = s[i + 1]
  BY HeadTailProperties
<1>3. DOMAIN Tail(s) = 1..(Len(s) - 1)
  BY <1>2, LenProperties
<1>4. \A i \in DOMAIN s : i = 1 \/ (i - 1 \in DOMAIN Tail(s) /\ s[i] = Tail(s)[i - 1])
  BY <1>1, <1>2, <1>3
<1>5. \A i \in DOMAIN Tail(s) : i + 1 \in DOMAIN s /\ Tail(s)[i] = s[i + 1]
  BY <1>1, <1>2, <1>3
<1>6. 1 \in DOMAIN s
  BY <1>1
<1>7. \A i \in DOMAIN s : s[i] \in {s[1]} \cup ToSet(Tail(s))
  BY <1>4 DEF ToSet
<1>8. \A i \in DOMAIN Tail(s) : Tail(s)[i] \in ToSet(s)
  BY <1>5 DEF ToSet
<1>9. s[1] \in ToSet(s)
  BY <1>6 DEF ToSet
<1>10. ToSet(s) \subseteq {s[1]} \cup ToSet(Tail(s))
  BY <1>7 DEF ToSet
<1>11. ToSet(Tail(s)) \subseteq ToSet(s)
  BY <1>8 DEF ToSet
<1> QED
  BY <1>2, <1>9, <1>10, <1>11

LEMMA SetOfTodo == ASSUME NEW s \in Seq(Maps) PROVE ToSet(s) \subseteq Maps
BY LenProperties DEF ToSet

LEMMA BootMaps == BootOrder \in Seq(Maps) /\ ToSet(BootOrder) = Maps
<1>1. BootOrder \in Seq(Maps)
  BY DEF BootOrder, Maps, OfScheme
<1>2. ToSet(BootOrder) = {BootOrder[i] : i \in 1..10}
  BY DEF ToSet, BootOrder
<1> QED
  BY <1>1, <1>2 DEF BootOrder, Maps, OfScheme

\* Whatever scope is asked for, a reload of everything has its maps.
LEMMA ScopeMaps ==
  ASSUME NEW scope
  PROVE  /\ MapsOf(scope) \in Seq(Maps)
         /\ ToSet(MapsOf(scope)) \subseteq ToSet(MapsOf("all"))
<1> DEFINE r == <<"rules", "areas", "protect">>
           p == <<"params">>
           i == <<"subs", "ids">>
           v == <<"verification">>
           h == <<"handle">>
           rp == r \o p
           rpi == rp \o i
           rpiv == rpi \o v
           every == rpiv \o h
<1>1. r \in Seq(Maps) /\ p \in Seq(Maps) /\ i \in Seq(Maps) /\ v \in Seq(Maps) /\ h \in Seq(Maps)
      /\ <<>> \in Seq(Maps)
  BY DEF Maps, OfScheme
<1>2. MapsOf("all") = every
  BY DEF MapsOf
<1>3. scope # "all" => MapsOf(scope) \in {r, p, i, v, h, <<>>}
  BY DEF MapsOf
<1>4. \A s, t \in Seq(Maps) : s \o t \in Seq(Maps) /\ ToSet(s \o t) = ToSet(s) \cup ToSet(t)
  <2> TAKE s, t \in Seq(Maps)
  <2>1. s \o t \in Seq(Maps)
    BY ConcatProperties
  <2>2. Range(s \o t) = Range(s) \cup Range(t)
    BY RangeConcatenation
  <2>3. ToSet(s \o t) = Range(s \o t) /\ ToSet(s) = Range(s) /\ ToSet(t) = Range(t)
    BY DEF ToSet, Range
  <2> QED
    BY <2>1, <2>2, <2>3
<1> HIDE DEF r, p, i, v, h
<1>5. rp \in Seq(Maps) /\ ToSet(rp) = ToSet(r) \cup ToSet(p)
  BY <1>1, <1>4
<1> HIDE DEF rp
<1>6. rpi \in Seq(Maps) /\ ToSet(rpi) = ToSet(rp) \cup ToSet(i)
  BY <1>1, <1>4, <1>5
<1> HIDE DEF rpi
<1>7. rpiv \in Seq(Maps) /\ ToSet(rpiv) = ToSet(rpi) \cup ToSet(v)
  BY <1>1, <1>4, <1>6
<1> HIDE DEF rpiv
<1>8. every \in Seq(Maps) /\ ToSet(every) = ToSet(rpiv) \cup ToSet(h)
  BY <1>1, <1>4, <1>7
<1> HIDE DEF every
<1>9. ToSet(<<>>) = {}
  BY DEF ToSet
<1>10. CASE scope = "all"
  BY <1>2, <1>8, <1>10
<1>11. CASE scope # "all"
  BY <1>1, <1>2, <1>3, <1>5, <1>6, <1>7, <1>8, <1>9, <1>11
<1> QED
  BY <1>10, <1>11

\* What the steps of the main thread put into todo, and in which order it is taken out.
LEMMA LoadsHead ==
  ASSUME TodoInv, NEW m \in Maps, NEW name, Load(m, name)
  PROVE  /\ todo \in Seq(Maps) /\ todo # <<>> /\ m = Head(todo) /\ todo' = Tail(todo)
         /\ todo' \in Seq(Maps) /\ ToSet(todo) = {m} \cup ToSet(todo')
<1>1. todo # <<>> /\ Head(todo) = m /\ todo' = Tail(todo)
  BY DEF Load
<1>2. todo # <<"connect">>
  BY <1>1 DEF Maps, OfScheme
<1> QED
  BY <1>1, <1>2, TailTodo DEF TodoInv

\* Each step of the loading but the one that asks for the scheme loads a map: for the
\* scheme that was asked for, or one that does not depend on it.
LEMMA LoadCases ==
  ASSUME LoadNext
  PROVE  \/ getActiveSchemeId
         \/ \E m \in OfScheme : scheme # Unknown /\ Load(m, scheme)
         \/ \E m \in Maps \ OfScheme : Load(m, Default)
<1> USE DEF Maps, OfScheme, LoadOfScheme
<1>1. CASE getActiveSchemeId
  BY <1>1
<1>2. CASE getAllTargetInfo \/ getAlarmRule \/ getAreaInfo \/ getTargetInfoFilter
  <2>1. \E m \in {"targets", "rules", "areas", "filter"} : Load(m, Default)
    BY <1>2, Zenon DEF getAllTargetInfo, getAlarmRule, getAreaInfo, getTargetInfoFilter
  <2> QED
    BY <2>1
<1>3. CASE \/ getAlarmIdentificationRulesSub \/ getIdentificationRuleIdsByArea
           \/ getVerificationRuleIdsByArea \/ getAreaHandleRulesByArea
           \/ getThreatAssessmentParams \/ getActiveSchemeProtectAreas
  <2>1. \E m \in OfScheme : LoadOfScheme(m)
    BY <1>3, Zenon DEF getAlarmIdentificationRulesSub, getIdentificationRuleIdsByArea,
       getVerificationRuleIdsByArea, getAreaHandleRulesByArea, getThreatAssessmentParams,
       getActiveSchemeProtectAreas
  <2> QED
    BY <2>1
<1> QED
  BY <1>1, <1>2, <1>3 DEF LoadNext

Typed == TypeOK /\ TodoInv

LEMMA LoadTypes == ASSUME Typed, LoadNext PROVE Typed'
<1> USE DEF Typed, TypeOK, dbVars, initVars, judgeVars
<1>1. CASE getActiveSchemeId
  BY <1>1, ConfigAssumption DEF ConfigAssumption, getActiveSchemeId, TodoInv, Names
<1>2. ASSUME NEW m \in Maps, NEW name \in Names, Load(m, name) PROVE Typed'
  <2>1. todo' \in Seq(Maps) /\ ToSet(todo') \subseteq Maps
    BY <1>2, LoadsHead, SetOfTodo
  <2> QED
    BY <1>2, <2>1 DEF Load, TodoInv
<1>3. ASSUME NEW m \in OfScheme, scheme # Unknown, Load(m, scheme) PROVE Typed'
  <2>1. m \in Maps /\ scheme \in Names
    BY <1>3 DEF Maps
  <2> QED
    BY <1>2, <1>3, <2>1
<1>4. Default \in Names
  BY DEF Names
<1> QED
  BY <1>1, <1>2, <1>3, <1>4, LoadCases

LEMMA JudgeTypes ==
  ASSUME Typed, (\E a \in Alarms : BeginJudge(a)) \/ (\E r \in Rules : JudgeByRule(r))
  PROVE  Typed'
<1> USE ConfigAssumption DEF ConfigAssumption, Typed, TypeOK, TodoInv, dbVars, initVars, loadVars, judgeVars
<1>1. ASSUME NEW a \in Alarms, BeginJudge(a) PROVE Typed'
  <2>1. RulesFor(a, copy["ids"]) \subseteq Rules /\ RulesFor(a, copy["ids"]) # {}
    BY DEF RulesFor
  <2> QED
    BY <1>1, <2>1 DEF BeginJudge, NobodyJudged
<1>2. ASSUME NEW r \in Rules, JudgeByRule(r) PROVE Typed'
  BY <1>2 DEF JudgeByRule, NobodyJudged
<1> QED
  BY <1>1, <1>2

LEMMA ConfigTypeInit == Init => Typed
<1> SUFFICES ASSUME Init PROVE Typed
  OBVIOUS
<1>1. changes \in 0..MaxChanges
  BY ConfigAssumption DEF ConfigAssumption, Init
<1>2. (ids = {} <=> judged = NobodyJudged) /\ judged \in Alarms \cup {NobodyJudged} /\ ids \subseteq Rules
  BY DEF Init, NobodyJudged
<1>3. evidence \in [Alarms -> SUBSET Needs] /\ copy \in [Maps -> (Editions \X Names) \cup {Empty}]
  BY DEF Init
<1> QED
  BY <1>1, <1>2, <1>3 DEF Init, Typed, TypeOK, TodoInv

LEMMA ConfigTypeNext == Typed /\ [Next]_vars => Typed'
<1> SUFFICES ASSUME Typed, [Next]_vars PROVE Typed'
  OBVIOUS
<1> USE DEF Typed, TypeOK, TodoInv, dbVars, initVars, loadVars, judgeVars
<1>1. CASE Boot
  <2>1. todo' \in Seq(Maps) /\ ToSet(todo') = Maps /\ asked' \subseteq Maps
    BY <1>1, BootMaps DEF Boot
  <2>2. scheme = Unknown
    BY <1>1 DEF Boot, OfScheme
  <2> QED
    BY <1>1, <2>1, <2>2 DEF Boot
<1>2. CASE StartThreads
  BY <1>2 DEF StartThreads
<1>3. CASE RefreshTargetInfoFilter
  <2>1. Default \in Names /\ "filter" \in Maps
    BY DEF Names, Maps
  <2> QED
    BY <1>3, <2>1 DEF RefreshTargetInfoFilter
<1>4. ASSUME NEW s \in Scopes, NEW hasBody \in BOOLEAN, UpdateAlarms(s, hasBody) PROVE Typed'
  <2>1. /\ todo' \in Seq(Maps) /\ asked' \subseteq asked \cup ToSet(MapsOf(s))
        /\ scheme = Unknown
    BY <1>4, ScopeMaps DEF UpdateAlarms
  <2>2. ToSet(todo') \subseteq Maps /\ ToSet(MapsOf(s)) \subseteq Maps
    BY <2>1, ScopeMaps, SetOfTodo
  <2> QED
    BY <1>4, <2>1, <2>2 DEF UpdateAlarms
<1>5. ASSUME NEW a \in Alarms, NEW n \in Needs, EvidenceComes(a, n) PROVE Typed'
  BY <1>5 DEF EvidenceComes
<1>6. CASE DatabaseChanges
  <2>1. changes' \in 0..MaxChanges /\ edition' \in Editions /\ asked' = {}
    BY <1>6, ConfigAssumption DEF DatabaseChanges, ConfigAssumption
  <2>2. up' \in BOOLEAN /\ sure' \in BOOLEAN
    BY <1>6, Zenon DEF DatabaseChanges
  <2>3. UNCHANGED <<loadVars, evidence, judgeVars>>
    BY <1>6 DEF DatabaseChanges
  <2> QED
    BY <2>1, <2>2, <2>3
<1>7. CASE UNCHANGED vars
  BY <1>7 DEF vars
<1> QED
  BY <1>1, <1>2, <1>3, <1>4, <1>5, <1>6, <1>7, LoadTypes, JudgeTypes DEF Next

LEMMA ConfigTyped == Spec => []Typed
BY ConfigTypeInit, ConfigTypeNext, PTL DEF Spec

\* Every variable keeps its type, and an alarm is judged as long as it has rules left.
THEOREM ConfigTypeCorrect == Spec => []TypeOK
<1>1. Typed => TypeOK
  BY DEF Typed
<1> QED
  BY <1>1, ConfigTyped, PTL

-----------------------------------------------------------------------------
(* Reloads.  A map is current if it was loaded from what the database holds now. *)

Current(m) ==
  copy[m] # Empty /\ copy[m][1] = edition /\ (m \in OfScheme => copy[m][2] \in Active)

\* While the database stays as it is, a map that was asked for is current or yet to be
\* loaded, and loading can but make it so: the database answers, and the scheme that was
\* found is an active one.
ReloadInv ==
  /\ asked # {} => up /\ ready /\ todo # <<"connect">>
  /\ asked # {} /\ scheme # Unknown => scheme \in Active
  /\ \A m \in asked : m \in ToSet(todo) \/ Current(m)

\* A map that is loaded from a database that answers, for an active scheme, is current.
LEMMA LoadedIsCurrent ==
  ASSUME Typed, NEW m \in Maps, NEW name \in Names, Load(m, name),
         asked # {}, ReloadInv, m \in OfScheme => name \in Active
  PROVE  /\ Current(m)'
         /\ \A n \in Maps \ {m} : Current(n) => Current(n)'
<1>1. /\ copy' = [copy EXCEPT ![m] = <<edition, name>>] /\ edition' = edition /\ edition \in Editions
      /\ copy \in [Maps -> (Editions \X Names) \cup {Empty}]
  BY DEF Load, ReloadInv, dbVars, Typed, TypeOK
<1>2. <<edition, name>> # Empty
  BY <1>1, ConfigAssumption DEF ConfigAssumption
<1>3. Active' = Active
  BY <1>1 DEF Active
<1>4. copy'[m] = <<edition, name>> /\ \A n \in Maps \ {m} : copy'[n] = copy[n]
  BY <1>1
<1> QED
  BY <1>1, <1>2, <1>3, <1>4 DEF Current

LEMMA ReloadLoad == ASSUME Typed, ReloadInv, LoadNext PROVE ReloadInv'
<1>1. CASE getActiveSchemeId
  <2>1. UNCHANGED <<edition, up, ready, todo, copy, asked>>
    BY <1>1 DEF getActiveSchemeId, dbVars, initVars
  <2>2. asked # {} => scheme' \in Active
    BY <1>1 DEF getActiveSchemeId, Active, ReloadInv
  <2> QED
    BY <2>1, <2>2 DEF ReloadInv, Current, Active
<1>2. ASSUME NEW m \in Maps, NEW name \in Names, Load(m, name),
             m \in OfScheme => scheme # Unknown /\ name = scheme
      PROVE  ReloadInv'
  <2>1. /\ UNCHANGED <<up, ready, asked>> /\ scheme' = Unknown
        /\ asked \subseteq Maps
    BY <1>2 DEF Load, dbVars, initVars, Typed, TypeOK
  <2>2. /\ ToSet(todo) = {m} \cup ToSet(todo') /\ todo' \in Seq(Maps)
    BY <1>2, LoadsHead DEF Typed
  <2>3. todo' # <<"connect">>
    BY <2>2, SetOfTodo DEF Maps, OfScheme, ToSet
  <2>4. asked # {} => \A n \in asked : n \in ToSet(todo') \/ Current(n)'
    BY <1>2, <2>1, <2>2, LoadedIsCurrent DEF ReloadInv
  <2> QED
    BY <2>1, <2>3, <2>4 DEF ReloadInv
<1>3. Default \in Names /\ OfScheme \subseteq Maps
  BY DEF Names, Maps
<1>4. scheme # Unknown => scheme \in Names
  BY DEF Typed, TypeOK
<1> QED
  BY <1>1, <1>2, <1>3, <1>4, LoadCases

\* A step that leaves the database, the maps and what is asked for alone.
LEMMA ReloadFrame ==
  ASSUME ReloadInv, UNCHANGED <<up, edition, ready, todo, scheme, copy, asked>>
  PROVE  ReloadInv'
BY DEF ReloadInv, Current, Active

LEMMA ReloadNext == Typed /\ ReloadInv /\ [Next]_vars => ReloadInv'
<1> SUFFICES ASSUME Typed, ReloadInv, [Next]_vars PROVE ReloadInv'
  OBVIOUS
<1>1. CASE Boot
  <2>1. ToSet(todo') = Maps /\ todo' # <<"connect">> /\ scheme = Unknown
    BY <1>1, BootMaps DEF Boot, BootOrder, Typed, TypeOK, OfScheme
  <2>2. asked' # {} => up' /\ ready'
    BY <1>1 DEF Boot, dbVars
  <2>3. asked' \subseteq Maps /\ scheme' = scheme
    BY <1>1 DEF Boot
  <2> QED
    BY <2>1, <2>2, <2>3 DEF ReloadInv
<1>2. CASE StartThreads
  <2>1. UNCHANGED <<up, edition, todo, scheme, copy, asked>> /\ ready' = up
    BY <1>2 DEF StartThreads, dbVars
  <2> QED
    BY <2>1 DEF ReloadInv, Current, Active
<1>3. CASE RefreshTargetInfoFilter
  <2>1. /\ UNCHANGED <<up, edition, ready, todo, scheme, asked>>
        /\ up /\ ready => copy' = [copy EXCEPT !["filter"] = <<edition, Default>>]
    BY <1>3 DEF RefreshTargetInfoFilter, dbVars, initVars
  <2>2. /\ <<edition, Default>> # Empty /\ copy \in [Maps -> (Editions \X Names) \cup {Empty}]
        /\ asked \subseteq Maps /\ "filter" \in Maps \ OfScheme
    BY ConfigAssumption DEF ConfigAssumption, Typed, TypeOK, Names, Maps, OfScheme
  <2>3. asked # {} => \A m \in Maps : Current(m) => Current(m)'
    BY <2>1, <2>2 DEF ReloadInv, Current, Active
  <2> QED
    BY <2>1, <2>2, <2>3 DEF ReloadInv, Active
<1>4. ASSUME NEW s \in Scopes, NEW hasBody \in BOOLEAN, UpdateAlarms(s, hasBody) PROVE ReloadInv'
  <2>1. /\ UNCHANGED <<up, edition, copy, scheme>> /\ todo = <<>> /\ scheme = Unknown
        /\ ready' = (IF inited THEN ready ELSE up)
        /\ todo' = IF ready' THEN MapsOf(ParseReloadScope(s, hasBody)) ELSE <<>>
        /\ asked' = IF up THEN asked \cup ToSet(MapsOf(s)) ELSE asked
    BY <1>4 DEF UpdateAlarms, dbVars, Typed, TypeOK
  <2>2. up => ready'
    BY <2>1 DEF Typed, TypeOK
  <2>3. asked' # {} => up' /\ ready'
    BY <2>1, <2>2 DEF ReloadInv
  <2>4. todo' # <<"connect">>
    <3>1. todo' \in Seq(Maps)
      BY <2>1, ScopeMaps
    <3> QED
      BY <3>1, SetOfTodo DEF Maps, OfScheme, ToSet
  <2>5. ToSet(MapsOf(s)) \subseteq ToSet(MapsOf(ParseReloadScope(s, hasBody)))
    BY ScopeMaps DEF ParseReloadScope
  <2>6. \A m \in asked : Current(m)
    <3>1. ToSet(todo) = {}
      BY <2>1 DEF ToSet
    <3> QED
      BY <3>1 DEF ReloadInv
  <2>7. \A m : Current(m) => Current(m)'
    BY <2>1 DEF Current, Active
  <2>8. \A m \in asked' : m \in ToSet(todo') \/ Current(m)'
    BY <2>1, <2>2, <2>5, <2>6, <2>7
  <2> QED
    BY <2>1, <2>3, <2>4, <2>8 DEF ReloadInv
<1>5. ASSUME NEW a \in Alarms, BeginJudge(a) \/ \E n \in Needs : EvidenceComes(a, n)
      PROVE  ReloadInv'
  BY <1>5, ReloadFrame DEF BeginJudge, EvidenceComes, dbVars, loadVars, initVars
<1>6. ASSUME NEW r \in Rules, JudgeByRule(r) PROVE ReloadInv'
  BY <1>6, ReloadFrame DEF JudgeByRule, dbVars, loadVars, initVars
<1>7. CASE DatabaseChanges
  BY <1>7 DEF DatabaseChanges, ReloadInv
<1>8. CASE UNCHANGED vars
  BY <1>8, ReloadFrame DEF vars, dbVars, loadVars, initVars
<1> QED
  BY <1>1, <1>2, <1>3, <1>4, <1>5, <1>6, <1>7, <1>8, ReloadLoad DEF Next

\* When a request to reload has been answered, each map of its scope is what the
\* database holds, for a scheme that is active, although the scheme is asked for again
\* before each of them and a request may come while another edition was loaded.
THEOREM ReloadCorrectInMemory == Spec => []ReloadTakesEffect
<1>1. Init => ReloadInv
  BY DEF Init, ReloadInv
<1>2. ReloadInv => ReloadTakesEffect
  <2> SUFFICES ASSUME ReloadInv, todo = <<>>, NEW m \in asked
               PROVE  Current(m)
    BY DEF ReloadTakesEffect, Current
  <2>1. ToSet(todo) = {}
    BY DEF ToSet
  <2> QED
    BY <2>1 DEF ReloadInv
<1> QED
  BY <1>1, <1>2, ReloadNext, ConfigTyped, PTL DEF Spec

-----------------------------------------------------------------------------
(* Judgements.  The rules an alarm is judged by were taken when it began, from a map *)
(* that has been current since; their rows are taken from another one. *)

Binds(a, r) == r = RuleOf[a] \/ \E s \in Active : <<AreaOf[a], r>> \in Bound[edition][s]

SureInv ==
  sure => /\ {"subs", "ids"} \subseteq asked /\ Current("subs") /\ Current("ids")
          /\ judged # NobodyJudged => \A r \in ids : Binds(judged, r)

LEMMA SureFrame ==
  ASSUME SureInv, UNCHANGED <<edition, copy, judged, ids, sure>>, asked \subseteq asked'
  PROVE  SureInv'
BY DEF SureInv, Current, Active, Binds

LEMMA SureLoad == ASSUME Typed, ReloadInv, SureInv, LoadNext PROVE SureInv'
<1>1. CASE getActiveSchemeId
  BY <1>1, SureFrame DEF getActiveSchemeId, dbVars, judgeVars
<1>2. ASSUME NEW m \in Maps, NEW name \in Names, Load(m, name),
             m \in OfScheme => scheme # Unknown /\ name = scheme
      PROVE  SureInv'
  <2>1. UNCHANGED <<edition, judged, ids, sure, asked>>
    BY <1>2 DEF Load, dbVars, judgeVars
  <2>2. sure => asked # {} /\ Current("subs")' /\ Current("ids")'
    <3>1. "subs" \in Maps /\ "ids" \in Maps
      BY DEF Maps, OfScheme
    <3>2. sure => asked # {} /\ (m \in OfScheme => name \in Active)
      BY <1>2 DEF SureInv, ReloadInv
    <3> QED
      BY <1>2, <3>1, <3>2, LoadedIsCurrent DEF SureInv
  <2> QED
    BY <2>1, <2>2 DEF SureInv, Binds, Active
<1>3. Default \in Names /\ OfScheme \subseteq Maps
  BY DEF Names, Maps
<1>4. scheme # Unknown => scheme \in Names
  BY DEF Typed, TypeOK
<1> QED
  BY <1>1, <1>2, <1>3, <1>4, LoadCases

LEMMA SureBegin == ASSUME Typed, ReloadInv, NEW a \in Alarms, BeginJudge(a) PROVE SureInv'
<1>1. /\ UNCHANGED <<edition, copy, asked>> /\ judged' = a /\ ids' = RulesFor(a, copy["ids"])
      /\ sure' = ({"subs", "ids"} \subseteq asked \ ToSet(todo))
  BY DEF BeginJudge, dbVars, loadVars
<1>2. sure' => {"subs", "ids"} \subseteq asked /\ Current("subs") /\ Current("ids")
  BY <1>1 DEF ReloadInv
<1>3. Current("ids") => \A r \in RulesFor(a, copy["ids"]) : Binds(a, r)
  BY DEF RulesFor, Current, Binds, OfScheme
<1> QED
  BY <1>1, <1>2, <1>3 DEF SureInv, Current, Active, Binds

LEMMA SureNext == Typed /\ ReloadInv /\ SureInv /\ [Next]_vars => SureInv'
<1> SUFFICES ASSUME Typed, ReloadInv, SureInv, [Next]_vars PROVE SureInv'
  OBVIOUS
<1>1. CASE Boot
  <2>1. asked = {} /\ sure' = sure
    BY <1>1 DEF Boot, ReloadInv
  <2> QED
    BY <2>1 DEF SureInv
<1>2. CASE StartThreads
  BY <1>2, SureFrame DEF StartThreads, dbVars, judgeVars
<1>3. CASE RefreshTargetInfoFilter
  <2>1. /\ UNCHANGED <<edition, judged, ids, sure, asked>>
        /\ copy'["subs"] = copy["subs"] /\ copy'["ids"] = copy["ids"]
    BY <1>3 DEF RefreshTargetInfoFilter, dbVars, judgeVars, Typed, TypeOK, Maps, OfScheme
  <2> QED
    BY <2>1 DEF SureInv, Current, Binds, Active
<1>4. ASSUME NEW s \in Scopes, NEW hasBody \in BOOLEAN, UpdateAlarms(s, hasBody) PROVE SureInv'
  BY <1>4, SureFrame DEF UpdateAlarms, dbVars, judgeVars
<1>5. ASSUME NEW a \in Alarms, NEW n \in Needs, EvidenceComes(a, n) PROVE SureInv'
  BY <1>5, SureFrame DEF EvidenceComes, dbVars, loadVars, judgeVars
<1>6. ASSUME NEW r \in Rules, JudgeByRule(r) PROVE SureInv'
  <2>1. UNCHANGED <<edition, copy, asked, sure>>
    BY <1>6 DEF JudgeByRule, dbVars, loadVars
  <2>2. judged' = NobodyJudged \/ (judged' = judged /\ ids' \subseteq ids)
    BY <1>6 DEF JudgeByRule
  <2> QED
    BY <2>1, <2>2 DEF SureInv, Current, Active, Binds
<1>7. CASE DatabaseChanges
  BY <1>7 DEF DatabaseChanges, SureInv
<1>8. CASE UNCHANGED vars
  BY <1>8, SureFrame DEF vars, dbVars, loadVars, judgeVars
<1> QED
  BY <1>1, <1>2, <1>3, <1>4, <1>5, <1>6, <1>7, <1>8, SureLoad, SureBegin DEF Next

\* A rule that is met by its rows in a current map has a criterion all of whose rows
\* the evidence satisfies.
LEMMA MetIsSatisfied ==
  ASSUME Typed, Current("subs"), NEW r \in Rules, NEW a \in Alarms,
         Constrained(SubRows(r, copy["subs"])), RuleMet(SubRows(r, copy["subs"]), Found(a))
  PROVE  Satisfied(r, a)
<1> DEFINE rows == Rows[edition][r]
<1>1. SubRows(r, copy["subs"]) # {}
  BY DEF Constrained
<1>2. SubRows(r, copy["subs"]) = rows
  BY <1>1 DEF SubRows, Current
<1>3. Found(a) \subseteq evidence[a]
  BY DEF Found
<1>4. PICK c \in {w.criteria : w \in {v \in rows : v.enabled}} :
        \A w \in {v \in rows : v.enabled} : w.criteria = c => RowMet(w, Found(a))
  BY <1>2 DEF RuleMet
<1>5. PICK w \in rows : w.enabled /\ w.criteria = c
  BY <1>4
<1>6. c \in Criteria(r)
  BY <1>5 DEF Criteria
<1>7. \A v \in {u \in rows : u.criteria = c /\ u.enabled} : RowMet(v, Found(a))
  BY <1>4
<1>8. \A v : RowMet(v, Found(a)) =>
        v.text # "malformed" /\ (v.text = "rules" => v.needs \subseteq evidence[a])
  BY <1>3 DEF RowMet
<1> QED
  BY <1>5, <1>6, <1>7, <1>8 DEF Satisfied

\* While the configuration stands still, an alarm is verified only by its own rule or
\* by one that an active scheme binds to its area, and only if some criterion of that
\* rule has all it wants: whichever of several enabled schemes each map was loaded for,
\* and however often the maps are loaded again while it is judged.
THEOREM VerifiedCorrect == Spec => VerifiedAsConfigured
<1> DEFINE Configured ==
      \A a \in verified' \ verified :
        sure => \E r \in Rules :
          /\ Satisfied(r, a)
          /\ r = RuleOf[a] \/ \E s \in Active : <<AreaOf[a], r>> \in Bound[edition][s]
<1>1. Init => SureInv
  BY DEF Init, SureInv
<1>2. Init => ReloadInv
  BY DEF Init, ReloadInv
<1>3. Typed /\ SureInv /\ [Next]_vars => [Configured]_vars
  <2> SUFFICES ASSUME Typed, SureInv, Next, NEW a \in verified' \ verified, sure
               PROVE  \E r \in Rules : Satisfied(r, a) /\ Binds(a, r)
    BY DEF Binds
  <2>1. PICK r \in Rules : JudgeByRule(r)
    <3>1. (\E r \in Rules : JudgeByRule(r)) \/ verified' = verified
      <4>1. LoadNext => verified' = verified
        BY LoadCases DEF getActiveSchemeId, Load, judgeVars
      <4> QED
        BY <4>1 DEF Next, Boot, StartThreads, RefreshTargetInfoFilter, UpdateAlarms, BeginJudge,
           EvidenceComes, DatabaseChanges, judgeVars
    <3> QED
      BY <3>1
  <2>2. /\ judged = a /\ a \in Alarms /\ judged # NobodyJudged /\ r \in ids
        /\ Constrained(SubRows(r, copy["subs"])) /\ RuleMet(SubRows(r, copy["subs"]), Found(a))
    BY <2>1 DEF JudgeByRule, Typed, TypeOK
  <2>3. Satisfied(r, a)
    BY <2>2, MetIsSatisfied DEF SureInv
  <2>4. Binds(a, r)
    BY <2>2 DEF SureInv
  <2> QED
    BY <2>3, <2>4
<1> QED
  BY <1>1, <1>2, <1>3, ReloadNext, SureNext, ConfigTyped, PTL DEF Spec, VerifiedAsConfigured

-----------------------------------------------------------------------------
(* The archive (TargetArchive), for any tables.  A row is a function of its columns. *)

CONSTANTS Null, Half, BatchSize, NoTime
Archive == INSTANCE TargetArchive

IsRow(r) == r = [column \in DOMAIN r |-> r[column]]
HasTarget(r) == IsRow(r) /\ "target" \in DOMAIN r
ById(rows) == \A r, s \in rows : r.id = s.id => r = s

IsArchive(db) ==
  /\ IsRow(db) /\ {"info", "assoc", "coll", "parts"} \subseteq DOMAIN db
  /\ \A r \in db.assoc \cup db.coll : HasTarget(r)
  /\ \A c \in db.coll : "id" \in DOMAIN c
  /\ ById(db.coll)

Moved(merged, id, r) == IF r.target \in merged THEN [r EXCEPT !.target = id] ELSE r

LEMMA MovedFacts ==
  ASSUME NEW merged, NEW id, NEW r, HasTarget(r)
  PROVE  /\ Moved(merged, id, r).target = IF r.target \in merged THEN id ELSE r.target
         /\ \A c \in DOMAIN r \ {"target"} : Moved(merged, id, r)[c] = r[c]
<1>1. CASE r.target \in merged
  BY <1>1 DEF Moved, HasTarget
<1>2. CASE r.target \notin merged
  BY <1>2 DEF Moved
<1> QED
  BY <1>1, <1>2

\* A merge that is told as done has lost no association and no collection and leaves none
\* with a target that is gone: each collection is there once, with the same id, and belongs
\* to the new target if its own was merged; other targets stay.  Only a merge into one of the
\* merged targets, which the database has to allow, loses the target itself (mergeTargets).
THEOREM MergeKeepsAll ==
  ASSUME NEW keyed, NEW db, IsArchive(db), NEW merged, NEW new,
         Archive!MergeTargets(keyed, db, merged, new).told
  PROVE  LET after == Archive!MergeTargets(keyed, db, merged, new).table
             Same(r) == Moved(merged, new.id, r)
         IN  /\ after.assoc = {Same(r) : r \in db.assoc}
             /\ \A r \in after.assoc \cup after.coll : r.target \notin merged \ {new.id}
             /\ \A r \in db.coll : \E s \in after.coll : s = Same(r) /\ s.id = r.id
             /\ \A s \in after.coll : \E r \in db.coll : s = Same(r) /\ s.id = r.id
             /\ ById(after.coll)
             /\ new \in after.info <=> new.id \notin merged
             /\ \A r \in db.info : r.id \notin merged => r \in after.info
             /\ after.parts = db.parts
<1> DEFINE after == Archive!MergeTargets(keyed, db, merged, new).table
           Same(r) == Moved(merged, new.id, r)
<1>1. /\ after.info = {r \in db.info \cup {new} : r.id \notin merged}
      /\ after.assoc = {Same(r) : r \in db.assoc}
      /\ after.coll = {Same(r) : r \in db.coll}
      /\ after.parts = db.parts
  <2> DEFINE info == {r \in db.info \cup {new} : r.id \notin merged}
             assoc == {Same(r) : r \in db.assoc}
             coll == {Same(r) : r \in db.coll}
             one == [db EXCEPT !.info = info]
             two == [one EXCEPT !.assoc = assoc]
  <2>1. after = [two EXCEPT !.coll = coll]
    BY DEF Archive!MergeTargets, Moved
  <2>2. /\ one.info = info /\ one.parts = db.parts /\ IsRow(one) /\ DOMAIN one = DOMAIN db
    BY DEF IsArchive, IsRow
  <2> HIDE DEF info, assoc, coll, one, after
  <2>3. /\ two.info = info /\ two.assoc = assoc /\ two.parts = db.parts
        /\ IsRow(two) /\ DOMAIN two = DOMAIN db
    BY <2>2 DEF IsArchive, IsRow
  <2> HIDE DEF two
  <2>4. after.info = info /\ after.assoc = assoc /\ after.coll = coll /\ after.parts = db.parts
    BY <2>1, <2>3 DEF IsArchive, IsRow
  <2> QED
    BY <2>4 DEF info, assoc, coll
<1> HIDE DEF after
<1>2. \A r \in db.assoc \cup db.coll : Same(r).target \notin merged \ {new.id}
  BY MovedFacts DEF IsArchive
<1>3. \A r \in db.coll : Same(r).id = r.id
  BY MovedFacts DEF IsArchive
<1> HIDE DEF Same
<1>4. \A r \in after.assoc \cup after.coll : r.target \notin merged \ {new.id}
  BY <1>1, <1>2
<1>5. ById(after.coll)
  BY <1>1, <1>3 DEF ById, IsArchive
<1> QED
  BY <1>1, <1>3, <1>4, <1>5 DEF after, Same

\* A delete that is told as done has left nothing of the target, nor of its collections in
\* any of the six tables of parts, if they could be listed and, in a transaction, the commit
\* was done, at whose answer the code does not look.  One that is not told has changed
\* nothing in a transaction.  However far it came, nothing of another target is gone
\* (deleteTarget).
THEOREM DeleteLeavesNothing ==
  ASSUME NEW db, IsArchive(db), NEW id,
         NEW inTxn \in BOOLEAN, NEW listed \in BOOLEAN, NEW commits \in BOOLEAN,
         NEW n \in 0..9, NEW some
  PROVE  LET d == Archive!DeleteTarget(db, id, inTxn, listed, n, some, commits)
             after == d.table
             Gone(r) == r.target = id
         IN  /\ d.told /\ listed /\ (inTxn => commits) =>
                  /\ after.info = {r \in db.info : r.id # id}
                  /\ \A r \in after.assoc \cup after.coll : ~Gone(r)
                  /\ \A k \in Archive!Kinds, c \in db.coll :
                       Gone(c) => \A p \in after.parts[k] : p.coll # c.id
             /\ inTxn /\ (~d.told \/ ~commits) => after = db
             /\ \A r \in db.info : r.id = id \/ r \in after.info
             /\ \A r \in db.assoc : Gone(r) \/ r \in after.assoc
             /\ \A c \in db.coll : Gone(c) \/ c \in after.coll
             /\ \A k \in Archive!Kinds, c \in db.coll :
                  ~Gone(c) => \A p \in db.parts[k] : p.coll = c.id => p \in after.parts[k]
<1> DEFINE own == IF listed THEN {c.id : c \in {d \in db.coll : d.target = id}} ELSE {}
           AfterStep(what) == \E i \in 1..n : Archive!DeleteOrder[i] = what
           Emptied(k) == IF AfterStep(k) THEN own
                         ELSE IF n < 9 /\ Archive!DeleteOrder[n + 1] = k THEN own \cap some ELSE {}
           deleted == Archive!Deleted(db, id, listed, n, some)
           d == Archive!DeleteTarget(db, id, inTxn, listed, n, some, commits)
<1>1. /\ deleted.info = {r \in db.info : AfterStep("info") => r.id # id}
      /\ deleted.assoc = {r \in db.assoc : AfterStep("assoc") => r.target # id}
      /\ deleted.coll = {c \in db.coll : AfterStep("coll") => c.target # id}
      /\ \A k \in Archive!Kinds : deleted.parts[k] = {p \in db.parts[k] : p.coll \notin Emptied(k)}
  BY DEF Archive!Deleted
<1>2. /\ d.table = IF inTxn /\ ~(d.told /\ commits) THEN db ELSE deleted
      /\ d.told <=> n = 9 /\ (inTxn => listed)
  BY DEF Archive!DeleteTarget, Archive!DeleteOrder
<1>3. \A k \in Archive!Kinds : Emptied(k) \subseteq own
  OBVIOUS
<1>4. n = 9 => \A what \in Archive!Kinds \cup {"info", "assoc", "coll"} : AfterStep(what)
  <2> SUFFICES ASSUME n = 9, NEW what \in Archive!Kinds \cup {"info", "assoc", "coll"}
               PROVE  \E i \in 1..9 : Archive!DeleteOrder[i] = what
    OBVIOUS
  <2> QED
    BY DEF Archive!DeleteOrder, Archive!Kinds
<1>5. /\ n = 9 => \A k \in Archive!Kinds : Emptied(k) = own
      /\ n = 9 => AfterStep("info") /\ AfterStep("assoc") /\ AfterStep("coll")
  BY <1>4
<1>6. \A c \in db.coll : (listed /\ c.target = id => c.id \in own) /\ (c.target # id => c.id \notin own)
  BY DEF IsArchive, ById
<1> HIDE DEF own, AfterStep, Emptied, deleted, d
<1>7. \A k \in Archive!Kinds, c \in db.coll :
        c.target # id => \A p \in db.parts[k] : p.coll = c.id => p \in deleted.parts[k]
  BY <1>1, <1>3, <1>6
<1>8. d.told /\ listed /\ (inTxn => commits) =>
        /\ d.table = deleted
        /\ \A k \in Archive!Kinds, c \in db.coll :
             c.target = id => \A p \in deleted.parts[k] : p.coll # c.id
  BY <1>1, <1>2, <1>5, <1>6
<1> QED
  BY <1>1, <1>2, <1>5, <1>7, <1>8 DEF d

-----------------------------------------------------------------------------
(* The results of cognition, which the fusion thread judges by *)

Columns == {"unique", "type", "time", "status"}
IsResult(r) == IsRow(r) /\ Columns \subseteq DOMAIN r
AreResults(rows) ==
  /\ \A r \in rows : IsResult(r)
  /\ \A r, s \in rows : r.unique = s.unique => r = s

\* However often a target is recognised it keeps one row, which keeps the source of the
\* first time and takes the latest type; the rows of others stay (saveCognitiveResult).
THEOREM SaveKeepsOneRow ==
  ASSUME NEW rows, AreResults(rows), NEW new, IsResult(new)
  PROVE  LET after == Archive!SaveCognitiveResult(rows, new)
         IN  /\ AreResults(after)
             /\ \E r \in after : r.unique = new.unique /\ r.type = new.type /\ r.time = new.time
             /\ \A r \in rows : r.unique # new.unique => r \in after
             /\ \A r \in rows, s \in after :
                  r.unique = new.unique /\ s.unique = new.unique => s.status = r.status
             /\ \A s \in after : s \in rows \/ s.unique = new.unique
<1> DEFINE after == Archive!SaveCognitiveResult(rows, new)
           With(v) == [new EXCEPT !.status = v]
<1>1. \A v : /\ IsResult(With(v)) /\ With(v).status = v
             /\ With(v).unique = new.unique /\ With(v).type = new.type /\ With(v).time = new.time
  BY DEF IsResult, IsRow, Columns
<1>2. CASE \E r \in rows : r.unique = new.unique
  <2>1. PICK old \in rows : old.unique = new.unique
    BY <1>2
  <2>2. after = {IF r.unique = new.unique THEN With(r.status) ELSE r : r \in rows}
    BY <1>2 DEF Archive!SaveCognitiveResult
  <2>3. after = {r \in rows : r.unique # new.unique} \cup {With(old.status)}
    BY <2>1, <2>2 DEF AreResults
  <2> HIDE DEF after, With
  <2> QED
    BY <1>1, <2>1, <2>3 DEF AreResults, after
<1>3. CASE ~\E r \in rows : r.unique = new.unique
  <2>1. after = rows \cup {With(Archive!SourceText(new.status))}
    BY <1>3 DEF Archive!SaveCognitiveResult
  <2> HIDE DEF after, With
  <2> QED
    BY <1>1, <1>3, <2>1 DEF AreResults, after
<1> QED
  BY <1>2, <1>3

\* An update makes no row and loses none, and replaces a type by one that is like it only:
\* a ship never becomes a drone by it (updateCognitiveResult).
THEOREM UpdateKeepsKind ==
  ASSUME NEW rows, AreResults(rows), NEW new, IsResult(new)
  PROVE  LET after == Archive!UpdateCognitiveResult(rows, new)
         IN  /\ AreResults(after)
             /\ \A r \in rows : \E s \in after :
                  s.unique = r.unique /\ s.status = r.status
             /\ \A s \in after : \E r \in rows :
                  /\ s.unique = r.unique /\ s.status = r.status
                  /\ s.type = r.type \/ (s.type = new.type /\ r.type \in Archive!TypesLike(new.type))
<1> DEFINE after == Archive!UpdateCognitiveResult(rows, new)
           hits(r) == r.unique = new.unique /\ r.type \in Archive!TypesLike(new.type)
           one(r) == [r EXCEPT !.type = new.type]
           Changed(r) == IF hits(r) THEN [r EXCEPT !.type = new.type, !.time = new.time] ELSE r
<1>1. after = {Changed(r) : r \in rows}
  BY DEF Archive!UpdateCognitiveResult
<1>2. ASSUME NEW r \in rows
      PROVE  /\ IsResult(Changed(r))
             /\ Changed(r).unique = r.unique /\ Changed(r).status = r.status
             /\ Changed(r).type = r.type
                \/ (Changed(r).type = new.type /\ r.type \in Archive!TypesLike(new.type))
  <2>1. IsResult(r)
    BY DEF AreResults
  <2>2. /\ IsResult(one(r)) /\ one(r).type = new.type
        /\ one(r).unique = r.unique /\ one(r).status = r.status
    BY <2>1 DEF IsResult, IsRow, Columns
  <2>3. CASE hits(r)
    <3>1. Changed(r) = [one(r) EXCEPT !.time = new.time]
      BY <2>3
    <3> HIDE DEF Changed, one
    <3> QED
      BY <2>2, <2>3, <3>1 DEF IsResult, IsRow, Columns
  <2>4. CASE ~hits(r)
    BY <2>1, <2>4
  <2> QED
    BY <2>3, <2>4
<1> HIDE DEF after, Changed
<1>3. AreResults(after)
  BY <1>1, <1>2 DEF AreResults
<1> QED
  BY <1>1, <1>2, <1>3 DEF after

-----------------------------------------------------------------------------
(* Batches (DbCalls) *)

LEMMA LeastOf ==
  ASSUME NEW S, S \subseteq Nat, S # {}
  PROVE  \E i \in S : \A j \in S : i <= j
<1>1. PICK i \in S : \A j \in S : ~(<<j, i>> \in OpToRel(<, Nat))
  BY NatLessThanWellFounded, WFMin
<1>2. \A j \in S : ~(j < i)
  BY <1>1 DEF OpToRel
<1> QED
  BY <1>2

\* What is told of a batch that fails ends before a row that is bad.
LEMMA FailedTellsFewer ==
  ASSUME NEW n \in Nat, NEW size \in Nat \ {0}, NEW bad \in SUBSET (1..n), bad # {}
  PROVE  LET b == Archive!BatchFails(n, size, bad)
         IN  b.stored = 0 /\ b.told \in Nat /\ \E i \in bad : b.told < i
<1> DEFINE failed == Archive!FailedInserts(n, size, bad)
           insert(i) == (i - 1) \div size
           row(i) == (i - 1) % size
<1>0. size \in Nat /\ size > 0
  OBVIOUS
<1>1. \A x \in Nat : /\ x \div size \in Nat /\ x % size \in Nat
                     /\ x = (size * (x \div size)) + (x % size) /\ x % size < size
  <2>1. \A x \in Nat : /\ x \div size \in Int /\ x % size \in 0..(size - 1)
                       /\ x = (size * (x \div size)) + (x % size)
    BY <1>0
  <2>2. ASSUME NEW x \in Nat, NEW q \in Int, NEW r \in 0..(size - 1), x = size * q + r
        PROVE  q \in Nat
    <3>1. q <= -1 => size * q <= -size
      OBVIOUS
    <3> QED
      BY <2>2, <3>1
  <2> QED
    BY <2>1, <2>2
<1>2. \A i \in bad : /\ i - 1 \in Nat /\ insert(i) \in Nat /\ row(i) \in Nat
                     /\ i - 1 = size * insert(i) + row(i)
  BY <1>1
<1> HIDE DEF row
<1>3. ASSUME NEW i \in bad  PROVE  insert(i) \in failed
  <2>1. n \div size \in Nat /\ n = (size * (n \div size)) + (n % size) /\ n % size < size
    BY <1>1
  <2>2. insert(i) <= n \div size
    <3> DEFINE q == n \div size
               r == n % size
               k == insert(i)
    <3>1. /\ q \in Nat /\ n = size * q + r /\ r < size /\ r \in Nat
          /\ k \in Nat /\ i - 1 = size * k + row(i) /\ row(i) \in Nat /\ i \in Nat /\ i <= n
      BY <1>1, <1>2, <2>1
    <3> HIDE DEF q, r, k
    <3>2. k >= q + 1 => size * k >= size * (q + 1)
      BY <3>1
    <3>3. size * (q + 1) = size * q + size
      BY <3>1
    <3>4. k <= q
      BY <3>1, <3>2, <3>3
    <3> QED
      BY <3>4 DEF k, q
  <2> QED
    BY <1>2, <2>1, <2>2 DEF Archive!FailedInserts
<1>4. failed \subseteq Nat /\ failed # {}
  <2>1. \A g \in failed : \E i \in bad : g = insert(i)
    BY DEF Archive!FailedInserts, insert
  <2> HIDE DEF failed
  <2> QED
    BY <1>2, <1>3, <2>1
<1> HIDE DEF insert
<1>5. Archive!Sets!Min(failed) \in failed
  BY <1>4, LeastOf DEF Archive!Sets!Min
<1>6. PICK i \in bad : Archive!Sets!Min(failed) = insert(i)
  BY <1>5 DEF Archive!FailedInserts, insert
<1>7. size * insert(i) \in Nat /\ size * insert(i) < i
  BY <1>2
<1> QED
  BY <1>6, <1>7 DEF Archive!BatchFails

\* A batch of rows is stored as a whole or not at all, and never more is stored than told;
\* but of a batch that was rolled back as many are told as were inserted before the first
\* insert that failed: at most the rows before one that is bad (BatchInsert, both accesses).
THEOREM BatchesTellTooMuch ==
  ASSUME NEW n \in Nat, NEW bad \in SUBSET (1..n), NEW commits \in BOOLEAN, BatchSize \in Nat \ {0},
         NEW b \in {Archive!BatchQt(TRUE, n, bad, commits), Archive!BatchPg(TRUE, n, bad, commits)}
  PROVE  /\ b.stored \in {0, n} /\ b.stored <= b.told /\ b.told <= n
         /\ bad = {} /\ commits => b = [told |-> n, stored |-> n]
         /\ bad # {} => b.stored = 0 /\ \E i \in bad : b.told < i
<1>1. CASE bad # {}
  <2>1. PICK size \in Nat \ {0} : b = Archive!BatchFails(n, size, bad)
    BY <1>1 DEF Archive!BatchQt, Archive!BatchPg
  <2> QED
    BY <1>1, <2>1, FailedTellsFewer
<1>2. CASE bad = {}
  <2>1. \/ b = [told |-> n, stored |-> IF commits THEN n ELSE 0]
        \/ b = [told |-> IF commits THEN n ELSE 0, stored |-> IF commits THEN n ELSE 0]
    BY <1>2 DEF Archive!BatchQt, Archive!BatchPg
  <2> QED
    BY <1>2, <2>1
<1> QED
  BY <1>1, <1>2
=============================================================================
