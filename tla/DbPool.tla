-------------------------------- MODULE DbPool --------------------------------
(***************************************************************************)
(* Access to the database: the connection pool (PgConnectionPool with      *)
(* AccessMode 1, DbConnectionPool with 0), the managers that take a        *)
(* connection for a statement or keep one for a transaction, and the two   *)
(* operations of DataAccessLayer that need a transaction, mergeTargets and *)
(* deleteTarget.  With AccessMode 1 the statements of a thread find its    *)
(* transaction in a slot of the thread; with 0 they take a connection of   *)
(* their own.                                                              *)
(***************************************************************************)
EXTENDS Naturals, FiniteSets

CONSTANTS
  Modes,      \* AccessModes of the instance: "libpq", "qt"
  Clients,    \* threads that use the database
  Conns,      \* addresses or names of connections (bound)
  None,
  MaxConnections, MinConnections,
  Statements  \* statements of a merge or a delete (bound)

ASSUME PoolAssumption ==
  /\ Modes \subseteq {"libpq", "qt"}
  /\ None \notin Conns
  /\ MaxConnections \in Nat /\ MinConnections \in Nat /\ MinConnections <= MaxConnections
  /\ Statements \in Nat \ {0}

VARIABLES
  mode,    \* fixed
  server,  \* whether the database server can be reached
  pool,    \* m_connections
  broken,  \* connections that have lost the server or were closed
  closed,  \* whether closeAllConnections was called
  pc,      \* where each client is
  job,     \* what it does, or has done
  txn,     \* whether it wants, or has, a transaction
  held,    \* the connection of its transaction
  using,   \* the connection of a single statement
  done,    \* statements that have succeeded
  applied, \* history: statements of a merge whose effect is in the database
  told     \* history: what a merge has returned

poolVars == <<mode, server, pool, broken, closed>>
clientVars == <<pc, job, txn, held, using, done, applied, told>>
accessVars == <<poolVars, clientVars>>

Jobs == {"query", "merge", "delete"}

DbInit ==
  /\ mode \in Modes /\ server = TRUE
  /\ pool \in {[y \in Conns |-> IF y = x THEN "idle" ELSE "absent"] : x \in Conns}
  /\ broken = {} /\ closed = FALSE
  /\ pc = [c \in Clients |-> "idle"] /\ job = [c \in Clients |-> "query"]
  /\ txn = [c \in Clients |-> "none"]
  /\ held = [c \in Clients |-> None] /\ using = [c \in Clients |-> None]
  /\ done = [c \in Clients |-> 0] /\ applied = [c \in Clients |-> 0]
  /\ told = [c \in Clients |-> FALSE]

-----------------------------------------------------------------------------
(* The pool.  All of getConnection but the wait is under m_mutex. *)

Hands == [c \in Clients |-> {held[c], using[c]} \ {None}]
In(state) == {x \in Conns : pool[x] = state}
Pooled == Conns \ In("absent")

\* With libpq an idle connection is tested and, if broken, reset; Qt only looks whether
\* it was opened.
Usable(x) == pool[x] = "idle" /\ (mode = "libpq" => x \notin broken \/ server)

Room == Cardinality(Pooled) < MaxConnections

\* A name is used once; an address may come again when its connection was closed.
Fresh(x) ==
  /\ pool[x] = "absent"
  /\ mode = "qt" => \A c \in Clients : x \notin {held[c], using[c]}

\* When the names of the instance are used up none can be created (bound).
CanCreate == Room /\ server /\ \E x \in Conns : Fresh(x)

Wants(c) == pc[c] = "get"

\* Mutant: the connection is kept for the next statement.
KeepsConnection(t) == "exec"

\* Where a client goes on with the next statement: in its transaction, or for a
\* connection of its own.
ToStatement(t) == IF mode = "libpq" /\ t = "open" THEN "exec" ELSE "get"

\* The client has got connection x.
Gets(c, x) ==
  /\ pool' = [pool EXCEPT ![x] = "used"]
  /\ IF txn[c] = "wanted"
     THEN /\ held' = [held EXCEPT ![c] = x] /\ UNCHANGED using
          /\ pc' = [pc EXCEPT ![c] = "begin"]
     ELSE /\ using' = [using EXCEPT ![c] = x] /\ UNCHANGED held
          /\ pc' = [pc EXCEPT ![c] = "exec"]
  /\ UNCHANGED <<mode, server, closed, job, txn, done, applied, told>>

\* A broken connection that is taken was reset, if libpq is used.
Mended(x) == IF mode = "libpq" THEN broken \ {x} ELSE broken

TakeIdle(c, x) ==
  /\ Wants(c) /\ Usable(x)
  /\ Gets(c, x) /\ broken' = Mended(x)

Create(c, x) ==
  /\ Wants(c) /\ \A y \in Conns : ~Usable(y)
  /\ CanCreate /\ Fresh(x)
  /\ Gets(c, x) /\ broken' = broken \ {x}

\* The client gets none.  A merge without a transaction is given up, a delete goes on
\* without one, and a failed statement of either leads to the rollback.
Refused(c) ==
  CASE txn[c] = "wanted" /\ job[c] = "delete" ->
         /\ txn' = [txn EXCEPT ![c] = "none"] /\ pc' = [pc EXCEPT ![c] = "get"]
    [] txn[c] = "wanted" /\ job[c] # "delete" ->
         /\ txn' = [txn EXCEPT ![c] = "none"] /\ pc' = [pc EXCEPT ![c] = "idle"]
    [] txn[c] # "wanted" ->
         /\ pc' = [pc EXCEPT ![c] = IF job[c] = "query" THEN "idle" ELSE "rollback"]
         /\ UNCHANGED txn

\* None is usable and none can be created.  Qt gives up at once; libpq waits unless
\* there is an idle one, which it tries once more in vain.
Refuse(c) ==
  /\ Wants(c) /\ (\A x \in Conns : ~Usable(x)) /\ ~CanCreate
  /\ mode = "qt" \/ In("idle") # {}
  /\ Refused(c)
  /\ UNCHANGED <<poolVars, job, held, using, done, applied, told>>

Wait(c) ==
  /\ Wants(c) /\ mode = "libpq" /\ In("idle") = {} /\ ~CanCreate
  /\ pc' = [pc EXCEPT ![c] = "wait"]
  /\ UNCHANGED <<poolVars, job, txn, held, using, done, applied, told>>

\* The wait ends with an idle connection, or after 30 s.
TakeAfterWait(c, x) ==
  /\ pc[c] = "wait" /\ Usable(x)
  /\ Gets(c, x) /\ broken' = Mended(x)

\* Mutant: the wait has no limit.
GiveUpOnBroken(c) ==
  /\ pc[c] = "wait" /\ (\A x \in Conns : ~Usable(x)) /\ In("idle") # {}
  /\ Refused(c)
  /\ UNCHANGED <<poolVars, job, held, using, done, applied, told>>

GiveUp(c) ==
  /\ pc[c] = "wait" /\ \A x \in Conns : ~Usable(x)
  /\ Refused(c)
  /\ UNCHANGED <<poolVars, job, held, using, done, applied, told>>

\* releaseConnection: the entry with this address or name, if there is one.
ReleaseConnection(x) ==
  pool' = [y \in Conns |-> IF y = x /\ pool[y] = "used" THEN "idle" ELSE pool[y]]

-----------------------------------------------------------------------------
(* The check of the pool, every 30 s.  Any connection may have been unused, or in use, *)
(* for longer than the timeout by then. *)

\* Mutant: connections in use are removed as well, as with AccessMode 0.
RemoveAllStale(x) ==
  /\ pool[x] # "absent"
  /\ pool' = [pool EXCEPT ![x] = "absent"]
  /\ UNCHANGED <<mode, server, broken, closed, clientVars>>

\* removeStaleConnections.
RemoveStale(x) ==
  /\ pool[x] = "idle"
  /\ pool' = [pool EXCEPT ![x] = "absent"]
  /\ UNCHANGED <<mode, server, broken, closed, clientVars>>

\* ensureMinConnections, with libpq; and the test of the idle ones.
EnsureMin(x) ==
  /\ mode = "libpq" /\ server /\ Cardinality(Pooled) < MinConnections /\ pool[x] = "absent"
  /\ pool' = [pool EXCEPT ![x] = "idle"]
  /\ broken' = broken \ {x}
  /\ UNCHANGED <<mode, server, closed, clientVars>>

ReopenIdle ==
  /\ mode = "libpq" /\ server /\ In("idle") \cap broken # {}
  /\ broken' = broken \ In("idle")
  /\ UNCHANGED <<mode, server, pool, closed, clientVars>>

\* Qt takes a connection away that was in use for too long.
KillUsed(x) ==
  /\ mode = "qt" /\ pool[x] = "used"
  /\ pool' = [pool EXCEPT ![x] = "absent"] /\ broken' = broken \cup {x}
  /\ UNCHANGED <<mode, server, closed, clientVars>>

\* At exit; threads that are left may go on.
CloseAllConnections ==
  /\ ~closed /\ closed' = TRUE
  /\ pool' = [x \in Conns |-> "absent"] /\ broken' = Conns
  /\ UNCHANGED <<mode, server, clientVars>>

-----------------------------------------------------------------------------
(* Statements and transactions *)

Call(c, j) ==
  /\ pc[c] = "idle"
  /\ pc' = [pc EXCEPT ![c] = "get"] /\ job' = [job EXCEPT ![c] = j]
  /\ txn' = [txn EXCEPT ![c] = IF j = "query" THEN "none" ELSE "wanted"]
  /\ done' = [done EXCEPT ![c] = 0] /\ applied' = [applied EXCEPT ![c] = 0]
  /\ told' = [told EXCEPT ![c] = FALSE]
  /\ UNCHANGED <<poolVars, held, using>>

Begin(c) ==
  /\ pc[c] = "begin" /\ held[c] \notin broken
  /\ txn' = [txn EXCEPT ![c] = "open"]
  /\ pc' = [pc EXCEPT ![c] = ToStatement("open")]
  /\ UNCHANGED <<poolVars, job, held, using, done, applied, told>>

BeginFails(c) ==
  /\ pc[c] = "begin" /\ held[c] \in broken
  /\ ReleaseConnection(held[c]) /\ held' = [held EXCEPT ![c] = None]
  /\ Refused(c)
  /\ UNCHANGED <<mode, server, broken, closed, job, using, done, applied, told>>

\* The connection of the statement; a single statement gives its connection back.
On(c) == IF using[c] # None THEN using[c] ELSE held[c]
EndStatement(c) ==
  IF using[c] = None THEN UNCHANGED <<pool, using>>
  ELSE ReleaseConnection(using[c]) /\ using' = [using EXCEPT ![c] = None]

\* Qt opens the connection of a single statement again.
Ready(c) == On(c) \notin broken \/ (mode = "qt" /\ server)

LastStatement(c) == job[c] = "query" \/ done[c] + 1 = Statements

\* Mutant: a statement of a merge is not part of its transaction.
AutoCommits(c) == TRUE

\* A statement outside the transaction takes effect at once.
TakesEffect(c) == ~(mode = "libpq" /\ txn[c] = "open")

Exec(c) ==
  /\ pc[c] = "exec" /\ Ready(c)
  /\ broken' = broken \ {On(c)}
  /\ done' = IF job[c] = "query" THEN done ELSE [done EXCEPT ![c] = @ + 1]
  /\ applied' = IF job[c] = "merge" /\ TakesEffect(c) THEN [applied EXCEPT ![c] = @ + 1] ELSE applied
  /\ pc' = [pc EXCEPT ![c] = CASE job[c] = "query" -> "idle"
                               [] job[c] # "query" /\ LastStatement(c) -> "commit"
                               [] ~LastStatement(c) -> ToStatement(txn[c])]
  /\ EndStatement(c)
  /\ UNCHANGED <<mode, server, closed, job, txn, held, told>>

\* Any statement may fail.
ExecFails(c) ==
  /\ pc[c] = "exec"
  /\ pc' = [pc EXCEPT ![c] = IF job[c] = "query" THEN "idle" ELSE "rollback"]
  /\ EndStatement(c)
  /\ UNCHANGED <<mode, server, broken, closed, job, txn, held, done, applied, told>>

\* The connection goes back, whatever the answer; deleteTarget does not look at it.
\* After a failed commit mergeTargets calls the rollback: libpq has no transaction any
\* more then, Qt still has the connection.
EndCommit(c, ok) ==
  /\ ReleaseConnection(held[c])
  /\ LET again == job[c] = "merge" /\ ~ok
     IN /\ pc' = [pc EXCEPT ![c] = IF again THEN "rollback" ELSE "idle"]
        /\ told' = [told EXCEPT ![c] = job[c] = "merge" /\ ok]
        /\ held' = IF again /\ mode = "qt" THEN held ELSE [held EXCEPT ![c] = None]
  /\ txn' = [txn EXCEPT ![c] = "none"]
  /\ done' = [done EXCEPT ![c] = 0]
  /\ UNCHANGED <<mode, server, closed, job, using>>

\* With libpq the commit brings the statements of the transaction into effect.
Commits(c) == mode = "libpq" /\ job[c] = "merge"

Commit(c) ==
  /\ pc[c] = "commit" /\ txn[c] = "open" /\ held[c] \notin broken
  /\ applied' = IF Commits(c) THEN [applied EXCEPT ![c] = done[c]] ELSE applied
  /\ EndCommit(c, TRUE)
  /\ UNCHANGED broken

\* There is no transaction, or the connection broke before.
CommitFails(c) ==
  /\ pc[c] = "commit" /\ (txn[c] # "open" \/ held[c] \in broken)
  /\ EndCommit(c, FALSE)
  /\ UNCHANGED <<broken, applied>>

\* The connection breaks before the answer comes.
CommitLosesAnswer(c) ==
  /\ pc[c] = "commit" /\ txn[c] = "open" /\ held[c] \notin broken
  /\ broken' = broken \cup {held[c]}
  /\ applied' = IF Commits(c) THEN [applied EXCEPT ![c] = done[c]] ELSE applied
  /\ EndCommit(c, FALSE)

Rollback(c) ==
  /\ pc[c] = "rollback"
  /\ IF held[c] # None /\ (mode = "libpq" => txn[c] = "open")
     THEN ReleaseConnection(held[c]) ELSE UNCHANGED pool
  /\ held' = [held EXCEPT ![c] = None] /\ txn' = [txn EXCEPT ![c] = "none"]
  /\ pc' = [pc EXCEPT ![c] = "idle"] /\ done' = [done EXCEPT ![c] = 0]
  /\ UNCHANGED <<mode, server, broken, closed, job, using, applied, told>>

-----------------------------------------------------------------------------
(* The server *)

ServerFails ==
  /\ server /\ server' = FALSE /\ broken' = broken \cup Pooled \cup UNION {Hands[c] : c \in Clients}
  /\ UNCHANGED <<mode, pool, closed, clientVars>>

ServerReturns ==
  /\ ~server /\ server' = TRUE
  /\ UNCHANGED <<mode, pool, broken, closed, clientVars>>

Step(c) ==
  \/ \E x \in Conns : TakeIdle(c, x) \/ Create(c, x) \/ TakeAfterWait(c, x)
  \/ Refuse(c) \/ Wait(c) \/ GiveUp(c)
  \/ Begin(c) \/ BeginFails(c) \/ Exec(c) \/ ExecFails(c)
  \/ Commit(c) \/ CommitFails(c) \/ CommitLosesAnswer(c) \/ Rollback(c)

DbNext ==
  \/ \E c \in Clients : Step(c) \/ \E j \in Jobs : Call(c, j)
  \/ ReopenIdle \/ CloseAllConnections \/ ServerFails \/ ServerReturns
  \/ \E x \in Conns : EnsureMin(x) \/ RemoveStale(x) \/ KillUsed(x)

\* A statement gets an answer or an error in the end; a wait is limited.
DbSpec == DbInit /\ [][DbNext]_accessVars /\ \A c \in Clients : WF_accessVars(Step(c))

-----------------------------------------------------------------------------
(* Properties *)

OrNone == Conns \cup {None}

\* A client has a connection where it works on one.
DbTypeOK ==
  /\ mode \in Modes /\ server \in BOOLEAN /\ closed \in BOOLEAN
  /\ pool \in [Conns -> {"absent", "idle", "used"}]
  /\ broken \subseteq Conns
  /\ pc \in [Clients -> {"idle", "get", "wait", "begin", "exec", "commit", "rollback"}]
  /\ job \in [Clients -> Jobs] /\ txn \in [Clients -> {"none", "wanted", "open"}]
  /\ held \in [Clients -> OrNone] /\ using \in [Clients -> OrNone]
  /\ done \in [Clients -> 0..Statements] /\ applied \in [Clients -> 0..Statements]
  /\ told \in [Clients -> BOOLEAN]
  /\ \A c \in Clients :
       /\ pc[c] = "exec" => On(c) # None
       /\ pc[c] = "begin" => txn[c] = "wanted" /\ held[c] # None
       /\ txn[c] = "wanted" => pc[c] \in {"get", "wait", "begin"} /\ job[c] # "query"
       /\ txn[c] = "open" => held[c] # None

\* With libpq the flags of the pool say which connections are in somebody's hands:
\* none is lost when BEGIN or a statement fails or a commit breaks, and none that is in
\* use is removed or marked as free (main.cpp:58).
FlagsMatchHands ==
  mode = "libpq" /\ ~closed => In("used") = UNION {Hands[c] : c \in Clients}

\* With libpq no two threads work on one connection before the pool is closed, through
\* failing tests, stale connections and those that are closed and made again: the pool
\* implements ConnectionPoolSpec.
Contract == INSTANCE ConnectionPoolSpec
  WITH hands <- Hands, closed <- closed \/ mode # "libpq"
Exclusive == Contract!Spec

\* mergeTargets changes all or nothing, and does not report success for nothing.
AllOrNothing(c) ==
  job[c] = "merge" =>
    applied[c] \in {0, Statements} /\ (told[c] => applied[c] = Statements)
MergeAllOrNothing == mode = "libpq" => \A c \in Clients : AllOrNothing(c)

\* Every call comes to its end, with however few connections and however long the
\* server is away: no thread waits for what only itself or another waiting one can
\* give back.
CallsEnd == \A c \in Clients : pc[c] # "idle" ~> pc[c] = "idle"
=============================================================================
