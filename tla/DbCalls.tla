--------------------------------- MODULE DbCalls ---------------------------------
(***************************************************************************)
(* One call of DatabaseManager: the access it goes by, what becomes of the *)
(* statement, its parameters and its rows, and what the caller is told.    *)
(* The access is "libpq" (AccessMode 1, as shipped) or "qt" (0).  Names of *)
(* columns are numbers, in the order of their letters.                     *)
(***************************************************************************)
EXTENDS Integers, Sequences
LOCAL INSTANCE SequencesExt
Sets == INSTANCE FiniteSetsExt

CONSTANTS
  Null,      \* the NULL of the database
  Half,      \* 2^31, the first unsigned parameter that is written negative
  BatchSize  \* 100: rows of an insert with Qt

ASSUME CallsAssumption == Half \in Nat \ {0} /\ BatchSize \in Nat \ {0}

Access(given) == IF given = 0 THEN "qt" ELSE "libpq"

\* The pools that are set up: that of the access, if the server can be reached.
SetUp(given, reachable) == {a \in {Access(given)} : reachable}

-----------------------------------------------------------------------------
(* The statement *)

\* The question marks that convertQtPlaceholders numbers, by their places.
Placeholders(sql) ==
  LET Scan(s, i) ==
        CASE s.skip -> [s EXCEPT !.skip = FALSE]
          [] ~s.skip /\ sql[i] = "'" ->
               IF s.quoted /\ i < Len(sql) /\ sql[i + 1] = "'" THEN [s EXCEPT !.skip = TRUE]
               ELSE [s EXCEPT !.quoted = ~@]
          [] ~s.skip /\ sql[i] = "?" /\ ~s.quoted -> [s EXCEPT !.found = @ \cup {i}]
          [] OTHER -> s
  IN FoldLeft(Scan, [quoted |-> FALSE, skip |-> FALSE, found |-> {}],
              [i \in 1..Len(sql) |-> i]).found

\* A statement with n parameters, for each of which it has a question mark.
Asks(n) == [holders |-> n, params |-> n, named |-> FALSE]

\* One with names (:target_id) instead: Qt knows them, libpq does not.
Names(n) == [Asks(n) EXCEPT !.named = TRUE]

Accepted(access, s) == s.params = s.holders /\ (s.named => access = "qt")

-----------------------------------------------------------------------------
(* Parameters with libpq *)

ToInt(n) == IF n < Half THEN n ELSE n - 2 * Half

\* A time is an hour of the day where the clock is `zone` hours ahead; the text says
\* what the hour is in UTC and nothing of the zone.
ToPgParam(p, zone) ==
  CASE p.type \in {"invalid", "null"} -> [type |-> "null"]
    [] p.type \in {"int", "uint"} -> [type |-> "int", v |-> ToInt(p.v)]
    [] p.type = "datetime" -> [type |-> "string", v |-> p.v - zone]
    [] OTHER -> p

\* Bytes are sent as they are, all else as text; no bytes are NULL.
Wire(q) ==
  IF q.type = "null" \/ (q.type = "bytea" /\ q.v = <<>>) THEN [binary |-> FALSE, v |-> Null]
  ELSE [binary |-> q.type = "bytea", v |-> q.v]

\* A text without a zone is read as the hour here.
ReadTime(text) == [type |-> "datetime", v |-> text]

-----------------------------------------------------------------------------
(* Rows: `columns` are the names the statement gives, `cells` the values, which are texts *)

Text(cell) == IF cell = Null THEN "" ELSE cell

\* Each cell by its place and by its name; of columns with one name the last counts.
ToQtRow(columns, cells) ==
  [places |-> [i \in DOMAIN columns |-> Text(cells[i])],
   named |-> [n \in ToSet(columns) |-> Text(cells[Sets!Max({i \in DOMAIN columns : columns[i] = n})])]]

\* The columns of the table in memory: those by place, then those by name.
Materialized(row) == row.places \o [i \in 1..Cardinality(DOMAIN row.named) |->
  row.named[SetToSortSeq(DOMAIN row.named, <)[i]]]

\* value(i), where a place that is not there has no value.
ValueAt(access, columns, cells, i) ==
  LET all == IF access = "qt" THEN cells ELSE Materialized(ToQtRow(columns, cells))
  IN IF i \in DOMAIN all THEN all[i] ELSE Null

\* value("name"): Qt takes the first column of that name.
ValueOf(access, columns, cells, name) ==
  IF access = "qt" THEN cells[Sets!Min({i \in DOMAIN columns : columns[i] = name})]
  ELSE ToQtRow(columns, cells).named[name]

\* executeScalar: the first column with Qt, and with libpq in a transaction of the thread;
\* the first by name without one, and then an empty text if there is no row.
ScalarQt(rows) == IF rows = <<>> THEN Null ELSE rows[1][1]
ScalarInTxn(rows) == IF rows = <<>> THEN Null ELSE Text(rows[1][1])
ScalarPg(columns, rows) ==
  IF rows = <<>> THEN "" ELSE ToQtRow(columns, rows[1]).named[Sets!Min(ToSet(columns))]

\* A flag of a rule that holds unless the database says no: libpq gives "t" and "f", and
\* toBool() of a text is false only for these three.
FlagOf(access, cell) ==
  IF access = "qt" THEN cell # "f" ELSE Text(cell) \notin {"", "0", "false"}

-----------------------------------------------------------------------------
(* Calls.  What happens to one: `valid`, `open`, `reopens` say whether there is a       *)
(* connection and it works, `done` that the server did the statement, `answered` that   *)
(* the answer came, `inTime` that it came before the timeout.                           *)

Outcome(ran, heard) == [effect |-> ran, told |-> ran /\ heard]

\* With a timeout the connection is not opened again.  The timeout ends nothing: the
\* answer is awaited all the same, and then not believed.
CallQt(timed, accepted, e) ==
  LET works == e.valid /\ (e.open \/ (~timed /\ e.reopens))
  IN Outcome(works /\ accepted /\ e.done, e.answered /\ (timed => e.inTime))

\* No timeout is looked at.
CallPg(shuttingDown, accepted, e) ==
  Outcome(~shuttingDown /\ e.valid /\ accepted /\ e.done, e.answered)

\* A query that is not told as done has no rows.
QueryQt(timed, accepted, e, rows) == IF CallQt(timed, accepted, e).told THEN rows ELSE <<>>
QueryPg(shuttingDown, accepted, e, rows) ==
  IF CallPg(shuttingDown, accepted, e).told THEN rows ELSE <<>>

\* The answer of an asynchronous call, by where it is when cancelAsyncOperations comes:
\* one that is still queued is removed and has none.
AsyncAnswer(at, told) ==
  CASE at = "called" -> "refused"
    [] at = "queued" -> "never"
    [] at = "starting" \/ (at = "running" /\ ~told) -> "false"
    [] at = "running" /\ told -> "true"

-----------------------------------------------------------------------------
(* Batches: rows 1..n, of which those in `bad` cannot be inserted, or come after the     *)
(* time is over *)

\* The columns are those of the first row.
BatchRow(first, row) == [k \in DOMAIN first |-> IF k \in DOMAIN row THEN row[k] ELSE Null]

FailedInserts(n, size, bad) == {g \in 0..(n \div size) : \E i \in bad : (i - 1) \div size = g}

\* Rolled back at the first insert that fails, the batch tells what it had inserted.
BatchFails(n, size, bad) == [told |-> size * Sets!Min(FailedInserts(n, size, bad)), stored |-> 0]

\* Of a failed commit Qt tells nothing.
BatchQt(ready, n, bad, commits) ==
  CASE ~ready -> [told |-> 0, stored |-> 0]
    [] ready /\ bad # {} -> BatchFails(n, BatchSize, bad)
    [] ready /\ bad = {} -> [told |-> n, stored |-> IF commits THEN n ELSE 0]

BatchPg(ready, n, bad, commits) ==
  CASE ~ready -> [told |-> 0, stored |-> 0]
    [] ready /\ bad # {} -> BatchFails(n, 1, bad)
    [] ready /\ bad = {} -> LET k == IF commits THEN n ELSE 0 IN [told |-> k, stored |-> k]

\* DatabaseManager knows the batch of Qt alone, and with libpq there is no pool for it.
BatchInsert(pools, n, bad, commits) == BatchQt("qt" \in pools, n, bad, commits)
=============================================================================
