-------------------------------- MODULE Sql --------------------------------
(***************************************************************************)
(* sql/query and sql/execute (plugins/sql.rs).  A call opens the database  *)
(* on a connection of its own, reads the rows one by one within two caps,  *)
(* and closes it.  A watchdog thread per call interrupts the connection    *)
(* when the statement has run too long; a call that returns cancels its    *)
(* watchdog, unless that has just looked and is about to interrupt.        *)
(*                                                                         *)
(* Every registered database is read-only, so no statement writes.  SQL    *)
(* text is the sequence of its tokens, a result the sequence of its rows'  *)
(* sizes.  SQLite drops an interrupt if the connection is closed, or no    *)
(* statement runs on it.  Timing assumption: a statement is prepared       *)
(* before its deadline (the busy timeout is 3 s of the 5).                 *)
(***************************************************************************)
EXTENDS Service, Naturals, Sequences, SequencesExt, FiniteSetsExt

CONSTANTS
    Queries,    \* the calls
    MaxRows,    \* MAX_ROWS
    MaxBytes,   \* MAX_RESULT_BYTES
    Dogs        \* the watchdog threads that may be there at a time

ASSUME SqlOK ==
    /\ MaxRows \in Nat /\ MaxBytes \in Nat
    /\ \A q \in Queries : q.result \in Seq(Nat)

VARIABLES
    query, sqlAt,   \* the call, and where it is
    got,            \* the rows read
    dog,            \* its watchdog
    dogs,           \* the state of each watchdog thread
    interrupted,    \* SQLite's flag on the connection of the call
    late,           \* history: the call has run into its deadline
    queried         \* the answer

callOfSql == <<query, sqlAt, got, dog, interrupted, late, queried>>
sqlVars == <<callOfSql, dogs>>

SqlInit ==
    /\ query = None /\ sqlAt = "idle" /\ got = <<>> /\ dog = 0
    /\ interrupted = FALSE /\ late = FALSE /\ queried = None
    /\ dogs = [d \in Dogs |-> "none"]

-----------------------------------------------------------------------------

\* A quoted name or a comment after the end is taken for no statement.
SingleStatement(sql) ==
    \A i, j \in DOMAIN sql : i < j /\ sql[i] = "end" => sql[j] # "word"

\* An error of the statement's is a bad_request; that of an interrupted one is told apart
\* here as "interrupted".  query opens the database for what execute is refused before.
Refusal(q, file) ==
    CASE q.shape # "fits" -> "bad_request"
      [] q.database = "unknown" -> "bad_request"
      [] q.method = "execute" -> "bad_request"
      [] file = "missing" -> "unavailable"
      [] file = "unreadable" -> "internal"
      [] ~SingleStatement(q.sql) -> "bad_request"
      [] OTHER -> "none"

\* Variant: the service keeps one connection for all calls.
ConnectionShared(d) == CHOOSE c \in Dogs : TRUE

\* The connection that call d opened: one of its own.
Connection(d) == d

Ask(q, file) ==
    /\ sqlAt = "idle"
    /\ query' = q /\ got' = <<>> /\ interrupted' = FALSE /\ late' = FALSE
    /\ LET refusal == Refusal(q, file) IN
       IF refusal # "none"
       THEN /\ queried' = [code |-> refusal] /\ sqlAt' = "answered"
            /\ UNCHANGED <<dog, dogs>>
       ELSE /\ queried' = None /\ sqlAt' = "prepare"
            /\ \E d \in {d \in Dogs : dogs[d] = "none"} :
                  /\ dog' = d
                  /\ dogs' = [dogs EXCEPT ![d] = "watching"]

\* sql/databases.
Databases ==
    /\ sqlAt = "idle"
    /\ query' = [method |-> "databases"] /\ sqlAt' = "answered" /\ queried' = [code |-> "ok", rows |-> <<>>]
    /\ UNCHANGED <<got, dog, dogs, interrupted, late>>

\* run returns, and drops the guard of its watchdog.
Answered(answer) ==
    /\ queried' = answer /\ sqlAt' = "answered"
    /\ dogs' = [dogs EXCEPT ![dog] = IF @ = "due" THEN "stray" ELSE "cancelled"]
    /\ UNCHANGED <<query, got, dog, interrupted, late>>

Prepare ==
    /\ sqlAt = "prepare"
    /\ IF query.statement = "wrong" \/ ~query.bindable
       THEN Answered([code |-> "bad_request"])
       ELSE /\ sqlAt' = "step"
            /\ UNCHANGED <<query, got, dog, interrupted, late, queried, dogs>>

\* A locked file, or a disk error.
SqliteFails ==
    /\ sqlAt \in {"prepare", "step"}
    /\ Answered([code |-> "internal"])

Bytes(rows) ==
    LET upTo[n \in 0..Len(rows)] == IF n = 0 THEN 0 ELSE upTo[n - 1] + rows[n]
    IN  upTo[Len(rows)]

Stepping == sqlAt = "step" /\ ~interrupted

\* What is there to read, beyond what was read.
More == Len(got) < Len(query.result)

OverCap(rows) == Len(rows) > MaxRows \/ Bytes(rows) > MaxBytes

\* rows.next, and the row's columns.
Row ==
    /\ Stepping /\ query.statement = "reads" /\ More
    /\ LET rows == Append(got, query.result[Len(got) + 1]) IN
       IF OverCap(rows)
       THEN Answered([code |-> "bad_request"])
       ELSE /\ got' = rows
            /\ UNCHANGED <<query, sqlAt, dog, interrupted, late, queried, dogs>>

\* The last row was read.  An endless scan has none.
Finish ==
    /\ Stepping /\ query.statement = "reads" /\ ~More /\ ~query.endless
    /\ Answered([code |-> "ok", rows |-> got])

\* The connection is read-only.
RefuseWrite ==
    /\ Stepping /\ query.statement = "writes"
    /\ Answered([code |-> "bad_request"])

StopInterrupted ==
    /\ sqlAt = "step" /\ interrupted
    /\ Answered([code |-> "interrupted"])

-----------------------------------------------------------------------------
(* The watchdog thread *)

\* The time is up, and the call has not returned.
ComeDue(d) ==
    /\ dogs[d] = "watching" /\ dog = d /\ sqlAt = "step"
    /\ dogs' = [dogs EXCEPT ![d] = "due"]
    /\ late' = TRUE
    /\ UNCHANGED <<query, sqlAt, got, dog, interrupted, queried>>

Interrupt(d) ==
    /\ dogs[d] \in {"due", "stray"}
    /\ dogs' = [dogs EXCEPT ![d] = "none"]
    /\ interrupted' = (interrupted \/ (sqlAt = "step" /\ Connection(d) = Connection(dog)))
    /\ UNCHANGED <<query, sqlAt, got, dog, late, queried>>

\* Variant: it stands down at once, its guard bound to nothing.
StandDownAtOnce(d) ==
    /\ dogs[d] \in {"watching", "cancelled"}
    /\ dogs' = [dogs EXCEPT ![d] = "none"]
    /\ UNCHANGED callOfSql

\* It sees that the call has returned.
StandDown(d) ==
    /\ dogs[d] = "cancelled"
    /\ dogs' = [dogs EXCEPT ![d] = "none"]
    /\ UNCHANGED callOfSql

-----------------------------------------------------------------------------

SqlBegin ==
    \/ Databases
    \/ \E q \in Queries, file \in {"present", "missing", "unreadable"} : Ask(q, file)

SqlStep == Prepare \/ Row \/ Finish \/ RefuseWrite \/ StopInterrupted

Watch(d) == ComeDue(d) \/ Interrupt(d) \/ StandDown(d)

\* The connection is closed.
SqlReturn ==
    /\ sqlAt = "answered"
    /\ query' = None /\ sqlAt' = "idle" /\ got' = <<>> /\ dog' = 0
    /\ interrupted' = FALSE /\ late' = FALSE /\ queried' = None
    /\ UNCHANGED dogs

\* No thread of an earlier call is left.
SqlQuiet == \A d \in Dogs : dogs[d] = "none"

-----------------------------------------------------------------------------
(* Properties *)

Answers == query # None /\ query.method # "databases" /\ queried # None

(* A call is told that its statement was interrupted only if its own         *)
(* statement ran into the deadline: a watchdog that fires late, after its    *)
(* call has returned, stops no later call (sql.rs, Watchdog and open).       *)
OwnDeadlineOnly ==
    Answers /\ queried.code = "interrupted" => late

(* What a query answers is every row of its result, and the whole result is  *)
(* within both caps: nothing is cut off and called the answer (sql.rs, run). *)
RowsWhole ==
    Answers /\ queried.code = "ok" =>
        /\ queried.rows = query.result
        /\ Len(queried.rows) <= MaxRows /\ Bytes(queried.rows) <= MaxBytes

=============================================================================
