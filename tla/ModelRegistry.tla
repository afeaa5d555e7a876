---------------------------- MODULE ModelRegistry ----------------------------
(***************************************************************************)
(* The registry of ML models (ml_lab/model_registry.py) on the connection  *)
(* that the whole server shares (api_server/deps.py, datahub/catalog.py,   *)
(* datahub/backends/duckdb_backend.py).                                    *)
(*                                                                         *)
(* The routes of the registry run on the event loop, one call after the    *)
(* other, without awaiting; but every call is several statements, and the  *)
(* threads of the heavy jobs issue statements of their own in between, on  *)
(* the same DuckDB connection.  The connection has one transaction and one *)
(* result: a query is an execute, whose answer stays on the connection,    *)
(* and a fetch, which takes whatever answer is there.                      *)
(*                                                                         *)
(* table is what statements read and write, durable what was committed.    *)
(* Both hold the stages of the versions of one model.                      *)
(***************************************************************************)
CONSTANTS
    Versions,
    Workers,        \* threads of heavy jobs
    StatementsFail  \* TRUE when a statement may fail

ASSUME RegistryAssumption ==
    /\ StatementsFail \in BOOLEAN
    /\ "loop" \notin Workers

VARIABLES
    table,
    durable,
    txn,            \* "auto" (every statement commits), "open", "aborted"
    answer,         \* the result on the connection: whose, and its first row
    reading,        \* threads of jobs between execute and fetch
    call,           \* the call of the loop: its kind, its version, its next step
    misread         \* history: the call has fetched a result not its own

registryVars == <<table, durable, txn, answer, reading, call, misread>>

Stages == INSTANCE ModelStages WITH stages <- durable

NoCall == [kind |-> "none", version |-> "none", step |-> "none"]

\* No result on the connection: a fetch raises.
NoAnswer == [by |-> "none", row |-> "none"]

Answer(by, row) == [by |-> by, row |-> row]

\* A statement that writes commits at once unless a transaction is open.
\* Writes leave a count as the answer of the connection.
Written(new, by) ==
    /\ table' = new
    /\ durable' = IF txn = "auto" THEN new ELSE durable
    /\ answer' = Answer(by, "foreign")

NextStep(step) == call' = [kind |-> call.kind, version |-> call.version, step |-> step]

\* UPDATE ... WHERE model_version = v: no row, no change.
Moved(from, v, stage) ==
    [u \in Versions |-> IF u = v /\ from[u] # "none" THEN stage ELSE from[u]]
-----------------------------------------------------------------------------
RegistryInit ==
    /\ table = [v \in Versions |-> "none"]
    /\ durable = table
    /\ txn = "auto"
    /\ answer = NoAnswer
    /\ reading = {}
    /\ call = NoCall
    /\ misread = FALSE

\* register, promote or archive: _get_row executes its query (after the
\* CREATE TABLE IF NOT EXISTS of the constructor, which changes nothing).
Call(kind, v) ==
    /\ call = NoCall
    /\ call' = [kind |-> kind, version |-> v, step |-> "fetch"]
    /\ answer' = Answer("loop", IF table[v] = "none" THEN "empty" ELSE table[v])
    /\ misread' = FALSE
    /\ UNCHANGED <<table, durable, txn, reading>>

\* The checks after _get_row, on the answer that is there.  register goes on
\* when there is no row or one in staging, the others when there is a row.  A
\* row of another table has no stage, which register refuses.
GoesOn(kind, row) ==
    IF kind = "register" THEN row \in {"empty", "staging"} ELSE row \notin {"none", "empty"}

\* The fetch of _get_row; without an answer it raises.
Fetch ==
    /\ call.step = "fetch"
    /\ IF GoesOn(call.kind, answer.row)
       THEN NextStep(IF call.kind = "promote" THEN "begin" ELSE call.kind)
       ELSE call' = NoCall
    /\ misread' = (answer.by # "loop")
    /\ answer' = NoAnswer
    /\ UNCHANGED <<table, durable, txn, reading>>

\* The INSERT OR REPLACE of register.
Register ==
    /\ call.step = "register"
    /\ Written([table EXCEPT ![call.version] = "staging"], "loop")
    /\ call' = NoCall
    /\ UNCHANGED <<txn, reading, misread>>

\* The UPDATE of archive.
Archive ==
    /\ call.step = "archive"
    /\ Written(Moved(table, call.version, "archived"), "loop")
    /\ call' = NoCall
    /\ UNCHANGED <<txn, reading, misread>>

\* Mutant of Begin: the statements of a promotion commit one by one.
BeginNothing ==
    /\ call.step = "begin"
    /\ NextStep("demote")
    /\ UNCHANGED <<table, durable, txn, answer, reading, misread>>

\* BEGIN, outside of the try block.
Begin ==
    /\ call.step = "begin"
    /\ txn' = "open"
    /\ answer' = Answer("loop", "empty")
    /\ NextStep("demote")
    /\ UNCHANGED <<table, durable, reading, misread>>

\* Mutant of Demote: only the version that is promoted is archived first.
DemoteItself ==
    /\ call.step = "demote"
    /\ Written(Moved(table, call.version, "archived"), "loop")
    /\ NextStep("promote")
    /\ UNCHANGED <<txn, reading, misread>>

\* The two UPDATEs of promote.
Demote ==
    /\ call.step = "demote"
    /\ Written(Stages!Demoted(table), "loop")
    /\ NextStep("promote")
    /\ UNCHANGED <<txn, reading, misread>>

Promote ==
    /\ call.step = "promote"
    /\ Written(Moved(table, call.version, "production"), "loop")
    /\ NextStep("commit")
    /\ UNCHANGED <<txn, reading, misread>>

Commit ==
    /\ call.step = "commit"
    /\ durable' = table
    /\ txn' = "auto"
    /\ answer' = Answer("loop", "empty")
    /\ call' = NoCall
    /\ UNCHANGED <<table, reading, misread>>

\* A statement of the loop that commits by itself, or BEGIN, fails.
CallFails ==
    /\ StatementsFail
    /\ call.step \in {"register", "archive", "begin"}
    /\ call' = NoCall
    /\ answer' = NoAnswer
    /\ UNCHANGED <<table, durable, txn, reading, misread>>

\* Mutant of UpdateFails: the exception leaves promote without a ROLLBACK.
UpdateFailsForGood ==
    /\ StatementsFail
    /\ call.step \in {"demote", "promote"}
    /\ txn' = "aborted"
    /\ answer' = NoAnswer
    /\ call' = NoCall
    /\ UNCHANGED <<table, durable, reading, misread>>

\* An UPDATE in the transaction fails, which aborts it.
UpdateFails ==
    /\ StatementsFail
    /\ call.step \in {"demote", "promote"}
    /\ txn' = "aborted"
    /\ answer' = NoAnswer
    /\ NextStep("rollback")
    /\ UNCHANGED <<table, durable, reading, misread>>

\* COMMIT fails: the database has ended the transaction.
CommitFails ==
    /\ StatementsFail
    /\ call.step = "commit"
    /\ table' = durable
    /\ txn' = "auto"
    /\ answer' = NoAnswer
    /\ NextStep("rollback")
    /\ UNCHANGED <<durable, reading, misread>>

\* ROLLBACK, which itself raises when no transaction is left.
Rollback ==
    /\ call.step = "rollback"
    /\ table' = durable
    /\ txn' = "auto"
    /\ answer' = IF txn = "auto" THEN NoAnswer ELSE Answer("loop", "empty")
    /\ call' = NoCall
    /\ UNCHANGED <<durable, reading, misread>>
-----------------------------------------------------------------------------
(* The threads of the jobs: queries and writes to other tables.  In an      *)
(* aborted transaction their statements fail.                               *)

JobExecutes(w) ==
    /\ w \notin reading
    /\ IF txn = "aborted"
       THEN answer' = NoAnswer /\ reading' = reading
       ELSE /\ \E row \in {"empty", "foreign"} : answer' = Answer(w, row)
            /\ reading' = reading \cup {w}
    /\ UNCHANGED <<table, durable, txn, call, misread>>

JobFetches(w) ==
    /\ w \in reading
    /\ reading' = reading \ {w}
    /\ answer' = NoAnswer
    /\ UNCHANGED <<table, durable, txn, call, misread>>

JobWrites(w) ==
    /\ w \notin reading
    /\ answer' = IF txn = "aborted" THEN NoAnswer ELSE Answer(w, "foreign")
    /\ UNCHANGED <<table, durable, txn, reading, call, misread>>

\* The server process ends and starts again.
RestartServer ==
    /\ table' = durable
    /\ txn' = "auto"
    /\ answer' = NoAnswer
    /\ reading' = {}
    /\ call' = NoCall
    /\ misread' = FALSE
    /\ UNCHANGED durable

RegistryNext ==
    \/ \E kind \in {"register", "promote", "archive"}, v \in Versions : Call(kind, v)
    \/ Fetch \/ Register \/ Archive
    \/ Begin \/ Demote \/ Promote \/ Commit \/ Rollback
    \/ CallFails \/ UpdateFails \/ CommitFails
    \/ \E w \in Workers : JobExecutes(w) \/ JobFetches(w) \/ JobWrites(w)
    \/ RestartServer

RegistrySpec == RegistryInit /\ [][RegistryNext]_registryVars
-----------------------------------------------------------------------------
RegistryTypeOK ==
    /\ table \in [Versions -> Stages!Stage]
    /\ durable \in [Versions -> Stages!Stage]
    /\ txn \in {"auto", "open", "aborted"}
    /\ answer.by \in Workers \cup {"loop", "none"}
    /\ answer.row \in Stages!Stage \cup {"empty", "foreign"}
    /\ reading \subseteq Workers
    /\ call = NoCall \/ call \in
         [kind : {"register", "promote", "archive"}, version : Versions,
          step : {"fetch", "register", "archive", "begin", "demote", "promote",
                  "commit", "rollback"}]
    /\ misread \in BOOLEAN

\* get_production takes the one row it finds: never are two versions of a
\* model in production, committed or seen by other threads, whatever fails.
OneProduction ==
    \A u, v \in Versions :
        /\ table[u] = "production" /\ table[v] = "production" => u = v
        /\ durable[u] = "production" /\ durable[v] = "production" => u = v

\* No path of promote leaves its transaction open or aborted behind: the
\* statements of all threads would be part of it, and lost.
TransactionIsOwned ==
    /\ txn # "auto" => call.step \in {"demote", "promote", "commit", "rollback"}
    /\ txn = "auto" => table = durable

\* "Atomic demote + promote in a single transaction": with failing statements
\* and restarts anywhere, what is committed changes as ModelStages says, by
\* the whole of the call in progress.  The exception is a call whose lookup was
\* answered with the result of another thread's statement.
CallsAreAtomic ==
    /\ Stages!StagesInit
    /\ [][misread \/ Stages!StagesStep(call.kind, call.version)]_durable
=============================================================================
