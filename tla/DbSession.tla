------------------------------ MODULE DbSession ------------------------------
(***************************************************************************)
(* DatabaseRepository.session() (database/repository.py) under the tools   *)
(* that use it: write_data with its undo entries, import_to_db,            *)
(* create_table and execute_ddl, and whatever only reads.  Tools are run   *)
(* in threads, several at a time, and routes open sessions on the event    *)
(* loop meanwhile, so the steps of the tasks interleave.                   *)
(*                                                                         *)
(* On MySQL each session has a connection of its own.  On SQLite the       *)
(* StaticPool hands the same connection to all: commit, rollback and the   *)
(* rollback with which the pool resets a connection at close() are         *)
(* everybody's.  A change is a member of a set: <<task, session, number>>. *)
(***************************************************************************)
EXTENDS Naturals

CONSTANTS Tasks,     \* tool calls and requests that use the database
          Dialects,  \* {"sqlite"}, {"mysql"} or both
          MaxRows,   \* bound: rows a write changes
          Batches    \* INSERTs of an import

ASSUME DbSessionAssumption == /\ Dialects \subseteq {"sqlite", "mysql"}
                              /\ MaxRows \in Nat
                              /\ Batches \in Nat

VARIABLES
  dialect,    \* of the workspace's database
  kind,       \* [Tasks -> ...]: what the task is
  rows,       \* [Tasks -> 1..MaxRows]: the rows it changes, if a write
  disk,       \* the changes that are committed
  pending,    \* [connections -> changes of the transaction that is open]
  at,         \* [Tasks -> the step it is about to do]
  outcome,    \* [Tasks -> ...]: how the tool's function ended
  answer,     \* [Tasks -> ...]: what the caller was told
  overlapped  \* history: two tasks were under way at once

dbVars == <<dialect, kind, rows, disk, pending, at, outcome, answer, overlapped>>

Sessions == {"own", "log"}   \* a task's session, and the one of record_undo

\* The sessions that have the same connection; it is named by that set.
Connection(t, s) == IF dialect = "sqlite" THEN Tasks \X Sessions ELSE {<<t, s>>}
Connections == {Connection(t, s) : t \in Tasks, s \in Sessions}

Step(do, s, n) == [do |-> do, session |-> s, n |-> n]
Nowhere == Step("none", "own", 0)   \* not begun, or over

DbTypeOK ==
  /\ dialect \in {"sqlite", "mysql"}
  /\ kind \in [Tasks -> {"write", "import", "append", "create", "read"}]
  /\ rows \in [Tasks -> 1..MaxRows]
  /\ disk \subseteq Tasks \X Sessions \X Nat
  /\ pending \in [Connections -> SUBSET (Tasks \X Sessions \X Nat)]
  /\ at \in [Tasks -> [do : {"none", "dml", "ddl", "commit", "rollback", "close"},
                       session : Sessions, n : Nat]]
  /\ outcome \in [Tasks -> {"none", "done", "failed"}]
  /\ answer \in [Tasks -> {"none", "done", "failed", "timeout"}]
  /\ overlapped \in BOOLEAN

DbInit ==
  /\ dialect \in Dialects
  /\ kind \in [Tasks -> {"write", "import", "append", "create", "read"}]
  /\ rows \in [Tasks -> 1..MaxRows]
  /\ disk = {}
  /\ pending = [c \in Connections |-> {}]
  /\ at = [t \in Tasks |-> Nowhere]
  /\ outcome = [t \in Tasks |-> "none"]
  /\ answer = [t \in Tasks |-> "none"]
  /\ overlapped = FALSE

UnderWay(t) == at[t] # Nowhere
At(t, do) == at[t].do = do

-----------------------------------------------------------------------------
(* What a task does, step by step                                          *)

\* Slip: the session is left without a commit.
LeaveUncommitted(s, n) == Step("close", s, n)

\* A session is left by a commit, or by an exception with a rollback, and is
\* closed then.
Leave(s, n) == Step("commit", s, n)
Abandon(s) == Step("rollback", s, 0)

\* Slip: the last entry is left out.
RecordUndoButLast(t, i) ==
  IF i < rows[t] THEN Step("dml", "log", i) ELSE Leave("own", 0)

\* The entries of write_data, where the manager has a current group.
RecordUndo(t, i) ==
  IF i <= rows[t] THEN Step("dml", "log", i) ELSE Leave("own", 0)

\* _insert_batches
InsertBatch(n) ==
  IF n <= Batches THEN Step("dml", "own", n) ELSE Leave("own", 0)

\* query_database, get_schema, GET /schema, GET /undo
ReadOnly == Leave("own", 0)

\* An import creates its table, or drops and creates it, unless the rows are
\* appended to one that is there.
First(t) ==
  CASE kind[t] = "write"               -> Step("dml", "own", 1)
    [] kind[t] \in {"import", "create"} -> Step("ddl", "own", 0)
    [] kind[t] = "append"              -> InsertBatch(1)
    [] kind[t] = "read"                -> ReadOnly

AfterDdl(t) == IF kind[t] = "create" THEN Leave("own", 0) ELSE InsertBatch(1)

AfterDml(t) ==
  CASE at[t].session = "log" -> Leave("log", at[t].n)
    [] at[t].session = "own" ->
         IF kind[t] = "write" THEN RecordUndo(t, 1) ELSE InsertBatch(at[t].n + 1)

\* An exception of record_undo leaves the session around it too.  create_table
\* reads the schema back in a second session.
AfterClose(t) ==
  CASE at[t].session = "log" ->
         IF outcome[t] = "failed" THEN Abandon("own") ELSE RecordUndo(t, at[t].n + 1)
    [] at[t].session = "own" ->
         IF kind[t] = "create" /\ at[t].n = 0 /\ outcome[t] = "none"
         THEN Leave("own", 1) ELSE Nowhere

Following(t) ==
  CASE At(t, "ddl") -> AfterDdl(t)
    [] At(t, "dml") -> AfterDml(t)
    [] At(t, "commit") \/ At(t, "rollback") -> Step("close", at[t].session, at[t].n)
    [] At(t, "close") -> AfterClose(t)

-----------------------------------------------------------------------------
Begin(t) ==
  /\ outcome[t] = "none" /\ ~UnderWay(t)
  /\ at' = [at EXCEPT ![t] = First(t)]
  /\ overlapped' = (overlapped \/ \E u \in Tasks : UnderWay(u))
  /\ UNCHANGED <<dialect, kind, rows, disk, pending, outcome, answer>>

\* An import whose table exists returns that from inside the session, which
\* is left as if all went well.
TableExists(t) ==
  /\ kind[t] = "import" /\ outcome[t] = "none" /\ ~UnderWay(t)
  /\ at' = [at EXCEPT ![t] = Leave("own", 0)]
  /\ outcome' = [outcome EXCEPT ![t] = "failed"]
  /\ overlapped' = (overlapped \/ \E u \in Tasks : UnderWay(u))
  /\ UNCHANGED <<dialect, kind, rows, disk, pending, answer>>

\* One whose file is missing, of another kind or unreadable opens no session.
Unreadable(t) ==
  /\ kind[t] \in {"import", "append"} /\ outcome[t] = "none" /\ ~UnderWay(t)
  /\ outcome' = [outcome EXCEPT ![t] = "failed"]
  /\ answer' = [answer EXCEPT ![t] = "failed"]
  /\ UNCHANGED <<dialect, kind, rows, disk, pending, at, overlapped>>

Conn(t) == Connection(t, at[t].session)
Change(t) == <<t, at[t].session, at[t].n>>

\* The step is done; with the last one the function returns.
Advance(t) ==
  /\ at' = [at EXCEPT ![t] = Following(t)]
  /\ IF Following(t) # Nowhere THEN UNCHANGED <<outcome, answer>>
     ELSE LET o == IF outcome[t] = "none" THEN "done" ELSE outcome[t] IN
          /\ outcome' = [outcome EXCEPT ![t] = o]
          /\ answer' = [answer EXCEPT ![t] = IF @ = "none" THEN o ELSE @]

Dml(t) ==
  /\ At(t, "dml")
  /\ pending' = [pending EXCEPT ![Conn(t)] = @ \cup {Change(t)}]
  /\ Advance(t)
  /\ UNCHANGED <<dialect, kind, rows, disk, overlapped>>

\* MySQL commits before and after it; the SQLite driver opens no transaction
\* for it, so that it is in the open one or else committed by itself.
Ddl(t) ==
  /\ At(t, "ddl")
  /\ IF dialect = "sqlite" /\ pending[Conn(t)] # {}
     THEN /\ pending' = [pending EXCEPT ![Conn(t)] = @ \cup {Change(t)}]
          /\ UNCHANGED disk
     ELSE /\ disk' = disk \cup pending[Conn(t)] \cup {Change(t)}
          /\ pending' = [pending EXCEPT ![Conn(t)] = {}]
  /\ Advance(t)
  /\ UNCHANGED <<dialect, kind, rows, overlapped>>

Commit(t) ==
  /\ At(t, "commit")
  /\ disk' = disk \cup pending[Conn(t)]
  /\ pending' = [pending EXCEPT ![Conn(t)] = {}]
  /\ Advance(t)
  /\ UNCHANGED <<dialect, kind, rows, overlapped>>

\* rollback(), and close(), at which the pool rolls the connection back
RollBack(t) ==
  /\ At(t, "rollback") \/ At(t, "close")
  /\ pending' = [pending EXCEPT ![Conn(t)] = {}]
  /\ Advance(t)
  /\ UNCHANGED <<dialect, kind, rows, disk, overlapped>>

\* Slip: the exception is swallowed inside the session, which then commits.
FailSwallowed(t) ==
  /\ At(t, "dml") \/ At(t, "ddl") \/ At(t, "commit")
  /\ at' = [at EXCEPT ![t] = Leave("own", 0)]
  /\ outcome' = [outcome EXCEPT ![t] = "failed"]
  /\ UNCHANGED <<dialect, kind, rows, disk, pending, answer, overlapped>>

\* A statement or a commit is refused, and the exception leaves the session.
Fail(t) ==
  /\ At(t, "dml") \/ At(t, "ddl") \/ At(t, "commit")
  /\ at' = [at EXCEPT ![t] = Abandon(@.session)]
  /\ outcome' = [outcome EXCEPT ![t] = "failed"]
  /\ UNCHANGED <<dialect, kind, rows, disk, pending, answer, overlapped>>

\* The tool's time is up: the model is told so, the thread goes on.
TimeOut(t) ==
  /\ UnderWay(t) /\ answer[t] = "none"
  /\ answer' = [answer EXCEPT ![t] = "timeout"]
  /\ UNCHANGED <<dialect, kind, rows, disk, pending, at, outcome, overlapped>>

DbNext == \E t \in Tasks : \/ Begin(t) \/ TableExists(t) \/ Unreadable(t)
                         \/ Dml(t) \/ Ddl(t) \/ Commit(t) \/ RollBack(t)
                         \/ Fail(t) \/ TimeOut(t)

DbSpec == DbInit /\ [][DbNext]_dbVars

-----------------------------------------------------------------------------
\* Nobody else's commit or rollback can have come in between.
Separate == dialect = "mysql" \/ ~overlapped

Statements(t) == CASE kind[t] = "write"  -> {1}
                   [] kind[t] \in {"import", "append"} -> 1..Batches
                   [] OTHER -> {}
Kept(t, s) == {n \in 1..(MaxRows + Batches) : <<t, s, n>> \in disk}

\* A tool that answers that it wrote something has written it, all of it and
\* for good, although every close() rolls back what is pending.
AcknowledgedIsDurable ==
  \A t \in Tasks : Separate /\ answer[t] = "done" => Kept(t, "own") = Statements(t)

\* A tool whose function fails leaves none of its rows, and while it is under
\* way there are all of them or none: an import is never half there.  On
\* SQLite a write is committed with its first entry and is not meant.
AllOrNothing ==
  \A t \in Tasks :
    Separate /\ (dialect = "sqlite" => kind[t] # "write") =>
      /\ Kept(t, "own") \in {{}, Statements(t)}
      /\ outcome[t] = "failed" => Kept(t, "own") = {}

\* Whenever a write is committed, the entries that undo it are: a crash at any
\* moment leaves no write that cannot be undone.  On SQLite this is so for a
\* write of one row.
CommittedIsUndoable ==
  \A t \in Tasks :
    Separate /\ (dialect = "sqlite" => rows[t] = 1)
             /\ kind[t] = "write" /\ <<t, "own", 1>> \in disk
      => Kept(t, "log") = 1..rows[t]

\* The code as it is does not keep the following three (README, Deviations).

\* The answer of write_data, "Data written successfully", with nothing asked
\* of what else uses the database meanwhile.
WrittenIsThere ==
  \A t \in Tasks : answer[t] = "done" => Kept(t, "own") = Statements(t)

\* README: "Every write run is recorded in an undo log and can be reverted".
EveryWriteIsUndoable ==
  \A t \in Tasks : kind[t] = "write" /\ <<t, "own", 1>> \in disk
                     => Kept(t, "log") = 1..rows[t]

\* An entry of the undo log stands for a change that is in the database, once
\* the tool is over.
EntriesAreOfChanges ==
  \A t \in Tasks : ~UnderWay(t) /\ Kept(t, "log") # {} => Kept(t, "own") # {}
=============================================================================
