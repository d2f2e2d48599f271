----------------------------- MODULE MCRecords -----------------------------
(* UndoLog, DbSession and RunTrace for TLC: what a run writes to the        *)
(* database, what the undo log keeps of it, and what the session keeps of   *)
(* the run.  DbSession takes apart the sessions that UndoLog makes one step *)
(* of.  The three are explored apart, in one run: a behaviour is of one of  *)
(* them, and the others are at rest.                                        *)
EXTENDS UndoLog, DbSession, RunTrace, TLC

CONSTANTS r1, r2, x, v1, v2, t1, t2, c1, c2

Symmetry == Permutations(Runs) \cup Permutations(Values)
              \cup Permutations(Tasks) \cup Permutations(Calls)

VARIABLE part   \* the component this behaviour is of

PartsInit ==
  /\ part \in {"undo", "sessions", "trace"}
  /\ Init /\ DbInit /\ TraceInit
  /\ part # "sessions" => /\ dialect = "sqlite"
                          /\ \A t \in Tasks : kind[t] = "read" /\ rows[t] = 1
  /\ part # "undo" => manager = None /\ \A i \in Rows : data[i] = Absent

PartsNext ==
  \/ part = "undo" /\ Next /\ UNCHANGED <<part, dbVars, traceVars>>
  \/ part = "sessions" /\ DbNext /\ UNCHANGED <<part, vars, traceVars>>
  \/ part = "trace" /\ TraceNext /\ UNCHANGED <<part, vars, dbVars>>

PartsSpec == PartsInit /\ [][PartsNext]_<<part, vars, dbVars, traceVars>>
=============================================================================
