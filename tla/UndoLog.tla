-------------------------------- MODULE UndoLog --------------------------------
(***************************************************************************)
(* The undo log of a workspace: an UndoManager that runs share through     *)
(* their configuration (tools/undo/manager.py, api/routes/chat.py), the    *)
(* hooks that open and close a group around each call of the agent         *)
(* (agents/capabilities.py), write_data, which records how to undo each    *)
(* statement, and revert_to_group (tools/undo/repository.py).              *)
(*                                                                         *)
(* A run makes several calls of the agent: a call ends when the run does,  *)
(* when its tool calls need approval, or with an error; after a connection *)
(* error it is made again.  Data: a table of Rows, each absent or with a   *)
(* value; an entry is the statement that undoes one insert, update or      *)
(* delete of one row.  A tool's write and its entries are one step.        *)
(***************************************************************************)
EXTENDS Integers, Sequences

CONSTANTS Runs,           \* chat runs
          Rows,           \* rows of the table
          Values,         \* values of a row
          MaxGroups,      \* bound: groups in the log
          MaxEntries,     \* bound: entries of a group
          MaxManagers     \* bound: managers built for the workspace

ASSUME UndoAssumption ==
    /\ {MaxGroups, MaxEntries} \subseteq Nat
    /\ MaxManagers \in Nat \ {0}

Absent == "absent"
None == 0

VARIABLES
    data,     \* the table
    groups,   \* the log: groups in the order of their sequence numbers
    manager,  \* the manager in the shared configuration, or None
    current,  \* each manager's current group, or None
    phase,    \* what each run is doing
    bound     \* the manager in each run's copy of the configuration

vars == <<data, groups, manager, current, phase, bound>>

Managers == 1..MaxManagers
Active(r) == phase[r] \notin {"new", "ended"}

(* The process has just started, or an earlier run has left a manager. *)
Init ==
    /\ data \in [Rows -> Values \cup {Absent}]
    /\ groups = <<>>
    /\ manager \in {None, 1}
    /\ current = [m \in Managers |-> None]
    /\ phase = [r \in Runs |-> "new"]
    /\ bound = [r \in Runs |-> None]

-------------------------------------------------------------------------------
(* POST /chat: the run gets a copy of the configuration, the manager in it    *)
(* being the one all runs share.                                              *)
Post(r) ==
    /\ phase[r] = "new"
    /\ phase' = [phase EXCEPT ![r] = "posted"]
    /\ bound' = [bound EXCEPT ![r] = manager]
    /\ UNCHANGED <<data, groups, manager, current>>

(* The run asks the application for its agent.  The first time, and after a   *)
(* change of model or key, an agent is built, and with it a manager, which    *)
(* goes into the shared configuration.                                        *)
ResolveAgent(r) ==
    /\ phase[r] = "posted"
    /\ phase' = [phase EXCEPT ![r] = "ready"]
    /\ \/ manager # None /\ UNCHANGED manager
       \/ manager < MaxManagers /\ manager' = manager + 1
    /\ UNCHANGED <<data, groups, current, bound>>

(* The before_run hook, if the run has a manager: a pending group, numbered   *)
(* after all others, becomes the manager's current one.  The snapshot is      *)
(* history; so is mixed: since the group was opened a change was not          *)
(* recorded, or runs overlapped.                                              *)
NewGroup(r) == [run |-> r, status |-> "pending", entries |-> <<>>,
                snapshot |-> data, mixed |-> FALSE]

Mixed(gs) == [h \in DOMAIN gs |-> [gs[h] EXCEPT !.mixed = TRUE]]
Alone(r) == \A q \in Runs \ {r} : ~Active(q)

OnRunStart(r) ==
    IF bound[r] = None
    THEN UNCHANGED <<groups, current>>
    ELSE /\ Len(groups) < MaxGroups
         /\ LET opened == Append(groups, NewGroup(r))
            IN  groups' = IF Alone(r) THEN opened ELSE Mixed(opened)
         /\ current' = [current EXCEPT ![bound[r]] = Len(groups) + 1]

StartCall(r) ==
    /\ phase[r] \in {"ready", "approved"}
    /\ phase' = [phase EXCEPT ![r] = "running"]
    /\ OnRunStart(r)
    /\ UNCHANGED <<data, manager, bound>>

(* A connection error: the agent is called again, and the hook runs again. *)
RetryCall(r) ==
    /\ phase[r] = "running"
    /\ OnRunStart(r)
    /\ UNCHANGED <<data, manager, phase, bound>>

OnRunEndStaysOpen(r) ==     \* mutant: the group stays the current one
    LET g == IF bound[r] = None THEN None ELSE current[bound[r]] IN
    /\ IF g = None THEN UNCHANGED groups
       ELSE groups' = [groups EXCEPT ![g].status = "completed"]
    /\ UNCHANGED current

(* The after_run hook closes whatever group is the manager's current one. *)
OnRunEnd(r) ==
    LET g == IF bound[r] = None THEN None ELSE current[bound[r]] IN
    IF g = None
    THEN UNCHANGED <<groups, current>>
    ELSE /\ groups' = [groups EXCEPT ![g].status = "completed"]
         /\ current' = [current EXCEPT ![bound[r]] = None]

EndCall(r) ==
    /\ phase[r] = "running"
    /\ phase' \in {[phase EXCEPT ![r] = next] : next \in {"ended", "approved"}}
    /\ OnRunEnd(r)
    /\ UNCHANGED <<data, manager, bound>>

(* An error, or the run is cancelled: the hook for the end does not run. *)
FailCall(r) ==
    /\ phase[r] \in {"running", "approved"}
    /\ phase' = [phase EXCEPT ![r] = "ended"]
    /\ UNCHANGED <<data, groups, manager, current, bound>>

-------------------------------------------------------------------------------
(* The change of row x to v and the entry that undoes it, if the manager has  *)
(* a current group when the tool looks.                                       *)
Record(r, e) ==
    LET g == IF bound[r] = None THEN None ELSE current[bound[r]]
        recorded == [groups EXCEPT ![g].entries = Append(@, e)]
    IN  IF g = None
        THEN groups' = Mixed(groups)
        ELSE /\ Len(groups[g].entries) < MaxEntries
             /\ groups' = IF Alone(r) THEN recorded ELSE Mixed(recorded)

Entry(r, x, v) ==
    [undo |-> CASE data[x] = Absent -> "delete"
                [] v = Absent       -> "insert"
                [] OTHER            -> "update",
     row |-> x, old |-> data[x], by |-> r]

Write(r, x, v) ==
    /\ phase[r] = "running"
    /\ data[x] # v
    /\ data' = [data EXCEPT ![x] = v]
    /\ Record(r, Entry(r, x, v))
    /\ UNCHANGED <<manager, current, phase, bound>>

-------------------------------------------------------------------------------
(* Executing an entry.  An insert of a row that is there violates the primary *)
(* key; the other statements do nothing if the row is absent.                 *)
Undo(result, e) ==
    LET t == result.table
        Set == [result EXCEPT !.table[e.row] = e.old]
    IN  IF ~result.ok THEN result
        ELSE CASE e.undo = "delete" -> Set
               [] e.undo = "update" -> IF t[e.row] = Absent THEN result ELSE Set
               [] e.undo = "insert" -> IF t[e.row] = Absent THEN Set
                                       ELSE [result EXCEPT !.ok = FALSE]

(* The entries of a group are executed in reverse.                            *)
UndoneInOrder(es, result) ==    \* mutant: the oldest statement first
    LET undone[n \in 0..Len(es)] ==
            IF n = 0 THEN result ELSE Undo(undone[n - 1], es[n])
    IN  undone[Len(es)]

Undone(es, result) ==
    LET undone[n \in 0..Len(es)] ==
            IF n = Len(es) THEN result ELSE Undo(undone[n + 1], es[n + 1])
    IN  undone[0]

(* So are those of the completed groups from the target on, the newest first. *)
Affected(h) == groups[h].status = "completed"

Replay(g) ==
    LET undone[h \in g..(Len(groups) + 1)] ==
            IF h > Len(groups) THEN [ok |-> TRUE, table |-> data]
            ELSE IF Affected(h) THEN Undone(groups[h].entries, undone[h + 1])
            ELSE undone[h + 1]
    IN  undone[g]

(* One transaction: if a statement fails, nothing is changed. *)
RevertTo(g) ==
    /\ \E h \in g..Len(groups) : Affected(h)
    /\ Replay(g).ok
    /\ data' = Replay(g).table
    /\ LET marked == [h \in DOMAIN groups |->
                         IF h >= g /\ Affected(h)
                         THEN [groups[h] EXCEPT !.status = "reverted"]
                         ELSE groups[h]]
       IN  groups' = IF \E r \in Runs : Active(r) THEN Mixed(marked) ELSE marked
    /\ UNCHANGED <<manager, current, phase, bound>>

Next ==
    \/ \E r \in Runs :
        \/ Post(r)
        \/ ResolveAgent(r)
        \/ StartCall(r)
        \/ RetryCall(r)
        \/ EndCall(r)
        \/ FailCall(r)
        \/ \E x \in Rows, v \in Values \cup {Absent} : Write(r, x, v)
    \/ \E g \in DOMAIN groups : RevertTo(g)

Spec == Init /\ [][Next]_vars
-------------------------------------------------------------------------------
Entries ==
    [undo : {"insert", "update", "delete"}, row : Rows,
     old : Values \cup {Absent}, by : Runs]

TypeOK ==
    /\ data \in [Rows -> Values \cup {Absent}]
    /\ groups \in Seq([run : Runs, status : {"pending", "completed", "reverted"},
                       entries : Seq(Entries), snapshot : [Rows -> Values \cup {Absent}],
                       mixed : BOOLEAN])
    /\ manager \in {None} \cup Managers
    /\ current \in [Managers -> {None} \cup DOMAIN groups]
    /\ phase \in [Runs -> {"new", "posted", "ready", "running", "approved", "ended"}]
    /\ bound \in [Runs -> {None} \cup Managers]

(* Reverting to a group gives back the table as it was when the group was     *)
(* opened, if every change since was recorded, in a group that was closed,    *)
(* and made with no other run active: however many calls, retries and reverts *)
(* there were in between.                                                     *)
RevertRestores ==
    \A g \in DOMAIN groups :
        (/\ groups[g].status = "completed" /\ ~groups[g].mixed
         /\ \A r \in Runs : ~Active(r)
         /\ \A h \in g..Len(groups) : groups[h].status = "pending" => groups[h].entries = <<>>)
        => Replay(g) = [ok |-> TRUE, table |-> groups[g].snapshot]

(* What can be reverted does not change any more: no run, whichever manager   *)
(* it shares with whom, adds to a group that was closed or reverted, and no   *)
(* group is opened again.                                                     *)
ClosedGroupsStay ==
    [][ \A g \in DOMAIN groups : groups[g].status # "pending" =>
            /\ groups'[g].entries = groups[g].entries
            /\ groups'[g].status # "pending"
            /\ groups[g].status = "reverted" => groups'[g].status = "reverted" ]_vars

(* README: "Every run that changes data is grouped into an undo log": a       *)
(* change is recorded in some group.                                          *)
EveryChangeIsGrouped ==
    [][ data' # data =>
            \/ \E g \in DOMAIN groups : groups'[g].entries # groups[g].entries
            \/ \E g \in DOMAIN groups : groups'[g].status = "reverted"
                                            /\ groups[g].status = "completed" ]_vars

(* README: "you can list those groups and revert the database to a previous   *)
(* state": when no run is active, a revert to a closed group succeeds.        *)
RevertSucceeds ==
    (\A r \in Runs : ~Active(r)) =>
        \A g \in DOMAIN groups : groups[g].status = "completed" => Replay(g).ok

(* The chat route copies the configuration "so that concurrent sessions do    *)
(* not overwrite each other's" fields, which the undo hooks read: a change is *)
(* recorded in a group of the run that made it.                               *)
EntriesInOwnGroup ==
    \A g \in DOMAIN groups : \A i \in DOMAIN groups[g].entries :
        groups[g].entries[i].by = groups[g].run
===============================================================================
