----------------------------- MODULE SessionStore -----------------------------
(***************************************************************************)
(* The sessions of a workspace on disk: one JSON file per session and an   *)
(* index that names them (runtime/session_file_store.py).  Neither is      *)
(* replaced atomically: write_text truncates the file and fills it, so a   *)
(* process that dies in between leaves an unreadable file, and the next    *)
(* start works with what it finds.  Within a process every operation runs  *)
(* to its end on the event loop; only a crash cuts it short, so an         *)
(* operation is the sequence of its writes.                                *)
(*                                                                         *)
(* Data: the content of a session is a version number, one more after each *)
(* change (a message, a stored run, a trim).  Nothing stands for a session *)
(* that is not in memory and for a file that is absent or cannot be read.  *)
(* The readers skip both, except a file cut inside a UTF-8 character:      *)
(* UnicodeDecodeError is not among the errors they catch, and ends the     *)
(* start.  An index that is absent or garbled (it is ASCII) is not valid.  *)
(***************************************************************************)
EXTENDS Integers

CONSTANTS Sessions,       \* session ids
          Legacy,         \* the ids in the old single file, if there is one
          MaxVersion,     \* bound: changes to the content of a session
          WriteMayFail,   \* a write runs into an OSError after the truncation
          UnlinkMayFail,  \* the file of a deleted session cannot be removed
          RenameMayFail,  \* the old single file cannot be moved away
          SplitMayHappen  \* an interrupted write stops inside a UTF-8 character

Nothing == -1
NoFile == "no file"       \* no session file is open

ASSUME StoreAssumption ==
    /\ Legacy \subseteq Sessions
    /\ MaxVersion \in Nat
    /\ NoFile \notin Sessions
    /\ {WriteMayFail, UnlinkMayFail, RenameMayFail, SplitMayHappen} \subseteq BOOLEAN

VARIABLES
  (* the disk *)
    file,        \* the content of each session's file
    index,       \* the index: whether it can be read, and the ids it names
    split,       \* the files that stop inside a UTF-8 character
    legacyFile,  \* the old single file is where the code looks for it
  (* the process *)
    pc,          \* "down", "migrate", "idle", "files" or "index": what it is writing
    mem,         \* the sessions in memory
    todo,        \* sessions whose files the operation has yet to write
    open,        \* the session whose file is truncated and not yet filled
    job,         \* sessions whose files the operation writes
  (* history *)
    known,       \* ids that were ever given out
    saved,       \* what the last operation that returned had stored of a session
    unsaved,     \* sessions changed in memory by something that does not save
    torn,        \* sessions whose file was last written incompletely
    deleted      \* sessions the user deleted

disk == <<file, split, index, legacyFile>>
vars == <<file, split, index, legacyFile, pc, mem, todo, open, job,
          known, saved, unsaved, torn, deleted>>

Version == {Nothing} \cup 0..MaxVersion

InMemory == {s \in Sessions : mem[s] # Nothing}

LoadableNamed(s) ==         \* mutant: no rebuild from the files
    IF index.valid /\ s \in index.ids THEN file[s] ELSE Nothing

(* What _load brings into memory: with an index, the files it names; without  *)
(* one, every file (_rebuild_from_disk).                                      *)
Loadable(s) ==
    IF index.valid /\ s \notin index.ids THEN Nothing ELSE file[s]

-------------------------------------------------------------------------------
(* A store that is new, or one left behind by an earlier version; the old     *)
(* single file may be present beside it.                                      *)
Init ==
    /\ legacyFile \in {FALSE, Legacy # {}}
    /\ \E old \in SUBSET (Sessions \ Legacy) :
        /\ file = [s \in Sessions |-> IF s \in old THEN 0 ELSE Nothing]
        /\ index = [valid |-> old # {}, ids |-> old]
        /\ saved = file
        /\ known = old \cup Legacy
    /\ pc = "down"
    /\ mem = [s \in Sessions |-> Nothing]
    /\ todo = {} /\ open = NoFile /\ job = {}
    /\ split = {}
    /\ unsaved = {} /\ torn = {} /\ deleted = {}

(* __init__: the old single file is read first, and each session in it is written out. *)
Start ==
    /\ pc = "down"
    /\ pc' = "migrate"
    /\ todo' = IF legacyFile THEN Legacy ELSE {}
    /\ UNCHANGED <<disk, mem, open, job, known, saved, unsaved, torn, deleted>>

Unreadable ==
    {s \in split : index.valid => s \in index.ids}

LegacyMoved ==
    \/ legacyFile' = FALSE
    \/ RenameMayFail /\ UNCHANGED legacyFile

(* A file that cannot be decoded ends the start. *)
LoadFails ==
    /\ pc = "migrate" /\ todo = {} /\ open = NoFile
    /\ Unreadable # {}
    /\ LegacyMoved
    /\ pc' = "down"
    /\ UNCHANGED <<file, split, index, mem, todo, open, job, known, saved, unsaved, torn, deleted>>

(* The old file is moved away when all its sessions are written; then _load.  *)
(* Rebuilt from the files, the sessions get a new index at once.              *)
Load ==
    /\ pc = "migrate" /\ todo = {} /\ open = NoFile
    /\ Unreadable = {}
    /\ LegacyMoved
    /\ mem' = [s \in Sessions |-> Loadable(s)]
    /\ job' = {}
    /\ pc' = IF ~index.valid /\ \E s \in Sessions : file[s] # Nothing
                THEN "files" ELSE "idle"
    /\ UNCHANGED <<file, split, index, todo, open, known, saved, unsaved, torn, deleted>>

-------------------------------------------------------------------------------
(* An operation that stores the sessions of ss, then the index. *)
Store(ss) == pc' = "files" /\ todo' = ss /\ job' = ss

CreateOnlyNamed(s) ==       \* mutant: the file is left to the first save
    /\ pc = "idle" /\ s \notin known
    /\ known' = known \cup {s}
    /\ mem' = [mem EXCEPT ![s] = 0]
    /\ Store({})
    /\ UNCHANGED <<disk, open, saved, unsaved, torn, deleted>>

Create(s) ==
    /\ pc = "idle" /\ s \notin known
    /\ known' = known \cup {s}
    /\ mem' = [mem EXCEPT ![s] = 0]
    /\ Store({s})
    /\ UNCHANGED <<disk, open, saved, unsaved, torn, deleted>>

(* The content of a session changes and save() writes all sessions: a run is  *)
(* stored or suspended, or a revert trims the session.                        *)
Change(s) ==
    /\ pc = "idle" /\ mem[s] # Nothing /\ mem[s] < MaxVersion
    /\ mem' = [mem EXCEPT ![s] = @ + 1]
    /\ Store(InMemory)
    /\ UNCHANGED <<disk, open, known, saved, unsaved, torn, deleted>>

(* The message of the user is added when it is posted, and not saved yet. *)
AddMessage(s) ==
    /\ pc = "idle" /\ mem[s] # Nothing /\ mem[s] < MaxVersion
    /\ mem' = [mem EXCEPT ![s] = @ + 1]
    /\ unsaved' = unsaved \cup {s}
    /\ UNCHANGED <<disk, pc, todo, open, job, known, saved, torn, deleted>>

DeleteFromIndex(s) ==       \* mutant: only the index forgets the session
    /\ pc = "idle" /\ mem[s] # Nothing
    /\ mem' = [mem EXCEPT ![s] = Nothing]
    /\ saved' = [saved EXCEPT ![s] = Nothing]
    /\ deleted' = deleted \cup {s}
    /\ Store({})
    /\ UNCHANGED <<disk, open, known, unsaved, torn>>

(* The session goes from memory and its file is removed; then the index. *)
Delete(s) ==
    /\ pc = "idle" /\ mem[s] # Nothing
    /\ mem' = [mem EXCEPT ![s] = Nothing]
    /\ \/ file' = [file EXCEPT ![s] = Nothing] /\ split' = split \ {s}
       \/ UnlinkMayFail /\ UNCHANGED <<file, split>>
    /\ saved' = [saved EXCEPT ![s] = Nothing]
    /\ deleted' = deleted \cup {s}
    /\ Store({})
    /\ UNCHANGED <<index, legacyFile, open, known, unsaved, torn>>

-------------------------------------------------------------------------------
(* write_text on a session's file: truncated, then filled.  Every version in  *)
(* the old single file is the first one.                                      *)
OpenFile(s) ==
    /\ pc \in {"migrate", "files"} /\ s \in todo /\ open = NoFile
    /\ open' = s
    /\ file' = [file EXCEPT ![s] = Nothing]
    /\ split' = split \ {s}
    /\ UNCHANGED <<index, legacyFile, pc, mem, todo, job, known, saved, unsaved, torn, deleted>>

Written(s) == IF pc = "migrate" THEN 0 ELSE mem[s]

CloseFile(s) ==
    /\ open = s
    /\ file' = [file EXCEPT ![s] = Written(s)]
    /\ todo' = todo \ {s}
    /\ open' = NoFile
    /\ torn' = torn \ {s}
    /\ unsaved' = unsaved \ {s}
    /\ UNCHANGED <<split, index, legacyFile, pc, mem, job, known, saved, deleted>>

(* What an interrupted write leaves; a session without text is ASCII. *)
Cut(s) ==
    /\ UNCHANGED <<file, index, legacyFile>>
    /\ \/ UNCHANGED split
       \/ /\ SplitMayHappen /\ s # NoFile
          /\ pc = "migrate" \/ mem[s] > 0
          /\ split' = split \cup {s}

(* The OSError is logged and the operation goes on. *)
FileFails(s) ==
    /\ WriteMayFail /\ open = s
    /\ todo' = todo \ {s}
    /\ open' = NoFile
    /\ torn' = torn \cup {s}
    /\ Cut(s)
    /\ UNCHANGED <<pc, mem, job, known, saved, unsaved, deleted>>

(* _write_index, the last write of every operation. *)
OpenIndex ==
    /\ pc = "files" /\ todo = {} /\ open = NoFile
    /\ pc' = "index"
    /\ index' = [valid |-> FALSE, ids |-> index.ids]
    /\ UNCHANGED <<file, split, legacyFile, mem, todo, open, job, known, saved, unsaved, torn, deleted>>

(* The operation returns: its caller takes what it wrote for stored. *)
Return ==
    /\ pc = "index"
    /\ pc' = "idle"
    /\ saved' = [s \in Sessions |-> IF s \in job THEN mem[s] ELSE saved[s]]
    /\ UNCHANGED <<file, split, legacyFile, mem, todo, open, job, known, unsaved, torn, deleted>>

NewIndex == [valid |-> TRUE, ids |-> InMemory]

CloseIndex == Return /\ index' = NewIndex

IndexFails == WriteMayFail /\ Return /\ UNCHANGED index

-------------------------------------------------------------------------------
(* The process ends: killed at any point, or closed. *)
Crash ==
    /\ pc # "down"
    /\ pc' = "down"
    /\ mem' = [s \in Sessions |-> Nothing]
    /\ todo' = {} /\ open' = NoFile /\ job' = {}
    /\ unsaved' = {}
    /\ torn' = torn \cup ({open} \ {NoFile})
    /\ Cut(open)
    /\ UNCHANGED <<known, saved, deleted>>

Next ==
    \/ Start
    \/ Load
    \/ LoadFails
    \/ \E s \in Sessions :
        \/ Create(s)
        \/ Change(s)
        \/ AddMessage(s)
        \/ Delete(s)
        \/ OpenFile(s)
        \/ CloseFile(s)
        \/ FileFails(s)
    \/ OpenIndex
    \/ CloseIndex
    \/ IndexFails
    \/ Crash

Spec == Init /\ [][Next]_vars
-------------------------------------------------------------------------------
TypeOK ==
    /\ file \in [Sessions -> Version]
    /\ index \in [valid : BOOLEAN, ids : SUBSET Sessions]
    /\ split \in SUBSET Sessions
    /\ legacyFile \in BOOLEAN
    /\ pc \in {"down", "migrate", "idle", "files", "index"}
    /\ mem \in [Sessions -> Version]
    /\ todo \in SUBSET Sessions
    /\ open \in Sessions \cup {NoFile}
    /\ job \in SUBSET Sessions
    /\ known \in SUBSET Sessions
    /\ saved \in [Sessions -> Version]
    /\ unsaved \in SUBSET Sessions
    /\ torn \in SUBSET Sessions
    /\ deleted \in SUBSET Sessions

(* Whenever the process dies, the next start finds every session at least as  *)
(* new as the last operation that returned had stored it, except the one      *)
(* whose file was being written: no order of writes of any operation, no      *)
(* unreadable index and no earlier crash puts another session at risk.  (If a *)
(* file is cut inside a character there is no next start: EveryStartLoads.)   *)
OnlyOpenFileAtRisk ==
    split = {} =>
        \A s \in Sessions \ torn :
            open # s => Loadable(s) >= saved[s]

(* A deleted session does not come back: not from a file the index no longer  *)
(* names, not from a rebuild without the index, not from the old single file. *)
DeletedStaysDeleted ==
    \A s \in deleted : Loadable(s) = Nothing

(* Between operations a restart would show what memory shows, but for content *)
(* that was not saved and files whose writing failed.                         *)
IdleMatchesDisk ==
    pc = "idle" /\ index.valid =>
        \A s \in Sessions \ (torn \cup unsaved) : Loadable(s) = mem[s]

(* README: "Sessions persist per workspace ... so you can close the app and   *)
(* pick up where you left off": what an operation had stored when it returned *)
(* is there after a restart.                                                  *)
StoredSurvives ==
    pc = "idle" => \A s \in Sessions : Loadable(s) >= saved[s]

(* The loader skips a session it cannot parse ("continue"), and a test holds  *)
(* that garbage on disk does not keep the store from starting: a start brings *)
(* the store up, whatever earlier crashes left.                               *)
EveryStartLoads == [][~LoadFails]_vars

(* The test of the migration asserts that the store has the sessions of the   *)
(* old single file once that file is moved away.                              *)
LegacyIsLoaded ==
    [][ Load /\ legacyFile /\ ~legacyFile' =>
            \A s \in Legacy : mem'[s] # Nothing ]_vars
===============================================================================
