---------------------------- MODULE ProfileStore ----------------------------
(***************************************************************************)
(* One browser profile in the operating system's keyring                   *)
(* (config/secrets.py) and in the workspace's index of profiles            *)
(* (browser/profiles.py, api/routes/browser_profiles.py).                  *)
(*                                                                         *)
(* A keyring entry holds little, so a profile is cut into chunks, each an  *)
(* entry named after a generation, and an entry of its own, the metadata,  *)
(* says which generation is current and how many chunks it has.  Every     *)
(* call of the keyring is a step: inside one program nothing comes between *)
(* two of them, but the desktop program, the server and the command line   *)
(* share one keyring, and a program can end after any of them.             *)
(***************************************************************************)
EXTENDS Naturals, FiniteSets

CONSTANTS
    Programs,    \* the programs that use the keyring
    Sizes,       \* sizes in bytes of the profiles saved
    MaxBytes,    \* BROWSER_PROFILE_MAX_TOTAL_BYTES
    ChunkChars,  \* BROWSER_PROFILE_MAX_CHUNK_CHARS
    NoMeta,      \* no metadata
    Answers,     \* {TRUE}, or {TRUE, FALSE} where the keyring may refuse a call
    MaxSaves,    \* bound: generations ever begun
    MaxEnds      \* bound: programs ended in the middle of an operation

ASSUME ProfileAssumption ==
    /\ Sizes \subseteq Nat
    /\ MaxBytes \in Nat
    /\ ChunkChars \in Nat \ {0}
    /\ MaxSaves \in Nat
    /\ Answers \in {{TRUE}, BOOLEAN}
    /\ NoMeta \notin [gen : Nat, count : Nat]

VARIABLES
    meta,        \* the metadata entry: generation and number of chunks, or none
    chunks,      \* the chunk entries, <<generation, index>>
    listed,      \* is the profile in _index.json
    generations, \* generations begun so far
    saver,       \* [Programs -> the operation in progress]
    doomed,      \* history: generations somebody began to delete
    disturbed,   \* history: operations overlapped, or one was cut short
    ended        \* programs ended so far

keyring == <<meta, chunks, listed, generations, saver, doomed, disturbed, ended>>

Meta(g, n) == [gen |-> g, count |-> n]
Metas == [gen : 1 .. MaxSaves, count : Nat] \cup {NoMeta}

\* Base64 makes four characters of three bytes, the text is cut into chunks.
CeilDiv(a, b) == (a + b - 1) \div b
Chunks(bytes) == CeilDiv(4 * CeilDiv(bytes, 3), ChunkChars)

\* BROWSER_PROFILE_MAX_CHUNK_COUNT, past which a read calls it malformed.
MaxCount == (((MaxBytes \div 3) + 1) * 4) \div ChunkChars + 2

Entries(m) == IF m = NoMeta THEN {} ELSE {m.gen} \X (0 .. m.count - 1)

\* What an operation is doing: "put" its own chunks, "undo" them, "clean" the
\* ones it replaces or deletes, then "drop" the metadata, "list" or "unlist"
\* the name; "read" the chunks of the metadata found; "whole" and "corrupt"
\* are how a read ended.
Phases == {"idle", "put", "undo", "clean", "erase", "drop", "list", "unlist",
           "read", "whole", "corrupt"}

NoOperation == [phase |-> "idle", own |-> NoMeta, old |-> NoMeta, at |-> 0]
AtRest(p) == saver[p].phase \in {"idle", "whole", "corrupt"}

ProfileTypeOK ==
    /\ meta \in Metas
    /\ chunks \subseteq (1 .. MaxSaves) \X Nat
    /\ listed \in BOOLEAN
    /\ generations \in 0 .. MaxSaves
    /\ saver \in [Programs -> [phase : Phases, own : Metas, old : Metas, at : Nat]]
    /\ doomed \subseteq 1 .. MaxSaves
    /\ disturbed \in BOOLEAN

Go(p, phase) == saver' = [saver EXCEPT ![p].phase = phase, ![p].at = 0]

-----------------------------------------------------------------------------
\* Whatever begins while something else is under way overlaps it.
Begins(p, phase, own) ==
    /\ AtRest(p)
    /\ saver' = [saver EXCEPT ![p] = [phase |-> phase, own |-> own, old |-> meta, at |-> 0]]
    /\ disturbed' = (disturbed \/ \E q \in Programs \ {p} : ~AtRest(q))
    /\ UNCHANGED <<meta, chunks, listed, ended>>

\* save_browser_profile: the size is checked, the metadata of the profile it
\* will replace is read, a generation is drawn.
Save(p, bytes) ==
    /\ bytes <= MaxBytes
    /\ generations < MaxSaves
    /\ generations' = generations + 1
    /\ Begins(p, "put", Meta(generations + 1, Chunks(bytes)))
    /\ UNCHANGED doomed

\* delete_browser_profile, from delete_profile: the chunks, then the metadata.
Delete(p) ==
    /\ doomed' = IF meta = NoMeta THEN doomed ELSE doomed \cup {meta.gen}
    /\ Begins(p, IF meta = NoMeta THEN "unlist" ELSE "erase", NoMeta)
    /\ UNCHANGED generations

\* get_browser_profile
Read(p) ==
    /\ meta # NoMeta
    /\ Begins(p, IF meta.count > MaxCount THEN "corrupt" ELSE "read", NoMeta)
    /\ UNCHANGED <<generations, doomed>>

-----------------------------------------------------------------------------
\* Slip: the metadata is written first.
MetaFirst(p) ==
    /\ saver[p].phase = "put"
    /\ IF saver[p].at < saver[p].own.count
       THEN /\ meta' = saver[p].own
            /\ chunks' = chunks \cup {<<saver[p].own.gen, saver[p].at>>}
            /\ saver' = [saver EXCEPT ![p].at = @ + 1]
       ELSE Go(p, "clean") /\ UNCHANGED <<meta, chunks>>
    /\ UNCHANGED <<listed, generations, doomed, disturbed, ended>>

\* The chunks one by one, the metadata last; when the keyring refuses one of
\* them, the chunks are removed and the save fails.
Put(p) ==
    /\ saver[p].phase = "put"
    /\ \/ /\ saver[p].at < saver[p].own.count
          /\ chunks' = chunks \cup {<<saver[p].own.gen, saver[p].at>>}
          /\ saver' = [saver EXCEPT ![p].at = @ + 1]
          /\ UNCHANGED meta
       \/ /\ saver[p].at = saver[p].own.count
          /\ meta' = saver[p].own
          /\ Go(p, "clean")
          /\ UNCHANGED chunks
       \/ /\ FALSE \in Answers
          /\ Go(p, "undo")
          /\ UNCHANGED <<meta, chunks>>
    /\ UNCHANGED <<listed, generations, doomed, disturbed, ended>>

\* Slip: the last chunk is left behind.
ShortSweep(p, m, ok) ==
    /\ chunks' = IF ok THEN chunks \ {e \in Entries(m) : e[2] = saver[p].at /\ e[2] + 1 < m.count}
                       ELSE chunks
    /\ disturbed' = (disturbed \/ ~ok)

\* _safe_delete of one chunk of the sweep: a refusal is swallowed.
Sweep(p, m, ok) ==
    /\ chunks' = IF ok THEN chunks \ {<<m.gen, saver[p].at>>} ELSE chunks
    /\ disturbed' = (disturbed \/ ~ok)

\* _profile_cleanup_generation, wherever it is called from.
Cleanup(p, phase, m, after) ==
    /\ saver[p].phase = phase
    /\ IF m # NoMeta /\ saver[p].at < m.count
       THEN /\ \E ok \in Answers : Sweep(p, m, ok)
            /\ saver' = [saver EXCEPT ![p].at = @ + 1]
       ELSE Go(p, after) /\ UNCHANGED <<chunks, disturbed>>
    /\ UNCHANGED <<meta, listed, generations, doomed, ended>>

CleanOld(p) == Cleanup(p, "clean", saver[p].old, "list")
EraseOld(p) == Cleanup(p, "erase", saver[p].old, "drop")
UndoOwn(p) == Cleanup(p, "undo", saver[p].own, "idle")

\* The metadata goes after its chunks.
Drop(p) ==
    /\ saver[p].phase = "drop"
    /\ \E ok \in Answers : /\ meta' = IF ok THEN NoMeta ELSE meta
                           /\ disturbed' = (disturbed \/ ~ok)
    /\ Go(p, "unlist")
    /\ UNCHANGED <<chunks, listed, generations, doomed, ended>>

\* The index of the workspace, after the keyring.
Index(p) ==
    /\ saver[p].phase \in {"list", "unlist"}
    /\ listed' = (saver[p].phase = "list")
    /\ Go(p, "idle")
    /\ UNCHANGED <<meta, chunks, generations, doomed, disturbed, ended>>

\* One chunk read; a missing one makes the profile corrupted.
Fetch(p) ==
    /\ saver[p].phase = "read"
    /\ LET here == <<saver[p].old.gen, saver[p].at>> \in chunks IN
       IF saver[p].at = saver[p].old.count THEN Go(p, "whole")
       ELSE IF here THEN saver' = [saver EXCEPT ![p].at = @ + 1]
       ELSE Go(p, "corrupt")
    /\ UNCHANGED <<meta, chunks, listed, generations, doomed, disturbed, ended>>

Ends(p) ==
    /\ ~AtRest(p)
    /\ ended < MaxEnds
    /\ ended' = ended + 1
    /\ saver' = [saver EXCEPT ![p] = NoOperation]
    /\ disturbed' = TRUE
    /\ UNCHANGED <<meta, chunks, listed, generations, doomed>>

ProfileInit ==
    /\ meta = NoMeta
    /\ chunks = {}
    /\ listed = FALSE
    /\ generations = 0
    /\ saver = [p \in Programs |-> NoOperation]
    /\ doomed = {}
    /\ disturbed = FALSE
    /\ ended = 0

ProfileNext ==
    \E p \in Programs :
        \/ \E bytes \in Sizes : Save(p, bytes)
        \/ Delete(p) \/ Read(p)
        \/ Put(p) \/ CleanOld(p) \/ EraseOld(p) \/ UndoOwn(p)
        \/ Drop(p) \/ Index(p) \/ Fetch(p) \/ Ends(p)

ProfileSpec == ProfileInit /\ [][ProfileNext]_keyring

-----------------------------------------------------------------------------
\* Unless somebody began to delete it, every chunk of the profile the metadata
\* names is there: whatever saves overlap, fail or are cut short, the last
\* profile saved can be restored (secrets.py: chunks, metadata, then cleanup).
SavedIsWhole ==
    meta # NoMeta /\ meta.gen \notin doomed => Entries(meta) \subseteq chunks

\* A read calls a profile corrupted only if meanwhile it was replaced, or
\* somebody began to delete it; never for its size, which the save accepted.
CorruptMeansReplaced ==
    \A p \in Programs : saver[p].phase = "corrupt" =>
        \/ meta = NoMeta
        \/ meta.gen # saver[p].old.gen
        \/ meta.gen \in doomed

\* When operations came one after the other and none was cut short, nothing
\* of an earlier login is left in the keyring, failed saves included, and the
\* index lists the profile exactly when it is stored.
NothingLeftBehind ==
    ~disturbed /\ (\A p \in Programs : AtRest(p)) =>
        /\ chunks = Entries(meta)
        /\ listed = (meta # NoMeta)

\* The same with two programs saving at once.
NoLeftovers ==
    (\A p \in Programs : AtRest(p)) /\ ended = 0 => chunks = Entries(meta)

\* A read never fails on a profile that was saved.
ReadSucceeds == \A p \in Programs : saver[p].phase = "corrupt" => doomed # {}
=============================================================================
