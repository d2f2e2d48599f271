---------------------------- MODULE ConfigProofs ----------------------------
(***************************************************************************)
(* The files of the configuration and the profiles in the keyring.         *)
(*                                                                         *)
(* The registry of workspaces stays well formed for any number of          *)
(* programs, directories and workspaces, although each operation writes    *)
(* back a copy of the registry that may be old by then, writes may fail,   *)
(* and a program may end in the middle of one.  What one program remembers *)
(* of its active workspace is proved where it is alone.                    *)
(*                                                                         *)
(* Whatever saves, deletions and reads of however many programs overlap in *)
(* one keyring, fail or are cut short, the profile the metadata names is   *)
(* complete unless somebody began to delete it; and operations that come   *)
(* one after the other leave nothing of an earlier login; for profiles of  *)
(* any size cut into chunks of any length.                                 *)
(***************************************************************************)
EXTENDS Workspaces, ProfileStore, SequenceTheorems, TLAPS

\* What workspaces.json can hold.
Known == UNION {[S -> Dirs] : S \in SUBSET Ids}
Registries == [here : BOOLEAN, known : Known, last : Ids \cup {None}]

\* A registry that can be written back at any time: it is well formed, and one
\* that does not exist names no workspace.
Sound(r) == /\ r \in Registries
            /\ WellFormed(r)
            /\ ~r.here => DOMAIN r.known = {}

\* The copy held by each operation is as good as the file.  That holds of the
\* operations that never write it too, which keeps the invariant plain.
IInv ==
  /\ Sound(registry)
  /\ DOMAIN call = Processes
  /\ \A p \in Processes :
       /\ call[p] = [todo |-> call[p].todo, id |-> call[p].id, dir |-> call[p].dir,
                     copy |-> call[p].copy, new |-> call[p].new]
       /\ Sound(call[p].copy)
  /\ made \in Nat

-----------------------------------------------------------------------------
(* The registries that operations make                                     *)

LEMMA NoneIsNoId == None \notin Ids
BY WorkspacesAssumption DEF WorkspacesAssumption, Ids

LEMMA EmptyIsSound == Sound(Empty) /\ Sound([Empty EXCEPT !.here = FALSE])
<1>1. DOMAIN <<>> = {} /\ <<>> \in [{} -> Dirs]
  OBVIOUS
<1>2. <<>> \in Known
  BY <1>1 DEF Known
<1>. QED  BY <1>1, <1>2 DEF Sound, Empty, Registries, WellFormed

\* What is in Known, by its domain and its values.
LEMMA KnownIs ==
  /\ \A f \in Known : /\ f = [i \in DOMAIN f |-> f[i]] /\ DOMAIN f \subseteq Ids
                      /\ \A i \in DOMAIN f : f[i] \in Dirs
  /\ \A S \in SUBSET Ids : \A f \in [S -> Dirs] : f \in Known
BY DEF Known

\* A workspace in a directory that has none yet keeps a registry well formed.
LEMMA WithIsSound ==
  ASSUME Sound(registry), NEW id \in Ids, NEW dir \in Dirs,
         \A i \in DOMAIN registry.known : registry.known[i] # dir
  PROVE  /\ Sound([registry EXCEPT !.here = TRUE, !.known = With(id, dir)])
         /\ DOMAIN With(id, dir) = DOMAIN registry.known \cup {id}
         /\ With(id, dir) \in Known
<1>. DEFINE k == registry.known
<1>1. k \in Known /\ registry \in Registries
  BY DEF Sound, Registries
<1>2. DOMAIN k \cup {id} \in SUBSET Ids
  BY <1>1, KnownIs
<1>3. With(id, dir) \in [DOMAIN k \cup {id} -> Dirs]
  BY <1>1, KnownIs DEF With
<1>4. With(id, dir) \in Known
  BY <1>2, <1>3, KnownIs
<1>5. \A i, j \in DOMAIN k \cup {id} : With(id, dir)[i] = With(id, dir)[j] => i = j
  BY <1>1 DEF With, Sound, WellFormed
<1>6. DOMAIN With(id, dir) = DOMAIN k \cup {id}
  BY DEF With
<1>7. registry.last \in DOMAIN k \cup {None}
  BY DEF Sound, WellFormed
<1>. QED  BY <1>1, <1>4, <1>5, <1>6, <1>7 DEF Sound, WellFormed, Registries

\* Taking a workspace out, and forgetting it as the last one, does too.
LEMMA WithoutIsSound ==
  ASSUME Sound(registry), NEW id
  PROVE  Sound([registry EXCEPT !.known = Restrict(@, DOMAIN @ \ {id}),
                                !.last = IF @ = id THEN None ELSE @])
<1>. DEFINE k == registry.known
            rest == Restrict(k, DOMAIN k \ {id})
<1>1. k \in Known /\ registry \in Registries
  BY DEF Sound, Registries
<1>2. DOMAIN rest = DOMAIN k \ {id} /\ \A i \in DOMAIN rest : rest[i] = k[i]
  BY DEF Restrict
<1>3. rest \in [DOMAIN k \ {id} -> Dirs] /\ DOMAIN k \ {id} \in SUBSET Ids
  BY <1>1, KnownIs DEF Restrict
<1>4. rest \in Known
  BY <1>3, KnownIs
<1>. DEFINE r == [registry EXCEPT !.known = rest,
                                  !.last = IF registry.last = id THEN None ELSE registry.last]
<1>5. /\ r \in Registries
      /\ r.here = registry.here /\ r.known = rest
      /\ r.last = IF registry.last = id THEN None ELSE registry.last
  BY <1>1, <1>4 DEF Registries
<1>6. ~r.here => DOMAIN r.known = {}
  BY <1>2, <1>5 DEF Sound
<1>7. WellFormed(r)
  BY <1>1, <1>2, <1>5 DEF Sound, WellFormed, Registries
<1>8. Sound(r)
  BY <1>5, <1>6, <1>7 DEF Sound
<1>. QED  BY <1>8

\* So does choosing a registered workspace as the last active one, or none.
LEMMA ChosenIsSound ==
  ASSUME Sound(registry), NEW id \in DOMAIN registry.known \cup {None}
  PROVE  Sound([registry EXCEPT !.last = id])
<1>1. DOMAIN registry.known \subseteq Ids
  BY KnownIs DEF Sound, Registries
<1>. QED  BY <1>1 DEF Sound, WellFormed, Registries

-----------------------------------------------------------------------------
(* The invariant                                                           *)

\* An operation that begins with a sound copy of the registry is harmless.
LEMMA BeginKeeps ==
  ASSUME IInv, made' \in Nat, NEW p \in Processes, NEW todo, NEW id, NEW dir, NEW copy,
         NEW new, Sound(copy), Begin(p, todo, id, dir, copy, new)
  PROVE  IInv'
<1>1. registry' = registry
  BY DEF Begin, disk
<1>2. Sound(registry')
  BY <1>1 DEF IInv
<1>3. \A q \in Processes :
        call'[q] = IF q = p THEN [todo |-> todo, id |-> id, dir |-> dir,
                                  copy |-> copy, new |-> new] ELSE call[q]
  BY DEF Begin, IInv
<1>4. DOMAIN call' = Processes
  BY DEF Begin, IInv
<1>. QED  BY <1>2, <1>3, <1>4 DEF IInv

\* A step keeps every copy as it is, or lets an operation end.
LEMMA StepsKeepCopies ==
  ASSUME IInv, NEW p \in Processes, made' = made, Sound(registry'),
         Done(p) \/ call' = [call EXCEPT ![p] = Idle] \/ call' = [call EXCEPT ![p] = Down]
  PROVE  IInv'
<1>1. DOMAIN call' = Processes
  BY DEF IInv, Done
<1>2. Idle = [todo |-> <<>>, id |-> None, dir |-> None, copy |-> Empty, new |-> Blank]
  BY DEF Idle
<1>3. Down = [todo |-> <<"down">>, id |-> None, dir |-> None, copy |-> Empty, new |-> Blank]
  BY DEF Down, Idle
<1>4. \A q \in Processes :
        \/ call'[q] = call[q]
        \/ call'[q] = [todo |-> Tail(call[q].todo), id |-> call[q].id, dir |-> call[q].dir,
                       copy |-> call[q].copy, new |-> call[q].new]
        \/ call'[q] = Idle \/ call'[q] = Down
  BY DEF IInv, Done
<1>5. \A q \in Processes :
        /\ call'[q] = [todo |-> call'[q].todo, id |-> call'[q].id, dir |-> call'[q].dir,
                       copy |-> call'[q].copy, new |-> call'[q].new]
        /\ Sound(call'[q].copy)
  <2>. TAKE q \in Processes
  <2>1. CASE call'[q] = call[q]
    BY <2>1 DEF IInv
  <2>2. CASE call'[q] = [todo |-> Tail(call[q].todo), id |-> call[q].id, dir |-> call[q].dir,
                         copy |-> call[q].copy, new |-> call[q].new]
    BY <2>2 DEF IInv
  <2>3. CASE call'[q] = Idle \/ call'[q] = Down
    BY <2>3, <1>2, <1>3, EmptyIsSound
  <2>. QED  BY <1>4, <2>1, <2>2, <2>3
<1>. QED  BY <1>1, <1>5 DEF IInv

LEMMA InitIInv == Init => IInv
<1>. SUFFICES ASSUME Init PROVE IInv
  OBVIOUS
<1>1. Sound(registry)
  BY EmptyIsSound DEF Init
<1>2. \A p \in Processes : call[p] = Down
  BY DEF Init
<1>3. Down = [todo |-> <<"down">>, id |-> None, dir |-> None, copy |-> Empty, new |-> Blank]
  BY DEF Down, Idle
<1>4. DOMAIN call = Processes /\ made \in Nat
  BY DEF Init
<1>. QED  BY <1>1, <1>2, <1>3, <1>4, EmptyIsSound DEF IInv

\* A request of the user begins with the registry, or with a sound change to it.
LEMMA RequestsKeepIInv ==
  ASSUME IInv, NEW p \in Processes, Request(p)
  PROVE  IInv'
<1>1. ASSUME NEW dir \in Dirs, NEW url \in Urls \cup {Sqlite}, Create(p, dir, url)
      PROVE  IInv'
  <2>1. made + 1 \in Ids /\ made' \in Nat
    BY <1>1, WorkspacesAssumption DEF Create, IInv, WorkspacesAssumption, Ids
  <2>2. Sound([registry EXCEPT !.here = TRUE, !.known = With(made + 1, dir)])
    BY <1>1, <2>1, WithIsSound DEF Create, IInv
  <2>. QED  BY <1>1, <2>1, <2>2, BeginKeeps DEF Create
<1>2. ASSUME NEW id \in DOMAIN registry.known, NEW deleteFiles \in BOOLEAN,
             Remove(p, id, deleteFiles)
      PROVE  IInv'
  <2>1. Sound([registry EXCEPT !.known = Restrict(@, DOMAIN @ \ {id}),
                               !.last = IF @ = id THEN None ELSE @])
    BY WithoutIsSound DEF IInv
  <2>. QED  BY <1>2, <2>1, BeginKeeps DEF Remove, IInv
<1>3. ASSUME NEW id \in DOMAIN registry.known, Activate(p, id)
      PROVE  IInv'
  <2>1. Sound([registry EXCEPT !.last = id])
    BY ChosenIsSound DEF IInv
  <2>. QED  BY <1>3, <2>1, BeginKeeps DEF Activate, IInv
<1>4. ASSUME NEW id \in DOMAIN registry.known, NEW url \in Urls \cup {Sqlite},
             SetDatabase(p, id, url)
      PROVE  IInv'
  BY <1>4, BeginKeeps DEF SetDatabase, IInv
<1>5. ASSUME NEW id \in DOMAIN registry.known, ImportLegacy(p, id)
      PROVE  IInv'
  BY <1>5, BeginKeeps DEF ImportLegacy, IInv
<1>6. ASSUME ChangeSettings(p)
      PROVE  IInv'
  BY <1>6, BeginKeeps DEF ChangeSettings, SetModel, ClearModel, SetPrefs, Change, IInv
<1>. QED  BY <1>1, <1>2, <1>3, <1>4, <1>5, <1>6 DEF Request, ManageWorkspaces

\* The first start makes the current directory a workspace of a registry that
\* names none.
LEMMA StartKeepsIInv ==
  ASSUME IInv, NEW p \in Processes, Start(p)
  PROVE  IInv'
<1>1. registry' = registry /\ Sound(registry')
  BY DEF Start, disk, IInv
<1>2. CASE registry.here
  <2>1. made' = made /\ call' = [call EXCEPT ![p] = [Idle EXCEPT !.todo = <<"boot">>]]
    BY <1>2 DEF Start
  <2>2. \A q \in Processes :
          call'[q] = IF q = p THEN [todo |-> <<"boot">>, id |-> None, dir |-> None,
                                    copy |-> Empty, new |-> Blank] ELSE call[q]
    BY <2>1 DEF IInv, Idle
  <2>3. DOMAIN call' = Processes
    BY <2>1 DEF IInv
  <2>. QED  BY <1>1, <2>1, <2>2, <2>3, EmptyIsSound DEF IInv
<1>3. CASE ~registry.here
  <2>. DEFINE first == [Empty EXCEPT !.known = With(made + 1, Cwd), !.last = made + 1]
  <2>1. made' = made + 1 /\ made + 1 \in Ids /\ made' \in Nat /\ Cwd \in Dirs
    BY <1>3, WorkspacesAssumption DEF Start, IInv, WorkspacesAssumption, Ids
  <2>2. \A i \in DOMAIN registry.known : registry.known[i] # Cwd
    BY <1>3 DEF IInv, Sound
  <2>3. /\ Sound([registry EXCEPT !.here = TRUE, !.known = With(made + 1, Cwd)])
        /\ With(made + 1, Cwd) \in Known
        /\ made + 1 \in DOMAIN With(made + 1, Cwd)
    BY <2>1, <2>2, WithIsSound DEF IInv
  <2>4. /\ first \in Registries
        /\ first.here /\ first.known = With(made + 1, Cwd) /\ first.last = made + 1
    BY <2>1, <2>3, EmptyIsSound DEF Empty, Sound, Registries
  <2>5. \A i, j \in DOMAIN With(made + 1, Cwd) :
          With(made + 1, Cwd)[i] = With(made + 1, Cwd)[j] => i = j
    BY <2>3 DEF Sound, WellFormed, IInv, Registries
  <2>6. Sound(first)
    BY <2>1, <2>3, <2>4, <2>5 DEF Sound, WellFormed, Registries
  <2>7. \A q \in Processes : q # p => call'[q] = call[q]
    BY <1>3 DEF Start, IInv
  <2>8. call'[p] = [todo |-> call'[p].todo, id |-> made + 1, dir |-> Cwd, copy |-> first,
                    new |-> Blank]
    BY <1>3 DEF Start, IInv
  <2>9. DOMAIN call' = Processes
    BY <1>3 DEF Start, IInv
  <2>. QED  BY <1>1, <2>1, <2>6, <2>7, <2>8, <2>9 DEF IInv
<1>. QED  BY <1>2, <1>3

\* Steps write back the copy of their operation, or leave the registry alone.
LEMMA StepsKeepIInv ==
  ASSUME IInv, NEW p \in Processes, Step(p)
  PROVE  IInv'
<1>1. CASE SaveRegistry(p)
  <2>1. registry' \in {registry, call[p].copy}
    BY <1>1 DEF SaveRegistry
  <2>2. Sound(registry')
    BY <2>1 DEF IInv
  <2>. QED  BY <1>1, <2>2, StepsKeepCopies DEF SaveRegistry
<1>2. CASE Boot(p)
  <2>1. registry' = registry \/ registry' = [registry EXCEPT !.last = None]
    BY <1>2 DEF Boot
  <2>2. Sound(registry')
    BY <2>1, ChosenIsSound DEF IInv
  <2>. QED  BY <1>2, <2>2, StepsKeepCopies DEF Boot
<1>3. CASE Load(p)
  <2>1. Sound(registry') /\ made' = made
    BY <1>3 DEF Load, IInv
  <2>. QED  BY <1>3, <2>1, StepsKeepCopies DEF Load
<1>4. CASE \/ SaveSettings(p) \/ SaveDefaults(p) \/ SavePassword(p) \/ RemoveFiles(p)
           \/ CopySessions(p) \/ RetireSessions(p) \/ SetConfig(p) \/ ClearConfig(p)
           \/ OpenStore(p)
  <2>1. registry' = registry /\ made' = made /\ Done(p)
    BY <1>4 DEF SaveSettings, SaveDefaults, SavePassword, RemoveFiles, CopySessions,
                RetireSessions, SetConfig, ClearConfig, OpenStore, disk
  <2>2. Sound(registry')
    BY <2>1 DEF IInv
  <2>. QED  BY <2>1, <2>2, StepsKeepCopies
<1>. QED  BY <1>1, <1>2, <1>3, <1>4 DEF Step

\* A process that ends leaves the registry as it was, or empty.
LEMMA CrashKeepsIInv ==
  ASSUME IInv, NEW p \in Processes, NEW torn \in BOOLEAN, Crash(p, torn)
  PROVE  IInv'
<1>1. registry' \in {registry, Empty} /\ made' = made /\ call' = [call EXCEPT ![p] = Down]
  BY DEF Crash
<1>2. Sound(registry')
  BY <1>1, EmptyIsSound DEF IInv
<1>. QED  BY <1>1, <1>2, StepsKeepCopies

LEMMA NextIInv == IInv /\ [Next]_vars => IInv'
<1>. SUFFICES ASSUME IInv, [Next]_vars PROVE IInv'
  OBVIOUS
<1>1. CASE UNCHANGED vars
  BY <1>1 DEF vars, disk, IInv, Sound, WellFormed
<1>2. CASE Next
  BY <1>2, RequestsKeepIInv, StartKeepsIInv, StepsKeepIInv, CrashKeepsIInv DEF Next
<1>. QED  BY <1>1, <1>2

\* No two workspaces ever share a directory and the last active one is always
\* registered, whichever copies are written over which (registry.create,
\* remove, set_last_active, migrate_legacy).
THEOREM RegistrySound == Spec => []RegistryWellFormed
<1>1. IInv => RegistryWellFormed
  BY DEF IInv, Sound, RegistryWellFormed
<1>. QED  BY <1>1, InitIInv, NextIInv, PTL DEF Spec

-----------------------------------------------------------------------------
(* One program, whose writes succeed: what it remembers                    *)

LEMMA OneAndOne ==
  ASSUME NEW a, NEW b
  PROVE  <<a>> \o <<b>> = <<a, b>>
<1>. DEFINE S == {a, b}
            s == <<a>> \o <<b>>
            t == <<a, b>>
<1>1. s \in Seq(S) /\ Len(s) = 2 /\ s[1] = a /\ s[2] = b
  BY ConcatProperties
<1>2. t \in Seq(S) /\ Len(t) = 2 /\ t[1] = a /\ t[2] = b
  OBVIOUS
<1>. HIDE DEF s, t, S
<1>3. \A i \in 1 .. Len(s) : s[i] = t[i]
  BY <1>1, <1>2
<1>4. s = t
  BY <1>1, <1>2, <1>3, SeqEqual, Zenon
<1>. QED  BY <1>4 DEF s, t

LEMMA TwoAndOne ==
  ASSUME NEW a, NEW b, NEW c
  PROVE  <<a, b>> \o <<c>> = <<a, b, c>>
<1>. DEFINE S == {a, b, c}
            s == <<a, b>> \o <<c>>
            t == <<a, b, c>>
<1>1. s \in Seq(S) /\ Len(s) = 3 /\ s[1] = a /\ s[2] = b /\ s[3] = c
  BY ConcatProperties
<1>2. t \in Seq(S) /\ Len(t) = 3 /\ t[1] = a /\ t[2] = b /\ t[3] = c
  OBVIOUS
<1>. HIDE DEF s, t, S
<1>3. \A i \in 1 .. Len(s) : s[i] = t[i]
  BY <1>1, <1>2
<1>4. s = t
  BY <1>1, <1>2, <1>3, SeqEqual, Zenon
<1>. QED  BY <1>4 DEF s, t

\* What may be left to do.  A program that starts, or is down, has no active
\* workspace yet; the writes of Rewriting are of a copy that remembers it; those
\* of Loading are followed by a load of the workspace that is active already.
Starting == {<<"down">>, <<"boot">>, <<"defaults", "boot">>, <<"persist", "defaults", "boot">>,
             <<"retire", "persist", "defaults", "boot">>,
             <<"sessions", "retire", "persist", "defaults", "boot">>,
             <<"registry", "sessions", "retire", "persist", "defaults", "boot">>}
Rewriting == {<<"registry">>, <<"registry", "adopt">>, <<"registry", "password", "adopt">>,
            <<"registry", "store">>, <<"rmtree", "registry">>}
Removing == {<<"rmtree", "registry", "clear">>, <<"registry", "clear">>}
Loading == {<<"load">>, <<"password", "load">>, <<"amend", "load">>,
            <<"amend", "password", "load">>}
Otherwise == {<<"load", "registry", "store">>, <<"store">>, <<"clear">>, <<"adopt">>,
              <<"password", "adopt">>, <<"amend">>, <<"amend", "password">>, <<"password">>,
              <<"sessions", "retire">>, <<"retire">>, <<"defaults", "config", "persist">>,
              <<"config", "persist">>, <<"persist">>, <<"config", "defaults">>, <<"defaults">>}

Remembered(r, c) ==
  c.id # None => /\ c.id \in DOMAIN r.known /\ r.known[c.id] = c.dir
                 /\ r.last = c.id

\* The active workspace of the one program, in the middle of an operation a.
ActiveMidway(a, c) ==
  /\ a.todo \in {<<>>} \cup Starting \cup Rewriting \cup Removing \cup Loading \cup Otherwise
  /\ c = [id |-> c.id, dir |-> c.dir, view |-> c.view]
  /\ a.todo \in Starting => c.id = None
  /\ a.todo \in Rewriting => Remembered(a.copy, c)
  /\ a.todo \in Loading => c.id = a.id
  /\ a.todo = <<"load", "registry", "store">> => a.copy.known = registry.known /\ a.copy.last = a.id
  /\ a.todo \notin {<<"clear">>, <<"registry", "store">>} => Remembered(registry, c)
  /\ a.todo \notin {<<"store">>, <<"registry", "store">>} /\ c.id # None => store = c.dir

\* No id is given twice.
FreshIds ==
  /\ DOMAIN registry.known \subseteq 1 .. made
  /\ \A p \in Processes : DOMAIN call[p].copy.known \subseteq 1 .. made

OneProgram ==
  /\ IInv /\ FreshIds
  /\ DOMAIN config = Processes
  /\ ActiveMidway(call[Server], config[Server])

\* The old sessions' file is about to be put away only when somebody has them.
Copied ==
  /\ legacy = [waiting |-> legacy.waiting, copies |-> legacy.copies]
  /\ At(Server, "retire") /\ legacy.waiting => legacy.copies # {}

Steps == {"down", "boot", "defaults", "persist", "retire", "sessions", "registry", "adopt",
          "password", "store", "rmtree", "clear", "load", "amend", "config"}

\* Only a copy of the old sessions is followed by putting their file away.
LEMMA RetiringIs ==
  ASSUME NEW t \in Starting \cup Rewriting \cup Removing \cup Loading \cup Otherwise
  PROVE  /\ Tail(t) # <<>> /\ Head(Tail(t)) = "retire" => Head(t) = "sessions"
         /\ t \notin Starting /\ Head(t) = "retire" => t = <<"retire">>
<1>1. t \in Seq(Steps)
  <2>1. Starting \subseteq Seq(Steps)
    BY DEF Starting, Steps
  <2>2. Rewriting \subseteq Seq(Steps)
    BY DEF Rewriting, Steps
  <2>3. Removing \subseteq Seq(Steps)
    BY DEF Removing, Steps
  <2>4. Loading \subseteq Seq(Steps)
    BY DEF Loading, Steps
  <2>5. Otherwise \subseteq Seq(Steps)
    BY DEF Otherwise, Steps
  <2>. QED  BY <2>1, <2>2, <2>3, <2>4, <2>5
<1>2. t # <<>> => Head(t) = t[1]
  BY <1>1
<1>3. t # <<>> /\ Tail(t) # <<>> => Len(t) >= 2 /\ Head(Tail(t)) = t[2]
  BY <1>1
<1>4. t \in Starting => t # <<>> /\ (Len(t) >= 2 /\ t[2] = "retire" => t[1] = "sessions")
  BY DEF Starting
<1>5. t \in Rewriting => t # <<>> /\ t[1] # "retire" /\ (Len(t) >= 2 => t[2] # "retire")
  BY DEF Rewriting
<1>6. t \in Removing => t # <<>> /\ t[1] # "retire" /\ (Len(t) >= 2 => t[2] # "retire")
  BY DEF Removing
<1>7. t \in Loading => t # <<>> /\ t[1] # "retire" /\ (Len(t) >= 2 => t[2] # "retire")
  BY DEF Loading
<1>8. t \in Otherwise => /\ t # <<>>
                         /\ Len(t) >= 2 /\ t[2] = "retire" => t[1] = "sessions"
                         /\ t[1] = "retire" => t = <<"retire">>
  BY DEF Otherwise
<1>. QED  BY <1>2, <1>3, <1>4, <1>5, <1>6, <1>7, <1>8

LEMMA InitOneProgram ==
  ASSUME Processes = {Server}, Init
  PROVE  OneProgram
<1>1. call[Server].todo = <<"down">> /\ call[Server].copy = Empty /\ config[Server] = Nobody
  BY DEF Init, Down, Idle
<1>2. IInv
  BY InitIInv
<1>3. FreshIds
  BY <1>1 DEF FreshIds, Init, Empty
<1>4. ActiveMidway(call[Server], config[Server])
  BY <1>1 DEF ActiveMidway, Starting, Rewriting, Removing, Loading, Otherwise, Nobody, Remembered
<1>5. DOMAIN config = Processes
  BY DEF Init
<1>. QED  BY <1>2, <1>3, <1>4, <1>5 DEF OneProgram

LEMMA BeginOneProgram ==
  ASSUME OneProgram, Copied, Processes = {Server}, IInv', made' \in {made, made + 1},
         NEW todo, NEW id, NEW dir, NEW copy, NEW new,
         Begin(Server, todo, id, dir, copy, new),
         DOMAIN copy.known \subseteq 1 .. made',
         todo \in Rewriting \cup Removing \cup Loading \cup Otherwise,
         todo \in Rewriting => Remembered(copy, config[Server]),
         todo \in Loading => config[Server].id = id,
         todo = <<"load", "registry", "store">> => copy.known = registry.known /\ copy.last = id,
         todo \notin {<<"clear">>, <<"store">>, <<"retire">>}
  PROVE  OneProgram' /\ Copied'
<1>1. /\ UNCHANGED <<registry, config, store>> /\ call[Server].todo = <<>>
      /\ call'[Server] = [todo |-> todo, id |-> id, dir |-> dir, copy |-> copy, new |-> new]
  BY DEF Begin, disk, memory, Busy, OneProgram, IInv
<1>2. 1 .. made \subseteq 1 .. made'
  BY DEF OneProgram, IInv
<1>3. FreshIds'
  BY <1>1, <1>2 DEF FreshIds, OneProgram
<1>4. /\ config[Server] = [id |-> config[Server].id, dir |-> config[Server].dir,
                           view |-> config[Server].view]
      /\ Remembered(registry, config[Server])
      /\ config[Server].id # None => store = config[Server].dir
  BY <1>1 DEF OneProgram, ActiveMidway
<1>5. todo \notin Starting
  BY DEF Starting, Rewriting, Removing, Loading, Otherwise
<1>6. ActiveMidway(call[Server], config[Server])'
  BY <1>1, <1>4, <1>5 DEF ActiveMidway, Remembered
<1>7. ~At(Server, "retire")'
  BY <1>1, <1>5, RetiringIs DEF At
<1>8. Copied'
  BY <1>7 DEF Copied, Begin, disk
<1>. QED  BY <1>1, <1>3, <1>6, <1>8 DEF OneProgram

LEMMA RequestsOneProgram ==
  ASSUME OneProgram, Copied, Processes = {Server}, IInv', Request(Server)
  PROVE  OneProgram' /\ Copied'
<1>. DEFINE c == config[Server]
<1>1. /\ IInv /\ Sound(registry) /\ made \in Nat /\ FreshIds
      /\ DOMAIN registry.known \subseteq 1 .. made /\ DOMAIN registry.known \subseteq Ids
      /\ registry = [here |-> registry.here, known |-> registry.known, last |-> registry.last]
  BY KnownIs DEF OneProgram, IInv, FreshIds, Sound, Registries
<1>2. ~Busy(Server) => Remembered(registry, c)
  BY DEF OneProgram, ActiveMidway, Busy
<1>3. ASSUME NEW dir \in Dirs, NEW url \in Urls \cup {Sqlite}, Create(Server, dir, url)
      PROVE  OneProgram' /\ Copied'
  <2>. DEFINE copy == [registry EXCEPT !.here = TRUE, !.known = With(made + 1, dir)]
              todo == IF url = Sqlite THEN <<"registry", "adopt">>
                                      ELSE <<"registry", "password", "adopt">>
  <2>1. /\ Begin(Server, todo, made + 1, dir, copy, [Blank EXCEPT !.db = url])
        /\ made' = made + 1 /\ ~Busy(Server)
    BY <1>3 DEF Create, Begin
  <2>2. /\ copy.known = With(made + 1, dir) /\ copy.last = registry.last
        /\ DOMAIN copy.known = DOMAIN registry.known \cup {made + 1}
        /\ \A i \in DOMAIN registry.known : i # made + 1 /\ copy.known[i] = registry.known[i]
    BY <1>1 DEF With
  <2>3. Remembered(copy, c)
    BY <1>2, <2>1, <2>2 DEF Remembered
  <2>4. DOMAIN copy.known \subseteq 1 .. made'
    BY <1>1, <2>1, <2>2
  <2>5. todo \in Rewriting /\ todo \notin Loading
    BY DEF Rewriting, Loading
  <2>6. todo # <<"load", "registry", "store">> /\ todo \notin {<<"clear">>, <<"store">>, <<"retire">>}
    OBVIOUS
  <2>. HIDE DEF copy, todo
  <2>. QED  BY <2>1, <2>3, <2>4, <2>5, <2>6, BeginOneProgram
<1>4. ASSUME NEW id \in DOMAIN registry.known, NEW deleteFiles \in BOOLEAN,
             Remove(Server, id, deleteFiles)
      PROVE  OneProgram' /\ Copied'
  <2>. DEFINE copy == [registry EXCEPT !.known = Restrict(@, DOMAIN @ \ {id}),
                                       !.last = IF @ = id THEN None ELSE @]
              todo == (IF deleteFiles THEN <<"rmtree">> ELSE <<>>) \o <<"registry">>
                      \o (IF c.id = id THEN <<"clear">> ELSE <<>>)
  <2>1. /\ Begin(Server, todo, id, registry.known[id], copy, Blank)
        /\ made' = made /\ ~Busy(Server)
    BY <1>4 DEF Remove, Begin
  <2>2. /\ DOMAIN copy.known = DOMAIN registry.known \ {id}
        /\ \A i \in DOMAIN registry.known \ {id} : copy.known[i] = registry.known[i]
        /\ registry.last # id => copy.last = registry.last
    BY <1>1 DEF Restrict
  <2>3. c.id # id => Remembered(copy, c)
    BY <1>2, <2>1, <2>2 DEF Remembered
  <2>4. DOMAIN copy.known \subseteq 1 .. made'
    BY <1>1, <2>1, <2>2
  <2>5. /\ c.id = id => todo \in Removing
        /\ c.id # id => todo \in Rewriting
    <3>1. <<"rmtree">> \o <<"registry">> = <<"rmtree", "registry">>
      BY OneAndOne
    <3>2. <<"rmtree", "registry">> \o <<"clear">> = <<"rmtree", "registry", "clear">>
      BY TwoAndOne
    <3>3. <<"registry">> \o <<"clear">> = <<"registry", "clear">>
      BY OneAndOne
    <3>4. /\ <<>> \o <<"registry">> = <<"registry">> /\ <<"registry">> \o <<>> = <<"registry">>
          /\ <<"rmtree", "registry">> \o <<>> = <<"rmtree", "registry">>
      OBVIOUS
    <3>. QED  BY <3>1, <3>2, <3>3, <3>4 DEF Removing, Rewriting
  <2>6. /\ todo \notin Loading
        /\ todo # <<"load", "registry", "store">> /\ todo \notin {<<"clear">>, <<"store">>, <<"retire">>}
    <3>. HIDE DEF todo
    <3>. QED  BY <2>5 DEF Removing, Rewriting, Loading
  <2>7. todo \in Rewriting => c.id # id
    <3>. HIDE DEF todo
    <3>. QED  BY <2>5 DEF Removing, Rewriting
  <2>. HIDE DEF copy, todo
  <2>. QED  BY <2>1, <2>3, <2>4, <2>5, <2>6, <2>7, BeginOneProgram
<1>5. ASSUME NEW id \in DOMAIN registry.known, Activate(Server, id)
      PROVE  OneProgram' /\ Copied'
  <2>. DEFINE todo == <<"load", "registry">> \o <<"store">>
              copy == [registry EXCEPT !.last = id]
  <2>1. Begin(Server, todo, id, registry.known[id], copy, Blank) /\ made' = made
    BY <1>5 DEF Activate
  <2>2. todo = <<"load", "registry", "store">>
    BY TwoAndOne
  <2>. HIDE DEF todo
  <2>3. /\ todo \in Otherwise /\ todo \notin Loading \cup Rewriting
        /\ todo \notin {<<"clear">>, <<"store">>, <<"retire">>}
    BY <2>2 DEF Otherwise, Loading, Rewriting
  <2>4. copy.known = registry.known /\ copy.last = id /\ DOMAIN copy.known \subseteq 1 .. made'
    BY <1>1, <2>1
  <2>. HIDE DEF copy
  <2>. QED  BY <2>1, <2>3, <2>4, BeginOneProgram
<1>6. ASSUME NEW id \in DOMAIN registry.known, NEW url \in Urls \cup {Sqlite},
             SetDatabase(Server, id, url)
      PROVE  OneProgram' /\ Copied'
  <2>. DEFINE todo == (IF url = Sqlite THEN <<"amend">> ELSE <<"amend", "password">>)
                      \o (IF c.id = id THEN <<"load">> ELSE <<>>)
  <2>1. Begin(Server, todo, id, registry.known[id], registry, [Blank EXCEPT !.db = url])
        /\ made' = made
    BY <1>6 DEF SetDatabase
  <2>2. /\ c.id = id => todo \in Loading
        /\ c.id # id => todo \in {<<"amend">>, <<"amend", "password">>}
    <3>1. <<"amend">> \o <<"load">> = <<"amend", "load">>
      BY OneAndOne
    <3>2. <<"amend", "password">> \o <<"load">> = <<"amend", "password", "load">>
      BY TwoAndOne
    <3>3. /\ <<"amend">> \o <<>> = <<"amend">>
          /\ <<"amend", "password">> \o <<>> = <<"amend", "password">>
      OBVIOUS
    <3>. QED  BY <3>1, <3>2, <3>3 DEF Loading
  <2>. HIDE DEF todo
  <2>3. /\ todo \in Loading \cup Otherwise /\ todo \notin Rewriting
        /\ todo # <<"load", "registry", "store">> /\ todo \notin {<<"clear">>, <<"store">>, <<"retire">>}
        /\ todo \in Loading => c.id = id
    BY <2>2 DEF Loading, Otherwise, Rewriting
  <2>. QED  BY <1>1, <2>1, <2>3, BeginOneProgram
<1>7. ASSUME NEW id \in DOMAIN registry.known, ImportLegacy(Server, id)
      PROVE  OneProgram' /\ Copied'
  <2>. DEFINE todo == <<"sessions", "retire">>
  <2>1. Begin(Server, todo, id, registry.known[id], registry, Blank) /\ made' = made
    BY <1>7 DEF ImportLegacy
  <2>2. /\ todo \in Otherwise /\ todo \notin Rewriting \cup Loading
        /\ todo # <<"load", "registry", "store">> /\ todo \notin {<<"clear">>, <<"store">>, <<"retire">>}
    BY DEF Otherwise, Loading, Rewriting
  <2>. HIDE DEF todo
  <2>. QED  BY <1>1, <2>1, <2>2, BeginOneProgram
<1>8. ASSUME ChangeSettings(Server)
      PROVE  OneProgram' /\ Copied'
  <2>. DEFINE X == {<<"defaults", "config", "persist">>, <<"config", "defaults">>,
                    <<"config", "persist">>}
  <2>1. PICK todo \in X : \E new : Begin(Server, todo, c.id, c.dir, registry, new)
    BY <1>8 DEF ChangeSettings, SetModel, ClearModel, SetPrefs, Change
  <2>2. PICK new : Begin(Server, todo, c.id, c.dir, registry, new)
    BY <2>1
  <2>3. made' = made
    BY <1>8 DEF ChangeSettings, SetModel, ClearModel, SetPrefs, Change
  <2>4. X \subseteq Otherwise
    BY DEF Otherwise
  <2>5. \A x \in X : x \notin Rewriting
    BY DEF Rewriting
  <2>6. \A x \in X : x \notin Loading
    BY DEF Loading
  <2>7. \A x \in X : /\ x # <<"load", "registry", "store">>
                     /\ x \notin {<<"clear">>, <<"store">>, <<"retire">>}
    OBVIOUS
  <2>. HIDE DEF X
  <2>. QED  BY <1>1, <2>2, <2>3, <2>4, <2>5, <2>6, <2>7, BeginOneProgram
<1>. QED  BY <1>3, <1>4, <1>5, <1>6, <1>7, <1>8 DEF Request, ManageWorkspaces

\* What is left after a step.
LEMMA Rest ==
  ASSUME NEW t \in Starting \cup Rewriting \cup Removing \cup Loading \cup Otherwise
  PROVE  /\ t \in Starting /\ Head(t) \notin {"boot", "down"} => Tail(t) \in Starting
         /\ Head(t) = "boot" => t = <<"boot">> /\ Tail(t) = <<>>
         /\ Head(t) = "down" => t = <<"down">>
         /\ Head(t) = "registry" =>
              \/ t \in Starting
              \/ t \in Rewriting /\ Tail(t) \in {<<>>, <<"adopt">>, <<"password", "adopt">>, <<"store">>}
              \/ t \in Removing /\ Tail(t) = <<"clear">>
         /\ t \in Rewriting /\ Head(t) # "registry" => Tail(t) = <<"registry">>
         /\ t \in Removing /\ Head(t) # "registry" => Tail(t) \in Removing
         /\ t \in Loading /\ Head(t) # "load" => Tail(t) \in Loading
         /\ Head(t) = "load" => \/ t = <<"load">> /\ Tail(t) = <<>>
                                \/ t = <<"load", "registry", "store">>
                                   /\ Tail(t) = <<"registry", "store">>
         /\ Head(t) = "clear" => t = <<"clear">> /\ Tail(t) = <<>>
         /\ Head(t) = "store" => t = <<"store">> /\ Tail(t) = <<>>
         /\ t \in Otherwise /\ Head(t) \notin {"load", "clear", "store"} =>
              Tail(t) \in {<<>>, <<"adopt">>, <<"password">>, <<"retire">>, <<"persist">>,
                           <<"defaults">>, <<"config", "persist">>}
<1>1. t \in Starting =>
        \/ t = <<"down">> /\ Head(t) = "down"
        \/ t = <<"boot">> /\ Head(t) = "boot" /\ Tail(t) = <<>>
        \/ /\ Head(t) \in {"defaults", "persist", "retire", "sessions", "registry"}
           /\ Tail(t) \in Starting
  <2>1. /\ Head(<<"down">>) = "down"
        /\ Tail(<<"down">>) = <<>>
        /\ Head(<<"boot">>) = "boot"
        /\ Tail(<<"boot">>) = <<>>
        /\ Head(<<"defaults", "boot">>) = "defaults"
        /\ Tail(<<"defaults", "boot">>) = <<"boot">>
        /\ Head(<<"persist", "defaults", "boot">>) = "persist"
        /\ Tail(<<"persist", "defaults", "boot">>) = <<"defaults", "boot">>
        /\ Head(<<"retire", "persist", "defaults", "boot">>) = "retire"
        /\ Tail(<<"retire", "persist", "defaults", "boot">>) = <<"persist", "defaults", "boot">>
        /\ Head(<<"sessions", "retire", "persist", "defaults", "boot">>) = "sessions"
        /\ Tail(<<"sessions", "retire", "persist", "defaults", "boot">>)
           = <<"retire", "persist", "defaults", "boot">>
        /\ Head(<<"registry", "sessions", "retire", "persist", "defaults", "boot">>) = "registry"
        /\ Tail(<<"registry", "sessions", "retire", "persist", "defaults", "boot">>)
           = <<"sessions", "retire", "persist", "defaults", "boot">>
    OBVIOUS
  <2>. QED  BY <2>1 DEF Starting
<1>2. t \in Rewriting =>
        \/ /\ Head(t) = "registry"
           /\ Tail(t) \in {<<>>, <<"adopt">>, <<"password", "adopt">>, <<"store">>}
        \/ Head(t) = "rmtree" /\ Tail(t) = <<"registry">>
  <2>1. /\ Head(<<"registry">>) = "registry"
        /\ Tail(<<"registry">>) = <<>>
        /\ Head(<<"registry", "adopt">>) = "registry"
        /\ Tail(<<"registry", "adopt">>) = <<"adopt">>
        /\ Head(<<"registry", "password", "adopt">>) = "registry"
        /\ Tail(<<"registry", "password", "adopt">>) = <<"password", "adopt">>
        /\ Head(<<"registry", "store">>) = "registry"
        /\ Tail(<<"registry", "store">>) = <<"store">>
        /\ Head(<<"rmtree", "registry">>) = "rmtree"
        /\ Tail(<<"rmtree", "registry">>) = <<"registry">>
    OBVIOUS
  <2>. QED  BY <2>1 DEF Rewriting
<1>3. t \in Removing =>
        \/ Head(t) = "registry" /\ Tail(t) = <<"clear">>
        \/ Head(t) = "rmtree" /\ Tail(t) \in Removing
  <2>1. /\ Head(<<"rmtree", "registry", "clear">>) = "rmtree"
        /\ Tail(<<"rmtree", "registry", "clear">>) = <<"registry", "clear">>
        /\ Head(<<"registry", "clear">>) = "registry"
        /\ Tail(<<"registry", "clear">>) = <<"clear">>
    OBVIOUS
  <2>. QED  BY <2>1 DEF Removing
<1>4. t \in Loading =>
        \/ t = <<"load">> /\ Head(t) = "load" /\ Tail(t) = <<>>
        \/ Head(t) \in {"password", "amend"} /\ Tail(t) \in Loading
  <2>1. /\ Head(<<"load">>) = "load"
        /\ Tail(<<"load">>) = <<>>
        /\ Head(<<"password", "load">>) = "password"
        /\ Tail(<<"password", "load">>) = <<"load">>
        /\ Head(<<"amend", "load">>) = "amend"
        /\ Tail(<<"amend", "load">>) = <<"load">>
        /\ Head(<<"amend", "password", "load">>) = "amend"
        /\ Tail(<<"amend", "password", "load">>) = <<"password", "load">>
    OBVIOUS
  <2>. QED  BY <2>1 DEF Loading
<1>5. t \in Otherwise =>
        \/ /\ t = <<"load", "registry", "store">> /\ Head(t) = "load"
           /\ Tail(t) = <<"registry", "store">>
        \/ t = <<"store">> /\ Head(t) = "store" /\ Tail(t) = <<>>
        \/ t = <<"clear">> /\ Head(t) = "clear" /\ Tail(t) = <<>>
        \/ /\ Head(t) \in {"adopt", "password", "amend", "sessions", "retire", "defaults",
                           "config", "persist"}
           /\ Tail(t) \in {<<>>, <<"adopt">>, <<"password">>, <<"retire">>, <<"persist">>,
                           <<"defaults">>, <<"config", "persist">>}
  <2>1. /\ Head(<<"load", "registry", "store">>) = "load"
        /\ Tail(<<"load", "registry", "store">>) = <<"registry", "store">>
        /\ Head(<<"store">>) = "store"
        /\ Tail(<<"store">>) = <<>>
        /\ Head(<<"clear">>) = "clear"
        /\ Tail(<<"clear">>) = <<>>
        /\ Head(<<"adopt">>) = "adopt"
        /\ Tail(<<"adopt">>) = <<>>
        /\ Head(<<"password", "adopt">>) = "password"
        /\ Tail(<<"password", "adopt">>) = <<"adopt">>
        /\ Head(<<"amend">>) = "amend"
        /\ Tail(<<"amend">>) = <<>>
        /\ Head(<<"amend", "password">>) = "amend"
        /\ Tail(<<"amend", "password">>) = <<"password">>
        /\ Head(<<"password">>) = "password"
        /\ Tail(<<"password">>) = <<>>
        /\ Head(<<"sessions", "retire">>) = "sessions"
        /\ Tail(<<"sessions", "retire">>) = <<"retire">>
        /\ Head(<<"retire">>) = "retire"
        /\ Tail(<<"retire">>) = <<>>
        /\ Head(<<"defaults", "config", "persist">>) = "defaults"
        /\ Tail(<<"defaults", "config", "persist">>) = <<"config", "persist">>
        /\ Head(<<"config", "persist">>) = "config"
        /\ Tail(<<"config", "persist">>) = <<"persist">>
        /\ Head(<<"persist">>) = "persist"
        /\ Tail(<<"persist">>) = <<>>
        /\ Head(<<"config", "defaults">>) = "config"
        /\ Tail(<<"config", "defaults">>) = <<"defaults">>
        /\ Head(<<"defaults">>) = "defaults"
        /\ Tail(<<"defaults">>) = <<>>
    OBVIOUS
  <2>. QED  BY <2>1 DEF Otherwise
<1>. QED  BY <1>1, <1>2, <1>3, <1>4, <1>5

\* Fresh ids stay fresh when the registry becomes a copy of it, or smaller, and
\* no operation begins.
LEMMA StepsKeepFresh ==
  ASSUME OneProgram, Processes = {Server}, made' = made,
         DOMAIN registry'.known \subseteq 1 .. made,
         Done(Server) \/ call' = [call EXCEPT ![Server] = Idle]
         \/ call' = [call EXCEPT ![Server] = Down]
  PROVE  FreshIds'
<1>1. call'[Server].copy = call[Server].copy \/ call'[Server].copy = Empty
  BY DEF Done, OneProgram, IInv, Idle, Down
<1>2. Empty.known = <<>> /\ DOMAIN <<>> = {}
  BY DEF Empty
<1>3. DOMAIN call'[Server].copy.known \subseteq 1 .. made
  BY <1>1, <1>2 DEF OneProgram, FreshIds
<1>. QED  BY <1>3 DEF FreshIds

\* The operation after a step.
LEMMA AfterStep ==
  ASSUME OneProgram, Processes = {Server}, Done(Server)
  PROVE  /\ call'[Server].todo = Tail(call[Server].todo)
         /\ call'[Server].todo # <<>> => /\ call'[Server].id = call[Server].id
                                         /\ call'[Server].copy = call[Server].copy
BY DEF Done, OneProgram, IInv, Idle

\* A step that leaves the registry, the active workspace and the store alone.
LEMMA QuietSteps ==
  ASSUME OneProgram, Processes = {Server}, Busy(Server), Done(Server),
         Head(call[Server].todo) \notin {"registry", "load", "boot", "clear", "store", "down"},
         UNCHANGED <<registry, store>>, NEW view,
         config'[Server] = [id |-> config[Server].id, dir |-> config[Server].dir, view |-> view]
  PROVE  ActiveMidway(call[Server], config[Server])'
<1>. DEFINE t == call[Server].todo
            c == config[Server]
<1>1. t \in Starting \cup Rewriting \cup Removing \cup Loading \cup Otherwise
  BY DEF OneProgram, ActiveMidway, Busy
<1>2. /\ call'[Server].todo = Tail(t)
      /\ Tail(t) # <<>> => /\ call'[Server].id = call[Server].id
                           /\ call'[Server].copy = call[Server].copy
  BY AfterStep
<1>3. /\ t \in Starting => Tail(t) \in Starting
      /\ t \in Rewriting => Tail(t) = <<"registry">>
      /\ t \in Removing => Tail(t) \in Removing
      /\ t \in Loading => Tail(t) \in Loading
      /\ t \in Otherwise =>
           Tail(t) \in {<<>>, <<"adopt">>, <<"password">>, <<"retire">>, <<"persist">>,
                        <<"defaults">>, <<"config", "persist">>}
  BY <1>1, Rest
<1>4. t \notin {<<"clear">>, <<"registry", "store">>, <<"store">>}
  <2>1. /\ Head(<<"clear">>) = "clear" /\ Head(<<"store">>) = "store"
        /\ Head(<<"registry", "store">>) = "registry"
    OBVIOUS
  <2>. QED  BY <2>1
<1>5. /\ Remembered(registry, c)
      /\ c.id # None => store = c.dir
      /\ t \in Starting => c.id = None
      /\ t \in Rewriting => Remembered(call[Server].copy, c)
      /\ t \in Loading => c.id = call[Server].id
  BY <1>4 DEF OneProgram, ActiveMidway
<1>6. \A x : x \in {<<>>, <<"adopt">>, <<"password">>, <<"retire">>, <<"persist">>,
                    <<"defaults">>, <<"config", "persist">>} =>
        /\ x \in {<<>>} \cup Otherwise
        /\ x \notin Starting \cup Rewriting \cup Loading
        /\ x # <<"load", "registry", "store">>
  <2>. DEFINE X == {<<>>, <<"adopt">>, <<"password">>, <<"retire">>, <<"persist">>,
                    <<"defaults">>, <<"config", "persist">>}
  <2>1. X \subseteq {<<>>} \cup Otherwise
    BY DEF Otherwise
  <2>2. \A x \in X : x \notin Starting
    <3>1. <<>> \notin Starting /\ <<"adopt">> \notin Starting /\ <<"password">> \notin Starting
      BY DEF Starting
    <3>2. <<"retire">> \notin Starting /\ <<"persist">> \notin Starting
      BY DEF Starting
    <3>3. <<"defaults">> \notin Starting /\ <<"config", "persist">> \notin Starting
      BY DEF Starting
    <3>. QED  BY <3>1, <3>2, <3>3
  <2>3. \A x \in X : x \notin Rewriting
    <3>1. <<>> \notin Rewriting /\ <<"adopt">> \notin Rewriting /\ <<"password">> \notin Rewriting
      BY DEF Rewriting
    <3>2. <<"retire">> \notin Rewriting /\ <<"persist">> \notin Rewriting
      BY DEF Rewriting
    <3>3. <<"defaults">> \notin Rewriting /\ <<"config", "persist">> \notin Rewriting
      BY DEF Rewriting
    <3>. QED  BY <3>1, <3>2, <3>3
  <2>4. \A x \in X : x \notin Loading /\ x # <<"load", "registry", "store">>
    BY DEF Loading
  <2>. QED  BY <2>1, <2>2, <2>3, <2>4
<1>7. \A x : x \in Starting \cup Removing \cup Loading \cup {<<"registry">>} =>
        x # <<"load", "registry", "store">>
  BY DEF Starting, Removing, Loading
<1>8. /\ \A x \in Starting : x \notin Rewriting \cup Loading
      /\ \A x \in Removing : x \notin Starting \cup Rewriting \cup Loading
      /\ \A x \in Loading : x \notin Starting \cup Rewriting
      /\ <<"registry">> \notin Starting \cup Loading /\ <<"registry">> \in Rewriting
  BY DEF Starting, Rewriting, Removing, Loading
<1>9. \A x \in Starting \cup Rewriting \cup Removing \cup Loading : x # <<>>
  <2>1. <<>> \notin Starting
    BY DEF Starting
  <2>2. <<>> \notin Rewriting
    BY DEF Rewriting
  <2>3. <<>> \notin Removing
    BY DEF Removing
  <2>4. <<>> \notin Loading
    BY DEF Loading
  <2>. QED  BY <2>1, <2>2, <2>3, <2>4
<1>10. config'[Server].id = c.id /\ config'[Server].dir = c.dir /\ config'[Server].view = view
  OBVIOUS
<1>11. Remembered(registry', config'[Server]) /\ (config'[Server].id # None => store' = config'[Server].dir)
  BY <1>5, <1>10 DEF Remembered
<1>12. CASE t \in Starting
  BY <1>2, <1>3, <1>5, <1>7, <1>8, <1>9, <1>10, <1>11, <1>12 DEF ActiveMidway
<1>13. CASE t \in Rewriting
  <2>1. Tail(t) = <<"registry">> /\ Remembered(call'[Server].copy, config'[Server])
    BY <1>2, <1>3, <1>5, <1>9, <1>10, <1>13 DEF Remembered
  <2>. QED  BY <1>2, <1>7, <1>8, <1>10, <1>11, <2>1 DEF ActiveMidway
<1>14. CASE t \in Removing
  BY <1>2, <1>3, <1>7, <1>8, <1>10, <1>11, <1>14 DEF ActiveMidway
<1>15. CASE t \in Loading
  <2>1. Tail(t) \in Loading /\ config'[Server].id = call'[Server].id
    BY <1>2, <1>3, <1>5, <1>9, <1>10, <1>15
  <2>. QED  BY <1>2, <1>7, <1>8, <1>10, <1>11, <2>1 DEF ActiveMidway
<1>16. CASE t \in Otherwise
  BY <1>2, <1>3, <1>6, <1>10, <1>11, <1>16, ZenonT(60) DEF ActiveMidway
<1>. QED  BY <1>1, <1>12, <1>13, <1>14, <1>15, <1>16

LEMMA StepsOneProgram ==
  ASSUME OneProgram, Processes = {Server}, Outcomes = {TRUE}, IInv', Step(Server)
  PROVE  OneProgram'
<1>. DEFINE a == call[Server]
            c == config[Server]
            t == a.todo
<1>1. /\ IInv /\ FreshIds /\ DOMAIN config = {Server} /\ ActiveMidway(a, c)
      /\ c = [id |-> c.id, dir |-> c.dir, view |-> c.view]
      /\ Sound(registry) /\ DOMAIN registry.known \subseteq Ids
      /\ DOMAIN registry.known \subseteq 1 .. made /\ DOMAIN a.copy.known \subseteq 1 .. made
  BY KnownIs DEF OneProgram, IInv, ActiveMidway, Sound, Registries, FreshIds
<1>2. t # <<>>
  BY DEF Step, SaveRegistry, SaveSettings, SaveDefaults, SavePassword, RemoveFiles, CopySessions,
         RetireSessions, Load, Boot, SetConfig, ClearConfig, OpenStore, At, Busy
<1>3. t \in Starting \cup Rewriting \cup Removing \cup Loading \cup Otherwise
  BY <1>1, <1>2 DEF ActiveMidway
<1>4. Done(Server) => /\ call'[Server].todo = Tail(t)
                      /\ Tail(t) # <<>> => /\ call'[Server].id = a.id
                                           /\ call'[Server].copy = a.copy
  BY AfterStep
<1>5. CASE SaveRegistry(Server)
  <2>1. /\ Head(t) = "registry" /\ registry' = a.copy /\ Done(Server)
        /\ UNCHANGED <<config, store, made>>
    BY <1>5 DEF SaveRegistry, At, memory
  <2>2. FreshIds'
    BY <1>1, <2>1, StepsKeepFresh
  <2>3. CASE t \in Starting
    <3>1. Tail(t) \in Starting /\ c.id = None
      BY <1>1, <1>3, <2>1, <2>3, Rest DEF ActiveMidway
    <3>2. \A x \in Starting : x \notin Rewriting /\ x \notin Loading
      BY DEF Starting, Rewriting, Loading
    <3>3. \A x \in Starting : x # <<"load", "registry", "store">>
      BY DEF Starting
    <3>4. ActiveMidway(call[Server], config[Server])'
      BY <1>1, <1>4, <2>1, <3>1, <3>2, <3>3 DEF ActiveMidway, Remembered
    <3>. QED  BY <1>1, <2>1, <2>2, <3>4 DEF OneProgram
  <2>4. CASE t \in Rewriting /\ Tail(t) \in {<<>>, <<"adopt">>, <<"password", "adopt">>, <<"store">>}
    <3>1. Remembered(registry', c)
      BY <1>1, <2>1, <2>4 DEF ActiveMidway
    <3>2. c.id # None => Tail(t) = <<"store">> \/ store = c.dir
      <4>1. /\ Tail(<<"registry", "store">>) = <<"store">>
            /\ t # <<"store">>
        <5>1. Head(<<"store">>) = "store"
          OBVIOUS
        <5>. QED  BY <2>1, <5>1
      <4>. QED  BY <1>1, <4>1 DEF ActiveMidway
    <3>3. Tail(t) \in {<<>>} \cup Otherwise
      BY <2>4 DEF Otherwise
    <3>4. /\ Tail(t) \notin Starting /\ Tail(t) \notin Rewriting /\ Tail(t) \notin Loading
          /\ Tail(t) # <<"load", "registry", "store">>
      <4>1. \A x \in {<<>>, <<"adopt">>, <<"password", "adopt">>, <<"store">>} : x \notin Starting
        BY DEF Starting
      <4>2. \A x \in {<<>>, <<"adopt">>, <<"password", "adopt">>, <<"store">>} : x \notin Rewriting
        BY DEF Rewriting
      <4>3. \A x \in {<<>>, <<"adopt">>, <<"password", "adopt">>, <<"store">>} : x \notin Loading
        BY DEF Loading
      <4>4. \A x \in {<<>>, <<"adopt">>, <<"password", "adopt">>, <<"store">>} :
              x # <<"load", "registry", "store">>
        OBVIOUS
      <4>. QED  BY <2>4, <4>1, <4>2, <4>3, <4>4
    <3>5. Tail(t) # <<"registry", "store">>
      <4>1. \A x \in {<<>>, <<"adopt">>, <<"password", "adopt">>, <<"store">>} :
              x # <<"registry", "store">>
        OBVIOUS
      <4>. QED  BY <2>4, <4>1
    <3>6. ActiveMidway(call[Server], config[Server])'
      BY <1>1, <1>4, <2>1, <3>1, <3>2, <3>3, <3>4, <3>5 DEF ActiveMidway
    <3>. QED  BY <1>1, <2>1, <2>2, <3>6 DEF OneProgram
  <2>5. CASE t \in Removing /\ Tail(t) = <<"clear">>
    <3>1. c.id # None => store = c.dir
      <4>1. \A x \in Removing : x # <<"store">> /\ x # <<"registry", "store">>
        BY DEF Removing
      <4>. QED  BY <1>1, <2>5, <4>1 DEF ActiveMidway
    <3>2. <<"clear">> \in Otherwise
      BY DEF Otherwise
    <3>3. <<"clear">> \notin Starting
      BY DEF Starting
    <3>4. <<"clear">> \notin Rewriting
      BY DEF Rewriting
    <3>5. <<"clear">> \notin Loading /\ <<"clear">> # <<"load", "registry", "store">>
      BY DEF Loading
    <3>6. ActiveMidway(call[Server], config[Server])'
      BY <1>1, <1>4, <2>1, <2>5, <3>1, <3>2, <3>3, <3>4, <3>5 DEF ActiveMidway
    <3>. QED  BY <1>1, <2>1, <2>2, <3>6 DEF OneProgram
  <2>. QED  BY <1>3, <2>1, <2>3, <2>4, <2>5, Rest
<1>6. CASE \/ SaveSettings(Server) \/ SaveDefaults(Server) \/ SavePassword(Server)
           \/ RemoveFiles(Server) \/ CopySessions(Server) \/ RetireSessions(Server)
           \/ SetConfig(Server)
  <2>1. /\ Head(t) \in {"persist", "amend", "adopt", "defaults", "password", "rmtree", "sessions",
                        "retire", "config"}
        /\ Done(Server) /\ UNCHANGED <<registry, store, made>> /\ Busy(Server)
    BY <1>6 DEF SaveSettings, SaveDefaults, SavePassword, RemoveFiles, CopySessions,
                RetireSessions, SetConfig, SettingsSteps, At, memory, disk
  <2>2. config' = config \/ config' = [config EXCEPT ![Server].view = a.new]
    BY <1>6 DEF SaveSettings, SaveDefaults, SavePassword, RemoveFiles, CopySessions,
                RetireSessions, SetConfig, memory
  <2>3. PICK view : config'[Server] = [id |-> c.id, dir |-> c.dir, view |-> view]
    <3>1. config' = config => config'[Server] = [id |-> c.id, dir |-> c.dir, view |-> c.view]
      BY <1>1
    <3>2. config' = [config EXCEPT ![Server].view = a.new] =>
            config'[Server] = [id |-> c.id, dir |-> c.dir, view |-> a.new]
      BY <1>1
    <3>. QED  BY <2>2, <3>1, <3>2
  <2>4. FreshIds' /\ DOMAIN config' = Processes
    BY <1>1, <2>1, <2>2, StepsKeepFresh
  <2>5. ActiveMidway(call[Server], config[Server])'
    BY <2>1, <2>3, QuietSteps
  <2>. QED  BY <2>4, <2>5 DEF OneProgram
<1>7. CASE Load(Server)
  <2>1. Head(t) = "load" /\ UNCHANGED <<registry, store, made>>
    BY <1>7 DEF Load, At
  <2>2. \/ t = <<"load">> /\ Tail(t) = <<>>
        \/ t = <<"load", "registry", "store">> /\ Tail(t) = <<"registry", "store">>
    BY <1>3, <2>1, Rest
  <2>3. /\ t # <<"clear">> /\ t # <<"store">> /\ t # <<"registry", "store">>
        /\ <<"load">> \in Loading
    BY <2>2 DEF Loading
  <2>4. Remembered(registry, c) /\ (c.id # None => store = c.dir) /\ (t = <<"load">> => c.id = a.id)
    BY <1>1, <2>3 DEF ActiveMidway
  <2>5. <<>> \notin Starting /\ <<>> \notin Rewriting /\ <<>> \notin Loading
    BY DEF Starting, Rewriting, Loading
  <2>6. CASE a.id \in DOMAIN registry.known
    <3>1. PICK view : config'[Server] = [id |-> a.id, dir |-> registry.known[a.id], view |-> view]
      BY <1>1, <1>7, <2>6 DEF Load, LoadFor
    <3>2. Done(Server) /\ DOMAIN config' = Processes
      BY <1>1, <1>7, <2>6 DEF Load, LoadFor
    <3>3. FreshIds'
      BY <1>1, <2>1, <3>2, StepsKeepFresh
    <3>4. a.id # None
      BY <1>1, <2>6, NoneIsNoId
    <3>5. CASE t = <<"load">>
      <4>1. Remembered(registry, config'[Server]) /\ store = config'[Server].dir
        BY <2>4, <2>6, <3>1, <3>4, <3>5 DEF Remembered
      <4>. QED  BY <1>4, <2>1, <2>2, <2>5, <3>1, <3>2, <3>3, <3>5, <4>1 DEF ActiveMidway, OneProgram
    <3>6. CASE t = <<"load", "registry", "store">>
      <4>1. Remembered(a.copy, config'[Server])
        BY <1>1, <2>6, <3>1, <3>6 DEF ActiveMidway, Remembered
      <4>2. call'[Server].todo = <<"registry", "store">> /\ call'[Server].copy = a.copy
        BY <1>4, <2>2, <3>2, <3>6
      <4>3. <<"registry", "store">> \in Rewriting
        BY DEF Rewriting
      <4>4. <<"registry", "store">> \notin Starting /\ <<"registry", "store">> \notin Loading
            /\ <<"registry", "store">> # <<"load", "registry", "store">>
        BY DEF Starting, Loading
      <4>. QED  BY <3>1, <3>2, <3>3, <4>1, <4>2, <4>3, <4>4 DEF ActiveMidway, OneProgram
    <3>. QED  BY <2>2, <3>5, <3>6
  <2>7. CASE a.id \notin DOMAIN registry.known
    <3>1. call' = [call EXCEPT ![Server] = Idle] /\ config' = config
      BY <1>7, <2>7 DEF Load
    <3>2. FreshIds' /\ call'[Server].todo = <<>>
      BY <1>1, <2>1, <3>1, StepsKeepFresh DEF Idle, IInv
    <3>. QED  BY <1>1, <2>1, <2>4, <2>5, <3>1, <3>2 DEF ActiveMidway, OneProgram
  <2>. QED  BY <2>6, <2>7
<1>8. CASE Boot(Server)
  <2>1. t = <<"boot">> /\ Tail(t) = <<>> /\ Done(Server) /\ made' = made
    BY <1>3, <1>8, Rest DEF Boot, At
  <2>2. c.id = None
    BY <1>1, <2>1 DEF ActiveMidway, Starting
  <2>3. <<>> \notin Starting /\ <<>> \notin Rewriting /\ <<>> \notin Loading
    BY DEF Starting, Rewriting, Loading
  <2>4. CASE registry.last \in DOMAIN registry.known
    <3>1. PICK view : config'[Server] = [id |-> registry.last, dir |-> registry.known[registry.last],
                                         view |-> view]
      BY <1>1, <1>8, <2>4 DEF Boot, LoadFor
    <3>2. /\ registry' = registry /\ store' = registry.known[registry.last]
          /\ DOMAIN config' = Processes
      BY <1>1, <1>8, <2>4 DEF Boot, LoadFor
    <3>3. FreshIds'
      BY <1>1, <2>1, <3>2, StepsKeepFresh
    <3>4. Remembered(registry', config'[Server]) /\ store' = config'[Server].dir
      BY <2>4, <3>1, <3>2 DEF Remembered
    <3>. QED  BY <1>4, <2>1, <2>3, <3>1, <3>2, <3>3, <3>4 DEF ActiveMidway, OneProgram
  <2>5. CASE registry.last \notin DOMAIN registry.known
    <3>1. registry' = [registry EXCEPT !.last = None] /\ UNCHANGED <<config, store>>
      BY <1>8, <2>5 DEF Boot
    <3>2. registry'.known = registry.known
      BY <3>1 DEF IInv, Sound, Registries
    <3>3. FreshIds'
      BY <1>1, <2>1, <3>2, StepsKeepFresh
    <3>. QED  BY <1>1, <1>4, <2>1, <2>2, <2>3, <3>1, <3>3 DEF ActiveMidway, OneProgram, Remembered
  <2>. QED  BY <2>4, <2>5
<1>9. CASE ClearConfig(Server)
  <2>1. /\ t = <<"clear">> /\ Tail(t) = <<>> /\ Done(Server)
        /\ UNCHANGED <<registry, store, made>> /\ config' = [config EXCEPT ![Server] = Nobody]
    BY <1>3, <1>9, Rest DEF ClearConfig, At, disk
  <2>2. <<>> \notin Starting /\ <<>> \notin Rewriting /\ <<>> \notin Loading
    BY DEF Starting, Rewriting, Loading
  <2>3. /\ FreshIds' /\ DOMAIN config' = Processes
        /\ config'[Server] = [id |-> None, dir |-> None, view |-> Blank]
    BY <1>1, <2>1, StepsKeepFresh DEF Nobody
  <2>. QED  BY <1>4, <2>1, <2>2, <2>3 DEF ActiveMidway, OneProgram, Remembered
<1>10. CASE OpenStore(Server)
  <2>1. /\ t = <<"store">> /\ Tail(t) = <<>> /\ Done(Server) /\ store' = c.dir
        /\ UNCHANGED <<registry, config, made>>
    BY <1>3, <1>10, Rest DEF OpenStore, At, disk
  <2>2. <<>> \notin Starting /\ <<>> \notin Rewriting /\ <<>> \notin Loading
    BY DEF Starting, Rewriting, Loading
  <2>3. FreshIds' /\ Remembered(registry, c)
    BY <1>1, <2>1, StepsKeepFresh DEF ActiveMidway
  <2>. QED  BY <1>1, <1>4, <2>1, <2>2, <2>3 DEF ActiveMidway, OneProgram
<1>. QED  BY <1>5, <1>6, <1>7, <1>8, <1>9, <1>10 DEF Step

LEMMA StartsAndEnds ==
  ASSUME OneProgram, Processes = {Server}, IInv',
         Start(Server) \/ \E torn \in BOOLEAN : Crash(Server, torn)
  PROVE  OneProgram'
<1>1. /\ IInv /\ FreshIds /\ DOMAIN config = {Server} /\ ActiveMidway(call[Server], config[Server])
      /\ made \in Nat /\ DOMAIN registry.known \subseteq 1 .. made
  BY DEF OneProgram, IInv, FreshIds
<1>2. \A x \in Starting : x \notin Rewriting /\ x \notin Loading
  BY DEF Starting, Rewriting, Loading
<1>3. \A x \in Starting : x # <<"load", "registry", "store">>
  BY DEF Starting
<1>4. CASE Start(Server)
  <2>1. call[Server].todo = <<"down">> /\ UNCHANGED <<registry, config, store>>
    BY <1>4 DEF Start, Up, disk, memory
  <2>2. config[Server].id = None
    BY <1>1, <2>1 DEF ActiveMidway, Starting
  <2>3. /\ call'[Server].todo \in Starting
        /\ made' \in {made, made + 1}
        /\ DOMAIN call'[Server].copy.known \subseteq 1 .. made'
    <3>1. CASE registry.here
      <4>1. made' = made /\ call'[Server] = [Idle EXCEPT !.todo = <<"boot">>]
        BY <1>1, <1>4, <3>1 DEF Start, IInv
      <4>2. call'[Server].todo = <<"boot">> /\ call'[Server].copy.known = <<>>
        BY <4>1 DEF Idle, Empty
      <4>3. DOMAIN <<>> = {}
        OBVIOUS
      <4>. QED  BY <4>1, <4>2, <4>3 DEF Starting
    <3>2. CASE ~registry.here
      <4>1. /\ made' = made + 1
            /\ call'[Server].todo =
                 <<"registry", "sessions", "retire", "persist", "defaults", "boot">>
            /\ call'[Server].copy.known = With(made + 1, Cwd)
        BY <1>1, <1>4, <3>2 DEF Start, IInv, Empty
      <4>2. DOMAIN With(made + 1, Cwd) = DOMAIN registry.known \cup {made + 1}
        BY DEF With
      <4>. QED  BY <1>1, <4>1, <4>2 DEF Starting
    <3>. QED  BY <3>1, <3>2
  <2>4. FreshIds'
    BY <1>1, <2>1, <2>3 DEF FreshIds
  <2>. QED  BY <1>1, <1>2, <1>3, <2>1, <2>2, <2>3, <2>4 DEF ActiveMidway, OneProgram, Remembered
<1>5. ASSUME NEW torn \in BOOLEAN, Crash(Server, torn) PROVE OneProgram'
  <2>1. /\ call' = [call EXCEPT ![Server] = Down] /\ registry' \in {registry, Empty}
        /\ config' = [config EXCEPT ![Server] = Nobody] /\ made' = made
    BY <1>5 DEF Crash
  <2>2. DOMAIN registry'.known \subseteq 1 .. made
    <3>1. Empty.known = <<>> /\ DOMAIN <<>> = {}
      BY DEF Empty
    <3>. QED  BY <1>1, <2>1, <3>1
  <2>3. FreshIds'
    BY <2>1, <2>2, StepsKeepFresh
  <2>4. call'[Server].todo = <<"down">> /\ <<"down">> \in Starting
    BY <1>1, <2>1 DEF Down, Idle, Starting, IInv
  <2>5. config'[Server] = [id |-> None, dir |-> None, view |-> Blank] /\ DOMAIN config' = Processes
    BY <1>1, <2>1 DEF Nobody
  <2>. QED  BY <1>2, <1>3, <2>3, <2>4, <2>5 DEF ActiveMidway, OneProgram, Remembered
<1>. QED  BY <1>4, <1>5

LEMMA StepsCopied ==
  ASSUME OneProgram, Copied, Processes = {Server}, Outcomes = {TRUE},
         Step(Server) \/ Start(Server) \/ \E torn \in BOOLEAN : Crash(Server, torn)
  PROVE  /\ Copied'
         /\ legacy.waiting /\ ~legacy'.waiting => legacy.copies # {}
<1>. DEFINE t == call[Server].todo
<1>1. t # <<>> => t \in Starting \cup Rewriting \cup Removing \cup Loading \cup Otherwise
  BY DEF OneProgram, ActiveMidway
<1>2. t # <<>> /\ Done(Server) /\ Head(t) # "sessions" => ~At(Server, "retire")'
  BY <1>1, RetiringIs, AfterStep DEF At, Busy
<1>3. CASE /\ Done(Server) /\ At(Server, Head(t))
           /\ Head(t) \notin {"sessions", "retire", "rmtree"} /\ legacy' = legacy
  <2>1. ~At(Server, "retire")'
    BY <1>2, <1>3 DEF At, Busy
  <2>. QED  BY <1>3, <2>1 DEF Copied
<1>4. CASE \/ SaveRegistry(Server) \/ SaveSettings(Server) \/ SaveDefaults(Server)
           \/ SavePassword(Server) \/ Boot(Server) \/ SetConfig(Server)
           \/ ClearConfig(Server) \/ OpenStore(Server)
  <2>1. /\ Done(Server) /\ legacy' = legacy /\ Busy(Server)
        /\ Head(t) \in {"registry", "persist", "amend", "adopt", "defaults", "password", "boot",
                        "config", "clear", "store"}
    BY <1>4 DEF SaveRegistry, SaveSettings, SaveDefaults, SavePassword, Boot, SetConfig,
                ClearConfig, OpenStore, SettingsSteps, At, disk
  <2>. QED  BY <1>3, <2>1 DEF At
<1>5. CASE Load(Server)
  <2>1. At(Server, "load") /\ legacy' = legacy
    BY <1>5 DEF Load
  <2>2. CASE Done(Server)
    BY <1>3, <2>1, <2>2 DEF At
  <2>3. CASE call' = [call EXCEPT ![Server] = Idle]
    <3>1. call'[Server].todo = <<>>
      BY <2>3 DEF Idle, OneProgram, IInv
    <3>. QED  BY <2>1, <3>1 DEF Copied, At, Busy
  <2>. QED  BY <1>5, <2>2, <2>3 DEF Load
<1>6. CASE RemoveFiles(Server)
  <2>1. /\ Done(Server) /\ At(Server, "rmtree")
        /\ legacy' = [legacy EXCEPT !.copies = @ \ {call[Server].dir}]
    BY <1>6 DEF RemoveFiles
  <2>2. ~At(Server, "retire")'
    BY <1>2, <2>1 DEF At, Busy
  <2>3. /\ legacy' = [waiting |-> legacy'.waiting, copies |-> legacy'.copies]
        /\ legacy'.waiting = legacy.waiting
    BY <2>1 DEF Copied
  <2>. QED  BY <2>2, <2>3 DEF Copied
<1>7. CASE CopySessions(Server)
  <2>1. legacy' = IF legacy.waiting THEN [legacy EXCEPT !.copies = @ \cup {call[Server].dir}]
                                    ELSE legacy
    BY <1>7 DEF CopySessions
  <2>2. /\ legacy' = [waiting |-> legacy'.waiting, copies |-> legacy'.copies]
        /\ legacy'.waiting = legacy.waiting
        /\ legacy.waiting => legacy'.copies # {}
    BY <2>1 DEF Copied
  <2>. QED  BY <2>2 DEF Copied
<1>8. CASE RetireSessions(Server)
  <2>1. /\ At(Server, "retire") /\ legacy' = [legacy EXCEPT !.waiting = FALSE]
    BY <1>8 DEF RetireSessions
  <2>2. /\ legacy' = [waiting |-> legacy'.waiting, copies |-> legacy'.copies]
        /\ ~legacy'.waiting
    BY <2>1 DEF Copied
  <2>. QED  BY <2>1, <2>2 DEF Copied
<1>9. CASE Start(Server)
  <2>1. legacy' = legacy
    BY <1>9 DEF Start, disk
  <2>2. call'[Server].todo \in {<<"boot">>,
          <<"registry", "sessions", "retire", "persist", "defaults", "boot">>}
    BY <1>9 DEF Start, Idle, OneProgram, IInv
  <2>3. ~At(Server, "retire")'
    <3>1. /\ Head(<<"boot">>) = "boot"
          /\ Head(<<"registry", "sessions", "retire", "persist", "defaults", "boot">>) = "registry"
      OBVIOUS
    <3>. QED  BY <2>2, <3>1 DEF At
  <2>. QED  BY <2>1, <2>3 DEF Copied
<1>10. ASSUME NEW torn \in BOOLEAN, Crash(Server, torn)
       PROVE  Copied' /\ legacy' = legacy
  <2>1. legacy' = legacy /\ call'[Server].todo = <<"down">>
    BY <1>10 DEF Crash, Down, Idle, OneProgram, IInv
  <2>2. Head(<<"down">>) = "down"
    OBVIOUS
  <2>. QED  BY <2>1, <2>2 DEF Copied, At
<1>. QED  BY <1>4, <1>5, <1>6, <1>7, <1>8, <1>9, <1>10 DEF Step

LEMMA NextOneProgram ==
  ASSUME Processes = {Server}, Outcomes = {TRUE}, OneProgram, Copied, [Next]_vars
  PROVE  /\ OneProgram' /\ Copied'
         /\ legacy.waiting /\ ~legacy'.waiting => legacy.copies # {}
<1>1. IInv'
  BY NextIInv DEF OneProgram
<1>2. CASE UNCHANGED vars
  <2>1. OneProgram'
    BY <1>1, <1>2 DEF vars, disk, memory, OneProgram, FreshIds, ActiveMidway, Remembered
  <2>. QED  BY <1>2, <2>1 DEF vars, disk, Copied, At, Busy
<1>3. CASE Request(Server)
  <2>1. legacy' = legacy
    BY <1>3 DEF Request, ManageWorkspaces, ChangeSettings, Create, Remove, Activate, SetDatabase,
                ImportLegacy, SetModel, ClearModel, SetPrefs, Change, Begin, disk
  <2>. QED  BY <1>1, <1>3, <2>1, RequestsOneProgram
<1>4. CASE Step(Server) \/ Start(Server) \/ \E torn \in BOOLEAN : Crash(Server, torn)
  BY <1>1, <1>4, StepsOneProgram, StartsAndEnds, StepsCopied
<1>. QED  BY <1>2, <1>3, <1>4 DEF Next

LEMMA InitCopied ==
  ASSUME Processes = {Server}, Init
  PROVE  Copied
<1>1. \A x \in [waiting : BOOLEAN, copies : {{}}] : x = [waiting |-> x.waiting, copies |-> x.copies]
  OBVIOUS
<1>2. call[Server].todo = <<"down">> /\ Head(<<"down">>) = "down"
  BY DEF Init, Down, Idle
<1>. QED  BY <1>1, <1>2 DEF Init, Copied, At

\* A single program whose writes succeed works, between two operations, in the
\* workspace that a restart would open, and the server keeps the sessions
\* there; wherever it is ended (activate_workspace, delete_workspace_logic,
\* configure_mysql, load_default_workspace).  With two programs, or a write of
\* the registry refused, it does not hold.
THEOREM ActiveWorkspaceIsRemembered ==
  ASSUME Processes = {Server}, Outcomes = {TRUE}
  PROVE  Spec => []ActiveIsRemembered
<1>1. Init => OneProgram /\ Copied
  BY InitOneProgram, InitCopied
<1>2. OneProgram /\ Copied /\ [Next]_vars => (OneProgram /\ Copied)'
  BY NextOneProgram
<1>3. OneProgram => ActiveIsRemembered
  <2>1. /\ <<>> \notin {<<"clear">>, <<"registry", "store">>}
        /\ <<>> \notin {<<"store">>, <<"registry", "store">>}
    OBVIOUS
  <2>. QED  BY <2>1 DEF OneProgram, ActiveMidway, Remembered, ActiveIsRemembered, Busy
<1>. QED  BY <1>1, <1>2, <1>3, PTL DEF Spec

\* Such a program puts the old sessions' file away only after some workspace
\* has the sessions, wherever it is ended in between (migrate_legacy,
\* import_legacy_sessions).
THEOREM SessionsAreCopiedFirst ==
  ASSUME Processes = {Server}, Outcomes = {TRUE}
  PROVE  Spec => PutAwayAfterCopy
<1>1. Init => OneProgram /\ Copied
  BY InitOneProgram, InitCopied
<1>2. OneProgram /\ Copied /\ [Next]_vars => (OneProgram /\ Copied)'
  BY NextOneProgram
<1>3. OneProgram /\ Copied /\ [Next]_vars =>
        [legacy.waiting /\ ~legacy'.waiting => legacy.copies # {}]_vars
  BY NextOneProgram
<1>. QED  BY <1>1, <1>2, <1>3, PTL DEF Spec, PutAwayAfterCopy

-----------------------------------------------------------------------------
(* The profiles in the keyring                                             *)

Ms == [gen : 1 .. MaxSaves, count : Nat]

\* A process that writes, or takes back, chunks nobody else knows of.
Writing(p) == saver[p].phase \in {"put", "undo"}

\* Metadata that was current at some time is of a generation already begun.
Past == /\ meta # NoMeta => meta.gen <= generations
        /\ \A p \in Programs : saver[p].old # NoMeta => saver[p].old.gen <= generations

\* The generation a process writes is its own: it is not current, no process
\* is to delete it, and no other process writes it.
Unpublished ==
  \A p \in Programs : Writing(p) =>
    /\ saver[p].own \in Ms /\ saver[p].own.gen <= generations
    /\ meta # NoMeta => meta.gen # saver[p].own.gen
    /\ \A q \in Programs :
         /\ saver[q].old # NoMeta => saver[q].old.gen # saver[p].own.gen
         /\ q # p /\ Writing(q) => saver[q].own.gen # saver[p].own.gen

\* Chunks written stay until the metadata follows them.
Written ==
  \A p \in Programs : saver[p].phase = "put" =>
    /\ saver[p].at <= saver[p].own.count
    /\ \A i \in 0 .. saver[p].at - 1 : <<saver[p].own.gen, i>> \in chunks

\* A replaced generation never becomes current again, and one that is being
\* erased is doomed.
Replaced ==
  \A p \in Programs : saver[p].old # NoMeta =>
    /\ saver[p].phase = "clean" /\ meta # NoMeta => meta.gen # saver[p].old.gen
    /\ saver[p].phase = "erase" => saver[p].old.gen \in doomed

KeyringInv == ProfileTypeOK /\ Past /\ Unpublished /\ Written /\ Replaced /\ SavedIsWhole

-----------------------------------------------------------------------------
(* The steps that several actions share                                    *)

\* A profile has a natural number of chunks.
LEMMA ChunksType ==
  ASSUME NEW bytes \in Sizes
  PROVE  Chunks(bytes) \in Nat
<1>1. \A a \in Nat, b \in Nat \ {0} : (a + b - 1) \div b \in Nat
  OBVIOUS
<1>2. bytes \in Nat /\ ChunkChars \in Nat \ {0}
  BY ProfileAssumption DEF ProfileAssumption
<1>3. CeilDiv(bytes, 3) \in Nat
  BY <1>1, <1>2 DEF CeilDiv
<1>4. 4 * CeilDiv(bytes, 3) \in Nat
  BY <1>3
<1>. QED  BY <1>1, <1>2, <1>4 DEF Chunks, CeilDiv

\* An operation that goes on to its next phase keeps its own and its old
\* metadata.
LEMMA GoOps ==
  ASSUME ProfileTypeOK, NEW p \in Programs, NEW phase \in Phases, Go(p, phase)
  PROVE  /\ saver' \in [Programs -> [phase : Phases, own : Metas, old : Metas, at : Nat]]
         /\ saver'[p].phase = phase /\ saver'[p].at = 0
         /\ saver'[p].own = saver[p].own /\ saver'[p].old = saver[p].old
         /\ \A q \in Programs : q # p => saver'[q] = saver[q]
BY DEF ProfileTypeOK, Go

\* So does one that counts on.
LEMMA CountOps ==
  ASSUME ProfileTypeOK, NEW p \in Programs, saver' = [saver EXCEPT ![p].at = @ + 1]
  PROVE  /\ saver' \in [Programs -> [phase : Phases, own : Metas, old : Metas, at : Nat]]
         /\ saver'[p].phase = saver[p].phase /\ saver'[p].at = saver[p].at + 1
         /\ saver'[p].own = saver[p].own /\ saver'[p].old = saver[p].old
         /\ \A q \in Programs : q # p => saver'[q] = saver[q]
BY DEF ProfileTypeOK

\* A step after which an operation does not write, clean or erase, unless it
\* did before.
Harmless(p) ==
  \/ saver'[p].phase \notin {"put", "undo", "clean", "erase"}
  \/ saver'[p].phase = saver[p].phase /\ saver[p].phase \in {"undo", "clean", "erase"}
  \/ saver'[p].phase = "undo" /\ saver[p].phase = "put"

\* A harmless step that does not touch the keyring.
LEMMA MovesOn ==
  ASSUME KeyringInv, NEW p \in Programs,
         saver' \in [Programs -> [phase : Phases, own : Metas, old : Metas, at : Nat]],
         Harmless(p),
         saver'[p].own = saver[p].own,
         saver'[p].old = saver[p].old \/ saver'[p].old = NoMeta,
         \A q \in Programs : q # p => saver'[q] = saver[q],
         UNCHANGED <<meta, chunks, generations, doomed>>, listed' \in BOOLEAN, disturbed' \in BOOLEAN
  PROVE  KeyringInv'
<1>1. ProfileTypeOK'
  BY DEF KeyringInv, ProfileTypeOK
<1>2. Past'
  BY DEF KeyringInv, Past
<1>3. \A q \in Programs : Writing(q)' => Writing(q)
  BY DEF Writing, Harmless
<1>4. \A q \in Programs : saver'[q].own = saver[q].own
                           /\ (saver'[q].old # NoMeta => saver'[q].old = saver[q].old)
  OBVIOUS
<1>5. Unpublished'
  BY <1>3, <1>4 DEF KeyringInv, Unpublished
<1>6. Written'
  BY DEF KeyringInv, Written, Harmless
<1>7. Replaced'
  BY DEF KeyringInv, Replaced, Harmless
<1>8. SavedIsWhole'
  BY DEF KeyringInv, SavedIsWhole, Entries
<1>. QED  BY <1>1, <1>2, <1>5, <1>6, <1>7, <1>8 DEF KeyringInv

-----------------------------------------------------------------------------
(* Operations begin                                                        *)

\* An operation begins with the metadata it finds, which is in the past.
LEMMA StartOps ==
  ASSUME ProfileTypeOK, NEW p \in Programs, NEW phase \in Phases, NEW own \in Metas,
         Begins(p, phase, own)
  PROVE  /\ saver' \in [Programs -> [phase : Phases, own : Metas, old : Metas, at : Nat]]
         /\ saver'[p].phase = phase /\ saver'[p].at = 0
         /\ saver'[p].own = own /\ saver'[p].old = meta
         /\ \A q \in Programs : q # p => saver'[q] = saver[q]
         /\ UNCHANGED <<meta, chunks, listed>> /\ disturbed' \in BOOLEAN
         /\ ~Writing(p) /\ saver[p].phase \notin {"clean", "erase"}
BY DEF ProfileTypeOK, Begins, AtRest, Writing

LEMMA SaveKeeps ==
  ASSUME KeyringInv, NEW p \in Programs, NEW bytes \in Sizes, Save(p, bytes)
  PROVE  KeyringInv'
<1>. DEFINE own == Meta(generations + 1, Chunks(bytes))
<1>1. generations \in Nat /\ generations' = generations + 1 /\ generations' \in 0 .. MaxSaves /\ generations' \in 1 .. MaxSaves
  BY ProfileAssumption DEF Save, KeyringInv, ProfileTypeOK, ProfileAssumption
<1>2. own \in Ms /\ own.gen = generations + 1 /\ own.count \in Nat
  BY <1>1, ChunksType DEF Meta, Ms, Save
<1>3. own \in Metas /\ "put" \in Phases /\ ProfileTypeOK /\ doomed' = doomed
  BY <1>2 DEF Metas, Ms, Phases, KeyringInv, Save
<1>4. Begins(p, "put", own)
  BY DEF Save
<1>. HIDE DEF own
<1>5. /\ saver' \in [Programs -> [phase : Phases, own : Metas, old : Metas, at : Nat]]
      /\ saver'[p].phase = "put" /\ saver'[p].at = 0
      /\ saver'[p].own = own /\ saver'[p].old = meta
      /\ \A q \in Programs : q # p => saver'[q] = saver[q]
      /\ UNCHANGED <<meta, chunks, listed>> /\ disturbed' \in BOOLEAN
  BY <1>3, <1>4, StartOps
<1>6. ProfileTypeOK'
  BY <1>1, <1>3, <1>5 DEF ProfileTypeOK
<1>7. /\ meta # NoMeta => meta.gen \in Nat /\ meta.gen <= generations
      /\ \A q \in Programs : saver[q].old # NoMeta => saver[q].old.gen \in Nat /\ saver[q].old.gen <= generations
  BY DEF KeyringInv, Past, ProfileTypeOK, Metas
<1>8. Past'
  BY <1>1, <1>5, <1>7 DEF Past
<1>9. Unpublished'
  <2>1. \A q \in Programs : saver'[q].old # NoMeta => saver'[q].old.gen # own.gen
    BY <1>1, <1>2, <1>5, <1>7
  <2>2. \A q \in Programs : q # p /\ Writing(q) =>
          /\ saver[q].own \in Ms /\ saver[q].own.gen <= generations /\ saver[q].own.gen \in Nat
          /\ meta # NoMeta => meta.gen # saver[q].own.gen
    BY DEF KeyringInv, Unpublished, Ms
  <2>3. \A q \in Programs : q # p => (Writing(q)' <=> Writing(q))
    BY <1>5 DEF Writing
  <2>4. \A q \in Programs : q # p /\ Writing(q)' =>
          /\ saver'[q].own = saver[q].own
          /\ saver'[q].own \in Ms /\ saver'[q].own.gen <= generations' /\ saver'[q].own.gen # own.gen
          /\ meta' # NoMeta => meta'.gen # saver'[q].own.gen
          /\ saver'[p].old # NoMeta => saver'[p].old.gen # saver'[q].own.gen
    BY <1>1, <1>2, <1>5, <2>2, <2>3
  <2>5. meta' # NoMeta => meta'.gen # own.gen
    BY <1>1, <1>2, <1>5, <1>7
  <2>6. \A q, r \in Programs : q # p /\ r # p /\ Writing(q) =>
          /\ saver[r].old # NoMeta => saver[r].old.gen # saver[q].own.gen
          /\ r # q /\ Writing(r) => saver[r].own.gen # saver[q].own.gen
    BY DEF KeyringInv, Unpublished
  <2>. QED  BY <1>1, <1>2, <1>5, <2>1, <2>3, <2>4, <2>5, <2>6 DEF Unpublished
<1>10. Written'
  BY <1>2, <1>5 DEF KeyringInv, Written
<1>11. Replaced'
  BY <1>3, <1>5 DEF KeyringInv, Replaced
<1>12. SavedIsWhole'
  BY <1>3, <1>5 DEF KeyringInv, SavedIsWhole, Entries
<1>. QED  BY <1>6, <1>8, <1>9, <1>10, <1>11, <1>12 DEF KeyringInv

\* A deletion dooms the generation it finds before it touches it.
LEMMA DeleteKeeps ==
  ASSUME KeyringInv, NEW p \in Programs, Delete(p) \/ Read(p)
  PROVE  KeyringInv'
<1>1. PICK phase \in {"unlist", "erase", "corrupt", "read"} : Begins(p, phase, NoMeta)
  BY DEF Delete, Read
<1>2. phase \in Phases /\ NoMeta \in Metas /\ ProfileTypeOK /\ generations' = generations
  BY DEF Phases, Metas, KeyringInv, Delete, Read
<1>3. /\ saver' \in [Programs -> [phase : Phases, own : Metas, old : Metas, at : Nat]]
      /\ saver'[p].phase = phase /\ saver'[p].old = meta
      /\ \A q \in Programs : q # p => saver'[q] = saver[q]
      /\ UNCHANGED <<meta, chunks, listed>> /\ disturbed' \in BOOLEAN
  BY <1>1, <1>2, StartOps
<1>4. /\ doomed \subseteq doomed' /\ doomed' \subseteq doomed \cup {meta.gen}
      /\ doomed' # doomed => meta # NoMeta
      /\ phase = "erase" /\ meta # NoMeta => meta.gen \in doomed'
  <2>1. CASE Delete(p)
    BY <2>1 DEF Delete
  <2>2. CASE Read(p)
    <3>1. doomed' = doomed /\ meta # NoMeta
      BY <2>2 DEF Read
    <3>2. Begins(p, IF meta.count > MaxCount THEN "corrupt" ELSE "read", NoMeta)
      BY <2>2 DEF Read
    <3>3. saver'[p].phase # "erase"
      BY <1>2, <3>2, StartOps DEF Phases
    <3>. QED  BY <1>3, <3>1, <3>3
  <2>. QED  BY <2>1, <2>2
<1>5. doomed' \subseteq 1 .. MaxSaves
  BY <1>4 DEF KeyringInv, ProfileTypeOK, Metas
<1>6. ProfileTypeOK'
  BY <1>2, <1>3, <1>5 DEF ProfileTypeOK
<1>7. Past'
  BY <1>2, <1>3 DEF KeyringInv, Past
<1>8. \A q \in Programs : Writing(q)' => Writing(q) /\ q # p
  BY <1>3 DEF Writing
<1>9. Unpublished'
  BY <1>2, <1>3, <1>8 DEF KeyringInv, Unpublished
<1>10. Written'
  BY <1>3 DEF KeyringInv, Written
<1>11. Replaced'
  BY <1>3, <1>4 DEF KeyringInv, Replaced
<1>12. SavedIsWhole'
  BY <1>3, <1>4 DEF KeyringInv, SavedIsWhole, Entries
<1>. QED  BY <1>6, <1>7, <1>9, <1>10, <1>11, <1>12 DEF KeyringInv

-----------------------------------------------------------------------------
(* Operations go on                                                        *)

LEMMA PutKeeps ==
  ASSUME KeyringInv, NEW p \in Programs, Put(p)
  PROVE  KeyringInv'
<1>1. ProfileTypeOK /\ saver[p].phase = "put" /\ Writing(p) /\ saver[p].own \in Ms
  BY DEF KeyringInv, Put, Writing, Unpublished
<1>2. UNCHANGED <<listed, generations, doomed, disturbed>> /\ saver[p].at \in Nat /\ saver[p].own.count \in Nat
  BY <1>1 DEF Put, ProfileTypeOK, Ms
<1>3. CASE /\ saver[p].at < saver[p].own.count
           /\ chunks' = chunks \cup {<<saver[p].own.gen, saver[p].at>>}
           /\ saver' = [saver EXCEPT ![p].at = @ + 1]
           /\ UNCHANGED meta
  <2>1. /\ saver' \in [Programs -> [phase : Phases, own : Metas, old : Metas, at : Nat]]
        /\ saver'[p].phase = saver[p].phase /\ saver'[p].at = saver[p].at + 1
        /\ saver'[p].own = saver[p].own /\ saver'[p].old = saver[p].old
        /\ \A q \in Programs : q # p => saver'[q] = saver[q]
    BY <1>1, <1>3, CountOps
  <2>2. <<saver[p].own.gen, saver[p].at>> \in (1 .. MaxSaves) \X Nat
    BY <1>1, <1>2 DEF Ms
  <2>3. ProfileTypeOK'
    BY <1>1, <1>2, <1>3, <2>1, <2>2 DEF ProfileTypeOK
  <2>4. Past' /\ Replaced'
    BY <1>2, <1>3, <2>1 DEF KeyringInv, Past, Replaced
  <2>5. \A q \in Programs : /\ Writing(q)' <=> Writing(q)
                            /\ saver'[q].own = saver[q].own /\ saver'[q].old = saver[q].old
    BY <2>1 DEF Writing
  <2>6. Unpublished'
    BY <1>2, <1>3, <2>5 DEF KeyringInv, Unpublished
  <2>7. Written'
    <3>1. \A q \in Programs : q # p /\ saver'[q].phase = "put" =>
            /\ saver'[q].at <= saver'[q].own.count
            /\ \A i \in 0 .. saver'[q].at - 1 : <<saver'[q].own.gen, i>> \in chunks'
      BY <1>3, <2>1 DEF KeyringInv, Written
    <3>2. saver'[p].at <= saver'[p].own.count
      BY <1>2, <1>3, <2>1
    <3>3. \A i \in 0 .. saver'[p].at - 1 : i = saver[p].at \/ i \in 0 .. saver[p].at - 1
      BY <1>2, <2>1
    <3>4. \A i \in 0 .. saver'[p].at - 1 : <<saver'[p].own.gen, i>> \in chunks'
      BY <1>1, <1>3, <2>1, <3>3 DEF KeyringInv, Written
    <3>. QED  BY <3>1, <3>2, <3>4 DEF Written
  <2>8. SavedIsWhole'
    BY <1>2, <1>3 DEF KeyringInv, SavedIsWhole, Entries
  <2>. QED  BY <2>3, <2>4, <2>6, <2>7, <2>8 DEF KeyringInv
<1>4. CASE /\ saver[p].at = saver[p].own.count
           /\ meta' = saver[p].own
           /\ Go(p, "clean")
           /\ UNCHANGED chunks
  <2>1. /\ saver' \in [Programs -> [phase : Phases, own : Metas, old : Metas, at : Nat]]
        /\ saver'[p].phase = "clean"
        /\ saver'[p].own = saver[p].own /\ saver'[p].old = saver[p].old
        /\ \A q \in Programs : q # p => saver'[q] = saver[q]
    BY <1>1, <1>4, GoOps DEF Phases
  <2>2. ProfileTypeOK'
    BY <1>1, <1>2, <1>4, <2>1 DEF ProfileTypeOK
  <2>3. \A q \in Programs : /\ Writing(q)' => Writing(q) /\ q # p
                            /\ saver'[q].own = saver[q].own /\ saver'[q].old = saver[q].old
    BY <2>1 DEF Writing
  <2>4. /\ saver[p].own.gen <= generations
        /\ \A q \in Programs :
             /\ saver[q].old # NoMeta => saver[q].old.gen # saver[p].own.gen
             /\ q # p /\ Writing(q) => saver[p].own.gen # saver[q].own.gen
    BY <1>1 DEF KeyringInv, Unpublished
  <2>5. Past'
    BY <1>2, <1>4, <2>3, <2>4 DEF KeyringInv, Past
  <2>6. Unpublished'
    BY <1>2, <1>4, <2>3, <2>4 DEF KeyringInv, Unpublished
  <2>7. Written'
    BY <1>4, <2>1 DEF KeyringInv, Written
  <2>8. Replaced'
    BY <1>2, <1>4, <2>1, <2>4 DEF KeyringInv, Replaced
  <2>9. Entries(saver[p].own) \subseteq chunks
    BY <1>1, <1>4 DEF KeyringInv, Written, Entries
  <2>10. SavedIsWhole'
    BY <1>4, <2>9 DEF SavedIsWhole, Entries
  <2>. QED  BY <2>2, <2>5, <2>6, <2>7, <2>8, <2>10 DEF KeyringInv
<1>5. CASE Go(p, "undo") /\ UNCHANGED <<meta, chunks>>
  <2>1. /\ saver' \in [Programs -> [phase : Phases, own : Metas, old : Metas, at : Nat]]
        /\ saver'[p].phase = "undo"
        /\ saver'[p].own = saver[p].own /\ saver'[p].old = saver[p].old
        /\ \A q \in Programs : q # p => saver'[q] = saver[q]
    BY <1>1, <1>5, GoOps DEF Phases
  <2>2. listed' \in BOOLEAN /\ disturbed' \in BOOLEAN /\ Harmless(p)
    BY <1>1, <1>2, <2>1 DEF ProfileTypeOK, Harmless
  <2>. QED  BY <1>1, <1>2, <1>5, <2>1, <2>2, MovesOn
<1>. QED  BY <1>3, <1>4, <1>5 DEF Put

\* Chunks are swept away only of a generation that is not current, or doomed,
\* and that nobody writes.
LEMMA SweepKeeps ==
  ASSUME KeyringInv, NEW p \in Programs, NEW m \in Ms, NEW n \in Nat,
         meta # NoMeta /\ meta.gen \notin doomed => meta.gen # m.gen,
         \A q \in Programs : saver[q].phase = "put" => saver[q].own.gen # m.gen,
         saver[p].phase \in {"undo", "clean", "erase"},
         saver' = [saver EXCEPT ![p].at = @ + 1],
         chunks \ {<<m.gen, n>>} \subseteq chunks', chunks' \subseteq chunks,
         UNCHANGED <<meta, generations, doomed, listed>>, disturbed' \in BOOLEAN
  PROVE  KeyringInv'
<1>1. /\ saver' \in [Programs -> [phase : Phases, own : Metas, old : Metas, at : Nat]]
      /\ saver'[p].phase = saver[p].phase
      /\ saver'[p].own = saver[p].own /\ saver'[p].old = saver[p].old
      /\ \A q \in Programs : q # p => saver'[q] = saver[q]
  BY CountOps DEF KeyringInv
<1>2. ProfileTypeOK'
  BY <1>1 DEF KeyringInv, ProfileTypeOK
<1>3. Past' /\ Replaced'
  BY <1>1 DEF KeyringInv, Past, Replaced
<1>4. \A q \in Programs : /\ Writing(q)' <=> Writing(q)
                          /\ saver'[q].own = saver[q].own /\ saver'[q].old = saver[q].old
  BY <1>1 DEF Writing
<1>5. Unpublished'
  BY <1>4 DEF KeyringInv, Unpublished
<1>6. \A g, i : g # m.gen /\ <<g, i>> \in chunks => <<g, i>> \in chunks'
  OBVIOUS
<1>7. Written'
  <2>1. \A q \in Programs : saver'[q].phase = "put" => q # p /\ saver[q].own.gen # m.gen
    BY <1>1
  <2>. QED  BY <1>1, <1>6, <2>1 DEF KeyringInv, Written
<1>8. SavedIsWhole'
  <2>. SUFFICES ASSUME meta # NoMeta, meta.gen \notin doomed, NEW e \in Entries(meta)
                PROVE  e \in chunks'
    BY DEF SavedIsWhole, Entries
  <2>1. e \in chunks /\ e = <<meta.gen, e[2]>> /\ meta.gen # m.gen
    BY DEF KeyringInv, SavedIsWhole, Entries
  <2>. QED  BY <1>6, <2>1
<1>. QED  BY <1>2, <1>3, <1>5, <1>7, <1>8 DEF KeyringInv

LEMMA CleanupKeeps ==
  ASSUME KeyringInv, NEW p \in Programs, CleanOld(p) \/ EraseOld(p) \/ UndoOwn(p)
  PROVE  KeyringInv'
<1>1. PICK phase \in {"clean", "erase", "undo"}, after \in {"list", "drop", "idle"},
           m \in {saver[p].own, saver[p].old} :
        /\ Cleanup(p, phase, m, after)
        /\ m = IF phase = "undo" THEN saver[p].own ELSE saver[p].old
  BY DEF CleanOld, EraseOld, UndoOwn
<1>2. /\ saver[p].phase = phase /\ ProfileTypeOK /\ UNCHANGED <<meta, listed, generations, doomed>>
      /\ listed' \in BOOLEAN
  BY <1>1 DEF Cleanup, KeyringInv, ProfileTypeOK
<1>3. CASE m # NoMeta /\ saver[p].at < m.count
  <2>1. PICK ok \in Answers : Sweep(p, m, ok)
    BY <1>1, <1>3 DEF Cleanup
  <2>2. m \in Ms /\ saver[p].at \in Nat
    BY <1>1, <1>2, <1>3 DEF ProfileTypeOK, Metas, Ms
  <2>3. /\ meta # NoMeta /\ meta.gen \notin doomed => meta.gen # m.gen
        /\ \A q \in Programs : saver[q].phase = "put" => saver[q].own.gen # m.gen
    BY <1>1, <1>2, <1>3 DEF KeyringInv, Unpublished, Replaced, Writing
  <2>4. /\ chunks \ {<<m.gen, saver[p].at>>} \subseteq chunks' /\ chunks' \subseteq chunks
        /\ disturbed' \in BOOLEAN /\ saver' = [saver EXCEPT ![p].at = @ + 1]
    BY <1>1, <1>2, <1>3, <2>1 DEF Sweep, ProfileTypeOK, Cleanup
  <2>. QED  BY <1>2, <2>2, <2>3, <2>4, SweepKeeps
<1>4. CASE ~(m # NoMeta /\ saver[p].at < m.count)
  <2>1. Go(p, after) /\ UNCHANGED <<chunks, disturbed>> /\ after \in Phases
    BY <1>1, <1>4 DEF Cleanup, Phases
  <2>2. /\ saver' \in [Programs -> [phase : Phases, own : Metas, old : Metas, at : Nat]]
        /\ saver'[p].phase = after
        /\ saver'[p].own = saver[p].own /\ saver'[p].old = saver[p].old
        /\ \A q \in Programs : q # p => saver'[q] = saver[q]
    BY <1>2, <2>1, GoOps
  <2>3. disturbed' \in BOOLEAN /\ Harmless(p)
    BY <1>1, <1>2, <2>1, <2>2 DEF ProfileTypeOK, Harmless
  <2>4. UNCHANGED <<meta, chunks, generations, doomed>>
    BY <1>2, <2>1
  <2>. QED  BY <1>2, <2>2, <2>3, <2>4, MovesOn
<1>. QED  BY <1>3, <1>4

\* Without metadata nothing is named.
LEMMA DropKeeps ==
  ASSUME KeyringInv, NEW p \in Programs, Drop(p)
  PROVE  KeyringInv'
<1>1. /\ ProfileTypeOK /\ Go(p, "unlist") /\ meta' \in {NoMeta, meta}
      /\ UNCHANGED <<chunks, listed, generations, doomed>>
  BY DEF KeyringInv, Drop
<1>2. /\ saver' \in [Programs -> [phase : Phases, own : Metas, old : Metas, at : Nat]]
      /\ saver'[p].phase = "unlist"
      /\ saver'[p].own = saver[p].own /\ saver'[p].old = saver[p].old
      /\ \A q \in Programs : q # p => saver'[q] = saver[q]
  BY <1>1, GoOps DEF Phases
<1>3. disturbed' \in BOOLEAN
  BY <1>1, ProfileAssumption DEF Drop, ProfileTypeOK, ProfileAssumption
<1>4. ProfileTypeOK'
  BY <1>1, <1>2, <1>3 DEF ProfileTypeOK, Metas
<1>5. \A q \in Programs : /\ Writing(q)' => Writing(q)
                          /\ saver'[q].own = saver[q].own /\ saver'[q].old = saver[q].old
  BY <1>2 DEF Writing
<1>6. Past' /\ Unpublished'
  BY <1>1, <1>5 DEF KeyringInv, Past, Unpublished
<1>7. Written' /\ Replaced'
  BY <1>1, <1>2 DEF KeyringInv, Written, Replaced
<1>8. SavedIsWhole'
  BY <1>1 DEF KeyringInv, SavedIsWhole, Entries
<1>. QED  BY <1>4, <1>6, <1>7, <1>8 DEF KeyringInv

LEMMA OthersKeep ==
  ASSUME KeyringInv, NEW p \in Programs, Index(p) \/ Fetch(p) \/ Ends(p)
  PROVE  KeyringInv'
<1>1. ProfileTypeOK /\ UNCHANGED <<meta, chunks, generations, doomed>>
  BY DEF KeyringInv, Index, Fetch, Ends
<1>2. listed' \in BOOLEAN /\ disturbed' \in BOOLEAN
  BY <1>1 DEF Index, Fetch, Ends, ProfileTypeOK
<1>3. CASE \E phase \in {"idle", "whole", "corrupt"} : Go(p, phase)
  <2>1. PICK phase \in {"idle", "whole", "corrupt"} : Go(p, phase)
    BY <1>3
  <2>2. /\ saver' \in [Programs -> [phase : Phases, own : Metas, old : Metas, at : Nat]]
        /\ saver'[p].phase = phase
        /\ saver'[p].own = saver[p].own /\ saver'[p].old = saver[p].old
        /\ \A q \in Programs : q # p => saver'[q] = saver[q]
    BY <1>1, <2>1, GoOps DEF Phases
  <2>3. Harmless(p)
    BY <2>2 DEF Harmless
  <2>. QED  BY <1>1, <1>2, <2>2, <2>3, MovesOn
<1>4. CASE saver' = [saver EXCEPT ![p].at = @ + 1] /\ saver[p].phase = "read"
  <2>1. /\ saver' \in [Programs -> [phase : Phases, own : Metas, old : Metas, at : Nat]]
        /\ saver'[p].phase = saver[p].phase
        /\ saver'[p].own = saver[p].own /\ saver'[p].old = saver[p].old
        /\ \A q \in Programs : q # p => saver'[q] = saver[q]
    BY <1>1, <1>4, CountOps
  <2>2. Harmless(p)
    BY <1>4, <2>1 DEF Harmless
  <2>. QED  BY <1>1, <1>2, <2>1, <2>2, MovesOn
<1>5. CASE Ends(p)
  <2>1. saver' = [saver EXCEPT ![p] = NoOperation]
    BY <1>5 DEF Ends
  <2>2. ProfileTypeOK'
    BY <1>1, <1>2, <2>1 DEF ProfileTypeOK, NoOperation, Phases, Metas
  <2>3. /\ saver'[p].phase = "idle" /\ saver'[p].old = NoMeta
        /\ \A q \in Programs : q # p => saver'[q] = saver[q]
    BY <1>1, <2>1 DEF ProfileTypeOK, NoOperation
  <2>4. \A q \in Programs : Writing(q)' => Writing(q) /\ q # p
    BY <2>3 DEF Writing
  <2>5. Past'
    BY <1>1, <2>3 DEF KeyringInv, Past
  <2>6. Unpublished'
    BY <1>1, <2>3, <2>4 DEF KeyringInv, Unpublished
  <2>7. Written' /\ Replaced'
    BY <1>1, <2>3 DEF KeyringInv, Written, Replaced
  <2>8. SavedIsWhole'
    BY <1>1 DEF KeyringInv, SavedIsWhole, Entries
  <2>. QED  BY <2>2, <2>5, <2>6, <2>7, <2>8 DEF KeyringInv
<1>. QED  BY <1>3, <1>4, <1>5 DEF Index, Fetch

-----------------------------------------------------------------------------

LEMMA InitKeyring == ProfileInit => KeyringInv
<1>. SUFFICES ASSUME ProfileInit PROVE KeyringInv
  OBVIOUS
<1>1. \A p \in Programs : saver[p].phase = "idle" /\ saver[p].old = NoMeta
  BY DEF ProfileInit, NoOperation
<1>2. NoOperation \in [phase : Phases, own : Metas, old : Metas, at : Nat]
  BY DEF NoOperation, Phases, Metas
<1>3. ProfileTypeOK
  <2>1. saver \in [Programs -> [phase : Phases, own : Metas, old : Metas, at : Nat]]
    BY <1>2 DEF ProfileInit
  <2>2. generations \in 0 .. MaxSaves /\ meta \in Metas
    BY ProfileAssumption DEF ProfileInit, Metas, ProfileAssumption
  <2>3. /\ chunks \subseteq (1 .. MaxSaves) \X Nat /\ doomed \subseteq 1 .. MaxSaves
        /\ listed \in BOOLEAN /\ disturbed \in BOOLEAN
    BY DEF ProfileInit
  <2>. QED  BY <2>1, <2>2, <2>3 DEF ProfileTypeOK
<1>4. Past /\ SavedIsWhole
  BY <1>1 DEF ProfileInit, Past, SavedIsWhole
<1>5. Unpublished /\ Written /\ Replaced
  BY <1>1 DEF Unpublished, Written, Replaced, Writing
<1>. QED  BY <1>3, <1>4, <1>5 DEF KeyringInv

LEMMA NextKeyring == KeyringInv /\ [ProfileNext]_keyring => KeyringInv'
<1>. SUFFICES ASSUME KeyringInv, [ProfileNext]_keyring PROVE KeyringInv'
  OBVIOUS
<1>1. CASE UNCHANGED keyring
  BY <1>1 DEF keyring, KeyringInv, ProfileTypeOK, Past, Unpublished, Written, Replaced, SavedIsWhole,
              Entries, Writing
<1>2. CASE ProfileNext
  BY <1>2, SaveKeeps, DeleteKeeps, PutKeeps, CleanupKeeps, DropKeeps, OthersKeep DEF ProfileNext
<1>. QED  BY <1>1, <1>2

\* Unless somebody began to delete it, the profile that was saved last is
\* complete, whatever else was going on (save_browser_profile: the chunks, the
\* metadata, and only then the cleanup).
THEOREM SavedProfileIsWhole == ProfileSpec => []SavedIsWhole
<1>1. ProfileInit => KeyringInv
  BY InitKeyring
<1>2. KeyringInv /\ [ProfileNext]_keyring => KeyringInv'
  BY NextKeyring
<1>3. KeyringInv => SavedIsWhole
  BY DEF KeyringInv
<1>. QED  BY <1>1, <1>2, <1>3, PTL DEF ProfileSpec

-----------------------------------------------------------------------------
(* Operations one after the other                                          *)

\* The chunks a .. b - 1 of a generation, and those of a profile from the
\* n-th on.
Piece(g, a, b) == {g} \X (a .. b - 1)
Left(m, n) == IF m = NoMeta THEN {} ELSE Piece(m.gen, n, m.count)

\* What is in the keyring and in the index in the middle of an undisturbed
\* operation.
Midway(s) ==
  /\ s.phase = "put" => s.old = meta /\ chunks = Entries(meta) \cup Piece(s.own.gen, 0, s.at)
  /\ s.phase = "undo" => /\ Entries(meta) \subseteq chunks
                         /\ chunks \subseteq Entries(meta) \cup Piece(s.own.gen, s.at, s.own.count)
  /\ s.phase = "clean" => /\ meta # NoMeta /\ Entries(meta) \subseteq chunks
                          /\ chunks \subseteq Entries(meta) \cup Left(s.old, s.at)
  /\ s.phase = "list" => meta # NoMeta
  /\ s.phase = "erase" => chunks \subseteq Left(s.old, s.at)
  /\ s.phase = "drop" => chunks = {}
  /\ s.phase = "unlist" => meta = NoMeta
  /\ s.phase \in {"list", "unlist", "read"} => chunks = Entries(meta)
  /\ s.phase \in {"put", "undo", "read"} => listed = (meta # NoMeta)

Resting == \A p \in Programs : AtRest(p)
Alone(p) == \A q \in Programs : q # p => AtRest(q)

Orderly ==
  /\ Resting => chunks = Entries(meta) /\ listed = (meta # NoMeta)
  /\ \A p \in Programs : ~AtRest(p) => Alone(p) /\ Midway(saver[p])

KeyringTidy == KeyringInv /\ (~disturbed => Orderly)

LEMMA Pieces ==
  ASSUME NEW g, NEW a \in Nat, NEW b \in Nat
  PROVE  /\ Piece(g, 0, a + 1) = Piece(g, 0, a) \cup {<<g, a>>}
         /\ Piece(g, a, b) \subseteq Piece(g, a + 1, b) \cup {<<g, a>>}
         /\ a >= b => Piece(g, a, b) = {}
         /\ a <= b => Piece(g, 0, a) \subseteq Piece(g, 0, b)
<1>1. 0 .. (a + 1) - 1 = (0 .. a - 1) \cup {a}
  OBVIOUS
<1>2. a .. b - 1 \subseteq ((a + 1) .. b - 1) \cup {a}
  OBVIOUS
<1>3. a >= b => a .. b - 1 = {}
  OBVIOUS
<1>4. a <= b => 0 .. a - 1 \subseteq 0 .. b - 1
  OBVIOUS
<1>. QED  BY <1>1, <1>2, <1>3, <1>4 DEF Piece

LEMMA EntriesAre ==
  ASSUME NEW m \in Metas
  PROVE  /\ Entries(m) = Left(m, 0)
         /\ m # NoMeta => m \in Ms /\ Entries(m) = Piece(m.gen, 0, m.count)
         /\ Entries(NoMeta) = {}
BY DEF Entries, Left, Piece, Metas, Ms

\* No metadata is not metadata.
LEMMA NoMetaIsNone == NoMeta \notin Ms
<1>1. Ms \subseteq [gen : Nat, count : Nat]
  BY ProfileAssumption DEF Ms, ProfileAssumption
<1>. QED  BY <1>1, ProfileAssumption DEF ProfileAssumption

\* An operation that goes on from one point to another, alone.
LEMMA OneGoesOn ==
  ASSUME KeyringInv, Orderly, NEW p \in Programs, ~AtRest(p),
         \A q \in Programs : q # p => saver'[q] = saver[q],
         Midway(saver[p])',
         AtRest(p)' => chunks' = Entries(meta') /\ listed' = (meta' # NoMeta)
  PROVE  Orderly'
<1>1. Alone(p)
  BY DEF Orderly
<1>2. Alone(p)'
  BY <1>1 DEF Alone, AtRest
<1>3. \A q \in Programs : ~AtRest(q)' => q = p
  BY <1>2 DEF Alone
<1>4. Resting' => AtRest(p)'
  BY DEF Resting
<1>. QED  BY <1>2, <1>3, <1>4 DEF Orderly

LEMMA BeginsOrderly ==
  ASSUME KeyringTidy, ~disturbed', NEW p \in Programs,
         (\E bytes \in Sizes : Save(p, bytes)) \/ Delete(p) \/ Read(p)
  PROVE  Orderly'
<1>1. PICK phase \in Phases, own \in Metas :
        /\ Begins(p, phase, own)
        /\ phase \in {"put", "unlist", "erase", "corrupt", "read"}
        /\ phase = "put" => own.gen \in Nat
        /\ phase = "unlist" => meta = NoMeta
        /\ phase = "erase" => meta # NoMeta
  <2>1. CASE Delete(p)
    BY <2>1 DEF Delete, Phases, Metas
  <2>2. CASE Read(p)
    BY <2>2 DEF Read, Phases, Metas
  <2>3. ASSUME NEW bytes \in Sizes, Save(p, bytes)
        PROVE  /\ Begins(p, "put", Meta(generations + 1, Chunks(bytes)))
               /\ Meta(generations + 1, Chunks(bytes)) \in Ms
    BY <2>3, ChunksType, ProfileAssumption
       DEF Save, Meta, Ms, KeyringTidy, KeyringInv, ProfileTypeOK, ProfileAssumption
  <2>. QED  BY <2>1, <2>2, <2>3 DEF Phases, Metas, Ms
<1>2. /\ saver'[p].phase = phase /\ saver'[p].at = 0
      /\ saver'[p].own = own /\ saver'[p].old = meta
      /\ \A q \in Programs : q # p => saver'[q] = saver[q]
      /\ UNCHANGED <<meta, chunks, listed>>
  BY <1>1, StartOps DEF KeyringTidy, KeyringInv
<1>3. ~disturbed /\ Resting
  BY <1>1 DEF Begins, Resting
<1>4. chunks = Entries(meta) /\ listed = (meta # NoMeta)
  BY <1>3 DEF KeyringTidy, Orderly
<1>5. Alone(p)'
  BY <1>2, <1>3 DEF Alone, Resting, AtRest
<1>6. Piece(own.gen, 0, 0) = {}
  BY Pieces
<1>7. Entries(meta) = Left(meta, 0)
  BY EntriesAre DEF KeyringTidy, KeyringInv, ProfileTypeOK
<1>8. Midway(saver[p])'
  BY <1>1, <1>2, <1>4, <1>6, <1>7 DEF Midway
<1>9. \A q \in Programs : ~AtRest(q)' => q = p
  BY <1>5 DEF Alone
<1>10. chunks' = Entries(meta') /\ listed' = (meta' # NoMeta)
  BY <1>2, <1>4
<1>. QED  BY <1>5, <1>8, <1>9, <1>10 DEF Orderly

LEMMA PutOrderly ==
  ASSUME KeyringInv, Orderly, NEW p \in Programs, Put(p)
  PROVE  Orderly'
<1>1. /\ ProfileTypeOK /\ saver[p].phase = "put" /\ Writing(p) /\ saver[p].own \in Ms
      /\ ~AtRest(p) /\ listed' = listed
  BY DEF KeyringInv, Put, Writing, Unpublished, AtRest
<1>2. /\ saver[p].at \in Nat /\ saver[p].own.count \in Nat
      /\ saver[p].at <= saver[p].own.count /\ saver[p].own # NoMeta
  BY <1>1, NoMetaIsNone DEF ProfileTypeOK, Ms, KeyringInv, Written
<1>3. /\ saver[p].old = meta
      /\ chunks = Entries(meta) \cup Piece(saver[p].own.gen, 0, saver[p].at)
      /\ listed = (meta # NoMeta)
  BY <1>1 DEF Orderly, Midway
<1>4. CASE /\ chunks' = chunks \cup {<<saver[p].own.gen, saver[p].at>>}
           /\ saver' = [saver EXCEPT ![p].at = @ + 1]
           /\ UNCHANGED meta
  <2>1. /\ saver'[p].phase = "put" /\ saver'[p].at = saver[p].at + 1
        /\ saver'[p].own = saver[p].own /\ saver'[p].old = saver[p].old
        /\ \A q \in Programs : q # p => saver'[q] = saver[q]
    BY <1>1, <1>4, CountOps
  <2>2. chunks' = Entries(meta) \cup Piece(saver[p].own.gen, 0, saver[p].at + 1)
    BY <1>2, <1>3, <1>4, Pieces
  <2>3. Midway(saver[p])'
    BY <1>1, <1>3, <1>4, <2>1, <2>2 DEF Midway
  <2>. QED  BY <1>1, <2>1, <2>3, OneGoesOn DEF AtRest
<1>5. CASE /\ saver[p].at = saver[p].own.count
           /\ meta' = saver[p].own
           /\ Go(p, "clean")
           /\ UNCHANGED chunks
  <2>1. /\ saver'[p].phase = "clean" /\ saver'[p].at = 0
        /\ saver'[p].old = meta
        /\ \A q \in Programs : q # p => saver'[q] = saver[q]
    BY <1>1, <1>3, <1>5, GoOps DEF Phases
  <2>2. Entries(meta) = Left(meta, 0) /\ Entries(meta') = Piece(saver[p].own.gen, 0, saver[p].at)
    BY <1>1, <1>2, <1>5, EntriesAre DEF ProfileTypeOK
  <2>3. Midway(saver[p])'
    BY <1>2, <1>3, <1>5, <2>1, <2>2 DEF Midway
  <2>. QED  BY <1>1, <2>1, <2>3, OneGoesOn DEF AtRest
<1>6. CASE Go(p, "undo") /\ UNCHANGED <<meta, chunks>>
  <2>1. /\ saver'[p].phase = "undo" /\ saver'[p].at = 0
        /\ saver'[p].own = saver[p].own
        /\ \A q \in Programs : q # p => saver'[q] = saver[q]
    BY <1>1, <1>6, GoOps DEF Phases
  <2>2. Piece(saver[p].own.gen, 0, saver[p].at) \subseteq Piece(saver[p].own.gen, 0, saver[p].own.count)
    <3>1. \A g : \A a, b \in Nat : a <= b => Piece(g, 0, a) \subseteq Piece(g, 0, b)
      BY Pieces
    <3>. QED  BY <1>2, <3>1
  <2>3. Midway(saver[p])'
    BY <1>1, <1>3, <1>6, <2>1, <2>2 DEF Midway
  <2>. QED  BY <1>1, <2>1, <2>3, OneGoesOn DEF AtRest
<1>. QED  BY <1>4, <1>5, <1>6 DEF Put

LEMMA CleanupOrderly ==
  ASSUME KeyringTidy, ~disturbed', NEW p \in Programs, CleanOld(p) \/ EraseOld(p) \/ UndoOwn(p)
  PROVE  Orderly'
<1>1. PICK phase \in {"clean", "erase", "undo"}, after \in {"list", "drop", "idle"},
           m \in {saver[p].own, saver[p].old} :
        /\ Cleanup(p, phase, m, after)
        /\ m = IF phase = "undo" THEN saver[p].own ELSE saver[p].old
        /\ after = IF phase = "undo" THEN "idle" ELSE IF phase = "clean" THEN "list" ELSE "drop"
  BY DEF CleanOld, EraseOld, UndoOwn
<1>2. /\ saver[p].phase = phase /\ KeyringInv /\ ProfileTypeOK /\ ~AtRest(p)
      /\ UNCHANGED <<meta, listed>> /\ meta \in Metas /\ m \in Metas /\ saver[p].at \in Nat
  BY <1>1 DEF Cleanup, KeyringTidy, KeyringInv, ProfileTypeOK, AtRest
<1>3. phase = "undo" => m # NoMeta
  BY <1>1, <1>2, NoMetaIsNone DEF KeyringInv, Unpublished, Writing
<1>4. ~disturbed /\ Orderly
  BY <1>1 DEF Cleanup, Sweep, KeyringTidy
<1>5. /\ phase \in {"undo", "clean"} => Entries(meta) \subseteq chunks
      /\ phase \in {"undo", "clean"} => chunks \subseteq Entries(meta) \cup Left(m, saver[p].at)
      /\ phase = "erase" => chunks \subseteq Left(m, saver[p].at)
      /\ phase = "clean" => meta # NoMeta
      /\ phase = "undo" => listed = (meta # NoMeta)
  BY <1>1, <1>2, <1>3, <1>4 DEF Orderly, Midway, Left
<1>6. CASE m # NoMeta /\ saver[p].at < m.count
  <2>1. /\ saver' = [saver EXCEPT ![p].at = @ + 1]
        /\ chunks' = chunks \ {<<m.gen, saver[p].at>>}
    BY <1>1, <1>4, <1>6 DEF Cleanup, Sweep
  <2>2. /\ saver'[p].phase = phase /\ saver'[p].at = saver[p].at + 1
        /\ saver'[p].own = saver[p].own /\ saver'[p].old = saver[p].old
        /\ \A q \in Programs : q # p => saver'[q] = saver[q]
    BY <1>2, <2>1, CountOps
  <2>3. Left(m, saver[p].at) \subseteq Left(m, saver[p].at + 1) \cup {<<m.gen, saver[p].at>>}
    <3>1. m.count \in Nat
      BY <1>2, <1>6 DEF Metas
    <3>. QED  BY <1>2, <1>6, <3>1, Pieces DEF Left
  <2>4. phase \in {"undo", "clean"} /\ meta # NoMeta => meta.gen # m.gen
    BY <1>1, <1>2, <1>6 DEF KeyringInv, Unpublished, Replaced, Writing
  <2>5. phase \in {"undo", "clean"} => <<m.gen, saver[p].at>> \notin Entries(meta)
    BY <2>4 DEF Entries
  <2>6. /\ phase \in {"undo", "clean"} => Entries(meta) \subseteq chunks'
        /\ phase \in {"undo", "clean"} => chunks' \subseteq Entries(meta) \cup Left(m, saver[p].at + 1)
        /\ phase = "erase" => chunks' \subseteq Left(m, saver[p].at + 1)
    BY <1>5, <2>1, <2>3, <2>5
  <2>7. Midway(saver[p])'
    BY <1>1, <1>2, <1>3, <1>5, <2>2, <2>6 DEF Midway, Left
  <2>8. ~AtRest(p)'
    BY <2>2 DEF AtRest
  <2>. QED  BY <1>2, <1>4, <2>2, <2>7, <2>8, OneGoesOn
<1>7. CASE ~(m # NoMeta /\ saver[p].at < m.count)
  <2>1. Go(p, after) /\ UNCHANGED chunks /\ after \in Phases
    BY <1>1, <1>7 DEF Cleanup, Phases
  <2>2. /\ saver'[p].phase = after
        /\ \A q \in Programs : q # p => saver'[q] = saver[q]
    BY <1>2, <2>1, GoOps, SMTT(30)
  <2>3. Left(m, saver[p].at) = {}
    <3>1. m # NoMeta => m.count \in Nat /\ saver[p].at >= m.count
      BY <1>2, <1>7 DEF Metas
    <3>2. m # NoMeta => Piece(m.gen, saver[p].at, m.count) = {}
      <4>1. saver[p].at \in Nat
        BY <1>2
      <4>. QED  BY <3>1, <4>1, Pieces, Zenon
    <3>. QED  BY <3>2 DEF Left
  <2>4. /\ phase \in {"undo", "clean"} => chunks' = Entries(meta')
        /\ phase = "erase" => chunks' = {}
    BY <1>2, <1>5, <2>1, <2>3
  <2>5. Midway(saver[p])'
    BY <1>1, <1>2, <1>5, <2>2, <2>4 DEF Midway
  <2>6. AtRest(p)' => chunks' = Entries(meta') /\ listed' = (meta' # NoMeta)
    BY <1>1, <1>2, <1>5, <2>2, <2>4 DEF AtRest
  <2>. QED  BY <1>2, <1>4, <2>2, <2>5, <2>6, OneGoesOn
<1>. QED  BY <1>6, <1>7

LEMMA OthersOrderly ==
  ASSUME KeyringTidy, ~disturbed', NEW p \in Programs, Drop(p) \/ Index(p) \/ Fetch(p) \/ Ends(p)
  PROVE  Orderly'
<1>1. KeyringInv /\ ProfileTypeOK /\ ~disturbed /\ Orderly /\ ~AtRest(p) /\ UNCHANGED chunks
  <2>1. KeyringInv /\ ProfileTypeOK
    BY DEF KeyringTidy, KeyringInv
  <2>2. ~AtRest(p)
    BY DEF Drop, Index, Fetch, Ends, AtRest
  <2>3. ~disturbed /\ UNCHANGED chunks
    <3>1. CASE Drop(p)
      BY <3>1 DEF Drop
    <3>2. CASE Index(p) \/ Fetch(p) \/ Ends(p)
      BY <3>2 DEF Index, Fetch, Ends
    <3>. QED  BY <3>1, <3>2
  <2>. QED  BY <2>1, <2>2, <2>3 DEF KeyringTidy
<1>2. CASE Drop(p)
  <2>1. /\ Go(p, "unlist") /\ saver[p].phase = "drop" /\ meta' = NoMeta /\ listed' = listed
    BY <1>2 DEF Drop
  <2>2. /\ saver'[p].phase = "unlist"
        /\ \A q \in Programs : q # p => saver'[q] = saver[q]
    BY <1>1, <2>1, GoOps DEF Phases
  <2>3. chunks' = {} /\ Entries(meta') = {}
    BY <1>1, <2>1 DEF Orderly, Midway, Entries
  <2>4. Midway(saver[p])' /\ ~AtRest(p)'
    BY <2>1, <2>2, <2>3 DEF Midway, AtRest
  <2>. QED  BY <1>1, <2>2, <2>4, OneGoesOn
<1>3. CASE Index(p)
  <2>1. /\ Go(p, "idle") /\ saver[p].phase \in {"list", "unlist"} /\ UNCHANGED meta
        /\ listed' = (saver[p].phase = "list")
    BY <1>3 DEF Index
  <2>2. /\ saver'[p].phase = "idle"
        /\ \A q \in Programs : q # p => saver'[q] = saver[q]
    BY <1>1, <2>1, GoOps DEF Phases
  <2>3. /\ chunks' = Entries(meta')
        /\ saver[p].phase = "list" => meta # NoMeta
        /\ saver[p].phase = "unlist" => meta = NoMeta
    BY <1>1, <2>1 DEF Orderly, Midway
  <2>4. listed' = (meta' # NoMeta)
    BY <2>1, <2>3
  <2>5. Midway(saver[p])'
    BY <2>2 DEF Midway
  <2>. QED  BY <1>1, <2>2, <2>3, <2>4, <2>5, OneGoesOn
<1>4. CASE Fetch(p)
  <2>1. saver[p].phase = "read" /\ UNCHANGED <<meta, listed>>
    BY <1>4 DEF Fetch
  <2>2. chunks' = Entries(meta') /\ listed' = (meta' # NoMeta)
    BY <1>1, <2>1 DEF Orderly, Midway
  <2>3. /\ saver'[p].phase \in {"whole", "corrupt", "read"}
        /\ \A q \in Programs : q # p => saver'[q] = saver[q]
    <3>1. CASE \E phase \in {"whole", "corrupt"} : Go(p, phase)
      BY <1>1, <3>1, GoOps DEF Phases
    <3>2. CASE saver' = [saver EXCEPT ![p].at = @ + 1]
      BY <1>1, <2>1, <3>2, CountOps
    <3>. QED  BY <1>4, <3>1, <3>2 DEF Fetch
  <2>4. Midway(saver[p])'
    BY <2>2, <2>3 DEF Midway
  <2>. QED  BY <1>1, <2>2, <2>3, <2>4, OneGoesOn
<1>5. CASE Ends(p)
  BY <1>5 DEF Ends
<1>. QED  BY <1>2, <1>3, <1>4, <1>5

LEMMA NextTidy == KeyringTidy /\ [ProfileNext]_keyring => KeyringTidy'
<1>. SUFFICES ASSUME KeyringTidy, [ProfileNext]_keyring, ~disturbed' PROVE Orderly'
  BY NextKeyring DEF KeyringTidy
<1>1. CASE UNCHANGED keyring
  BY <1>1 DEF keyring, KeyringTidy, Orderly, Resting, Alone, AtRest, Midway, Entries, Left
<1>2. CASE ProfileNext
  <2>1. PICK p \in Programs :
          \/ \E bytes \in Sizes : Save(p, bytes)
          \/ Delete(p) \/ Read(p)
          \/ Put(p) \/ CleanOld(p) \/ EraseOld(p) \/ UndoOwn(p)
          \/ Drop(p) \/ Index(p) \/ Fetch(p) \/ Ends(p)
    BY <1>2 DEF ProfileNext
  <2>2. CASE Put(p)
    BY <2>2, PutOrderly DEF KeyringTidy, Put
  <2>. QED  BY <2>1, <2>2, BeginsOrderly, CleanupOrderly, OthersOrderly
<1>. QED  BY <1>1, <1>2

\* Operations that come one after the other, with nothing refused in a cleanup
\* and none cut short, leave no chunk of an earlier login in the keyring, and
\* the index lists the profile exactly when it is stored (save_browser_profile,
\* delete_browser_profile, save_current_profile, delete_profile).
THEOREM NoOldLoginIsLeft == ProfileSpec => []NothingLeftBehind
<1>1. ProfileInit => KeyringTidy
  <2>. SUFFICES ASSUME ProfileInit PROVE KeyringTidy
    OBVIOUS
  <2>1. \A p \in Programs : AtRest(p)
    BY DEF ProfileInit, NoOperation, AtRest
  <2>2. chunks = Entries(meta) /\ listed = (meta # NoMeta)
    BY DEF ProfileInit, Entries
  <2>. QED  BY <2>1, <2>2, InitKeyring DEF KeyringTidy, Orderly
<1>2. KeyringTidy => NothingLeftBehind
  BY DEF KeyringTidy, Orderly, Resting, NothingLeftBehind
<1>. QED  BY <1>1, <1>2, NextTidy, PTL DEF ProfileSpec
=============================================================================
