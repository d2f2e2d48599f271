----------------------------- MODULE Workspaces -----------------------------
(***************************************************************************)
(* The registry of workspaces, the settings files, the keyring entries and *)
(* the configuration each running process holds of the active workspace    *)
(* (config/, services/workspace_service.py, services/mysql_service.py,     *)
(* api/routes/workspaces.py, api/routes/settings.py, cli/workspace_cli.py).*)
(*                                                                         *)
(* A process is the API server or a command line.  Inside one process an   *)
(* operation runs to its end before the next begins (the routes are        *)
(* coroutines that never await), but every file it writes is a step of its *)
(* own: another process, or the end of this one, can come between two of   *)
(* them.  An operation reads the registry when it begins and later writes  *)
(* that copy back.  A file whose writing is cut short, like one that is    *)
(* not valid JSON, loads as if it held nothing.                            *)
(***************************************************************************)
EXTENDS Naturals, Sequences, Functions

CONSTANTS
    Processes,   \* the running programs that share one user's files
    Server,      \* the one that keeps a session store
    Dirs,        \* directories on disk
    Cwd,         \* the directory the first start makes a workspace of
    Urls,        \* MySQL URLs, each standing for itself and its password
    Models,      \* default models
    None,        \* no workspace, no model, no password, no directory
    Sqlite,      \* the URL of a workspace's own SQLite file, or none given
    Outcomes,    \* {TRUE}, or {TRUE, FALSE} where a write may be refused
    MaxIds,      \* bound: workspaces ever registered
    MaxCrashes   \* bound: ends of a process

ASSUME WorkspacesAssumption ==
    /\ Cwd \in Dirs
    /\ Outcomes \in {{TRUE}, BOOLEAN}
    /\ MaxIds \in Nat
    /\ MaxCrashes \in Nat
    /\ None \notin Nat \cup Dirs \cup Models \cup Urls

VARIABLES
    registry,    \* workspaces.json: does it exist, its records, the last active
    settings,    \* [Dirs -> what .scriptordb/settings.json gives when loaded]
    defaults,    \* global_settings.json: does it exist, the default model
    ring,        \* the MySQL password kept for each workspace
    legacy,      \* the old sessions: is their file there, who has a copy
    made,        \* number of workspaces registered so far
    config,      \* [Processes -> the view of the active workspace]
    store,       \* directory of the server's session store
    call,        \* [Processes -> the operation in progress]
    crashes

disk == <<registry, settings, defaults, ring, legacy>>
memory == <<config, store>>
vars == <<disk, memory, made, call, crashes>>

Ids == 1 .. MaxIds

Blank == [db |-> Sqlite, prefs |-> 0, model |-> None]
Empty == [here |-> TRUE, known |-> <<>>, last |-> None]
Nobody == [id |-> None, dir |-> None, view |-> Blank]
Idle == [todo |-> <<>>, id |-> None, dir |-> None, copy |-> Empty, new |-> Blank]
Down == [Idle EXCEPT !.todo = <<"down">>]

Up(p) == call[p].todo # <<"down">>
Busy(p) == call[p].todo # <<>>
At(p, step) == Busy(p) /\ Head(call[p].todo) = step

TypeOK ==
    LET records == UNION {[S -> Dirs] : S \in SUBSET Ids}
        registries == [here : BOOLEAN, known : records, last : Ids \cup {None}]
        views == [db : Urls \cup {Sqlite}, prefs : 0 .. 1, model : Models \cup {None}]
    IN  /\ registry \in registries
        /\ settings \in [Dirs -> views]
        /\ defaults \in [here : BOOLEAN, model : Models \cup {None}]
        /\ ring \in [Ids -> Urls \cup {None}]
        /\ legacy \in [waiting : BOOLEAN, copies : SUBSET Dirs]
        /\ made \in 0 .. MaxIds
        /\ config \in [Processes -> [id : Ids \cup {None}, dir : Dirs \cup {None}, view : views]]
        /\ store \in Dirs \cup {None}
        /\ \A p \in Processes : /\ call[p].id \in Ids \cup {None}
                               /\ call[p].dir \in Dirs \cup {None}
                               /\ call[p].copy \in registries
                               /\ call[p].new \in views
        /\ crashes \in 0 .. MaxCrashes

-----------------------------------------------------------------------------
(* Operations.  Each begins when its process is idle, reads what it needs  *)
(* and leaves the steps it has still to take, in the code's order.         *)

Begin(p, todo, id, dir, copy, new) ==
    /\ ~Busy(p)
    /\ call' = [call EXCEPT ![p] = [todo |-> todo, id |-> id, dir |-> dir,
                                    copy |-> copy, new |-> new]]
    /\ UNCHANGED <<disk, memory, crashes>>

With(id, dir) == [i \in DOMAIN registry.known \cup {id} |->
                     IF i = id THEN dir ELSE registry.known[i]]

\* WorkspaceRegistry.create: the record first, then the directory's settings,
\* found or new, with the URL if one was named and the global default model.
Create(p, dir, url) ==
    /\ \A i \in DOMAIN registry.known : registry.known[i] # dir
    /\ made < MaxIds
    /\ made' = made + 1
    /\ Begin(p, IF url = Sqlite THEN <<"registry", "adopt">>
                               ELSE <<"registry", "password", "adopt">>,
             made + 1, dir,
             [registry EXCEPT !.here = TRUE, !.known = With(made + 1, dir)],
             [Blank EXCEPT !.db = url])

\* Slip: the last active workspace is not forgotten with its record.
RemoveKeepingLast(p, id, deleteFiles) ==
    /\ Begin(p, <<"registry">> \o (IF config[p].id = id THEN <<"clear">> ELSE <<>>),
             id, registry.known[id],
             [registry EXCEPT !.known = Restrict(@, DOMAIN @ \ {id})], Blank)
    /\ UNCHANGED made

\* WorkspaceRegistry.remove and delete_workspace_logic.
Remove(p, id, deleteFiles) ==
    /\ Begin(p, (IF deleteFiles THEN <<"rmtree">> ELSE <<>>) \o <<"registry">>
                \o (IF config[p].id = id THEN <<"clear">> ELSE <<>>),
             id, registry.known[id],
             [registry EXCEPT !.known = Restrict(@, DOMAIN @ \ {id}),
                              !.last = IF @ = id THEN None ELSE @],
             Blank)
    /\ UNCHANGED made

\* Slip: the session store of the previous workspace stays open.
ActivateKeepingStore(p, id) ==
    /\ Begin(p, <<"load", "registry">>, id, registry.known[id],
             [registry EXCEPT !.last = id], Blank)
    /\ UNCHANGED made

\* activate_workspace: the configuration, the last active, the session store.
Activate(p, id) ==
    /\ Begin(p, <<"load", "registry">> \o (IF p = Server THEN <<"store">> ELSE <<>>),
             id, registry.known[id], [registry EXCEPT !.last = id], Blank)
    /\ UNCHANGED made

\* configure_mysql and reset_mysql_to_sqlite: the URL, the password, and the
\* configuration when the workspace is the active one.
SetDatabase(p, id, url) ==
    /\ Begin(p, (IF url = Sqlite THEN <<"amend">> ELSE <<"amend", "password">>)
                \o (IF config[p].id = id THEN <<"load">> ELSE <<>>),
             id, registry.known[id], registry, [Blank EXCEPT !.db = url])
    /\ UNCHANGED made

\* Slip: the old file is renamed first.
RetireThenImport(p, id) ==
    /\ legacy.waiting
    /\ Begin(p, <<"retire", "sessions">>, id, registry.known[id], registry, Blank)
    /\ UNCHANGED made

\* import_legacy_sessions: every session into the workspace, then the rename.
ImportLegacy(p, id) ==
    /\ legacy.waiting
    /\ Begin(p, <<"sessions", "retire">>, id, registry.known[id], registry, Blank)
    /\ UNCHANGED made

\* What is done to the configuration of the active workspace.
Change(p, todo, new) ==
    /\ config[p].id # None
    /\ Begin(p, todo, config[p].id, config[p].dir, registry, new)
    /\ UNCHANGED made

\* set_default_model: the global file, the configuration, and the whole of it
\* into the workspace's settings (_persist).
SetModel(p, model) ==
    Change(p, <<"defaults", "config", "persist">>, [config[p].view EXCEPT !.model = model])

\* update_default_model without a model: nothing is persisted.
ClearModel(p) ==
    Change(p, <<"config", "defaults">>, [config[p].view EXCEPT !.model = None])

\* set_auto_restore_sessions and set_browser_enabled.
SetPrefs(p, prefs) ==
    Change(p, <<"config", "persist">>, [config[p].view EXCEPT !.prefs = prefs])

\* load_default_workspace: migrate_legacy when there is no registry, then the
\* last active workspace.
Start(p) ==
    /\ ~Up(p)
    /\ registry.here \/ made < MaxIds
    /\ made' = IF registry.here THEN made ELSE made + 1
    /\ call' = [call EXCEPT ![p] =
           IF registry.here THEN [Idle EXCEPT !.todo = <<"boot">>]
           ELSE [todo |-> <<"registry", "sessions", "retire", "persist", "defaults", "boot">>,
                 id |-> made + 1, dir |-> Cwd,
                 copy |-> [Empty EXCEPT !.known = With(made + 1, Cwd), !.last = made + 1],
                 new |-> Blank]]
    /\ UNCHANGED <<disk, memory, crashes>>

-----------------------------------------------------------------------------
(* Steps.                                                                  *)

Done(p) ==
    LET rest == Tail(call[p].todo)
    IN  call' = [call EXCEPT ![p] = IF rest = <<>> THEN Idle
                                    ELSE [call[p] EXCEPT !.todo = rest]]

\* WorkspaceRegistry._save writes the copy read when the operation began,
\* whatever the file has become since; an OSError is swallowed.
SaveRegistry(p) ==
    /\ At(p, "registry")
    /\ \E ok \in Outcomes : registry' = IF ok THEN call[p].copy ELSE registry
    /\ Done(p)
    /\ UNCHANGED <<settings, defaults, ring, legacy, memory, made, crashes>>

\* What WorkspaceSettings.save is given: the configuration, or the file just
\* loaded with one thing changed.
Saved(p) ==
    LET found == settings[call[p].dir]
        url == call[p].new.db
    IN  CASE At(p, "persist") -> call[p].new
          [] At(p, "amend") -> [found EXCEPT !.db = url]
          [] At(p, "adopt") -> [found EXCEPT !.db = IF url = Sqlite THEN @ ELSE url,
                                             !.model = defaults.model]

SettingsSteps == {"persist", "amend", "adopt"}

SaveSettings(p) ==
    /\ \E step \in SettingsSteps : At(p, step)
    /\ \E ok \in Outcomes :
          settings' = IF ok THEN [settings EXCEPT ![call[p].dir] = Saved(p)] ELSE settings
    /\ Done(p)
    /\ UNCHANGED <<registry, defaults, ring, legacy, memory, made, crashes>>

\* save_global_settings
SaveDefaults(p) ==
    /\ At(p, "defaults")
    /\ \E ok \in Outcomes :
          defaults' = IF ok THEN [here |-> TRUE, model |-> call[p].new.model] ELSE defaults
    /\ Done(p)
    /\ UNCHANGED <<registry, settings, ring, legacy, memory, made, crashes>>

\* save_mysql_password
SavePassword(p) ==
    /\ At(p, "password")
    /\ ring' = [ring EXCEPT ![call[p].id] = call[p].new.db]
    /\ Done(p)
    /\ UNCHANGED <<registry, settings, defaults, legacy, memory, made, crashes>>

\* shutil.rmtree of .scriptordb: the settings and the sessions.
RemoveFiles(p) ==
    /\ At(p, "rmtree")
    /\ settings' = [settings EXCEPT ![call[p].dir] = Blank]
    /\ legacy' = [legacy EXCEPT !.copies = @ \ {call[p].dir}]
    /\ Done(p)
    /\ UNCHANGED <<registry, defaults, ring, memory, made, crashes>>

\* The old sessions are copied into the workspace, and their file renamed.
CopySessions(p) ==
    /\ At(p, "sessions")
    /\ \E ok \in Outcomes :
          legacy' = IF legacy.waiting /\ ok
                    THEN [legacy EXCEPT !.copies = @ \cup {call[p].dir}] ELSE legacy
    /\ Done(p)
    /\ UNCHANGED <<registry, settings, defaults, ring, memory, made, crashes>>

RetireSessions(p) ==
    /\ At(p, "retire")
    /\ legacy' = [legacy EXCEPT !.waiting = FALSE]
    /\ Done(p)
    /\ UNCHANGED <<registry, settings, defaults, ring, memory, made, crashes>>

\* load_for_workspace: seeds the global file the first time, then takes the
\* workspace's settings with the global model over them.
LoadFor(p, id) ==
    LET dir == registry.known[id]
        seeded == IF defaults.here THEN defaults
                  ELSE [here |-> TRUE, model |-> settings[dir].model]
    IN  /\ defaults' = seeded
        /\ config' = [config EXCEPT ![p] = [id |-> id, dir |-> dir,
                         view |-> [settings[dir] EXCEPT !.model = seeded.model]]]

\* Fails, and with it the operation, when the workspace has left the registry.
Load(p) ==
    /\ At(p, "load")
    /\ IF call[p].id \in DOMAIN registry.known
       THEN LoadFor(p, call[p].id) /\ Done(p)
       ELSE call' = [call EXCEPT ![p] = Idle] /\ UNCHANGED <<defaults, config>>
    /\ UNCHANGED <<registry, settings, ring, legacy, store, made, crashes>>

\* get_last_active_workspace and load; the server's lifespan then opens the
\* workspace's session store.
Boot(p) ==
    /\ At(p, "boot")
    /\ IF registry.last \in DOMAIN registry.known
       THEN /\ LoadFor(p, registry.last)
            /\ store' = IF p = Server THEN registry.known[registry.last] ELSE store
            /\ UNCHANGED registry
       ELSE /\ registry' = [registry EXCEPT !.last = None]
            /\ UNCHANGED <<defaults, config, store>>
    /\ Done(p)
    /\ UNCHANGED <<settings, ring, legacy, made, crashes>>

\* The field of the configuration, between the files.
SetConfig(p) ==
    /\ At(p, "config")
    /\ config' = [config EXCEPT ![p].view = call[p].new]
    /\ Done(p)
    /\ UNCHANGED <<disk, store, made, crashes>>

\* AppConfig.clear
ClearConfig(p) ==
    /\ At(p, "clear")
    /\ config' = [config EXCEPT ![p] = Nobody]
    /\ Done(p)
    /\ UNCHANGED <<disk, store, made, crashes>>

\* reload_session_store
OpenStore(p) ==
    /\ At(p, "store")
    /\ store' = config[p].dir
    /\ Done(p)
    /\ UNCHANGED <<disk, config, made, crashes>>

\* The process ends, between two steps or (torn) in the middle of writing a
\* file, which write_text had emptied.
Crash(p, torn) ==
    /\ Up(p)
    /\ crashes < MaxCrashes
    /\ crashes' = crashes + 1
    /\ torn => Busy(p) /\ Head(call[p].todo) \in SettingsSteps \cup {"registry", "defaults"}
    /\ registry' = IF torn /\ At(p, "registry") THEN Empty ELSE registry
    /\ settings' = IF torn /\ \E step \in SettingsSteps : At(p, step)
                   THEN [settings EXCEPT ![call[p].dir] = Blank] ELSE settings
    /\ defaults' = IF torn /\ At(p, "defaults")
                   THEN [here |-> TRUE, model |-> None] ELSE defaults
    /\ config' = [config EXCEPT ![p] = Nobody]
    /\ store' = IF p = Server THEN None ELSE store
    /\ call' = [call EXCEPT ![p] = Down]
    /\ UNCHANGED <<ring, legacy, made>>

-----------------------------------------------------------------------------
\* A machine on which an older version kept sessions and no registry, and one
\* on which nothing was ever kept.
Init ==
    /\ registry = [Empty EXCEPT !.here = FALSE]
    /\ settings = [d \in Dirs |-> Blank]
    /\ defaults = [here |-> FALSE, model |-> None]
    /\ ring = [i \in Ids |-> None]
    /\ legacy \in [waiting : BOOLEAN, copies : {{}}]
    /\ made = 0
    /\ config = [p \in Processes |-> Nobody]
    /\ store = None
    /\ call = [p \in Processes |-> Down]
    /\ crashes = 0

\* The workspaces, by the routes and by the menu and the commands of the CLI.
\* What a call copies of the registry when it begins is what the menu holds
\* while it waits for a choice.
ManageWorkspaces(p) ==
    \/ \E dir \in Dirs, url \in Urls \cup {Sqlite} : Create(p, dir, url)
    \/ \E id \in DOMAIN registry.known :
          \/ \E deleteFiles \in BOOLEAN : Remove(p, id, deleteFiles)
          \/ Activate(p, id)
          \/ \E url \in Urls \cup {Sqlite} : SetDatabase(p, id, url)
          \/ ImportLegacy(p, id)

ChangeSettings(p) ==
    \/ \E model \in Models : SetModel(p, model)
    \/ ClearModel(p)
    \/ \E prefs \in 0 .. 1 : SetPrefs(p, prefs)

Request(p) == ManageWorkspaces(p) \/ ChangeSettings(p)

Step(p) ==
    \/ SaveRegistry(p) \/ SaveSettings(p) \/ SaveDefaults(p) \/ SavePassword(p)
    \/ RemoveFiles(p) \/ CopySessions(p) \/ RetireSessions(p)
    \/ Load(p) \/ Boot(p) \/ SetConfig(p) \/ ClearConfig(p) \/ OpenStore(p)

Next ==
    \E p \in Processes :
        Start(p) \/ Request(p) \/ Step(p) \/ \E torn \in BOOLEAN : Crash(p, torn)

Spec == Init /\ [][Next]_vars

-----------------------------------------------------------------------------
\* No two workspaces share a directory and the last active one, when there is
\* one, is registered, however many processes write copies of the registry
\* over one another and wherever they end (registry.create, remove).
WellFormed(r) ==
    /\ \A i, j \in DOMAIN r.known : r.known[i] = r.known[j] => i = j
    /\ r.last \in DOMAIN r.known \cup {None}

RegistryWellFormed == WellFormed(registry)

\* Between two operations the configuration a process works with is what it
\* would load from the files now: four setters, the database routes and the
\* loader keep three copies in step (settings.py, mysql_service.py).
ConfigIsCurrent ==
    \A p \in Processes : ~Busy(p) /\ config[p].id # None =>
        config[p].view = [settings[config[p].dir] EXCEPT !.model = defaults.model]

\* Between two operations the workspace a process works in is registered, is
\* the one a restart would open, and is where the server keeps the sessions
\* (activate_workspace, delete_workspace_logic, the lifespan of app.py).
ActiveIsRemembered ==
    \A p \in Processes : ~Busy(p) /\ config[p].id # None =>
        /\ config[p].id \in DOMAIN registry.known
        /\ registry.known[config[p].id] = config[p].dir
        /\ registry.last = config[p].id
        /\ p = Server => store = config[p].dir

\* A workspace leaves the registry only by its own removal, or in a process
\* that ends while it writes the registry.
RegistrationKept ==
    [][\A i \in DOMAIN registry.known \ DOMAIN registry'.known :
          \/ crashes' > crashes
          \/ \E p \in Processes : At(p, "registry") /\ call[p].id = i]_vars

\* The old sessions' file is put away only when some workspace has them
\* (migrate_legacy and import_legacy_sessions copy first, rename last).
PutAwayAfterCopy ==
    [][legacy.waiting /\ ~legacy'.waiting => legacy.copies # {}]_vars

\* A registered workspace whose settings name a MySQL database has the
\* password of that database in the keyring.
UrlHasItsPassword ==
    (\A p \in Processes : ~Busy(p) \/ ~Up(p)) =>
        \A i \in DOMAIN registry.known :
            LET url == settings[registry.known[i]].db IN url # Sqlite => ring[i] = url

\* Once a first start is over the old sessions are in a workspace.
FirstStartMigrates ==
    \A p \in Processes : ~Busy(p) /\ registry.here => ~legacy.waiting
=============================================================================
