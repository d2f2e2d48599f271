# ScriptorDB: specification and verification

ScriptorDB is a desktop application in which an LLM agent works on a database and in a browser
for a person who watches, approves and takes over. A Python server (FastAPI on one asyncio loop)
runs the agent; a React client in a desktop window follows each run over server-sent events. This
directory holds TLA+ models of the parts where order, failure and sharing decide whether the
program is right, the TLC configurations that check them, and theorems about them that TLAPS
checks. `PROJECT.json` maps every definition to the lines it stands for.

1. [The system](#1-the-system): components, state, operations, hard behaviours, what makes them correct
2. [Modules](#2-modules): how each corresponds to the code
3. [Runs](#3-runs): what each checks, bounds, fairness
4. [Deviations](#4-deviations): where the code does not do what it says
5. [Proofs](#5-proofs)
6. [Not modelled, and what is left](#6-not-modelled-and-what-is-left)

Commands, in this directory:

    tlasany RunLifecycle.tla                                    # parse
    tlc -workers 2 -config RunLifecycle_one.cfg MCRunLifecycle  # model-check
    tlapm RunLifecycleProofs.tla                                # prove

## 1. The system

One process, one asyncio loop. Between two suspension points (an `await` that really suspends) a
task runs undisturbed, so the unit of interleaving is the stretch between two of them. Tools that
talk to the database run in threads; the browser lives in a driver process; the command line is a
second process over the same files.

| Component | State it keeps | Operations | Interacts with |
|---|---|---|---|
| Run registry and owner (`runtime/approval/run_registry.py`, `run_owner.py`, `orchestrator.py`, `api/routes/chat.py`) | a slot per session: the run that holds it, its suspension marker; an owner task and an agent task per run | `POST /chat` (admission), owner task, shutdown | everything below |
| Takeover (`browser/takeover.py`, `runtime/runner/takeover_hook.py`) | one state machine and one timeout task for the whole process | request, wait, human control, complete, cancel, reset, time out | the pause of whichever run waits; browser manager |
| Pauses, approvals, checkpoints (`runtime/approval/pause.py`, `store.py`, `controller.py`, `persist.py`) | per run: cancelled flag, resume event, decision; per session: checkpoint; per request: pending approval | `/takeover/complete`, `/takeover/cancel`, `/approve` | registry, owner, session store |
| Tracker, translator, messages (`runtime/runner/lifecycle.py`, `event_translator.py`, `tracker.py`, `services/chat_service.py`) | the calls and the text of a run, four times: tracked, as events, as shown, as messages | one stream of the agent after another: retried, deferred, resumed, failed | event bus, client, session store |
| Event bus (`runtime/approval/event_bus.py`, `_stream_bus` in `chat.py`) | the newest events of a run, the index of the first, a closed flag; a cursor per subscriber | publish, close, subscribe from a cursor | owner (publisher), SSE responses (subscribers) |
| Client stream (`frontend/src/hooks/useChatStream.ts`, `api/stream.ts`, `useRuns.ts`) | the open connection, last event id, attached run, attempts, timers, the run's view, the loading flag | send, read, lose, reattach, cancel, switch session | event bus, `/active-run`, session store |
| Session store (`runtime/session_file_store.py`) | sessions in memory; a JSON file per session and an index on disk; a single file of an older version | load, migrate, rebuild, create, add message, add run, trim, delete | owner (stores outcomes), undo service |
| Undo log (`tools/undo/`, `agents/capabilities.py`, `tools/db_tools_write.py`) | a manager with one current group, shared by all runs; groups and entries in the database | before/after hooks of an agent call, record, revert | run lifecycle (retries, failures), database |
| Database access (`database/`) and the tools over it | engines; for SQLite one connection that all sessions share | session, commit, rollback, reset at close | tools, undo log, tool timeouts |
| Browser manager (`browser/manager.py`) | driver, browser, context, page, idle timer, tool counter, failure counts | launch, close, idle close, events of the browser, tracked tool calls | takeover, viewers, element references |
| Viewers (`api/routes/browser_stream.py`) | the connection the manager knows, a page's one screencast, a lock | connect, restart, replace, fail, recover, stop | browser manager |
| References, middleware and tools (`browser/refs.py`, `runtime/middleware/`, `tools/browser_tools/`) | element references, revision counters, answers given per run and round | find, read, act, navigate, switch tabs; block, redirect | browser manager, runs that share the page |
| Login watcher and autofill (`browser/login_watcher.py`, `autofill.py`, `runtime/runner/login_probe.py`) | a watcher task per run, a cache of conclusions, what was tried, an attempt in progress | poll, mutation, extract, fill slot by slot, decide, stop | takeover, the page, stored credentials |
| Configuration and workspaces (`config/`, `services/workspace_service.py`, `cli/`) | registry, settings and global settings files, keyring, the configuration in each process | create, remove, activate, set database, set model, migrate, start | session store, command line |
| Browser profiles (`config/secrets.py`, `browser/profiles.py`) | a profile in chunks of the keyring, its metadata, an index | save, read, delete | launch; other programs over the same keyring |
| Crawl, download, documents, sandbox, other routes, rendering | little or none between calls | sequential functions | - |

**What is hard.**

- *Shared objects with per-run meaning.* One takeover manager, one browser, one page's screencast
  and one undo manager serve all sessions; checkpoints and slots are keyed by session, approvals by
  request, pauses by run, references by page. Every operation finds its run through one of these
  keys, after a time in which another may have taken the place.
- *Time between check and act.* `POST /chat` awaits a crawl before it admits; `launch()` sets four
  references with an await after each; `close()` reads the driver after the browser is gone; a
  reading is stored under counters taken around its awaits; a form is filled long after it was seen.
- *Races with a person.* A timeout against a click, a click twice, a click from a stale page, a
  browser window closed under a pause, a hand in a form that is being filled.
- *Connections that end.* Client and server recover with an index into a history that is truncated.
- *Files and keyring entries written in place, one after the other.* Any operation is several
  writes, each truncate-then-fill; the server thread is a daemon that dies with the window, and
  another program writes the same registry and the same profile.
- *Retries and timeouts.* A connection error makes the agent's call again, with the tools it has
  already run; a tool's timeout answers for a thread that goes on.

**What makes each component correct.** Slots: at most one live run each, given back whatever
happens, handed over only through empty. Pauses: a run that waits is woken by every way its wait
can end, and leaves nothing behind that acts on the next run. Approvals: the answer a run goes on
with is the answer to its current question. Outcomes: each run that ends is stored with its
outcome, as it was shown, and leaves the next run a history in which every call has a result. Bus:
indices name the same event for ever, a subscriber misses only what was dropped, and is released at
the end. Client: the view is the log without gaps, and the input comes back. Store: a restart finds
what was stored, and not what was deleted. Undo: a revert gives back the table. Database: what a
tool reports as written is there, all of it, with the entries that undo it. Browser: the references
are of one launch, whatever overtakes what. Viewers: who leaves stops only its own stream.
References: a refusal to look again leaves the run with what it was given. Login: a saved credential
is tried, nobody fills for a run that ended. Workspaces and profiles: whoever ends between whatever
writes, the next start finds a registry that makes sense and a profile that is whole.
`PROJECT.json` lists under "hazards" the lines where each of these can go wrong, with the properties
that watch them.

## 2. Modules

| Module | Models | Uses |
|---|---|---|
| `Takeover` | the takeover manager as a value with its transitions | - |
| `RunLifecycle` | runs, slots, hooks, pauses, approvals, checkpoints, outcomes, shutdown | EXTENDS `Takeover` |
| `RunTrace` | what one run leaves in tracker, events, client, session and history | - |
| `EventLog` | what a run's event stream promises: an unbounded log with readers (abstract) | - |
| `EventBus` | the bounded buffer with cursors; refines `EventLog` | INSTANCE `EventLog` |
| `StreamClient` | the client following a run | EXTENDS `EventBus`: the composed system |
| `SessionStore` | memory, files, index, migration, crashes | - |
| `UndoLog` | groups, entries, the shared manager, revert | - |
| `DbSession` | the sessions of tools over a shared or an own connection | - |
| `BrowserTarget` | the browser as its viewers see it (abstract) | - |
| `BrowserManager` | launch, close, idle timer, events, tool calls; refines `BrowserTarget` | EXTENDS `Takeover`, INSTANCE `BrowserTarget` |
| `BrowserStream` | the viewers of a page's one screencast | EXTENDS `BrowserTarget` |
| `PageMemory` | references, revision counters, remembered answers, middleware | - |
| `LoginWatch` | watcher, hook and autofill over one login form | - |
| `Workspaces` | registry, settings, passwords, configuration, old sessions | - |
| `ProfileStore` | a profile in chunks of the keyring | - |
| `MC*` | model values, symmetry and unions for TLC | EXTENDS their modules |
| `*Proofs` | theorems (section 5) | EXTENDS their modules |

In every module an action is what one task does between two points at which another can come in:
two suspension points on the event loop, two writes of a file or of the keyring, two statements of
a thread. Definitions marked as a slip or mutant are variants that a plausible bug would give; no
specification uses them.

### RunLifecycle and Takeover

`event_bus.publish` takes a lock that is never held across a suspension, so it does not suspend:
from a `run_end` event to the removal of the slot the owner's work is one action, `Finish`.

| Action | Code |
|---|---|
| `Post`, `Refuse`, `Register` | `chat.py`: lookup of the session, then `augment_prompt` is awaited; afterwards either an error (502), the slot is taken (409), or slot and owner task are created without a further await |
| `Start`, `StartFails` | `execute_run` -> `start_run`; an exception there still runs the owner's `finally` |
| `AgentEnds` | `agent.run` returns or raises; `Finish` when the dispatcher has the end |
| `ToolRequestsTakeover`, `AutofillClears`, `Pause`, `Offer`, `Deliver`, `HookResumes`, `HookCancels` | the takeover hook: detection, `enter_waiting` and checkpoint, then (after `get_state`) the queued request, its delivery by the dispatcher, and the two ways the wait ends |
| `AskApproval`, `AutoApprove`, `ApprovalWakes` | the deferred tool calls of a call of the agent |
| `ResumeTakeover`, `CancelTakeover`, `Approve`, `EnterHumanControl`, `DeleteSession` | the routes |
| `Timeout`, `BrowserLost`, `Shutdown`, `AbortRun` | timeout task, loss of page or browser, server stop, cancelled owner |

The agent itself is one nondeterministic actor: it detects, asks, ends or fails at any time. Event
order inside a run is in `RunTrace`; message contents and the reasons for risk decisions are left out.

### RunTrace

One run, as a sequence of streams of the agent. `Writes`, `CallTool`, `DeferCall`, `ResumeCall`,
`ToolEnds`, `ConnectionLost` and `AgentReturns` are the agent with the translator that handles its
events; `Forward`, `EndDeferred`, `Decide`, `EndCompleted`, `EndFailed`, `EndCancelled` the loop of
`lifecycle.py` and what follows it; `Persist` `execute_run` with `persist_chat_run` and the repair of
the history; `Read` the client's reducers (`useRuns`, `useChatMessages`), `ReloadPage` a view made
anew while the run waits. A piece of text is a number, a message the calls in it and the calls it
answers.

### EventLog, EventBus, StreamClient

`EventBus` models publication with truncation, closing, and the subscriber generator in the three
places it can be: between the truncation notice and the first event (`noticed`), waiting, done. An
event is its number and kind; `new_messages` is never carried. `Log == INSTANCE EventLog` maps
`LastIndex` to the log's length, the cursor to the reader's position, `ended \/ closed` to sealed.

`StreamClient` extends the bus (its actions are the bus's own) with the client: each connection is a
subscriber, `request[s]` is the index its GET was sent with, `read[s]` says how many of its frames
the client has processed, and what it has not is lost with the connection. The refs of the hook
(`abortRef`, `lastEventIdRef`, `attachedRunRef`, `reattachAttemptsRef`), its timers and its requests
under way are variables. A suspended run of this module waits for a takeover or for an approval;
timing out and the user's cancel are those of a takeover.

### SessionStore

A session's content is a version number. An operation changes memory, then performs its writes one
after the other: `OpenFile` truncates, `CloseFile` fills, or `FileFails`; the index is last.
`Crash` can come between any two of them and inside one. What the program would read is
`Loadable(s)`. History variables record what callers have been told is stored (`saved`), which
files were left incomplete (`torn`) and what was deleted.

### UndoLog and DbSession

`UndoLog`: `Post` binds the run to the manager of the shared configuration, `ResolveAgent` may build
another; `StartCall`, `RetryCall`, `EndCall`, `FailCall` are the calls of the agent with their hooks,
`Write` a statement with its entry, `RevertTo` the revert. `Replay(h)` goes back over the groups from
the last one to `h`, and `Undone` over the entries of one from its last to its first, both recursive
functions; `Undo` executes an entry as SQL would: inserting a row that exists fails, updating or
deleting one that does not is nothing. The table has a
primary key that statements leave alone; of a table without one an update or insert is not recorded
at all (`db_tools_undo.py:28`, `:62`), which is the case of a change without an entry. The initial
state is a new process or one in which an earlier run has left a manager. `snapshot` and `mixed` are
history.

`DbSession` takes apart what is one step there. `at[t]` is the step a task is about to do: a
statement, a commit, a rollback or the close of a session. `First` and `Following` say which step is
next in `write_data` with its `record_undo`, an import, an append, `create_table` and a read; a
session that fails is left by `Abandon`. A change is the triple of task, session and number, a
connection the set of sessions that share it: all of them on SQLite, one each on MySQL.
`Dml`, `Ddl`, `Commit` and `RollBack` are what the engine does, with the implicit commits of MySQL's
DDL and the SQLite driver's habit of opening no transaction for it; `Fail` a refused statement,
`TableExists` and `Unreadable` the early returns of an import, `TimeOut` the tool wrapper's answer
for a thread that goes on.

### BrowserTarget, BrowserManager, BrowserStream

A launch is a number. `BrowserManager` keeps the manager as a value (`pw`, `br`, `cx`, `pg` for the
four references, the tool count, the takeover, the failure counts) beside what is really running
(`driver`, `browser`, `open`).

| Action | Code |
|---|---|
| `Launch`, `DriverStarts`, `BrowserStarts`, `ContextCreated`, `PageCreated`, `LaunchFails` | `launch()`, one await after the other, and its except clause, which resets without stopping anything |
| `CloseBegins`, `CloseBrowserDone`, `CloseDriverDone` | `close()`; `_playwright` is read when `browser.close()` has returned |
| `IdleArmed`, `IdleFires` | the idle timer; `close()` cancels the task it is called from, so the rest of it never happens (`manager.py:298`) |
| `Disconnected`, `PageClosed`, `Response` | events of the browser and of any page |
| `ToolStart` ... `ToolFinish`, `TakeoverMoves` | `tracked()`, the checks before a tool acts, what it records, `detect_takeover`, its timeout; the hook and the routes |

`BrowserTarget` is what viewers need to know of this: a page that launches replace, that may be
forgotten at any moment, and that may be gone before it is forgotten. `BrowserManager` implements it
(section 5), and `BrowserStream` is specified over it: per connection its WebSocket handler and one
helper (a restart after a navigation, or the callback of a failed ICE transport), the lock, the
registration, and `sink`, whom the page of a launch sends its frames to. The names of both are
their own (`page`, `alive`, `newest`, `ViewersSpec`), so that one module can extend the two.

### PageMemory

A page is a number (the code uses `id(page)`), with the address and the two counters the manager
keeps of it. `FindStarts`/`FindEnds`, `ReadStarts`/`ReadEnds`, `FormStarts`/`FormEnds`,
`ActStarts`/`ActSucceeds`, `ActsByRef`, `NavigateStarts`/`NavigateEnds`, `CallFails`, `Filter` and
`SwitchTab` are the tools, `Blocked` and `ExtractEnds` the policies with their redirections,
`NewRound` and `RunEnds` the life of what is remembered, the rest the browser. A query is a scope, a
role and a text; which text contains which is a constant. `gave` records
whether an answer had references, `changed` and `same` what has happened to a reading and to an
element; `Strict` says which events these heed although the manager does not count them, and is
empty in the passing run.

### LoginWatch

One page and one site. `doc` is the document with its form, `values` what its fields hold. The
watcher is `DrainBegins` ... `DrainFilled`, the hook `ToolReturns` ... `Resumes`, an attempt of either
`JobFor`, `ReadSlot`, `WriteSlot`; `SaveBegins`/`SaveEnds` are the route that stores a credential and
then clears the watchers' memory; `Mutated` the function a page script calls, which stays bound to
the first watcher. `UsernameAt`, `PasswordAt`, `ExtraAt` and `Slots` are `autofill.py`'s choice of
fields; a form is a sequence of fields, some with a role (`LoginForms`).

### Workspaces and ProfileStore

An operation of `Workspaces` reads what it needs when it begins and leaves the steps it has to take;
`SaveRegistry` writes back the copy of the registry read at the beginning. `Crash(p, torn)` ends a
process between two steps, or in the middle of a write, which leaves the file empty and so loads as
nothing. `ProfileStore` has one action per keyring call; `disturbed` and `doomed` record that
operations overlapped and which generations somebody began to delete.

## 3. Runs

| Run | Checks | Instance |
|---|---|---|
| `lifecycle_one_session` | `RegisteredIsLive`, `NoResidue`, `TimeoutIsSound`, `DecisionIsForCurrentRequest`, `OutcomeIsStored`; `SlotHandover`, `ShutdownRecordsSuspended` | two runs of one session, two approval requests each, browser loss, deletion, shutdown |
| `lifecycle_liveness` | `EndedIsReleased`, `CancelledWaitEnds`, `DecisionRestartsRun` | two runs of one session, one request each |
| `bus_readers` | `OnlyDroppedMissed`; `ImplementsLog`, `EventsReachReaders` | two subscribers, capacity 2, 4 events, any cursor up to 5 |
| `client_view` | `NoGap` | two connections, two lost, capacity 3, 6 events |
| `client_settles` | `SettlesIfConnected` | no connection lost, one switch of sessions |
| `store_durable` | `OnlyOpenFileAtRisk`, `DeletedStaysDeleted`, `IdleMatchesDisk` | three sessions, one of them from the old file; any crash, failed writes, cut characters |
| `run_records` | `RevertRestores`, `ClosedGroupsStay`; `AcknowledgedIsDurable`, `AllOrNothing`, `CommittedIsUndoable`; `LiveIsStored`, `CompletedCallsSettled`, `HistoryIsPaired` | `UndoLog`, `DbSession`, `RunTrace`: two overlapping runs with a retry; two tasks on either engine; one run with two calls |
| `browser_shared` | `RefsAreOfOneLaunch`, `ToolCountSound`, `ImplementsTarget`; `CloseStopsOnlyOwnStream` | `BrowserManager`, `BrowserStream`: two launches, two closes, tools of two runs; two viewers |
| `page_memory` | `RefusedHoldsRef`, `UnchangedIsUntouched` | two runs with different tools each, two pages, two tabs, one round remembered |
| `login_form` | `SavedIsTried`, `ReleasedOnlyWhenFilled`, `NoFillAfterRun` | one run with watcher and hook, three documents, one save, a form with a third field |
| `config_stores` | `RegistryWellFormed`, `ActiveIsRemembered`, `PutAwayAfterCopy`; `SavedIsWhole`, `NothingLeftBehind` | `Workspaces`, `ProfileStore`: a server, three ids, one crash; two programs, three saves of 2 to 7 characters |
| `history_truth` | `HistoryTellsTruth`: violated, section 4 | as `run_records` |

`MCRecords`, `MCBrowser` and `MCConfig` extend modules that share no variable. They are explored
apart: a variable `part`, chosen in the initial state, says whose actions the behaviour consists of,
and the others stay as they were. The state space is the sum and not the product, and a property
says of the union what it says of its module.

**Bounds.** Two runs are what a slot, a checkpoint, a shared manager or a page can be contended by;
every property of `RunLifecycle` speaks of one run, or of one and what another does to its session,
and all of the safety properties are also proved for any number of runs and sessions. Two approval
requests (`MaxAsks`) let the answer to the first meet the second. The bus is truncated twice with
capacity 2 and 4 events (`MaxPublished`), while a subscriber is behind, away, or between notice and
first event; cursors beyond the end are included (`MaxFrom`). The client needs two connections at a
time for a reattachment to race an older stream, and two losses (`MaxCuts`) for a reattachment to be
lost again; `MaxSwitches` bounds how often the person leaves the session. In the store two created
sessions and a migrated one cover an index that names some, all or none of the files; `MaxVersion`
counts changes of one session. `MaxGroups`, `MaxEntries` and `MaxManagers` are two: shared groups,
abandoned groups and a revert between, before and during calls all occur. In `DbSession` two rows
per write and two batches per import (`MaxRows`, `Batches`) are what it takes to end in the middle;
in `RunTrace` two calls, one text between two calls, one lost connection and one reload (`MaxTexts`,
`MaxRetries`, `MaxReloads`) with up to two events under way (`MaxLag`). Two launches (`MaxLaunches`,
for the viewers `MaxPages`) let one overtake the other, with two closes between them. `PageMemory`
needs two pages for a reference to be of another one, and keeps one round (`MaxRounds`), so that the
cap (1000 in the code) is reached; `Profiles` says which tools each run uses in a behaviour, so that
two runs whose tools matter to each other meet, and two counted changes (`MaxCount`) separate a
reading from a page that has changed since; a page number is not used again, where the code has
`id(page)`, which Python may give again once a page is gone. `LoginWatch` sees one document replaced
by another twice (`MaxDocs`), of which some have a form, a challenge or an account already signed
in, and a credential saved once while an attempt may be under way (`MaxSaves`). `Workspaces` gives
an identity to three registrations over two directories (`MaxIds`), and one crash (`MaxCrashes`)
finds every prefix of every operation's writes; a second crash only repeats this from a state the
properties hold in. A profile fits, fills or exceeds the chunk and the limit: sizes 2, 6 and 7 with
`ChunkChars` 4 and `MaxBytes` 6, 1800 and 200 KB in the code. `FailureLimit` is 2, in the code 3.
Where the code has a limit of its own (`MaxEvents`, `MaxReattach`) the constant is that limit, made
small or kept.

Where everything a bound allows has been used up, or a run and its client are done, a behaviour may
stop for good; the configurations of those modules say `CHECK_DEADLOCK FALSE`. In the bus and the
store something can always be done, and deadlock is checked there.

**Fairness.** The event loops of the server and of the browser page run every ready task, callback
and due timer: weak fairness on each such step (owner, dispatcher, hook wake-ups, admission, the
150 s timeout; response generators; reattachment timers, answers to requests). Nothing else is
fair. A person need never click, the agent need never stop calling tools, the browser need not
close, a connection need not break, and a run need never end. `client_settles` starts from a run
that is finishing, for the same reason. The other modules are checked for safety only: what they
wait for is the database, the browser driver, a page or a person.

**Stated, and left out of the runs.** Each module has its type invariant (`TypeOK`), and some have
further properties that hold on the same instances: `UnregisteredWasCancelled`, `ApprovalIsAnswerable`
(`RunLifecycle`), `HistoryIsNewest`, `IndexNamesEvent`, `InOrder`, `ClosedDrains` (`EventBus`),
`ViewInOrder` (`StreamClient`), `MessageIsBubble` (`RunTrace`), `CodesAreLeftAlone` (`LoginWatch`),
`ConfigIsCurrent` (`Workspaces`), `CorruptMeansReplaced` (`ProfileStore`). The runs keep the
properties that take several steps, mostly of several actors, to violate.

## 4. Deviations

Each of these was found while translating the code, and each has a configuration under which TLC
produces the steps (`tlc -config <cfg> <MC module>` ends in a counterexample). The first is listed
as a finding.

| Configuration | Property | What the code does |
|---|---|---|
| `Records_history` | `HistoryTellsTruth` | When a stream that goes on after an approval fails, only the messages of the stream that asked are kept, and the repair gives the calls that did run the result "Tool execution did not finish": the next run is told that what was done was not (`chat_service.py:49`). |
| `Records_foreign` | `EntriesInOwnGroup` | The configuration is copied shallowly: overlapping runs record into one group (`chat.py:92`). |
| `Records_undoable` | `EveryWriteIsUndoable` | An entry is written through a session of its own, which on SQLite is the same connection: a write of several rows is committed with its first entry, and the process may end before the others (`db_tools_write.py:146`). |
| `RunLifecycle_overlap` | `OneExecutingRunPerSession` | A cancel that arrives after a resume still finds the checkpoint, frees the slot and leaves the run executing; a second run of the session starts beside it (`orchestrator.py:306`). |
| `RunLifecycle_wake` | `CancelWakesSuspended` | A cancel through a checkpoint left from an earlier pause does not wake a run that is suspended on an approval, and takes away the slot through which it could be answered (`orchestrator.py:331`). |
| `RunLifecycle_browser` | `WaitEndsUnlessHumanControl` | Closing the page or browser during a pause disarms the timeout without waking the run (`browser/manager.py:383`). |
| `RunLifecycle_resume` | `ResumeAllowsNextPause` | A resumed run goes on in RESUMING, in which no takeover can be requested again (`takeover.py:64`). |
| `StreamClient_twice` | `NoEventTwice` | The client resumes from the index of the last event it received, and the index is inclusive (`useChatStream.ts:239`, `event_bus.py:54`). |
| `StreamClient_onestream` | `OneStream` | Returning to a session with a suspended run opens a second stream beside the one of `POST /chat` (`useChatStream.ts:309`). |
| `StreamClient_reattach` | `DetachedReattaches` | After a second disconnection the attached mark is still set, and the retry returns (`useChatStream.ts:293`). |
| `SessionStore_crash` | `StoredSurvives` | A process that dies while it rewrites a session's file leaves it unreadable (`session_file_store.py:397`). |
| `PageMemory_stale` | `StaleRefCanBeRefreshed` | A page that renders an element anew makes its reference stale without counting as a change: the tool asks for `browser_find` again, and the middleware refuses that very query (`find_repeat.py:42`). |
| `LoginWatch_stale` | `CacheIsFresh` | The mutation script is installed for documents to come, and its function stays bound to the first run's watcher: a conclusion about the document at hand, or in a later run, is not taken back (`login_watcher.py:176`). |
| `Config_overwrite` | `RegistrationKept` | The registry is read, changed and written as a whole: a command in a second process takes away what the server registered meanwhile (`workspace_loader.py:74`). |

The modules state more such properties, each with a comment that says what breaks it. To see the
steps, put the property in place of those of the module's passing configuration, without its
`SYMMETRY`:

| Module | Property | What the code does |
|---|---|---|
| `RunLifecycle` | `CancelledIsTerminal` | The run a late cancel did not stop overwrites its cancelled record with completed (`orchestrator.py:322`). |
| | `WaitEndsUnlessHumanControl` | With two sessions (`FairSpec`): the end of one session's run, or a resume in it, disarms the shared timeout another session's paused run relies on (`orchestrator.py:213`). |
| | `MarkerIsAccurate` | A resume before the queued request is delivered leaves the slot marked suspended while the run executes (`orchestrator.py:201`). |
| | `PauseStartsUnsignalled` | A resume sent outside a pause stays in the resume event and lets the run through its next pause (`orchestrator.py:302`). |
| `StreamClient` | `DetachedSettles` | If the run ended meanwhile, the retry neither attaches nor gives up (`useChatStream.ts:291`). |
| | `SettlesAfterCancel` | A takeover that times out ends the stream without any event the client takes for an end (`stream.ts:77`). |
| `RunTrace` | `CallsShownOnce`, `CancelledIsShown` | A call that is deferred and then runs is announced twice, and is two cards until the run ends; a run cancelled in its takeover goes on being shown as running. |
| `SessionStore` | `EveryStartLoads` | A file cut inside a UTF-8 character makes the constructor raise at every start (`session_file_store.py:248`). |
| | `LegacyIsLoaded` | Sessions migrated beside an existing index are written and never loaded (`session_file_store.py:235`). |
| | `OnlyOpenFileAtRisk` | With `RenameMayFail = TRUE`: an old single file that cannot be moved is written over newer sessions at each start (`session_file_store.py:228`). |
| `UndoLog` | `EveryChangeIsGrouped` | The first run after a start has no undo manager (`chat.py:92`, `db_agent.py:97`). |
| | `RevertSucceeds` | A failed call leaves its group pending; a revert skips it, and may then fail (`undo/repository.py:226`). |
| `DbSession` | `WrittenIsThere`, `EntriesAreOfChanges` | On the one connection of SQLite the rollback of another tool takes back what a tool was about to commit; on MySQL the entry of a first row stays when the second is refused and the write is rolled back. |
| `BrowserStream` | `ViewerSparesBrowser`, `RegisteredIsServed` | A viewer whose old page is gone makes the manager forget the newer browser; a second viewer whose start fails has stopped the first one's stream. |
| `PageMemory` | `RepeatRunsNothing` | A repeated call that is redirected runs its replacement once more (`registry.py:37`). |
| | `RefusedWasGiven` | A find that counts on the active page, when a tab was switched or closed during its scan or what it found has no strong locator, gave no reference to the page, and is refused as a repetition all the same (`find_repeat.py:42`). |
| `LoginWatch` | `TypedIsKept`, `SkippedIsRemembered` | A value typed between the look and the fill is filled over; a form skipped because it has not changed is not remembered as known, so every other tool fills it. |
| `Workspaces` | `UrlHasItsPassword`, `FirstStartMigrates` | A crash between settings and keyring leaves one without the other; one after the registry is written leaves the old sessions behind. |
| | `PutAwayAfterCopy` | With `Outcomes = {TRUE, FALSE}`: a refused copy of the sessions is logged, and their file put away. |
| `ProfileStore` | `NoLeftovers`, `ReadSucceeds` | Two programs that save at once leave chunks nobody names; a read between another program's save and its clearing finds chunks gone. |

Three more are in the modules as the code has them, without a property, since nothing in the
repository promises the contrary: the idle timer's `close()` cancels the task it runs in, so the
driver goes on (`manager.py:298`); a launch that fails forgets what it has started without stopping
it (`manager.py:255`); and `close()` reads the driver only after the browser is closed, by when the
browser's event has cleared it or a launch has put a new one there (`manager.py:273`).

Properties of the passing runs that are stated with the deviations in view say so:
`DecisionIsForCurrentRequest` and `ShutdownRecordsSuspended` except runs whose session has a
cancelled run still executing (`Undisturbed`); `OnlyOpenFileAtRisk` excepts the open file and a
start that fails; `RevertRestores` speaks of groups since which every change was recorded, in a
group that was closed, with no other run active; the properties of `DbSession` speak of MySQL, or of
SQLite with no two sessions at once (`Separate`); `CloseStopsOnlyOwnStream` excepts a restart
that was already waiting for the lock; `NothingLeftBehind` operations that did not overlap.

## 5. Proofs

TLAPS checks these for every value of the constants, with the named assumptions on them. Every
safety invariant and every action property of the passing runs, and both refinements, are proved;
`PROJECT.json` lists the theorems with the property each of them states. Where the property is not
inductive by itself, an invariant that is was checked by TLC on small instances, then proved. A
proof of preservation has a step or a lemma per action.

**RunLifecycleProofs.** `IInv` (in `RunLifecycle`) is inductive. The stated properties are not: that
a timeout is sound needs that a checkpoint is of a started run, that a decision is current needs
that a running run holds none (`AnswerIsCurrent`), that an outcome is stored needs that a run that
has not started has none, that a run leaves nothing behind needs that a timeout and a checkpoint are
of a run that has started and is not over (`TimerIsStarted`, `CheckpointIsStarted`). From it:
`TypeCorrect`, `SlotsAreSound` (`RegisteredIsLive`, `UnregisteredWasCancelled`), `TimeoutsAreSound`,
`NothingIsLeftBehind`, `ApprovalsAreSound`, `OutcomesAreStored`, and the action properties
`SlotsChangeThroughEmpty` (`SlotHandover`) and `ShutdownLosesNoSuspendedRun`. These hold for any
sessions sharing the takeover manager, which is why the runs check them for one session only.

**StreamProofs.** Of the bus, `IInv` joins types, the contents of the history, indices and order
with where `run_end` can be; from it the four safety properties, and `BusImplementsLog`: the
initial state and every step of the bus map to the initial state and a step or stutter of
`EventLog`. The interesting case is the delivery of an event after truncation: the log's reader
jumps to the oldest kept event. On top of it, `ViewHasNoGap`: no cursor that the client resumes
from, or may come to resume from, is ahead of what it has shown, in whichever of four places it is
at the time (`CursorsCovered`: the hook's reference, a stream's last id, a request under way, an
open response). The theorem is for a person who stays in the session (`MaxSwitches = 0`), as the
run is: one who comes back gets the view from the stored record.

**SessionStoreProofs.** `StructInv` says how far an operation has got from what is open, due and
written; `KeptInv` adds that no complete file is older than what was stored and that a readable
index misses a stored session only when its file is lost; `GoneInv` that a deleted session is
nowhere. `MemoryIsOnDisk` holds whatever fails; `OnlyOpenFileIsAtRisk` assumes that the old file can
be moved (`~RenameMayFail`), `DeletedIsGone` also that files can be removed (`~UnlinkMayFail`);
without the first the property fails (section 4).

**RecordsProofs**, in three parts.

*Undo log.* `UndoInv`: a manager's current group, if it has one, is open, and no other manager has
it. This is why closed groups stay as they are (`ClosedGroupsAreFinal`): every step that writes an
entry or sets a status reaches the group through a manager, except the revert, whose status change
the property allows. Whose entries a group holds is another question, which section 4 answers in the
negative. `RevertGivesBack` (`RevertRestores`) is about two folds, over the entries of a group and
over the groups. `RevertInv` says that from the table there is now a chain of tables leads back to
the snapshot of each group that can be restored, each group's entries taking one to the next
(`TracesBack`), and that while such a group exists runs write into the last group only
(`WritesLast`). A write appends one entry, whose undoing gives the table before it; the lemma
`UndoneAppend` then says that the chain still ends at the same snapshot. That the recursive
functions `Replay` and `Undone` are what their equations say (`ReplayIs`, `UndoneIs`) comes from a
least-number argument: the functions that satisfy such an equation down from some number exist
(`BackwardsExists`) and agree, because there is no least number from which they do not. The
library's `WFMin` and the well-foundedness of the naturals give that minimum without an operator
parameter.

*Sessions.* The step a task is at determines which of its changes are on disk and which in the open
transaction of its connection (`Stage`, one predicate per kind of task and one for a task that
fails); `DbInv` says so of every task, on MySQL and, on SQLite, while no two tasks have been under
way at once, and that what is pending is on its own connection. The three properties are read off
the stage of a task that is over or has answered.

*Trace.* `TraceInv` relates the list of all events, those in the dispatcher's queue included, to the
agent's calls, the tracker and the number of texts (`Faithful`), and the view of a client to the
prefix it has read (`Shown`). A call's status is that of its last event, and a call that is deferred
and decided is announced again, so the invariant says of each prefix which event settles which call.
A record that is stored is either of a run that ended with `metadata` and `run_end`
(`EndedWell`) or of one that failed (`EndedBadly`), and then the view of all events equals it
(`LiveViewIsStored`). `HistoryPairsCalls` needs only the messages and the calls they hold.

**BrowserProofs.** *Manager*: `IInv` joins types, that each of the four references is nothing or of
the last launch, and that the count is at most the number of tools that run. Most steps only forget:
they set references to nothing, and leave the count or reset it together with the marks of the
running tools; `Weaker` says so once, and one lemma shows that such a step keeps the invariant. From
it `OneLaunch` and `CountSound`. `ManagerImplementsTarget`: a step is a launch's begin or end, a
forgetting, or a browser that vanishes, in the abstract specification the viewers are specified
over; what a tool or a timer does is a stutter. *Viewers*: `ViewersInv` says that one task at a time
holds the lock, that the page of the registered connection, and of one that stops what it took for
its own stream, sends to no other connection (unless a restart has written the page and still waits
for the lock), and that a handler that has not shown a page yet has no helper and no registration.
Steps that forget the registration or end streams keep this of every connection (`LessIsFine`); one
that starts a stream holds the lock, so no other connection is in the middle of something
(`OthersAreFine`). `LeavingSparesOthers` (`CloseStopsOnlyOwnStream`) follows: only the end of `stop()`
ends a stop.

**ConfigProofs.** *Registry*: `RegistrySound`: no two workspaces share a directory and the remembered
one is registered, whatever process ends where and whichever write is torn. What is written back is
a copy read earlier, so the invariant says the same of the copy each operation carries.
`ActiveWorkspaceIsRemembered` and `SessionsAreCopiedFirst` are for one program whose writes succeed
(`Processes = {Server}`, `Outcomes = {TRUE}`), and fail without it (section 4): between two writes
of one operation memory and file differ, and the invariant lists the remaining writes with which
they may. *Profiles*: `SavedProfileIsWhole`: unless its deletion has begun, every chunk of the
profile the metadata name is there. The strengthening: generations are of the past (`Past`), the one
being written is nobody else's and not current (`Unpublished`), its chunks so far are there
(`Written`), and what an operation cleans up is never current again (`Replaced`).
`NoOldLoginIsLeft`: while operations come one after the other, the chunks in the keyring are those
of the current profile and of what the one operation under way writes or has yet to remove
(`KeyringTidy`).

**PageMemoryProofs.** The counters of a page that stays open only grow, and a page that was closed
never comes back. So a reading that is not ahead of the counters stays so, and one whose page a tool
has changed since stays behind them (`Behind`, `UnchangedPagesAreUntouched`); an answer under the
current counters still has its references (`Backed`, `RefusedFindsHoldReferences`), since references
to a page that was not navigated go only together with all that is remembered, or are given anew.

**LoginWatchProofs.** `WatchInv` joins the shape of the watcher's and the hook's state with three
facts: what is stored is what was saved last, a watcher that remembers any form as tried has tried it
with that, and an attempt belongs to a watcher or hook that is filling. From it
`FormTriedWithNewest` (`SavedIsTried`) and `AttemptsEndWithRun` (`NoFillAfterRun`). The first depends
on the memory being cleared after, and not before, the credential is stored. `FillInv` follows an
attempt slot by slot: the field of the user name and that of the password hold something or are
still ahead, as long as the document is the one that was extracted. From it
`ReleasedAgentIsLoggedIn` (`ReleasedOnlyWhenFilled`).

**What the proofs found in the models.** Three CASE expressions (in `UndoLog`, `DbSession` and
`RunTrace`) had arms that overlap, where TLC takes the first and TLA+ leaves the choice open; they are
disjoint now. `RefusedHoldsRef` was stated of every answer to a find and held on the instance that
was checked, but not with more tabs or runs: a find whose page is no longer the active one answers
without references (`RefusedWasGiven`, section 4), so the model records what was given and the
property speaks of the answers that gave some.

**Only model-checked.** The liveness properties `EndedIsReleased`, `CancelledWaitEnds`,
`DecisionRestartsRun`, `EventsReachReaders` and `SettlesIfConnected`: the prover does not do fairness
and ENABLED.

## 6. Not modelled, and what is left

`PROJECT.json` gives a status and a reason for every component. Without a model are:

- *sandbox*: one script in a subprocess with a timeout; shares nothing;
- *crawl and download*: sequential requests and parsing behind a rate limiter that is one lock and
  a clock;
- *documents*: conversion of one file into another;
- *other routes* and *other parts of the client*: thin requests over the components above, lists,
  rendering.

Inside the components that are modelled in part, these are inputs of the model or left out: which
call needs approval and which text a policy blocks (classification of data), how a page is
recognised as a login page and a field as a password, page scripts, the contents of messages, their
redaction and traces, API keys, the approval dialog, the trimming of undo groups with their session,
records of downloads, the generated diagnostics under `scripts/`. The agent library, the browser
driver with WebRTC, the keyring, the database engines and the operating system are external, and
appear as nondeterministic actions or as operators that say what they do.

What would be worth adding: reference definitions over bounded inputs for the pure algorithms
(approval policy, statement validation, pagination and truncation of results, link policies); a
durable map that `SessionStore` refines up to torn files, and a run slot that `RunLifecycle`
refines; a composition of `LoginWatch` with the pauses of `RunLifecycle`.
