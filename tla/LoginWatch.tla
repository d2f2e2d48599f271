----------------------------- MODULE LoginWatch -----------------------------
(***************************************************************************)
(* How login forms are noticed and filled.  Every run that uses the        *)
(* browser starts a watcher on the page (browser/login_watcher.py), which  *)
(* polls it, and looks at the page itself after each browser tool          *)
(* (runner/login_probe.py, takeover_hook.py).  Both fill the form with the *)
(* credential of the site (browser/autofill.py), a slot at a time, while   *)
(* the page changes, a person types and credentials are saved.             *)
(*                                                                         *)
(* One page and one site are modelled.  Documents are numbered and a form  *)
(* that a script puts in place counts as a new document of the same URL.   *)
(* A drain begins at any moment: that it lets tools go first is left out.  *)
(***************************************************************************)
EXTENDS Naturals, Sequences, FiniteSets, SequencesExt

CONSTANTS Runs, NoRun,
          Docs,      \* [url, form] the page may show
          First,     \* those it may show when the first run looks at it
          Extra,     \* the stored credential has an additional field
          MaxDocs,   \* bound: documents shown
          MaxSaves   \* bound: times the credential is saved

\* What is known of a field (Field, below), and of a form.
Fields == [role : STRING, text : BOOLEAN, captcha : BOOLEAN, extra : BOOLEAN]
LoginForms == [login : BOOLEAN, fields : Seq(Fields)]

ASSUME LoginWatchAssumption ==
  /\ NoRun \notin Runs /\ First \subseteq Docs
  /\ Docs \subseteq [url : STRING, form : LoginForms]
  /\ MaxDocs \in Nat \ {0} /\ MaxSaves \in Nat

VARIABLES
  doc,     \* the document: its number, URL and form
  values,  \* what its fields hold: "empty", "typed" or "filled"
  cache,   \* _signals_cache: URLs known to be no login page
  script,  \* the page's init script and exposed function
  cred,    \* the credential: version saved last, version stored (0: none)
  saving,  \* a save has written the credential but not yet cleared memories
  watch,   \* [Runs -> ...]: the run's LoginWatcher
  hook,    \* [Runs -> ...]: its after_tool_result and LoginFormProbe
  job      \* [Workers -> ...]: autofill_login_form in progress

pageVars == <<doc, values, script>>
credVars == <<cred, saving>>
vars == <<pageVars, cache, credVars, watch, hook, job>>

Urls == {d.url : d \in Docs}
Forms == {d.form : d \in Docs}
Workers == Runs \X {"watch", "hook"}
Versions == 0..MaxSaves

NoForm == [login |-> FALSE, fields |-> <<>>]
None == [n |-> 0, url |-> "", form |-> NoForm]
Infos == [n : 1..MaxDocs, url : Urls, form : Forms]
InfoOrNone == Infos \cup {None}
NoJob == [at |-> "none", info |-> None, with |-> 0, todo |-> <<>>, failed |-> FALSE]
NewWatch == [at |-> "off", url |-> "", early |-> FALSE,
             tried |-> None, with |-> 0]
NewHook == [at |-> "idle", last |-> None, miss |-> <<>>, info |-> None,
            again |-> FALSE, decision |-> "none"]

\* signature() and url: what two extractions are compared by.
SameForm(i, j) == i.n # 0 /\ j.n # 0 /\ i.url = j.url /\ i.form = j.form

-----------------------------------------------------------------------------
(* Forms                                                                   *)

\* A field: its role (_classify_role) and whether it is an input for text,
\* looks like a captcha, and fits the name of the additional field.
Field(role, text, captcha, extra) ==
  [role |-> role, text |-> text, captcha |-> captcha, extra |-> extra]

Positions(f, P(_)) == {i \in DOMAIN f.fields : P(f.fields[i])}
FirstOf(S) == IF S = {} THEN 0 ELSE CHOOSE i \in S : \A j \in S : i <= j

NeedsOtp(f) == \E i \in DOMAIN f.fields : f.fields[i].role = "otp"

\* The unknown field that is named like an account would have that role, so
\* only two of the three ways to find a user name remain.
IsUsername(x) == x.role = "username"
IsPassword(x) == x.role = "password"
MayServeAsUsername(x) == x.text /\ x.role \notin {"password", "otp"} /\ ~x.captcha
UsernameAt(f) ==
  LET named == Positions(f, IsUsername)
  IN  FirstOf(IF named # {} THEN named ELSE Positions(f, MayServeAsUsername))
PasswordAt(f) == FirstOf(Positions(f, IsPassword))

\* The additional field: by its hints or its name; else the only candidate.
IsCandidate(x) == x.role # "otp" /\ ~x.captcha
ExtraCandidates(f) == Positions(f, IsCandidate) \ {UsernameAt(f), PasswordAt(f)}
ExtraAt(f) ==
  LET fits == {i \in ExtraCandidates(f) : f.fields[i].extra}
  IN  IF fits # {} THEN FirstOf(fits)
      ELSE IF Cardinality(ExtraCandidates(f)) = 1
           THEN FirstOf(ExtraCandidates(f)) ELSE 0

\* The slots in the order they are filled, and whether one is missing.
Slot(i) == IF i = 0 THEN <<>> ELSE <<i>>
Slots(f) == Slot(UsernameAt(f)) \o Slot(PasswordAt(f))
              \o Slot(IF Extra THEN ExtraAt(f) ELSE 0)
SlotMissing(f) ==
  \/ ~NeedsOtp(f) /\ (UsernameAt(f) = 0 \/ PasswordAt(f) = 0)
  \/ Extra /\ ExtraCandidates(f) # {} /\ ExtraAt(f) = 0

TypeOK ==
  /\ doc \in Infos
  /\ values \in Seq({"empty", "typed", "filled"})
  /\ Len(values) = Len(doc.form.fields)
  /\ cache \subseteq Urls
  /\ script \in [installed : BOOLEAN, runs : BOOLEAN,
                 calls : Runs \cup {NoRun, "stale"}, mutated : BOOLEAN]
  /\ cred \in [saved : Versions, stored : Versions]
  /\ saving \in BOOLEAN
  /\ watch \in [Runs -> [at : {"off", "idle", "looking", "extracting", "filling"},
                         url : Urls \cup {""}, early : BOOLEAN,
                         tried : InfoOrNone, with : Versions]]
  /\ \A r \in Runs :
       /\ hook[r].at \in {"idle", "printing", "extracting", "filling",
                          "deciding", "paused"}
       /\ hook[r].decision \in {"none", "reset", "pause"}
       /\ hook[r].last \in InfoOrNone /\ hook[r].info \in InfoOrNone
  /\ \A w \in Workers : /\ job[w].at \in {"none", "reading", "writing"}
                        /\ job[w].info \in InfoOrNone /\ job[w].with \in Versions
                        /\ Range(job[w].todo) \subseteq
                             DOMAIN job[w].info.form.fields

Init ==
  /\ doc \in {[n |-> 1, url |-> d.url, form |-> d.form] : d \in First}
  /\ values = [i \in DOMAIN doc.form.fields |-> "empty"]
  /\ cache = {}
  /\ script = [installed |-> FALSE, runs |-> FALSE, calls |-> NoRun,
               mutated |-> FALSE]
  /\ cred = [saved |-> 0, stored |-> 0] /\ saving = FALSE
  /\ watch = [r \in Runs |-> NewWatch]
  /\ hook = [r \in Runs |-> NewHook]
  /\ job = [w \in Workers |-> NoJob]

-----------------------------------------------------------------------------
(* The page and the person                                                 *)

Shows(d) ==
  /\ doc.n < MaxDocs
  /\ doc' = [n |-> doc.n + 1, url |-> d.url, form |-> d.form]
  /\ values' = [i \in DOMAIN d.form.fields |-> "empty"]

\* An init script runs in the documents that are loaded after it was added.
Navigates(d) ==
  /\ Shows(d)
  /\ script' = [script EXCEPT !.runs = script.installed, !.mutated = FALSE]
  /\ UNCHANGED <<cache, credVars, watch, hook, job>>

\* A script of the page puts up or takes away a form.
Rebuilds(d) ==
  /\ d.url = doc.url /\ d.form # doc.form /\ Shows(d)
  /\ script' = [script EXCEPT !.mutated = script.runs]
  /\ UNCHANGED <<cache, credVars, watch, hook, job>>

\* _schedule_incremental, of the watcher whose function the page was given.
Mutated ==
  /\ script.mutated
  /\ script' = [script EXCEPT !.mutated = FALSE]
  /\ cache' = IF script.calls \in Runs THEN {} ELSE cache
  /\ UNCHANGED <<doc, values, credVars, watch, hook, job>>

Types(i) ==
  /\ i \in DOMAIN values /\ values[i] = "empty"
  /\ values' = [values EXCEPT ![i] = "typed"]
  /\ UNCHANGED <<doc, script, cache, credVars, watch, hook, job>>

-----------------------------------------------------------------------------
(* The stored credential                                                   *)

\* save() is refused when it is not complete, and fails with the keyring.
SaveBegins ==
  /\ ~saving /\ cred.saved < MaxSaves
  /\ cred' = [saved |-> cred.saved + 1, stored |-> cred.saved + 1]
  /\ saving' = TRUE
  /\ UNCHANGED <<pageVars, cache, watch, hook, job>>

\* clear_autofill_memory
ClearNothing(w) == w
Clear(w) == [w EXCEPT !.tried = None]
SaveEnds ==
  /\ saving /\ saving' = FALSE
  /\ watch' = [r \in Runs |-> Clear(watch[r])]
  /\ UNCHANGED <<pageVars, cache, cred, hook, job>>

Delete ==
  /\ cred.stored # 0
  /\ cred' = [cred EXCEPT !.stored = 0]
  /\ UNCHANGED <<pageVars, cache, saving, watch, hook, job>>

-----------------------------------------------------------------------------
(* autofill_login_form                                                     *)

\* try_autofill up to its first await: without a credential nothing is filled.
JobFor(i) ==
  IF cred.stored = 0
  THEN [NoJob EXCEPT !.info = i]
  ELSE [at |-> "reading", info |-> i, with |-> cred.stored,
        todo |-> Slots(i.form), failed |-> SlotMissing(i.form)]

\* A selector finds its element when the document has that form.
Finds(j) == doc.form = j.info.form

Dropped(j) == [j EXCEPT !.at = "reading", !.todo = Tail(@)]

\* _locator_value; a control that cannot be read counts as empty.
ReadSlot(w) ==
  LET j == job[w]
  IN  /\ j.at = "reading" /\ j.todo # <<>>
      /\ \E answers \in BOOLEAN :
           job' = [job EXCEPT ![w] =
             IF answers /\ Finds(j) /\ values[Head(j.todo)] # "empty"
             THEN Dropped(j) ELSE [j EXCEPT !.at = "writing"]]
      /\ UNCHANGED <<pageVars, cache, credVars, watch, hook>>

FailureIgnored(j) == j
FailureNoted(j) == [j EXCEPT !.failed = TRUE]

\* _fill_control
WriteSlot(w) ==
  LET j == job[w]
  IN  /\ j.at = "writing"
      /\ \/ /\ Finds(j)
            /\ values' = [values EXCEPT ![Head(j.todo)] = "filled"]
            /\ job' = [job EXCEPT ![w] = Dropped(j)]
         \/ /\ job' = [job EXCEPT ![w] = Dropped(FailureNoted(j))]
            /\ values' = values
      /\ UNCHANGED <<doc, script, cache, credVars, watch, hook>>

Done(w) == job[w].at # "writing" /\ job[w].todo = <<>>

\* decide_takeover
Decision(j) == IF j.with # 0 /\ ~j.failed /\ ~NeedsOtp(j.info.form)
               THEN "reset" ELSE "pause"

-----------------------------------------------------------------------------
(* The watcher                                                             *)

\* start(): the function stays bound to the first watcher of the page that
\* exposed it, as there is no way to take it back.
Started(r) ==
  /\ watch' = [watch EXCEPT ![r] = [NewWatch EXCEPT !.at = "idle"]]
  /\ cache' = {}
  /\ script' = [script EXCEPT !.installed = TRUE,
                              !.calls = IF @ = NoRun THEN r ELSE @]

\* _drain, by the poll or by a mutation: a conclusion of the cache ends it.
DrainBegins(r) ==
  /\ watch[r].at = "idle"
  /\ watch' = [watch EXCEPT ![r] =
       IF doc.url \in cache THEN @
       ELSE [@ EXCEPT !.at = "looking", !.url = doc.url,
                      !.early = doc.form.login]]
  /\ UNCHANGED <<pageVars, cache, credVars, hook, job>>

Idle(w) == [w EXCEPT !.at = "idle", !.url = "", !.early = FALSE]

\* _login_page_signals: what it saw is what was there before or now; the
\* conclusion is stored under the URL it began with.
DrainLooks(r) ==
  /\ watch[r].at = "looking"
  /\ \E login \in {watch[r].early, doc.form.login} :
       /\ cache' = IF login THEN cache ELSE cache \cup {watch[r].url}
       /\ watch' = [watch EXCEPT ![r] =
            IF login THEN [@ EXCEPT !.at = "extracting"] ELSE Idle(@)]
  /\ UNCHANGED <<pageVars, credVars, hook, job>>

\* The form is remembered as tried before the attempt, which reads the
\* stored credential before it waits for anything.
Remembered(w, i) == [w EXCEPT !.tried = i, !.with = cred.stored]

\* extract_login_form failed, found nothing, or found the form of the page.
DrainExtracts(r) ==
  /\ watch[r].at = "extracting"
  /\ \/ /\ watch' = [watch EXCEPT ![r] = Idle(@)] /\ job' = job
     \/ /\ ~doc.form.login
        /\ watch' = [watch EXCEPT ![r] = [Idle(@) EXCEPT !.tried = None]]
        /\ job' = job
     \/ /\ doc.form.login
        /\ IF SameForm(watch[r].tried, doc)
           THEN watch' = [watch EXCEPT ![r] = Idle(@)] /\ job' = job
           ELSE /\ watch' = [watch EXCEPT ![r] =
                               [Remembered(@, doc) EXCEPT !.at = "filling"]]
                /\ job' = [job EXCEPT ![<<r, "watch">>] = JobFor(doc)]
  /\ UNCHANGED <<pageVars, cache, credVars, hook>>

\* The attempt is over, well or not.  That the form is then reported to the
\* client, once, is left out.
DrainFilled(r) ==
  LET w == <<r, "watch">>
  IN  /\ watch[r].at = "filling" /\ Done(w)
      /\ watch' = [watch EXCEPT ![r] = Idle(@)]
      /\ job' = [job EXCEPT ![w] = NoJob]
      /\ UNCHANGED <<pageVars, cache, credVars, hook>>

-----------------------------------------------------------------------------
(* after_tool_result                                                       *)

\* ensure_watcher, then the fingerprint of the page is taken.
ToolReturns(r) ==
  /\ hook[r].at = "idle"
  /\ IF watch[r].at = "off" THEN Started(r) ELSE UNCHANGED <<watch, cache, script>>
  /\ hook' = [hook EXCEPT ![r].at = "printing"]
  /\ UNCHANGED <<doc, values, credVars, job>>

\* A page that was no login page and looks the same is not looked at again.
HasPassword(f) == \E i \in DOMAIN f.fields : f.fields[i].role = "password"
Fingerprint == <<doc.url, HasPassword(doc.form)>>
TakesFingerprint(r) ==
  /\ hook[r].at = "printing"
  /\ hook' = [hook EXCEPT ![r] =
       IF hook[r].miss = Fingerprint
       THEN [@ EXCEPT !.at = "deciding", !.info = None]
       ELSE [@ EXCEPT !.at = "extracting", !.miss = Fingerprint,
                      !.again = hook[r].last.n # 0 /\ hook[r].last.url = doc.url]]
  /\ UNCHANGED <<pageVars, cache, credVars, watch, job>>

\* The form remembered is forgotten when it is compared, and not remembered
\* again when it was the same.
Skips(r, i) == hook[r].again /\ SameForm(hook[r].last, i)
Extracts(r) ==
  /\ hook[r].at = "extracting"
  /\ \/ /\ hook' = [hook EXCEPT ![r] =
             [@ EXCEPT !.at = "deciding", !.info = None, !.again = FALSE,
                       !.last = IF hook[r].again THEN None ELSE @]]
        /\ job' = job
     \/ /\ doc.form.login /\ Skips(r, doc)
        /\ hook' = [hook EXCEPT ![r] =
             [@ EXCEPT !.at = "deciding", !.info = None, !.again = FALSE,
                       !.last = None, !.miss = <<>>]]
        /\ job' = job
     \/ /\ doc.form.login /\ ~Skips(r, doc)
        /\ hook' = [hook EXCEPT ![r] =
             [@ EXCEPT !.at = "filling", !.info = doc, !.again = FALSE,
                       !.last = doc, !.miss = <<>>]]
        /\ job' = [job EXCEPT ![<<r, "hook">>] = JobFor(doc)]
  /\ UNCHANGED <<pageVars, cache, credVars, watch>>

Filled(r) ==
  LET w == <<r, "hook">>
  IN  /\ hook[r].at = "filling" /\ Done(w)
      /\ hook' = [hook EXCEPT ![r].at = "deciding",
                              ![r].decision = Decision(job[w])]
      /\ job' = [job EXCEPT ![w] = NoJob]
      /\ UNCHANGED <<pageVars, cache, credVars, watch>>

\* detect_takeover found that a person is needed, or not.
Decides(r) ==
  /\ hook[r].at = "deciding"
  /\ \E needed \in BOOLEAN :
       hook' = [hook EXCEPT ![r] = [@ EXCEPT !.info = None, !.decision = "none",
         !.at = IF needed /\ hook[r].decision # "reset" THEN "paused" ELSE "idle"]]
  /\ UNCHANGED <<pageVars, cache, credVars, watch, job>>

Resumes(r) ==
  /\ hook[r].at = "paused"
  /\ hook' = [hook EXCEPT ![r].at = "idle"]
  /\ UNCHANGED <<pageVars, cache, credVars, watch, job>>

Uncancelled(j) == j
Cancelled(j) == NoJob

\* The run ends, in a pause or between tools: shutdown() stops its watcher,
\* wherever it is.  The next run of that name has a probe of its own.
RunEnds(r) ==
  /\ hook[r].at \in {"idle", "paused"} /\ watch[r].at # "off"
  /\ watch' = [watch EXCEPT ![r] = NewWatch]
  /\ hook' = [hook EXCEPT ![r] = NewHook]
  /\ job' = [job EXCEPT ![<<r, "watch">>] = Cancelled(@)]
  /\ script' = [script EXCEPT !.calls = IF @ = r THEN "stale" ELSE @]
  /\ UNCHANGED <<doc, values, cache, credVars>>

-----------------------------------------------------------------------------

PageStep == \/ \E d \in Docs : Navigates(d) \/ Rebuilds(d)
            \/ Mutated \/ \E i \in DOMAIN values : Types(i)
CredentialStep == SaveBegins \/ SaveEnds \/ Delete
FillStep(w) == ReadSlot(w) \/ WriteSlot(w)
WatchStep(r) == DrainBegins(r) \/ DrainLooks(r) \/ DrainExtracts(r) \/ DrainFilled(r)
HookStep(r) == \/ ToolReturns(r) \/ TakesFingerprint(r) \/ Extracts(r)
               \/ Filled(r) \/ Decides(r) \/ Resumes(r) \/ RunEnds(r)

Next == \/ PageStep \/ CredentialStep
        \/ \E w \in Workers : FillStep(w)
        \/ \E r \in Runs : WatchStep(r) \/ HookStep(r)
Spec == Init /\ [][Next]_vars

-----------------------------------------------------------------------------

(* A credential that was saved is tried on the form that is showing          *)
(* (clear_autofill_memory): a watcher that takes that form for done has      *)
(* tried it with the newest one, however the save and an attempt with the    *)
(* older one overlapped.                                                     *)
SavedIsTried ==
  \A r \in Runs :
    ~saving /\ watch[r].at # "off" /\ SameForm(watch[r].tried, doc)
      /\ cred.stored # 0
    => watch[r].with = cred.saved

(* The agent is let go on a login page only if its user name and password    *)
(* hold something, or the page has changed since it was looked at: not when  *)
(* a field could not be filled, by this attempt or because another attempt   *)
(* or the person was at it at the same time (decide_takeover).               *)
ReleasedOnlyWhenFilled ==
  \A r \in Runs :
    hook[r].at = "deciding" /\ hook[r].decision = "reset"
      /\ hook[r].info.n = doc.n
    => /\ UsernameAt(doc.form) # 0 /\ values[UsernameAt(doc.form)] # "empty"
       /\ PasswordAt(doc.form) # 0 /\ values[PasswordAt(doc.form)] # "empty"

(* Nobody fills a form for a run that has ended (LoginWatcher.stop): the     *)
(* poll, the mutations and the pauses of the run leave no attempt behind     *)
(* that goes on in the page of the next one.                                 *)
NoFillAfterRun ==
  \A r \in Runs : /\ job[<<r, "watch">>].at # "none" => watch[r].at = "filling"
                  /\ job[<<r, "hook">>].at # "none" => hook[r].at = "filling"

(* Codes are the person's: no attempt, of any form and at any point of its   *)
(* life, puts a credential into a one-time code or a captcha (autofill.py).  *)
CodesAreLeftAlone ==
  \A i \in DOMAIN values :
    values[i] = "filled" => doc.form.fields[i].role # "otp" /\ ~doc.form.fields[i].captcha

(* What the code does not give.  login_watcher.py:176: a conclusion is taken *)
(* back when the page changes.  It is not in the document the watcher was    *)
(* started on, nor after the run whose watcher exposed the function.         *)
CacheIsFresh ==
  \A r \in Runs : watch[r].at = "idle" /\ doc.url \in cache /\ doc.form.login
                  => script.mutated

(* Nor this: autofill.py says that a value the user has typed is not filled  *)
(* over; it is when it was typed between the look and the fill.              *)
TypedIsKept ==
  [][\A i \in DOMAIN values :
       values[i] = "typed" /\ doc' = doc => values'[i] = "typed"]_vars

(* Nor this: login_probe.py:152 says that a form that has not changed is not *)
(* filled again.  It is skipped once and then not remembered as known, so    *)
(* every other tool fills it.                                                *)
SkippedIsRemembered ==
  [][\A r \in Runs :
       hook[r].at = "extracting" /\ hook'[r].at = "deciding"
         /\ hook'[r].miss = <<>>
       => SameForm(hook'[r].last, doc)]_vars
=============================================================================
