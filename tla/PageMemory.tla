----------------------------- MODULE PageMemory -----------------------------
(***************************************************************************)
(* What the browser tools remember about pages on behalf of the model:     *)
(* element references (browser/refs.py), the revision counters of the      *)
(* manager, the answers already given to browser_find and browser_read     *)
(* (runtime/middleware), and the policies that block or redirect a call    *)
(* before it runs.  Runs share the browser; the calls of one run follow    *)
(* each other.  Navigations, actions, people and the pages themselves      *)
(* change what was remembered.                                             *)
(*                                                                         *)
(* A page is a number, never used twice: the code identifies it by         *)
(* id(page).  The fields gave, changed and same are not in the program:    *)
(* they record what an answer was, and what has happened to a reading or   *)
(* an element since.                                                       *)
(***************************************************************************)
EXTENDS Naturals, FiniteSets, Sequences, SequencesExt, FiniteSetsExt

CONSTANTS Runs,
          Profiles,   \* bound: what each run may do in a behaviour, a set of
                      \* functions [Runs -> SUBSET Uses]
          Urls,
          Queries,    \* [scope, role, text] of browser_find; "" stands for empty
          Contained,  \* pairs of texts, the first a part of the second
          NoQuery,
          MaxPages,   \* bound: pages ever opened
          MaxTabs,    \* bound: pages open at a time
          MaxCount,   \* bound: what is counted of all pages together
          MaxRounds,  \* rounds remembered before all are forgotten (1000)
          Strict         \* what the fields that record what happened heed
                         \* although the manager does not count it: "filter",
                         \* "tab", "failed" (changed), "stale" (same)

ASSUME PageMemoryAssumption == MaxPages \in Nat

VARIABLES
  tabs,   \* open pages, in order (TabManager._tabs)
  active, \* TabManager._active, from 1
  page,   \* [Pages -> ...]: address, and the manager's counters for it
  born,   \* pages opened so far
  refs,   \* the registry of element references
  memo,   \* [Runs -> ...]: RoundState.finds, page_reads, form_reads
  blocked, \* [Runs -> BOOLEAN]: browser_read was blocked in this round
  uses,   \* the profile of this behaviour
  call    \* [Runs -> ...]: the tool call in progress

vars == <<tabs, active, page, born, refs, memo, blocked, uses, call>>

Uses == {"find", "read", "form", "act", "switch"}
Pages == 1..MaxPages
PageOrNone == 0..MaxPages
Counts == 0..MaxCount

FindType == [page : PageOrNone, url : Urls, nav : Counts, rev : Counts,
             query : Queries, gave : BOOLEAN]
ReadType == [page : PageOrNone, nav : Counts, rev : Counts, changed : BOOLEAN]
NoRead == [page |-> 0, nav |-> 0, rev |-> 0, changed |-> FALSE]
RefType == [page : Pages, url : Urls, run : Runs, query : Queries,
            same : BOOLEAN]
Idle == [at |-> "idle", page |-> 0, query |-> NoQuery, keys |-> NoRead]

TypeOK ==
  /\ tabs \in Seq(Pages) /\ Len(tabs) <= MaxTabs
  /\ active \in 0..MaxTabs /\ active <= Len(tabs) /\ (tabs # <<>> => active > 0)
  /\ page \in [Pages -> [url : Urls, nav : Counts, rev : Counts]]
  /\ born \in 0..MaxPages
  /\ refs \subseteq RefType
  /\ \A r \in Runs : /\ memo[r].finds \subseteq FindType
                     /\ memo[r].read \in ReadType /\ memo[r].form \in ReadType
  /\ blocked \in [Runs -> BOOLEAN] /\ uses \in [Runs -> SUBSET Uses]
  /\ call \in [Runs -> [at : {"idle", "find", "read", "form", "act", "filter",
                              "navigate", "extract"},
                        page : PageOrNone, query : Queries \cup {NoQuery},
                        keys : ReadType]]

NoMemo == [finds |-> {}, read |-> NoRead, form |-> NoRead]

Init ==
  /\ tabs = <<>> /\ active = 0 /\ born = 0 /\ refs = {}
  /\ page \in {[p \in Pages |-> [url |-> u, nav |-> 0, rev |-> 0]] : u \in Urls}
  /\ memo = [r \in Runs |-> NoMemo]
  /\ blocked = [r \in Runs |-> FALSE] /\ uses \in Profiles
  /\ call = [r \in Runs |-> Idle]

-----------------------------------------------------------------------------
(* Pages and tabs                                                          *)

\* manager.page(), as far as tabs go; 0 without a browser.
Active == IF tabs = <<>> THEN 0 ELSE tabs[active]
IsOpen(p) == \E i \in DOMAIN tabs : tabs[i] = p

Forgotten == [p \in Pages |-> [page[p] EXCEPT !.nav = 0, !.rev = 0]]

\* launch() ends with reset_state: all references and counters are dropped.
Launch ==
  /\ tabs = <<>> /\ born < MaxPages
  /\ born' = born + 1 /\ tabs' = <<born + 1>> /\ active' = 1
  /\ \E u \in Urls : page' = [Forgotten EXCEPT ![born + 1].url = u]
  /\ refs' = {}
  /\ UNCHANGED <<memo, blocked, uses, call>>

\* A link or the person opens another tab; the active one stays.
TabOpens ==
  /\ tabs # <<>> /\ Len(tabs) < MaxTabs /\ born < MaxPages
  /\ born' = born + 1 /\ tabs' = Append(tabs, born + 1)
  /\ UNCHANGED <<active, page, refs, memo, blocked, uses, call>>

\* The tab that is active is only clipped to the tabs there are.
Clipped(a, n) == IF a > n THEN n ELSE a

\* _clear_browser_refs: the browser, or its first page, is gone.
BrowserGone ==
  /\ tabs # <<>>
  /\ tabs' = <<>> /\ active' = 0 /\ page' = Forgotten /\ refs' = {}
  /\ UNCHANGED <<born, memo, blocked, uses, call>>

\* Another tab is closed.  The index of the active one is only clipped: the
\* tab after it becomes active when an earlier one goes.
TabCloses(i) ==
  /\ i \in 2..Len(tabs)
  /\ tabs' = RemoveAt(tabs, i)
  /\ active' = Clipped(active, Len(tabs) - 1)
  /\ UNCHANGED <<page, born, refs, memo, blocked, uses, call>>

\* A page renders itself anew, or moves: timers, scripts, a person.
Disturbed(p) == {[f EXCEPT !.same = @ /\ ~("stale" \in Strict /\ f.page = p)] :
                   f \in refs}
PageChanges(p) ==
  /\ IsOpen(p)
  /\ \E u \in Urls : page' = [page EXCEPT ![p].url = u]
  /\ refs' = Disturbed(p)
  /\ UNCHANGED <<tabs, active, born, memo, blocked, uses, call>>

-----------------------------------------------------------------------------
(* Records                                                                 *)

Counted == MapThenSumSet(LAMBDA p : page[p].nav + page[p].rev, Pages)

\* What is remembered of a page that a tool has acted upon is out of date.
Outdated(k, p) == [k EXCEPT !.changed = @ \/ k.page = p]
MemoTouched(p) == [r \in Runs |->
  [memo[r] EXCEPT !.read = Outdated(@, p), !.form = Outdated(@, p)]]
CallsTouched(p) == [r \in Runs |-> [call[r] EXCEPT !.keys = Outdated(@, p)]]
\* The page whose memory is out of date, 0 for none.
TouchedBy(kind, p) == IF kind \in Strict THEN p ELSE 0
TouchedByTool(p) == IF p = Active THEN p ELSE TouchedBy("tab", p)

\* record_action after a tool that counts as changing content, and
\* record_navigate: both are about whatever page is active by now.
ActionIgnored(pg, a) == pg
ActionRecorded(pg, a) ==
  IF a = 0 THEN pg ELSE [pg EXCEPT ![a].rev = @ + 1]
NavigationKeepingCount(pg, a) == pg
NavigationRecorded(pg, a) ==
  IF a = 0 THEN pg ELSE [pg EXCEPT ![a].nav = @ + 1]

Keys(a) == [page |-> a, nav |-> page[a].nav, rev |-> page[a].rev,
            changed |-> FALSE]
SameKeys(k, m) == k.page = m.page /\ k.nav = m.nav /\ k.rev = m.rev

-----------------------------------------------------------------------------
(* browser_find                                                            *)

SomethingAsked(q) == q.text # "" \/ q.role # ""

\* _is_repeat_find: the same words in any scope on the same content; or, on
\* any content, the same role or a text that contains the other.
Overlaps(q, f) ==
  \/ q.role # "" /\ q.role = f.role
  \/ /\ q.text # "" /\ f.text # ""
     /\ q.text = f.text \/ <<q.text, f.text>> \in Contained
                        \/ <<f.text, q.text>> \in Contained
Repeats(f, q, a) ==
  /\ f.page = a /\ f.nav = page[a].nav /\ f.url = page[a].url
  /\ \/ /\ f.rev = page[a].rev
        /\ f.query.text = q.text /\ f.query.role = q.role
     \/ Overlaps(q, f.query)
IsRepeatFind(r, q) ==
  /\ Active # 0 /\ SomethingAsked(q)
  /\ \E f \in memo[r].finds : Repeats(f, q, Active)

\* A find that repeats is refused, which changes nothing.
FindStarts(r, q) ==
  /\ call[r].at = "idle" /\ ~IsRepeatFind(r, q) /\ Active # 0
  /\ call' = [call EXCEPT ![r] = [Idle EXCEPT !.at = "find", !.page = Active,
                                              !.query = q]]
  /\ UNCHANGED <<tabs, active, page, born, refs, memo, blocked, uses>>

\* _confirm_one: a candidate's selector is resolved and the element asked if
\* it can be used; an error on the way leaves it in doubt.
Confirmed(el) ==
  CASE ~el.resolves -> "unverified"
    [] el.resolves /\ el.fault = "detached" -> "blocked"
    [] el.resolves /\ el.fault = "other" -> "unverified"
    [] OTHER -> IF el.operable THEN "usable" ELSE "blocked"

Candidates == [resolves : BOOLEAN, operable : BOOLEAN, strong : BOOLEAN,
               fault : {"no", "detached", "other"}]

\* locate_elements: what a scan can come to, as far as find heeds it: whether
\* some candidate is usable, and whether one of those has a strong locator.
\* A scan that fails finds nothing.
ScanResults ==
  LET Usable(els) == {el \in els : Confirmed(el) = "usable"}
  IN  {[usable |-> Usable(els) # {}, strong |-> \E el \in Usable(els) : el.strong] :
         els \in {{}} \cup {{el} : el \in Candidates}}

\* The scan returned; if it found nothing usable that is remembered but never
\* counts.  References are minted on the page that was scanned, for the usable
\* elements with a strong locator; the record names the page active by now.
FindEnds(r) ==
  /\ call[r].at = "find" /\ IsOpen(call[r].page)
  /\ \E scan \in ScanResults :
       LET p == call[r].page
           q == call[r].query
           known == {s \in Runs : memo[s].finds # {}}
           kept == IF Cardinality(known) > MaxRounds THEN {} ELSE memo[r].finds
           found == [page |-> Active, url |-> page[Active].url,
                     nav |-> page[Active].nav, rev |-> page[Active].rev,
                     query |-> q, gave |-> scan.strong /\ p = Active]
       IN  /\ refs' = IF scan.strong
                      THEN refs \cup {[page |-> p, url |-> page[p].url, run |-> r,
                                       query |-> q, same |-> TRUE]}
                      ELSE refs
           /\ memo' = [s \in Runs |->
                IF s = r /\ scan.usable THEN [memo[s] EXCEPT !.finds = kept \cup {found}]
                ELSE IF Cardinality(known) > MaxRounds
                     THEN [memo[s] EXCEPT !.finds = {}] ELSE memo[s]]
  /\ call' = [call EXCEPT ![r] = Idle]
  /\ UNCHANGED <<tabs, active, page, born, blocked, uses>>

-----------------------------------------------------------------------------
(* browser_read                                                            *)

Shapes == {"page", "form", "js", "selector", "html", "links"}
Policies == {"filter", "probe", "link", "document"}

\* The policies that may be the first of the registry to object to a call,
\* depending on the script, on the filter components of the page (looked up
\* at most every 30 s) and on what the task looks like.
MayObject(s, p) ==
  CASE p = "probe"    -> s \in {"js", "html"}
    [] p = "filter"   -> s \in {"js", "selector", "html", "links"}
    [] p = "link"     -> s = "links"
    [] p = "document" -> s \in {"page", "form", "js", "selector"} /\ Active # 0

\* The first block of browser_read in a round explains or redirects, whichever
\* policy it is; the later ones say not to call it again.
FirstVerdict(p) == CASE p = "probe"  -> "ui-probe-block"
                     [] p = "filter" -> "filter-block"
                     [] OTHER        -> "switch"
LaterVerdict(p) == CASE p = "probe"  -> "ui-probe-repeat"
                     [] p = "filter" -> "filter-repeat"
                     [] p = "link"   -> "link-repeat"
                     [] OTHER        -> "repeat"
Verdict(r, p) == IF blocked[r] THEN LaterVerdict(p) ELSE FirstVerdict(p)

\* execute_switch: everything it does not know runs the replacement.
Redirects(v) == v \in {"switch", "repeat"}

Unchanged(r) == \/ SameKeys(memo[r].read, Keys(Active))
                \/ SameKeys(memo[r].form, Keys(Active))

Blocked(r, s, p) ==
  /\ call[r].at = "idle" /\ MayObject(s, p)
  /\ blocked' = [blocked EXCEPT ![r] = TRUE]
  /\ call' = IF Redirects(Verdict(r, p)) /\ Active # 0
             THEN [call EXCEPT ![r] = [Idle EXCEPT !.at = "extract",
                                                   !.page = Active]]
             ELSE call
  /\ UNCHANGED <<tabs, active, page, born, refs, memo, uses>>

\* browser_extract_links follows the pagination of the page; when it finds
\* nothing the original call runs after all.
ExtractEnds(r) ==
  /\ call[r].at = "extract" /\ IsOpen(call[r].page)
  /\ refs' = Disturbed(call[r].page)
  /\ \/ call' = [call EXCEPT ![r] = Idle]
     \/ /\ ~Unchanged(r)
        /\ call' = [call EXCEPT ![r] = [Idle EXCEPT !.at = "read",
                        !.page = Active, !.keys = Keys(Active)]]
  /\ UNCHANGED <<tabs, active, page, born, memo, blocked, uses>>

\* A page that was read before, or its form, is not read again while the
\* counters are the same.  They are taken before the page is read, those of a form after.
ReadStarts(r) ==
  /\ call[r].at = "idle" /\ Active # 0 /\ ~Unchanged(r)
  /\ call' = [call EXCEPT ![r] = [Idle EXCEPT !.at = "read", !.page = Active,
                                              !.keys = Keys(Active)]]
  /\ UNCHANGED <<tabs, active, page, born, refs, memo, blocked, uses>>

ReadEnds(r) ==
  /\ call[r].at = "read" /\ IsOpen(call[r].page)
  /\ memo' = [memo EXCEPT ![r].read = call[r].keys]
  /\ call' = [call EXCEPT ![r] = Idle]
  /\ UNCHANGED <<tabs, active, page, born, refs, blocked, uses>>

FormStarts(r) ==
  /\ call[r].at = "idle" /\ Active # 0
  /\ call' = [call EXCEPT ![r] = [Idle EXCEPT !.at = "form", !.page = Active]]
  /\ UNCHANGED <<tabs, active, page, born, refs, memo, blocked, uses>>

FormEnds(r) ==
  /\ call[r].at = "form" /\ IsOpen(call[r].page)
  /\ memo' = [memo EXCEPT ![r].form = Keys(Active)]
  /\ call' = [call EXCEPT ![r] = Idle]
  /\ UNCHANGED <<tabs, active, page, born, refs, blocked, uses>>

-----------------------------------------------------------------------------
(* Actions and navigations                                                 *)

Acting(r, p) == call' = [call EXCEPT ![r] = [Idle EXCEPT !.at = "act", !.page = p]]

\* click, fill, select_option or press_key on the active page.
ActStarts(r) ==
  /\ call[r].at = "idle" /\ Active # 0
  /\ Acting(r, Active)
  /\ UNCHANGED <<tabs, active, page, born, refs, memo, blocked, uses>>

\* The same by reference: _resolve_ref_target checks page, address, element.
\* One that was rendered anew may still be accepted, by its tag or because
\* its selector finds one element; a stale reference changes nothing.
ActsByRef(r, f) ==
  /\ call[r].at = "idle" /\ Active # 0 /\ f \in refs
  /\ IsOpen(f.page) /\ page[f.page].url = f.url
  /\ Acting(r, f.page)
  /\ UNCHANGED <<tabs, active, page, born, refs, memo, blocked, uses>>

\* The action has happened and is recorded; it may have moved the page.
ActSucceeds(r) ==
  LET p == call[r].page
  IN  /\ call[r].at = "act" /\ IsOpen(p) /\ Counted < MaxCount
      /\ \E u \in Urls :
           page' = ActionRecorded([page EXCEPT ![p].url = u], Active)
      /\ refs' = Disturbed(p)
      /\ memo' = MemoTouched(TouchedByTool(p))
      /\ call' = [CallsTouched(TouchedByTool(p)) EXCEPT ![r] = Idle]
  /\ UNCHANGED <<tabs, active, born, blocked, uses>>

\* It failed or timed out: nothing is counted, whatever it has done.
CallFails(r) ==
  /\ call[r].at # "idle"
  /\ LET p == call[r].page
         acts == call[r].at \in {"act", "navigate"}
         hit == IF acts THEN TouchedBy("failed", p) ELSE 0
     IN  /\ refs' = IF acts THEN Disturbed(p) ELSE refs
         /\ memo' = MemoTouched(hit)
         /\ call' = [CallsTouched(hit) EXCEPT ![r] = Idle]
  /\ UNCHANGED <<tabs, active, page, born, blocked, uses>>

\* browser_apply_filter is no tool that counts as changing content.
Filter(r) ==
  /\ call[r].at = "idle" /\ Active # 0
  /\ refs' = Disturbed(Active)
  /\ memo' = MemoTouched(TouchedBy("filter", Active))
  /\ call' = CallsTouched(TouchedBy("filter", Active))
  /\ UNCHANGED <<tabs, active, page, born, blocked, uses>>

\* browser_navigate, go_back, go_forward.
NavigateStarts(r) ==
  /\ call[r].at = "idle" /\ Active # 0
  /\ call' = [call EXCEPT ![r] = [Idle EXCEPT !.at = "navigate",
                                              !.page = Active]]
  /\ UNCHANGED <<tabs, active, page, born, refs, memo, blocked, uses>>

NavigateEnds(r) ==
  LET p == call[r].page
  IN  /\ call[r].at = "navigate" /\ IsOpen(p)
      /\ Counted + 1 < MaxCount
      /\ \E u \in Urls :
           page' = ActionRecorded(NavigationRecorded(
                     [page EXCEPT ![p].url = u], Active), Active)
      /\ refs' = {f \in Disturbed(p) : f.page # Active}
      /\ memo' = MemoTouched(TouchedByTool(p))
      /\ call' = [CallsTouched(TouchedByTool(p)) EXCEPT ![r] = Idle]
      /\ UNCHANGED <<tabs, active, born, blocked, uses>>

SwitchTab(r, i) ==
  /\ call[r].at = "idle" /\ i \in DOMAIN tabs /\ i # active
  /\ active' = i
  /\ UNCHANGED <<tabs, page, born, refs, memo, blocked, uses, call>>

-----------------------------------------------------------------------------
(* Rounds and runs                                                         *)

\* After a pause the run goes on in a new round.
NewRound(r) ==
  /\ call[r].at = "idle"
  /\ blocked' = [blocked EXCEPT ![r] = FALSE]
  /\ UNCHANGED <<tabs, active, page, born, refs, memo, uses, call>>

\* clear_run, at the end of a run; the id then serves as that of the next one.
RunEnds(r) ==
  /\ call[r].at = "idle"
  /\ memo' = [memo EXCEPT ![r] = NoMemo]
  /\ blocked' = [blocked EXCEPT ![r] = FALSE]
  /\ refs' = {f \in refs : f.run # r}
  /\ UNCHANGED <<tabs, active, page, born, uses, call>>

PageStep == Launch \/ TabOpens \/ BrowserGone
            \/ \E i \in DOMAIN tabs : TabCloses(i)
            \/ \E p \in Pages : PageChanges(p)
FindStep(r) == (\E q \in Queries : FindStarts(r, q)) \/ FindEnds(r)
ReadStep(r) == \/ \E s \in Shapes, p \in Policies : Blocked(r, s, p)
               \/ ExtractEnds(r) \/ ReadStarts(r) \/ ReadEnds(r)
FormStep(r) == FormStarts(r) \/ FormEnds(r)
ActStep(r) == \/ ActStarts(r) \/ ActSucceeds(r) \/ Filter(r)
              \/ \E f \in refs : ActsByRef(r, f)
              \/ NavigateStarts(r) \/ NavigateEnds(r)
RunStep(r) == \/ "find" \in uses[r] /\ FindStep(r)
              \/ "read" \in uses[r] /\ ReadStep(r)
              \/ "form" \in uses[r] /\ FormStep(r)
              \/ "switch" \in uses[r] /\ \E i \in DOMAIN tabs : SwitchTab(r, i)
              \/ "act" \in uses[r] /\ ActStep(r)
              \/ CallFails(r) \/ NewRound(r) \/ RunEnds(r)

Next == PageStep \/ \E r \in Runs : RunStep(r)
Spec == Init /\ [][Next]_vars

-----------------------------------------------------------------------------

(* A run whose browser_find is refused, because the same was answered with a *)
(* reference on this page, still holds one by an answer that overlaps the    *)
(* query, on this very page (find_repeat.py, browser/refs.py): navigations,  *)
(* relaunches, closed and switched tabs, other runs and the cap on what is   *)
(* remembered never leave it with neither the elements nor the way to ask.   *)
RefusedHoldsRef ==
  \A r \in Runs, q \in Queries :
    Active # 0 /\ SomethingAsked(q)
      /\ (\E a \in memo[r].finds : a.gave /\ Repeats(a, q, Active))
    => \E f \in refs : /\ f.run = r /\ f.page = Active
                       /\ Overlaps(q, f.query)

(* A run is told that the page is as it has read it only if no tool of any   *)
(* run has reported success in acting on that page, or in navigating it,     *)
(* since that reading began (read.py, manager.record_action).                *)
UnchangedIsUntouched ==
  \A r \in Runs : Active # 0 =>
    /\ SameKeys(memo[r].read, Keys(Active)) => ~memo[r].read.changed
    /\ SameKeys(memo[r].form, Keys(Active)) => ~memo[r].form.changed

(* What the code does not give: an answer that counts on the active page     *)
(* gave no reference to an element of it when a tab was switched, or closed, *)
(* while its own page was scanned, and when what it found has no strong      *)
(* locator.                                                                  *)
RefusedWasGiven ==
  \A r \in Runs, q \in Queries :
    call[r].at = "idle" /\ IsRepeatFind(r, q) =>
      \E f \in refs : f.run = r /\ f.page = Active

(* Nor this.  ref_verify.py:50 tells the model to call    *)
(* browser_find again when a reference is stale; when the page has rendered  *)
(* the element anew, without a navigation, that very query is refused.       *)
StaleRefCanBeRefreshed ==
  \A r \in Runs : \A f \in refs :
    call[r].at = "idle" /\ f.run = r /\ f.page = Active /\ ~f.same
    => ~IsRepeatFind(r, f.query)

(* Nor this: registry.py:37 says that a repeated call runs nothing; the      *)
(* verdict "repeat" of the document policy runs the replacement once more.   *)
RepeatRunsNothing ==
  [][\A r \in Runs, s \in Shapes :
       Blocked(r, s, "document") /\ blocked[r] => UNCHANGED call]_vars
=============================================================================
