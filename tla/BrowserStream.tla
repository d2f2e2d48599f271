--------------------------- MODULE BrowserStream ---------------------------
(***************************************************************************)
(* The viewers of the browser (api/routes/browser_stream.py) and the       *)
(* browser they share.  A page has one screencast and the manager knows    *)
(* one connection; a module-wide lock serialises whoever starts or stops a *)
(* screencast.  A connection is worked on by its WebSocket handler and by  *)
(* one helper: a navigation that restarts the screencast, or the callback  *)
(* of a failed ICE transport.                                              *)
(***************************************************************************)
EXTENDS BrowserTarget

CONSTANTS Conns,   \* viewers (WebSocket connections)
          NoConn

ASSUME BrowserStreamAssumption == NoConn \notin Conns /\ MaxPages \in Nat

VARIABLES
  conn,   \* the connection the manager knows (_screencast_connection)
  view,   \* [Conns -> ...]: each connection and its two tasks
  sink    \* [Pages -> ...]: whom the page of a launch sends frames to

viewersVars == <<targetVars, conn, view, sink>>

Tasks == {"ws", "helper"}

ViewType ==
  [ws : {"off", "waiting", "starting", "attaching", "viewing", "recovering",
         "launching", "closing", "stopping"},
   helper : {"off", "starting", "attaching", "closing", "stopping"},
   page : 0..MaxPages,   \* _page
   aim : 0..MaxPages,    \* the page the helper captured
   track : BOOLEAN,      \* track is not None
   owns : BOOLEAN,       \* owns_screencast of the stop in progress
   clears : BOOLEAN,     \* the helper's stop is a close()
   closed : BOOLEAN,     \* target_closed
   retried : BOOLEAN]

NewView ==
  [ws |-> "off", helper |-> "off", page |-> 0, aim |-> 0, track |-> FALSE,
   owns |-> FALSE, clears |-> FALSE, closed |-> FALSE, retried |-> FALSE]

ViewersTypeOK == /\ TargetTypeOK
                 /\ conn \in Conns \cup {NoConn}
                 /\ view \in [Conns -> ViewType]
                 /\ sink \in [Pages -> Conns \cup {NoConn}]

ViewersInit == /\ TargetInit
               /\ conn = NoConn
               /\ view = [c \in Conns |-> NewView]
               /\ sink = [l \in Pages |-> NoConn]

Holds(c, k) == view[c][k] \in {"attaching", "stopping"}
LockFree == \A c \in Conns, k \in Tasks : ~Holds(c, k)

Moves(c, v) == view' = [view EXCEPT ![c] = v]

\* _clear_browser_refs
Forgotten == page' = 0 /\ conn' = NoConn

\* manager.page() returns p; unless a launch is in progress it forgets a
\* page whose browser, context or page it finds dead.
Looks(p) ==
  \/ /\ ~launching /\ page # 0 /\ alive[page] /\ p = page
     /\ UNCHANGED <<page, conn>>
  \/ /\ ~launching /\ p = 0 /\ Forgotten
  \/ /\ launching /\ p = 0 /\ UNCHANGED <<page, conn>>

-----------------------------------------------------------------------------
(* start()                                                                 *)

Connect(c) ==
  /\ view[c].ws = "off" /\ view[c].helper = "off"
  /\ Moves(c, [NewView EXCEPT !.ws = "waiting"])
  /\ UNCHANGED <<targetVars, conn, sink>>

\* _wait_for_page: polls page() for a bounded time.
PageFound(c) ==
  /\ view[c].ws = "waiting"
  /\ \E p \in 0..MaxPages :
       /\ Looks(p)
       /\ IF p # 0
          THEN Moves(c, [view[c] EXCEPT !.ws = "starting", !.page = p,
                                        !.track = TRUE])
          ELSE Moves(c, [view[c] EXCEPT !.ws = "closing"])
  /\ UNCHANGED <<launching, newest, alive, sink>>

PageOf(c, k) == IF k = "ws" THEN view[c].page ELSE view[c].aim

\* The lock is taken and whatever screencast the page has is stopped.  A
\* restart first looks whether the connection is still the registered one.
Attach(c, k) ==
  /\ view[c][k] = "starting" /\ LockFree
  /\ IF k = "ws" \/ conn = c
     THEN /\ Moves(c, [view[c] EXCEPT ![k] = "attaching"])
          /\ sink' = [sink EXCEPT ![PageOf(c, k)] = NoConn]
     ELSE /\ Moves(c, [view[c] EXCEPT ![k] = "off"])
          /\ sink' = sink
  /\ UNCHANGED <<targetVars, conn>>

\* The screencast runs.  Between releasing the lock and registering the
\* connection start() does not wait.
Attached(c, k) ==
  /\ view[c][k] = "attaching" /\ alive[PageOf(c, k)]
  /\ sink' = [sink EXCEPT ![PageOf(c, k)] = c]
  /\ IF k = "ws"
     THEN conn' = c /\ Moves(c, [view[c] EXCEPT !.ws = "viewing"])
     ELSE conn' = conn /\ Moves(c, [view[c] EXCEPT !.helper = "off"])
  /\ UNCHANGED targetVars

\* screencast.start raised.  A closed target makes the manager forget its
\* browser, whichever that is by now.
AttachFails(c, k) ==
  /\ view[c][k] = "attaching"
  /\ LET closed == ~alive[PageOf(c, k)]
     IN  /\ IF closed THEN Forgotten ELSE UNCHANGED <<page, conn>>
         /\ IF k = "ws"
            THEN Moves(c, [view[c] EXCEPT !.ws = "closing", !.closed = closed])
            ELSE Moves(c, [view[c] EXCEPT !.clears = TRUE,
                             !.helper = IF closed THEN "closing" ELSE "off"])
  /\ UNCHANGED <<launching, newest, alive, sink>>

-----------------------------------------------------------------------------
(* The helper: ensure_screencast_active and the ICE callback               *)

\* A navigation restarts the screencast of the registered connection, for
\* the page that is active now; without one the connection is closed.
Restart(c) ==
  /\ view[c].helper = "off"
  /\ conn = c /\ view[c].track
  /\ \E p \in 0..MaxPages :
       /\ Looks(p)
       /\ IF p # 0
          THEN Moves(c, [view[c] EXCEPT !.helper = "starting", !.page = p,
                                        !.aim = p])
          ELSE Moves(c, [view[c] EXCEPT !.helper = "closing", !.clears = TRUE])
  /\ UNCHANGED <<launching, newest, alive, sink>>

\* iceConnectionState "failed": stop(), which leaves the registration.
IceFails(c) ==
  /\ view[c].ws = "viewing" /\ view[c].helper = "off" /\ view[c].track
  /\ Moves(c, [view[c] EXCEPT !.helper = "closing", !.clears = FALSE])
  /\ UNCHANGED <<targetVars, conn, sink>>

-----------------------------------------------------------------------------
(* stop(), close() and the end of the WebSocket handler                    *)

\* The WebSocket was lost, or the handler failed.
Disconnect(c) ==
  /\ view[c].ws = "viewing"
  /\ Moves(c, [view[c] EXCEPT !.ws = "closing", !.retried = TRUE])
  /\ UNCHANGED <<targetVars, conn, sink>>

OwnsAnyway(c) == conn # NoConn
Owns(c) == conn = c

\* stop() takes the lock and only then reads whether the screencast is its own.
Stop(c, k) ==
  /\ view[c][k] = "closing" /\ LockFree
  /\ Moves(c, [view[c] EXCEPT ![k] = "stopping", !.owns = Owns(c),
                              !.track = FALSE])
  /\ UNCHANGED <<targetVars, conn, sink>>

\* Where the handler goes once its connection is closed: it gives up, or
\* tries once more after a recovery of the browser.
AfterClose(v) ==
  IF v.closed /\ ~v.retried THEN "recovering" ELSE "off"

Stopped(c, k) ==
  /\ view[c][k] = "stopping"
  /\ sink' = IF view[c].owns /\ view[c].page # 0
             THEN [sink EXCEPT ![view[c].page] = NoConn] ELSE sink
  /\ conn' = IF conn = c /\ (k = "ws" \/ view[c].clears) THEN NoConn ELSE conn
  /\ Moves(c, [view[c] EXCEPT ![k] = IF k = "ws" THEN AfterClose(view[c]) ELSE "off",
                              !.page = 0, !.owns = FALSE])
  /\ UNCHANGED targetVars

-----------------------------------------------------------------------------
(* _recover_browser_target(), one at a time                                *)

Retry(v) == [v EXCEPT !.ws = "waiting", !.closed = FALSE, !.retried = TRUE]
GivesUp(v) == [v EXCEPT !.ws = "off"]

\* A browser that is there again is used; otherwise the viewer launches one,
\* unless a launch is in progress, which counts as a failed recovery.
Recover(c) ==
  /\ view[c].ws = "recovering"
  /\ \A d \in Conns : view[d].ws # "launching"
  /\ \E p \in 0..MaxPages :
       \/ /\ p # 0 /\ Looks(p) /\ Moves(c, Retry(view[c]))
          /\ UNCHANGED <<launching, newest, alive>>
       \/ /\ p = 0 /\ LaunchStarts /\ conn' = NoConn
          /\ Moves(c, [view[c] EXCEPT !.ws = "launching"])
       \/ /\ p = 0 /\ launching /\ Moves(c, GivesUp(view[c]))
          /\ UNCHANGED <<targetVars, conn>>
  /\ UNCHANGED sink

\* launch() returned, whatever has become of the browser since.
Recovered(c) ==
  /\ view[c].ws = "launching" /\ ~launching
  /\ \E p \in 0..MaxPages :
       /\ Looks(p)
       /\ Moves(c, IF p # 0 THEN Retry(view[c]) ELSE GivesUp(view[c]))
  /\ UNCHANGED <<launching, newest, alive, sink>>

-----------------------------------------------------------------------------

\* What the rest of the program does to the browser.  The registration is
\* forgotten with the page, and a page that is gone sends no frames.
TargetStep ==
  /\ TargetNext
  /\ conn' \in IF page' = 0 THEN {conn, NoConn} ELSE {conn}
  /\ page # 0 /\ page' = 0 => conn' = NoConn
  /\ view' = view
  /\ sink' = [l \in Pages |-> IF alive'[l] THEN sink[l] ELSE NoConn]

ViewStep(c) ==
  \/ Connect(c) \/ PageFound(c) \/ Restart(c) \/ IceFails(c) \/ Disconnect(c)
  \/ Recover(c) \/ Recovered(c)
  \/ \E k \in Tasks : \/ Attach(c, k) \/ Attached(c, k) \/ AttachFails(c, k)
                      \/ Stop(c, k) \/ Stopped(c, k)

ViewersNext == TargetStep \/ \E c \in Conns : ViewStep(c)

ViewersSpec == ViewersInit /\ [][ViewersNext]_viewersVars

-----------------------------------------------------------------------------

(* A viewer that leaves stops its own stream only (BrowserStreamConnection   *)
(* .stop): whoever registered in the meantime, or was registered for another *)
(* page of a newer browser, keeps receiving frames.  The exception is a      *)
(* viewer with a restart pending: ensure_screencast_active has written the   *)
(* page to come into _page, before it holds the lock.                        *)
EndsStop(c) ==
  /\ \E k \in Tasks : view[c][k] = "stopping" /\ view'[c][k] # "stopping"
  /\ view[c].helper # "starting"
CloseStopsOnlyOwnStream ==
  [][\A c \in Conns : EndsStop(c) =>
       \A l \in Pages : sink'[l] # sink[l] => sink[l] = c]_viewersVars

(* What the code does not give: a browser that is alive is only ever         *)
(* forgotten by close(), by a failed or new launch, or by its own events.    *)
(* A viewer whose old page is gone makes the manager forget the newer one.   *)
ViewerSparesBrowser ==
  [][\A c \in Conns, k \in Tasks : AttachFails(c, k) /\ page # PageOf(c, k)
                               => page' = page]_viewersVars

(* Nor this: while nobody starts or stops a screencast, the page of the      *)
(* registered viewer sends its frames to that viewer.  A second viewer whose *)
(* start fails has stopped the stream of the first.                          *)
RegisteredIsServed ==
  LockFree /\ page # 0 /\ conn # NoConn
    /\ view[conn].track /\ view[conn].page = page /\ view[conn].helper = "off"
  => sink[page] = conn \/ ~alive[page]
=============================================================================
