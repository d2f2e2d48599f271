--------------------------- MODULE BrowserTarget ---------------------------
(***************************************************************************)
(* The browser as its viewers see it: a page that launches replace and     *)
(* that may be forgotten at any moment, by close(), by the events of the   *)
(* browser, by a lookup that finds it dead.  What is forgotten need not be *)
(* closed, and what is closed need not be what is remembered.              *)
(* BrowserManager implements this specification.                           *)
(***************************************************************************)
EXTENDS Naturals

CONSTANT MaxPages  \* bound: launches that start a driver

VARIABLES page,       \* the first page of the newest launch, or 0
          launching,  \* _launching: page() is None until the launch ends
          newest,     \* the newest launch
          alive       \* [Pages -> BOOLEAN]: its first page is alive

targetVars == <<page, launching, newest, alive>>
Pages == 1..MaxPages

TargetTypeOK == /\ page \in 0..MaxPages
                /\ launching \in BOOLEAN
                /\ newest \in 0..MaxPages
                /\ alive \in [Pages -> BOOLEAN]

TargetInit == /\ page = 0 /\ launching = FALSE /\ newest = 0
              /\ alive = [l \in Pages |-> FALSE]

\* launch() starts from nothing: what it finds dead is dropped.
LaunchStarts ==
  /\ ~launching /\ newest < MaxPages
  /\ launching' = TRUE /\ newest' = newest + 1 /\ page' = 0
  /\ UNCHANGED alive

\* It succeeds, or fails with the browser left running or not.
LaunchEnds ==
  /\ launching /\ launching' = FALSE
  /\ page' \in {0, newest}
  /\ \E o \in BOOLEAN : alive' = [alive EXCEPT ![newest] = o]
  /\ UNCHANGED newest

Forget == page' = 0 /\ UNCHANGED <<launching, newest, alive>>

Vanish(l) ==
  /\ alive' = [alive EXCEPT ![l] = FALSE]
  /\ page' \in {0, page} \ {l}
  /\ UNCHANGED <<launching, newest>>

TargetNext == \/ LaunchStarts \/ LaunchEnds \/ Forget
              \/ \E l \in Pages : Vanish(l)

TargetSpec == TargetInit /\ [][TargetNext]_targetVars
=============================================================================
