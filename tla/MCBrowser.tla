----------------------------- MODULE MCBrowser -----------------------------
(* BrowserManager and BrowserStream for TLC.  BrowserStream is specified    *)
(* over the abstract BrowserTarget that BrowserManager is shown to          *)
(* implement, so the two are explored apart, in one run: a behaviour is of  *)
(* one of them, and the other is at rest.                                   *)
EXTENDS BrowserManager, BrowserStream, TLC

CONSTANTS r1, r2, c1, c2, v1, v2

Symmetry == Permutations({r1, r2}) \cup Permutations({c1, c2})

VARIABLE part   \* the component this behaviour is of

PartsInit == part \in {"manager", "viewers"} /\ ManagerInit /\ ViewersInit

PartsNext ==
  \/ part = "manager" /\ ManagerNext /\ UNCHANGED <<part, viewersVars>>
  \/ part = "viewers" /\ ViewersNext /\ UNCHANGED <<part, managerVars>>

PartsSpec == PartsInit /\ [][PartsNext]_<<part, managerVars, viewersVars>>
=============================================================================
