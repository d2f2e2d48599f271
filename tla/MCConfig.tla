------------------------------ MODULE MCConfig ------------------------------
(* Workspaces and ProfileStore for TLC.  The two share nothing (files under *)
(* the home directory, entries of the keyring): a behaviour is of one of    *)
(* them, and the other is at rest, so that one run explores both without    *)
(* multiplying them.  ChunkChars is 4 where the code has 1800.              *)
EXTENDS Workspaces, ProfileStore, TLC

CONSTANTS server, cli, desktop, console, d1, d2, u1, m1

Symmetry == Permutations({desktop, console})

VARIABLE part   \* the component this behaviour is of

PartsInit ==
  /\ part \in {"workspaces", "profiles"} /\ Init /\ ProfileInit
  /\ part = "profiles" => ~legacy.waiting

PartsNext == \/ part = "workspaces" /\ Next /\ UNCHANGED <<part, keyring>>
             \/ part = "profiles" /\ ProfileNext /\ UNCHANGED <<part, vars>>

PartsSpec == PartsInit /\ [][PartsNext]_<<part, vars, keyring>>
=============================================================================
