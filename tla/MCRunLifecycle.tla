--------------------------- MODULE MCRunLifecycle ---------------------------
(* Instances of RunLifecycle: which session each run id is used in.        *)
EXTENDS RunLifecycle, TLC
CONSTANTS r1, r2, s1, s2

OneSession  == [r \in Runs |-> s1]
=============================================================================
