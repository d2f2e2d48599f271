--------------------------- MODULE MCStreamClient ---------------------------
(* Instances of StreamClient: one run, two connections at a time.          *)
EXTENDS StreamClient, TLC
CONSTANTS c1, c2

Connections == Permutations({c1, c2})
=============================================================================
