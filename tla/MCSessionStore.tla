---- MODULE MCSessionStore ----
(* SessionStore for TLC. *)
EXTENDS SessionStore, TLC

CONSTANTS s1, s2, s3

(* s3 is the session of the old single file, the others are alike *)
Symmetry == Permutations({s1, s2})
====
