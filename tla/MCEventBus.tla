----------------------------- MODULE MCEventBus -----------------------------
(* Instances of EventBus: a history that is truncated several times over.  *)
EXTENDS EventBus, TLC
CONSTANTS s1, s2

Deltas == {"delta", "new_messages"}
=============================================================================
