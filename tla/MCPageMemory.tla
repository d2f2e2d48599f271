---------------------------- MODULE MCPageMemory ----------------------------
(* Instances of PageMemory: two texts, one a part of the other, asked for  *)
(* in two scopes.                                                          *)
EXTENDS PageMemory, TLC
CONSTANTS r1, r2, u1, u2

Query(s, t) == [scope |-> s, role |-> "", text |-> t]
TwoQueries == {Query("visible", "save"), Query("page", "save as")}
Parts == {<<"save", "save as">>}

Profile(a, b) == r1 :> a @@ r2 :> b
\* One run finds or reads, and it or the other one acts and switches tabs; or
\* both find, so that the cap on what is remembered is reached.
Shared == {Profile({"find", "switch"}, {"act"}), Profile({"find", "act"}, {"switch"}),
           Profile({"find"}, {"find"}), Profile({"read", "form"}, {"act"}),
           Profile({"read", "act"}, {"switch"})}

FindsAlone == {Profile({"find", "act"}, {})}
=============================================================================
