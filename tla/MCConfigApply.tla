---------------------------- MODULE MCConfigApply ----------------------------
(* ConfigApply for model checking: two values per section, and whole-file   *)
(* writes that change every section or all but the listener plan.           *)
EXTENDS ConfigApply

Documents == {[s \in Section |-> 1],
              [s \in Section |-> IF s = "plan" THEN 0 ELSE 1]}
=============================================================================
