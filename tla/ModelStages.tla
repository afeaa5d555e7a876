----------------------------- MODULE ModelStages -----------------------------
(***************************************************************************)
(* What the registry of ML models promises (ml_lab/model_registry.py):     *)
(* each version of a model is in a stage, registering, promoting and       *)
(* archiving a version each happen at once or not at all, and a promotion  *)
(* replaces the version in production.                                     *)
(***************************************************************************)

CONSTANT
    Versions        \* versions of one model_id

VARIABLE stages     \* meta_model_registry.stage by version

Stage == {"none", "staging", "production", "archived"}

\* The table after the demotion of what is in production, and after the
\* promotion of v.
Demoted(table) ==
    [u \in Versions |-> IF table[u] = "production" THEN "archived" ELSE table[u]]

Promoted(table, v) == [Demoted(table) EXCEPT ![v] = "production"]

StagesInit == stages = [v \in Versions |-> "none"]

\* Only staging models can be re-registered.
RegisterVersion(v) ==
    /\ stages[v] \in {"none", "staging"}
    /\ stages' = [stages EXCEPT ![v] = "staging"]

PromoteVersion(v) ==
    /\ stages[v] # "none"
    /\ stages' = Promoted(stages, v)

ArchiveVersion(v) ==
    /\ stages[v] # "none"
    /\ stages' = [stages EXCEPT ![v] = "archived"]

\* What a call of the given kind does.
StagesStep(kind, v) ==
    \/ kind = "register" /\ RegisterVersion(v)
    \/ kind = "promote" /\ PromoteVersion(v)
    \/ kind = "archive" /\ ArchiveVersion(v)

StagesNext == \E kind \in {"register", "promote", "archive"}, v \in Versions : StagesStep(kind, v)

StagesSpec == StagesInit /\ [][StagesNext]_stages
=============================================================================
