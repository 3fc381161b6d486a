------------------------- MODULE MCPlatformProgress -------------------------
(***************************************************************************)
(* What must eventually happen around the urgent orders, with the fairness *)
(* each component states. As in MCPlatform, which this extends, a behaviour *)
(* runs one component; the bounds are small and there is no symmetry.      *)
(***************************************************************************)
EXTENDS MCPlatform

MCProgressInit == MCInit /\ focus \in {"planned", "files", "alerts"}

\* A part that does not run takes no step that its fairness could ask for.
MCProgress ==
    /\ MCProgressInit /\ [][MCNext]_MCVars
    /\ focus = "planned" => PlannedFairness
    /\ focus = "files" => FilesFairness
    /\ focus = "alerts" => AlertsFairness
=============================================================================
