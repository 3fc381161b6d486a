----------------------------- MODULE MCPlatform -----------------------------
(***************************************************************************)
(* The platform for TLC. Every property is about one component, so that a  *)
(* behaviour runs one of them, chosen at the start, and leaves the others  *)
(* in their initial states.                                                *)
(***************************************************************************)
EXTENDS Platform, TLC

CONSTANTS x1, x2, x3, h1, h2, y1, y2

VARIABLE focus    \* the component that runs

MCParts == {"planned", "bidding", "credits", "creation", "older client",
            "files", "alerts", "signin"}

\* Bound: beside a creation without a key the client submits one with a key.
MCOneKey == Cardinality((shown' \cup forgotten' \cup {marker'}) \ {NoIntent}) <= 1

MCInit ==
    /\ focus \in MCParts
    /\ PlatformInit
    /\ focus # "files" => kind = "UPLOAD"
    /\ IF focus = "older client" THEN requests = Unkeyed ELSE requests = {}

\* Bound: two documents of one application, but one photo or one piece of evidence.
MCOneFile == kind = "DOCUMENT" \/ Cardinality({f \in Files : Status(f)' # "NONE"}) <= 1

\* Bound: three masters bid, or two bid and are selected.
MCBidding == IF focus = "bidding" THEN planned'.turn = 0
             ELSE \A h \in PlannedHandlers : plannedCall'[h].who # x3

MCPlanned == focus \in {"planned", "bidding"} /\ PlannedRuns /\ MCBidding /\ UNCHANGED focus
MCCredits == focus = "credits" /\ CreditRuns /\ UNCHANGED focus
MCCreation ==
    /\ focus \in {"creation", "older client"} /\ CreationRuns
    /\ focus = "older client" => MCOneKey
    /\ UNCHANGED focus
MCFiles == focus = "files" /\ FilesRun /\ MCOneFile /\ UNCHANGED focus
MCAlerts == focus = "alerts" /\ AlertsRun /\ UNCHANGED focus
MCSignIn == focus = "signin" /\ SignInRuns /\ UNCHANGED focus

MCNext == MCPlanned \/ MCCredits \/ MCCreation \/ MCFiles \/ MCAlerts \/ MCSignIn

MCVars == <<focus, platformVars>>
MCSpec == MCInit /\ [][MCNext]_MCVars

\* The components use the same model values: h1 and h2 are what runs at once, x1
\* and x2 what it is about. No constant tells one of a pair from the other.
MCSymmetry == Permutations({x1, x2}) \cup Permutations({h1, h2})
=============================================================================
