--------------------------- MODULE PlatformProofs ---------------------------
(* What is proved of each component holds of the platform, in which the    *)
(* components run side by side, and of the platform TLC runs.              *)
EXTENDS MCPlatform, PlannedProofs, CreationProofs, StoredFilesProofs, SecurityProofs

(* The platform is each of its components for whoever looks at it alone:   *)
(* what the others do leaves its tables untouched.                         *)
THEOREM PlatformRunsComponents ==
    PlatformSpec => /\ PlannedSpec /\ CreditSpec /\ CreationSpec
                    /\ FilesSpec /\ AlertsSpec /\ SignInSpec
<1>1. PlatformInit => /\ PlannedInit /\ CreditInit /\ CreationInit
                      /\ FilesInit /\ AlertsInit /\ SignInInit
  BY DEF PlatformInit
<1>2. ASSUME [PlatformNext]_platformVars
      PROVE  /\ [PlannedNext]_plannedVars /\ [CreditNext]_creditVars
             /\ [CreationNext]_creationVars /\ [FilesNext]_fileVars
             /\ [AlertsNext]_alertVars /\ [SignInNext]_signInVars
  <2>1. CASE PlannedRuns
    BY <2>1 DEF PlannedRuns
  <2>2. CASE CreditRuns
    BY <2>2 DEF CreditRuns
  <2>3. CASE CreationRuns
    BY <2>3 DEF CreationRuns
  <2>4. CASE FilesRun
    BY <2>4 DEF FilesRun
  <2>5. CASE AlertsRun
    BY <2>5 DEF AlertsRun
  <2>6. CASE SignInRuns
    BY <2>6 DEF SignInRuns
  <2>7. CASE UNCHANGED platformVars
    BY <2>7 DEF platformVars
  <2> QED
    BY <1>2, <2>1, <2>2, <2>3, <2>4, <2>5, <2>6, <2>7 DEF PlatformNext
<1> QED
  BY <1>1, <1>2, PTL
     DEF PlatformSpec, PlannedSpec, CreditSpec, CreationSpec, FilesSpec, AlertsSpec, SignInSpec

(* The behaviours that TLC checks are behaviours of the platform.          *)
THEOREM FocusIsPlatform == MCSpec => PlatformSpec
<1>1. MCInit => PlatformInit
  BY DEF MCInit
<1>2. [MCNext]_MCVars => [PlatformNext]_platformVars
  BY DEF MCNext, MCPlanned, MCCredits, MCCreation, MCFiles, MCAlerts, MCSignIn, MCVars, PlatformNext
<1> QED
  BY <1>1, <1>2, PTL DEF MCSpec, PlatformSpec

(* Every component keeps its types while the others run beside it.         *)
THEOREM PlatformTypeCorrect == PlatformSpec => []PlatformTypeOK
<1>1. (/\ PlannedTypeOK /\ CreditTypeOK /\ CreationTypeOK
       /\ FilesTypeOK /\ AlertsTypeOK /\ SignInTypeOK) => PlatformTypeOK
  BY DEF PlatformTypeOK
<1> QED
  BY <1>1, PlatformRunsComponents, PlannedTypeCorrect, CreditTypeCorrect, CreationTypeCorrect,
     FilesTypeCorrect, AlertsTypeCorrect, SignInTypeCorrect, PTL
=============================================================================
