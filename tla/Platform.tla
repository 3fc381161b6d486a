------------------------------ MODULE Platform ------------------------------
(***************************************************************************)
(* The components around the urgent orders, side by side in one server:    *)
(* planned orders, lead credits, creation of urgent orders, files, alerts, *)
(* sign-in. Their tables are disjoint, so a step of the platform is a step *)
(* of one of them that leaves the others alone.                            *)
(***************************************************************************)
EXTENDS PlannedOrders, LeadCredits, OrderCreation, StoredFiles, SecurityAlerts, SignIn

platformVars == <<plannedVars, creditVars, creationVars, fileVars, alertVars, signInVars>>

PlatformInit ==
    PlannedInit /\ CreditInit /\ CreationInit /\ FilesInit /\ AlertsInit /\ SignInInit

PlannedRuns ==
    PlannedNext /\ UNCHANGED <<creditVars, creationVars, fileVars, alertVars, signInVars>>
CreditRuns ==
    CreditNext /\ UNCHANGED <<plannedVars, creationVars, fileVars, alertVars, signInVars>>
CreationRuns ==
    CreationNext /\ UNCHANGED <<plannedVars, creditVars, fileVars, alertVars, signInVars>>
FilesRun ==
    FilesNext /\ UNCHANGED <<plannedVars, creditVars, creationVars, alertVars, signInVars>>
AlertsRun ==
    AlertsNext /\ UNCHANGED <<plannedVars, creditVars, creationVars, fileVars, signInVars>>
SignInRuns ==
    SignInNext /\ UNCHANGED <<plannedVars, creditVars, creationVars, fileVars, alertVars>>

PlatformNext ==
    PlannedRuns \/ CreditRuns \/ CreationRuns \/ FilesRun \/ AlertsRun \/ SignInRuns

PlatformSpec == PlatformInit /\ [][PlatformNext]_platformVars

(* Every component keeps the types of its state, next to all the others.   *)
PlatformTypeOK ==
    PlannedTypeOK /\ CreditTypeOK /\ CreationTypeOK /\ FilesTypeOK /\ AlertsTypeOK /\ SignInTypeOK
=============================================================================
