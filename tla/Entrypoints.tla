----------------------------- MODULE Entrypoints -----------------------------
(***************************************************************************)
(* Every way the program is started: by a runner's job, with its identity   *)
(* (AppIdentity, over Startup), or in a person's terminal, where the wizard *)
(* and the settings commands (Settings) and the MCP server's reviews        *)
(* (LocalReview) share one settings file. Where it runs is fixed by the     *)
(* setup; the settings and the credentials are resolved by the same         *)
(* operators everywhere.                                                    *)
(***************************************************************************)
EXTENDS AppIdentity, LocalReview

allVars == <<ciVars, localVars>>

EntryInit ==
  /\ setup \in Setups /\ env = {}
  /\ IdentityInit /\ SettingsInit /\ LocalInit

(* A job that is over, or a terminal nobody uses any more.                  *)
Idling == AllDone /\ UNCHANGED allVars

EntryNext ==
  \/ CISteps /\ UNCHANGED localVars
  \/ SettingsSteps /\ UNCHANGED <<box, files, identityVars, localVars>>
  \/ LocalSteps /\ UNCHANGED <<box, files, identityVars>>
  \/ Idling

Spec == EntryInit /\ [][EntryNext]_allVars
=============================================================================
