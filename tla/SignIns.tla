------------------------------ MODULE SignIns ------------------------------
(***************************************************************************)
(* The ways in of a person side by side: codes by mail (Accounts) and      *)
(* accounts at a provider (ExternalSignIn).  Both end in core.sessions.    *)
(***************************************************************************)
EXTENDS Accounts, ExternalSignIn

(* Sign-ins stand on what they were earned with, by code and by provider.  *)
SignInsStand == SessionsStand /\ SignInsHold
=============================================================================
