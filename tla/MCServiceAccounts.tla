-------------------------- MODULE MCServiceAccounts --------------------------
(* Small instances of ServiceAccountController for TLC. *)
EXTENDS ServiceAccountController

CONSTANTS a1, a2

TwoAccounts == <<a1, a2>>
=============================================================================
