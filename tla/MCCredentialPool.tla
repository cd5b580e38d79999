-------------------------- MODULE MCCredentialPool --------------------------
(***************************************************************************)
(* Two credentials under arbitrary callers, for TLC.                       *)
(***************************************************************************)
EXTENDS CredentialPool
=============================================================================
