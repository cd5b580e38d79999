---------------------------- MODULE MCTokenStore ----------------------------
(***************************************************************************)
(* TokenStore with two concurrent calls.                                   *)
(***************************************************************************)
EXTENDS TokenStore

CONSTANTS c1, c2

TwoCalls == {c1, c2}
IdeOnly == {"ide"}
=============================================================================
