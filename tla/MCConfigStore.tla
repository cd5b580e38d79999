--------------------------- MODULE MCConfigStore ---------------------------
(* One administrator who makes one call after the other. *)
EXTENDS ConfigStore, TLC
CONSTANTS c1

OneCaller == {c1}
=============================================================================
