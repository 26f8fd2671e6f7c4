-------------------------- MODULE MCPartnerDispatch --------------------------
(* Small instances of PartnerDispatch. *)
EXTENDS PartnerDispatch

CONSTANTS d1, d2, c1, c2
==============================================================================
