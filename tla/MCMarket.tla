------------------------------- MODULE MCMarket -------------------------------
(* Small instances of Market for TLC. *)
EXTENDS Market

CONSTANTS pass, watch, request, g1
===============================================================================
