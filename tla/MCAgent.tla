------------------------------- MODULE MCAgent -------------------------------
(* Two pipelines, one after or beside the other; the first fails up to twice. *)
EXTENDS Agent

FirstFails == <<2, 0>>
=============================================================================
