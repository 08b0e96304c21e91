----------------------------- MODULE MCMonitor -----------------------------
(* A pool of three nodes, so that a list can have a first, an inner and a  *)
(* last one; one expression that changes.                                  *)
EXTENDS Monitor
=============================================================================
