---------------------------- MODULE MCDashboard ----------------------------
(***************************************************************************)
(* A small instance of Dashboard for TLC: each of the ping-pong widgets by *)
(* itself, and one of them beside the batch widget.                        *)
(***************************************************************************)
EXTENDS Dashboard

MCBeside == {"raw"}
=============================================================================
