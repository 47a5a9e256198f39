---------------------------- MODULE ParticipationMC ----------------------------
(* The instance of Participation that TLC checks: one copy of the plugin.  *)
EXTENDS Participation

CONSTANTS a
================================================================================
