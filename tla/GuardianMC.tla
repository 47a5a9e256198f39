-------------------------------- MODULE GuardianMC --------------------------------
(* Guardian alone, for the run that starts from an ephemeral record.         *)
EXTENDS Guardian
=================================================================================
