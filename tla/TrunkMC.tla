--------------------------------- MODULE TrunkMC ---------------------------------
(* An instance's Cores for TLC: two versions, of which the second reads and *)
(* migrates what the first wrote.                                           *)
EXTENDS Trunk

ReadsEarlier    == <<{1}, {1, 2}>>
MigratesEarlier == <<{}, {1}>>
=================================================================================
