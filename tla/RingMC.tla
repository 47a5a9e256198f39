--------------------------------- MODULE RingMC ---------------------------------
(* A ring of two slots, lapped more than once by a producer of five frames. *)
EXTENDS Ring

Words2 == {"clock", "payload"}
================================================================================
