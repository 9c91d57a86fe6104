-------------------------------- MODULE MCArena --------------------------------
(* An instance of Arena: size_t of four bits, an int of two bytes. *)
EXTENDS Arena

MCFileCtx == [len |-> 2, align |-> 2]
===============================================================================
