-------------------------------- MODULE MCServer --------------------------------
(* Instances of Server: three clients, one more than there are slots.      *)
EXTENDS Server

CONSTANTS c1, c2, c3
=============================================================================
