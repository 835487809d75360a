--------------------------- MODULE MCLocalGateway ---------------------------
(* Instances of LocalGateway for TLC. *)
EXTENDS LocalGateway

CONSTANTS beat, tag
=============================================================================
