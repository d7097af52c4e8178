---------------------------- MODULE MCApplication ----------------------------
(* An instance of Application for TLC, small and with failures to sync. *)
EXTENDS Application

CONSTANT a1

MCSmallBodies == {<<>>, <<<<a1, 0>>>>}
=============================================================================
