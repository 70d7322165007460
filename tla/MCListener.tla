------------------------------ MODULE MCListener ------------------------------
(***************************************************************************)
(* The listener by itself, for TLC.                                        *)
(***************************************************************************)
EXTENDS Listener

CONSTANTS s1, s2

MCSenders == {s1, s2}
=============================================================================
