------------------------- MODULE MCCloudflareMachine -------------------------
(* A small instance of CloudflareMachine for TLC.                          *)
EXTENDS CloudflareMachine

CONSTANTS g1, g2, g3
=============================================================================
