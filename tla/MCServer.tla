------------------------------ MODULE MCServer ------------------------------
(* Server for TLC.                                                         *)
EXTENDS Server

CONSTANTS a1, a2, p1
=============================================================================
