----------------------------- MODULE MCComposer -----------------------------
(* An instance of Composer for TLC.                                        *)
EXTENDS Composer, TLC

CONSTANTS r1, r2
=============================================================================
