------------------------------- MODULE MCRefunds -------------------------------
(* Small instances of Refunds for TLC.                                     *)
EXTENDS Refunds

CONSTANTS r1, r2, c1, c2, reason, none
=============================================================================
