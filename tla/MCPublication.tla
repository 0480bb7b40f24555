---- MODULE MCPublication ----
(* Small instances of Publication for TLC.                                 *)
EXTENDS Publication

CONSTANTS c1, c2
====
