---- MODULE MCChannelOps ----
(* Small instances of ChannelOps for TLC.                                  *)
EXTENDS ChannelOps

CONSTANTS k1, k2
====
