---------------------------- MODULE MCOrderIngress ----------------------------
(* Small instances of OrderIngress for TLC.                                  *)
EXTENDS OrderIngress

CONSTANTS w1, c1

\* Authorised and paid in one second, changed half an hour later and still paid.
MCUpdates == <<[time |-> 2, financial |-> "authorized"], [time |-> 2, financial |-> "paid"],
               [time |-> 3, financial |-> "paid"]>>

\* Zones an hour ahead of UTC and an hour behind, and one whose clocks go back.
MCZones == {<<2, 2, 2>>, <<-2, -2, -2>>, <<2, 2, 0>>}
=============================================================================
