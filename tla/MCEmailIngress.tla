---------------------------- MODULE MCEmailIngress ----------------------------
(* Small instances of EmailIngress for TLC.                                *)
EXTENDS EmailIngress

CONSTANTS t1, t2, r1, r2, tenant, other

Good == [attached |-> TRUE, trusted |-> TRUE, to |-> {tenant}, safe |-> TRUE]
\* One to ingest, one that names two tenants, one without an attachment.
MCLetter ==
  [m \in Mails |-> CASE m = 1 -> Good
                     [] m = 2 -> [Good EXCEPT !.to = {tenant, other}]
                     [] OTHER -> [Good EXCEPT !.attached = FALSE]]
=============================================================================
