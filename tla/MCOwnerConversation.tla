------------------------- MODULE MCOwnerConversation -------------------------
(* Small instances of OwnerConversation for TLC.                           *)
EXTENDS OwnerConversation

CONSTANTS s1, s2, p1, m1, m2, m3, c1, c2

MCOrder == [s \in Shortages |-> s]
Say(words) == [word : words, ref : {None}]
MCTexts == Say({"menu", "resume", "approve", "1", "2", "4", "5", "6"})
             \cup [word : {"approve"}, ref : {s1}]
=============================================================================
