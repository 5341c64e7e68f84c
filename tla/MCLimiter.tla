----------------------------- MODULE MCLimiter -----------------------------
(* A small instance of Limiter for TLC: the costs and capacities keep the  *)
(* order of the code's, a group's token being dearer than a private chat's,*)
(* and the map holds fewer chats than there are.                           *)
EXTENDS Limiter

CONSTANTS private, group

MCCost == [b \in Buckets |-> IF b = group THEN 2 ELSE 1]
MCCap  == [b \in Buckets |-> IF b \in {group, Global} THEN 2 ELSE 1]
=============================================================================
