--------------------------- MODULE MCRealtimeHub ---------------------------
(* RealtimeHub for TLC: who owns the connections, holds and wants what. *)
EXTENDS RealtimeHub

CONSTANTS c1, c2, b1, b2

OneOwner == [c \in Conns |-> b1]
TwoOwners == [c \in Conns |-> IF c = c1 THEN b2 ELSE b1]
\* b1 is an agent's dashboard, b2 a visitor's widget.
Mixed == [b \in Browsers |-> IF b = b1 THEN "dashboard" ELSE "widget"]
Widgets == [b \in Browsers |-> "widget"]
WantAll == [b \in Browsers |-> 1..MaxHead]
\* The visitor's conversation is quiet.
FirstWantsAll == [b \in Browsers |-> IF b = b1 THEN 1..MaxHead ELSE {}]
HoldNothing == [b \in Browsers |-> 0]
FirstHoldsOne == [b \in Browsers |-> IF b = b1 THEN 1 ELSE 0]
=============================================================================
