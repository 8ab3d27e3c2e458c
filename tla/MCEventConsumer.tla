-------------------------- MODULE MCEventConsumer --------------------------
(* EventConsumer for TLC: workspaces, poison events and archives. *)
EXTENDS EventConsumer

OneWorkspace == <<"w1">>
TwoWorkspaces == <<"w1", "w2">>
NoPoison == [w \in WS |-> {}]
FirstPoisoned == [w \in WS |-> IF w = "w1" THEN {1} ELSE {}]
NoArchive == {}
TwoEvents == 1..2
=============================================================================
