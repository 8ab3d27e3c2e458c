---------------------------- MODULE CommittedLog ----------------------------
(***************************************************************************)
(* What the workspace event log promises its readers (WebSocket resume,    *)
(* webhooks, automation, SLA, notifications): per workspace, one growing   *)
(* sequence of committed events in which the event at position n carries   *)
(* sequence number n.  Transactions, locks and the counter row that keep   *)
(* the promise are in EventLog.tla, which implements this specification.   *)
(***************************************************************************)
EXTENDS Naturals, Sequences

CONSTANTS
    Workspaces,     \* tenants; every sequence is local to one of them
    Types           \* event types ("message.created", ...)

VARIABLE published  \* published[w]: the committed events of w, in commit order

Record == [seq: Nat, type: Types]

Init == published = [w \in Workspaces |-> <<>>]

\* A transaction commits: its events become visible together, after every
\* earlier one, and each takes its position as its sequence.
Publish(w) ==
    /\ published' = [published EXCEPT ![w] = published'[w]]
    /\ published'[w] \in Seq(Record)
    /\ Len(published[w]) <= Len(published'[w])
    /\ \A n \in 1..Len(published'[w]) :
           IF n <= Len(published[w]) THEN published'[w][n] = published[w][n]
           ELSE published'[w][n].seq = n

Next == \E w \in Workspaces : Publish(w)

Spec == Init /\ [][Next]_published
=============================================================================
