------------------------------- MODULE Customer -------------------------------
(***************************************************************************)
(* Whose the cases are: customers, their conversations and tickets, and    *)
(* the merge of two customers, which can be undone for 30 days             *)
(* (internal/customer/merge.go, ticket.Service.SetCustomer).               *)
(*                                                                         *)
(* These are the effects at a transaction's commit; the transactions, with *)
(* their locks and what they read before, are in Conversation.  A merge    *)
(* moves the cases that it found with the loser, by their ids, and keeps   *)
(* that list in identity_merge_history; its reversal moves the same list   *)
(* back.  `lists` are the lists other open transactions have at the time.  *)
(***************************************************************************)
EXTENDS Integers, Sequences, FiniteSets

CONSTANTS
  Customers,  \* customer ids, naturals: compared as Merge compares them
  Owners,     \* the customer each case there is at the start belongs to
  Cases,      \* conversations and tickets
  None

\* A customer and "none" are not the same; the cases there are at the start belong
\* to customers.
ASSUME CustomerAssumption ==
  /\ IsFiniteSet(Cases) /\ None \notin Customers
  /\ \A c \in DOMAIN Owners : Owners[c] \in Customers

VARIABLES
  customers,  \* the customers rows there are
  owner,      \* customer_id of each case, or None
  merges,     \* identity_merge_history: [winner, loser, cases, reversed]
  given,      \* history: the customer, or none, each case was last given to by a person
  entangled   \* history: cases that changed hands while another list had them

crm == <<customers, owner, merges, given, entangled>>

CustomerInit ==
  /\ customers = Customers
  /\ owner = [c \in Cases |-> IF c \in DOMAIN Owners THEN Owners[c] ELSE None]
  /\ merges = <<>>
  /\ given = owner
  /\ entangled = {}

\* The lists from which a reversal may still move cases.
Standing(records) == {merges[i].cases : i \in {j \in records : ~merges[j].reversed}}

GiveCase(c, a, lists) ==
  /\ owner' = [owner EXCEPT ![c] = a]
  /\ given' = [given EXCEPT ![c] = a]
  /\ entangled' = entangled \cup ({c} \cap UNION (lists \cup Standing(DOMAIN merges)))
  /\ UNCHANGED <<customers, merges>>

OwnedBy(a) == {c \in Cases : owner[c] = a}

\* The loser's row is deleted; a case that still refers to it loses its customer.
AbsorbCustomer(winner, loser, cases) ==
  /\ customers' = customers \ {loser}
  /\ owner' = [c \in Cases |-> IF c \in cases THEN winner ELSE IF owner[c] = loser THEN None ELSE owner[c]]
  /\ merges' = Append(merges, [winner |-> winner, loser |-> loser, cases |-> cases, reversed |-> FALSE])
  /\ UNCHANGED <<given, entangled>>

\* Mutant: everything the winner has now goes back.
RestoreCustomer_AllOfWinner(i, lists) ==
  LET m == merges[i] IN
  /\ customers' = customers \cup {m.loser}
  /\ owner' = [c \in Cases |-> IF owner[c] = m.winner THEN m.loser ELSE owner[c]]
  /\ merges' = [merges EXCEPT ![i].reversed = TRUE]
  /\ UNCHANGED <<given, entangled>>

\* The list of record i goes back to its loser, whoever has it now.  A record
\* that is reversed a second time, because both had read it before, restores a
\* customer that a later merge may have absorbed.
RestoreCustomer(i, lists) ==
  LET m == merges[i]
      later == {j \in (i + 1)..Len(merges) : ~merges[j].reversed}
  IN
  /\ customers' = customers \cup {m.loser}
  /\ owner' = [c \in Cases |-> IF c \in m.cases THEN m.loser ELSE owner[c]]
  /\ merges' = [merges EXCEPT ![i].reversed = TRUE]
  /\ entangled' = entangled \cup (m.cases \cap UNION (lists \cup Standing(later)))
                            \cup UNION Standing({j \in later : merges[j].loser = m.loser})
  /\ UNCHANGED given

-------------------------------------------------------------------------------
(* Properties                                                                *)

\* The merge that made an end of customer b.
LastMerge(b) ==
  CHOOSE i \in DOMAIN merges :
    merges[i].loser = b /\ \A j \in DOMAIN merges : merges[j].loser = b => j <= i

\* The customer that each one has been merged into.
Follow[a \in Customers] == IF a \in customers THEN a ELSE Follow[merges[LastMerge(a)].winner]

\* A case is with the customer, or none, it was given to, or with the one that customer has
\* been merged into, and comes back when the merge is undone ("ReverseMerge
\* restores the loser record and moves its conversations/tickets back").  It may
\* be with another one if it changed hands under a list: an agent gave it away
\* while a merge had it on its list or an undoable record has; merges of a chain
\* were undone in another order than the reverse of theirs; or a merge was undone
\* twice and its loser merged again in between.
CaseFollowsCustomer ==
  \A c \in Cases \ entangled : owner[c] = IF given[c] = None THEN None ELSE Follow[given[c]]
===============================================================================
