---------------------------- MODULE MCConversation ----------------------------
EXTENDS Idempotency, TLC

Post(c, author, form, k) == [kind |-> "post", conv |-> c, author |-> author, form |-> form, key |-> k]

\* An agent's reply, a note sent by mistake under the same key, a customer's
\* reply to another conversation, and a customer who starts one.
MCRequests == {
  Post(1, "agent", "reply", "k1"), Post(1, "agent", "note", "k1"),
  Post(2, "customer", "reply", "k2"),
  [kind |-> "start", conv |-> 0, author |-> "customer", form |-> "reply", key |-> "k3", customer |-> 11]}

MCOwners == 1 :> 11 @@ 2 :> 11 @@ 21 :> 12

\* At the threads; at the customers; customers who write meanwhile; and long
\* transactions.
MCWorkloads == {
  [kinds |-> {"post", "start", "state", "snooze", "merge", "bulk"}, ops |-> 4],
  [kinds |-> {"setCustomer", "mergeCustomers", "reverse"}, ops |-> 4],
  [kinds |-> {"start", "mergeCustomers", "reverse"}, ops |-> 3],
  [kinds |-> {"merge", "bulk", "label", "mergeCustomers"}, ops |-> 3]}

SessionSymmetry == Permutations(Sessions)
===============================================================================
